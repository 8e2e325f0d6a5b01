-------------------------- MODULE MCKernelControl --------------------------
EXTENDS KernelControl
=============================================================================
