-------------------------- MODULE MCHbmWritePort --------------------------
EXTENDS HbmWritePort
=============================================================================
