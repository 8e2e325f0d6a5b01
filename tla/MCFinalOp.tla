----------------------------- MODULE MCFinalOp -----------------------------
EXTENDS FinalOp
=============================================================================
