------------------------------ MODULE MCAccum ------------------------------
EXTENDS Accum
=============================================================================
