------------------------------- MODULE MCRelin -------------------------------
EXTENDS Relin
=============================================================================
