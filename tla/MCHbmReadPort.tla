--------------------------- MODULE MCHbmReadPort ---------------------------
EXTENDS HbmReadPort
=============================================================================
