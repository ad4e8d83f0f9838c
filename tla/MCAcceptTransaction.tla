------------------------- MODULE MCAcceptTransaction -------------------------
EXTENDS AcceptTransaction
=============================================================================
