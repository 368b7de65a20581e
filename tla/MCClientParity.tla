--------------------------- MODULE MCClientParity ---------------------------
EXTENDS ClientParity
=============================================================================
