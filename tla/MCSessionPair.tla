--------------------------- MODULE MCSessionPair ---------------------------
EXTENDS SessionPair
============================================================================
