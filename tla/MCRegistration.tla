--------------------------- MODULE MCRegistration ---------------------------
EXTENDS Registration
CONSTANTS c1, c2, c3
=============================================================================
