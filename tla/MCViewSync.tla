----------------------------- MODULE MCViewSync -----------------------------
EXTENDS ViewSync
CONSTANTS o1, o2
=============================================================================
