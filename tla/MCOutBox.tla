------------------------------ MODULE MCOutBox ------------------------------
EXTENDS OutBox
CONSTANTS io, db, m1, m2, m3
=============================================================================
