------------------------------ MODULE MCRooms -------------------------------
EXTENDS Rooms
CONSTANTS u1, u2, l1, l2
=============================================================================
