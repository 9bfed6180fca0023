---------------------------- MODULE MCTankInputs ----------------------------
EXTENDS TankInputs
CONSTANTS move, shot
=============================================================================
