\* Two actions, asked for steps in the past and in the future, in a room that
\* sleeps after four idle steps.  The cap on the clock stops the behaviour.
CONSTANTS
  ClientIds = {1, 2}
  Types = {shot}
  move = move
  shot = shot
  Shot = shot
  Triggers = {0, 4}
  NoPacket = NoPacket
  Window = 1
  Idle = 4
  MaxHealt = 1
  Damage = 2
  ShotCost = 4
  MaxRemain = 4
  MaxWall = 9
  MaxLag = 2
  LastReceive = 5
  MaxLate = 1
SPECIFICATION FairSpec
CHECK_DEADLOCK FALSE
INVARIANTS AtMostOnce AckedRuns FireRate InStep
PROPERTIES AckedComesTrue
