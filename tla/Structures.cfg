\* Five values of which four are in the tree at once, requests of three symbols
\* beside their fixed text, a ring of four cells of which two are used, all maps
\* of four nodes, a battle of up to three tanks and two missiles where the second
\* hit kills, packets of two structs for rooms of up to three objects, two threads
\* with one account and a timer of one tick, and a patrol of sixty steps.
\* Each of them may come to an end, which stops the behaviour.
CONSTANTS
  Values = {1, 2, 3, 4, 5}
  MaxNodes = 4
  MaxText = 3
  MaxDigits = 2
  Size = 4
  Messages = 5
  Deaths = 2
  N = 4
  Lengths = {1, 3}
  Near = 3
  Far = 99
  Locations <- Points
  Users = {u1, u2, u3}
  MaxHealt = 1
  Damage = 1
  Life = 0
  MaxId = 4
  MaxTime = 3
  Boards <- Games
  Batch = 2
  MaxEvents = 3
  Threads = {io, db}
  Coins = {0, 50, 150, 250}
  Wait = 1
  Epoch = 1001
  MaxClock = 4
  Starts = {0, 2, 4, 6}
  Courses <- Lines
  MaxSpeed = 8
  Reach2 = 200
  Edge = 90
  MaxSteps = 60
SPECIFICATION Spec
CHECK_DEADLOCK FALSE
INVARIANTS RanksAgree Balanced Recognises ShortestRoutes OneStrike InTime MapsAgree
  EachAtItsIndex CopiesAreWhole FreeCoins OnCourse
PROPERTIES OthersStay BodyFollows IsFifo
