\* Two players, two leagues, three rooms, each idle after more than two
\* steps without an action, and four messages.  The game thread never stops,
\* unless the process does.
CONSTANTS
  u1 = u1
  u2 = u2
  l1 = l1
  l2 = l2
  Users = {u1, u2}
  Ligs = {l1, l2}
  Slack = 2
  Burst = 2
  MaxGames = 3
  MaxMsgs = 4
SPECIFICATION FairSpec
CHECK_DEADLOCK FALSE
INVARIANTS OneRoomPerLig
PROPERTIES NewRoomIsNew RoomsClose
