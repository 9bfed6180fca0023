\* Three connections, a table that gave out up to three ids before the start, and
\* a signal at any time.  All connections may end, which stops the behaviour.
CONSTANTS
  c1 = c1
  c2 = c2
  c3 = c3
  Conns = {c1, c2, c3}
  NoConn = NoConn
  MaxStart = 3
SPECIFICATION FairSpec
CHECK_DEADLOCK FALSE
INVARIANTS OneReply InsertedKept
PROPERTY RequestsEnd
