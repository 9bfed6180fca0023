\* As Registration.cfg, for the connections that a signal destroys.
CONSTANTS
  c1 = c1
  c2 = c2
  c3 = c3
  Conns = {c1, c2, c3}
  NoConn = NoConn
  MaxStart = 3
SPECIFICATION Spec
CHECK_DEADLOCK FALSE
INVARIANT CleanStop
