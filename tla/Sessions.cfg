\* Two devices of one user, one TCP connection, two cookies and two renames.
\* The devices may be done and the connection closed, which stops the
\* behaviour.
CONSTANTS
  u1 = u1
  d1 = d1
  d2 = d2
  c1 = c1
  c2 = c2
  None = None
  Users = {u1}
  Devices = {d1, d2}
  Owner <- OneUser
  Conns = {c1}
  NameLimit = 2
  Wants <- TwoWants
  MaxCookie = 2
  MaxWire = 1
  MaxReplies = 2
SPECIFICATION Spec
CHECK_DEADLOCK FALSE
INVARIANTS TcpAlive DisplacedLogsIn NameSaved 
PROPERTY EndpointMoves
