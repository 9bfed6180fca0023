CONSTANTS
  io = io
  db = db
  m1 = m1
  m2 = m2
  m3 = m3
  NoMsg = NoMsg
  Io = io
  Senders = {io}
  Msgs = {m1, m2, m3}
  OutBoxSize = 2
  MaxTry = 2
  Delay = 1
  MaxWaiting = 1
SPECIFICATION Spec
CHECK_DEADLOCK FALSE
PROPERTY NoUseAfterFree
