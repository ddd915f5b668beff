SPECIFICATION PartSpec
CONSTANTS
  a1 = a1
  a2 = a2
  Account = {a1, a2}
  Stream = {s1}
  AccountOf <- FirstAccount
  Worker = {w1, w2}
  Conn = {c1, c2, c3}
  Sync = {y1, y2}
  None = None
  Troubles <- Weathers
INVARIANTS
  
  WorkersMatchNeed
  TimersFollowLife
PROPERTY
  WorkerConnects
CHECK_DEADLOCK FALSE
