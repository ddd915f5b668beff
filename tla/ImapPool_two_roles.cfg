SPECIFICATION FairSpec
CONSTANTS
  interactive = interactive
  bulk = bulk
  Caller = {p1, p2}
  Role = {interactive, bulk}
  Interactive = interactive
  Cap <- TwoSlots
  Conn = {c1, c2}
  None = None
  MaxRequests = 1
  MaxProbes = 1
  MaxMail = 1
  ProbesMayDie = TRUE
  LockMayFail = TRUE
INVARIANTS
  PoolOK
  OneHolder
  LentIsFit

  
CHECK_DEADLOCK FALSE
