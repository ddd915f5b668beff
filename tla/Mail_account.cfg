CONSTANTS
  r1 = r1
  r2 = r2
  m1 = m1
  m2 = m2
  m3 = m3
  inbox = inbox
  arch = arch
  None = None
  box = box
  Path = {inbox, arch, box}
  Inbox = inbox
  Msg = {m1, m2, m3}
  Start <- Mail2
  Empty = {arch}
  MaxUid = 4
  MaxTrouble = 1
  Request = {r1, r2}
  MaxBox = 4
  BoxArgs <- Boxes
  QueryArgs <- Queries
  GetArgs <- Gets
  SetArgs <- Sets
  CopyArgs <- Copies
  SubmitArgs <- Submits
SYMMETRY Perms
SPECIFICATION PartSpec
INVARIANTS RowsOK  NothingLost
CHECK_DEADLOCK FALSE
