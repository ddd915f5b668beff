SPECIFICATION Spec
CONSTANTS
  Kind = {email, push_subscription}
  Pushed = {email}
  SubKind = push_subscription
  Listener = {l1}
  Sub = {i1, i2}
  MaxSubs = 1
  MaxFailures = 2
  MaxState = 2
  MaxSets = 3
  SubsMayExpire = TRUE
SYMMETRY Symmetry
INVARIANTS
  SubsOK
  BumpsAreForwarded
CHECK_DEADLOCK FALSE
