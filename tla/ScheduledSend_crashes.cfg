SPECIFICATION FairSpec
CONSTANTS
  Draft = {d1}
  Row = {r1, r2}
  Immediate = Immediate
  None = None
  MaxCrashes = 1
INVARIANTS
  TypeOK
  NeverReplayed
  StatusIsTrue
PROPERTIES
  FinalIsFinal
  
CHECK_DEADLOCK FALSE
