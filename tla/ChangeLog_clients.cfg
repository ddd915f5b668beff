SPECIFICATION Spec
CONSTANTS
  Id = {a, b}
  Client = {c1, c2}
  LogLimit = 2
  MaxBatch = 1
  MaxState = 4
  Absent = Absent
  CannotCalculate = CannotCalculate
SYMMETRY Symmetry
INVARIANTS
  TypeOK
  
  WholeRangeAnswered
PROPERTIES
  ImplementsObjectSync
CHECK_DEADLOCK FALSE
