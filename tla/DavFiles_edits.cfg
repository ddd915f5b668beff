CONSTANTS
  me = me
  you = you
  Time = {1, 2, 3, 4}
  Uri = {me, you}
  Extra = {"x-prop", "priority", "inline attachment"}
  Foreign <- Files
  Patch <- Patches
  ForeignCards <- Cards
  CardPatch <- CardPatches
  MaxSteps = 2
  Excluded = Excluded
  Absent = Absent
  None = None
SPECIFICATION FilesSpec
INVARIANTS FileOK
PROPERTIES UpdateIsDone  
CHECK_DEADLOCK FALSE
