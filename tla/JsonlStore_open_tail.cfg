SPECIFICATION Spec
CONSTANTS
  Keys = {k1}
  Perishable = {}
  CompactionFloor = 3
  CompactionRatio = 1
  EvictInterval = 2
  TornWrites = {"partial", "no_newline"}
  IoMayFail = TRUE
  MaxOps = 3
  MaxCrashes = 2
CHECK_DEADLOCK FALSE
INVARIANTS
  AckedSurvives
