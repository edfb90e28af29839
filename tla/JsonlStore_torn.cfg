SPECIFICATION Spec
CONSTANTS
  Keys = {k1, k2}
  Perishable = {k2}
  CompactionFloor = 1
  CompactionRatio = 1
  EvictInterval = 2
  TornWrites = {"partial"}
  IoMayFail = TRUE
  MaxOps = 3
  MaxCrashes = 2
CHECK_DEADLOCK FALSE
INVARIANTS
  TypeOK
  AckedSurvives
  IdleFileMatchesMemory
  MemoryLeadsFile
PROPERTIES
  ImplementsMap
