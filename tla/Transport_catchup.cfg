SPECIFICATION Spec
CONSTANTS
  r1 = r1
  r2 = r2
  Recoveries = {r1, r2}
  PauseOnShutdown = TRUE
  MaxDiscards = 1
  Bounds <- MCCatchUp
INVARIANTS
  OutageRecovered
CHECK_DEADLOCK FALSE
