SPECIFICATION Spec
CONSTANTS
  r1 = r1
  r2 = r2
  Recoveries = {r1, r2}
  PauseOnShutdown = TRUE
  MaxDiscards = 0
  Bounds <- MCPauses
PROPERTIES
  OperatorPauseIsKept
CHECK_DEADLOCK FALSE
