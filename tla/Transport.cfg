SPECIFICATION Spec
CONSTANTS
  r1 = r1
  r2 = r2
  Recoveries = {r1, r2}
  PauseOnShutdown = TRUE
  MaxDiscards = 2
  Bounds <- MCBounds
INVARIANTS
  TypeOK
  OnlyReplaysForget
  PauseIsKnown
  ShutdownHolds
  TunnelIsTended
PROPERTIES
  HeldGoToTunnel
  OperatorPauseStands
  ToldChildEnds
  ImplementsTunnel
CHECK_DEADLOCK FALSE
