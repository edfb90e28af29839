SPECIFICATION FairAgentSpec
CONSTANTS
  MaxPlausibleAttempt = 3
  Events = {e1, e2}
  NoEvent = NoEvent
  Handlers = {h1, h2}
  Rival = e2
  RivalsBy = h2
  Malformed = {}
  Filtered = {}
  Headerless = {}
  EarlyRejections = {}
  MaxConcurrent = 2
  AutoAttempts = 2
  AllowRetryCancel = TRUE
  RecoveryEnabled = TRUE
  HasClient = TRUE
  MaxRecoveries = 1
  DiskMayFail = FALSE
  MaxAttempts = 3
  MaxInstances = 2
  Waiters = {w1, w2}
  MaxRuns = 2
  MaxAgentRetries = 1
  Observable = TRUE
  Sync = TRUE
  RunsMayBeLost = TRUE
CONSTRAINT OneRace
CHECK_DEADLOCK FALSE
INVARIANTS
  AgentTypeOK
  RunSlotsExact
  NoWedgedRun
  OnlyStrandedRunsVanish
PROPERTIES
  EveryRunConcludes
