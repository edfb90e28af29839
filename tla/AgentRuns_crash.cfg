SPECIFICATION AgentSpec
CONSTANTS
  MaxPlausibleAttempt = 3
  Events = {e1}
  NoEvent = NoEvent
  Handlers = {h1}
  Malformed = {}
  Filtered = {}
  Headerless = {}
  EarlyRejections = {}
  MaxConcurrent = 1
  AutoAttempts = 2
  AllowRetryCancel = TRUE
  RecoveryEnabled = TRUE
  HasClient = TRUE
  MaxRecoveries = 1
  DiskMayFail = FALSE
  MaxAttempts = 3
  MaxInstances = 2
  Waiters = {w1}
  MaxRuns = 1
  MaxAgentRetries = 1
  Observable = TRUE
  Sync = FALSE
  RunsMayBeLost = FALSE
CHECK_DEADLOCK FALSE
INVARIANTS
  RunsAreTraced
