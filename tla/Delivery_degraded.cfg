SPECIFICATION FairSpec
CONSTANTS
  MaxPlausibleAttempt = 3
  Events = {e1}
  NoEvent = NoEvent
  Handlers = {h1, h2}
  Waiters = {}
  Malformed = {}
  Filtered = {}
  Headerless = {e1}
  EarlyRejections = {"no_event_id"}
  MaxConcurrent = 2
  AutoAttempts = 2
  AllowRetryCancel = FALSE
  RecoveryEnabled = TRUE
  HasClient = TRUE
  MaxRecoveries = 1
  DiskMayFail = TRUE
  MaxAttempts = 2
  MaxInstances = 2
CHECK_DEADLOCK FALSE
INVARIANTS
  TypeOK
  RetryIsNoDuplicate
  AcknowledgedIsTraced
  DurableBeforeDispatch
PROPERTIES
  EveryRequestEnds
  OrphansAreHandled
