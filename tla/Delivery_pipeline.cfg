SPECIFICATION Spec
CONSTANTS
  MaxPlausibleAttempt = 3
  Events = {e1, e2, e3}
  NoEvent = NoEvent
  Handlers = {h1, h2}
  Waiters = {}
  Malformed = {e3}
  Filtered = {}
  Headerless = {}
  EarlyRejections = {}
  MaxConcurrent = 1
  AutoAttempts = 2
  AllowRetryCancel = TRUE
  RecoveryEnabled = TRUE
  HasClient = TRUE
  MaxRecoveries = 1
  DiskMayFail = FALSE
  MaxAttempts = 2
  MaxInstances = 3
CONSTRAINT TwoEvents
SYMMETRY Symmetry
CHECK_DEADLOCK FALSE
INVARIANTS
  OneHandlerPerEvent
  SlotsAccountedFor
  CancelledIsRecorded
  NoWedgedRow
  InterruptedIsHandedBack
PROPERTIES
  AttemptRunsOnce
