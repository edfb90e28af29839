SPECIFICATION Spec
CONSTANTS
  e1 = e1
  e2 = e2
  e3 = e3
  f1 = f1
  f2 = f2
  Recorders = {e1, e2, e3}
  Flows = {f1, f2}
  Unmanaged = {f2}
  MaxRevision = 2
  MaxEntries = 1
  MaxPlausibleAttempt = 100
  DeferAttemptLimit = 1
  Attempts = 2
  ConfigChoices <- MCConfigs
  Edits <- MCEdits
  Scenarios <- MCEdited
INVARIANTS
  DoctorIsRight
CHECK_DEADLOCK FALSE
