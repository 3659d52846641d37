SPECIFICATION Spec
CONSTANTS
  admission = admission
  watcher = watcher
  k1 = k1
  k2 = k2
  v1 = v1
  v2 = v2
  Absent = Absent
  Undefined = Undefined
  Pod <- MCOnePod
  Key <- MCKey
  Value <- MCOneValue
  Awaited <- MCKey
  AddIndex <- MCAddIndex
  MaxCalls = 2
  MaxInFlight = 1
  MaxFailures = 0
  MaxRestarts = 0
  TimersFire = FALSE
  RedactValues = FALSE
  Liberty = {"overlap"}
CHECK_DEADLOCK FALSE
INVARIANT PersistedWhenIdle
