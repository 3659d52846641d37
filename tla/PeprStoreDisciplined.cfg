SPECIFICATION FairSpec
CONSTANTS
  admission = admission
  watcher = watcher
  k1 = k1
  k2 = k2
  v1 = v1
  v2 = v2
  Absent = Absent
  Undefined = Undefined
  Pod <- MCPod
  Key <- MCKey
  Value <- MCOneValue
  Awaited <- MCOneKey
  AddIndex <- MCAddIndex
  MaxCalls = 3
  MaxInFlight = 1
  MaxFailures = 0
  MaxRestarts = 0
  TimersFire = FALSE
  RedactValues = FALSE
  Liberty = {}
CHECK_DEADLOCK FALSE
INVARIANTS PersistedWhenIdle
PROPERTIES ImplementsRegister WaitsAnswered
