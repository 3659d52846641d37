SPECIFICATION FairSpec
CONSTANTS
  admission = admission
  watcher = watcher
  k1 = k1
  k2 = k2
  v1 = v1
  v2 = v2
  Absent = Absent
  Undefined = Undefined
  Pod <- MCOnePod
  Key <- MCOneKey
  Value <- MCOneValue
  Awaited <- MCOneKey
  AddIndex <- MCAddIndex
  MaxCalls = 2
  MaxInFlight = 2
  MaxFailures = 1
  MaxRestarts = 1
  TimersFire = TRUE
  RedactValues = TRUE
  Liberty <- MCAllLiberties
CHECK_DEADLOCK FALSE
PROPERTIES MonotonicReads Drains Converges
