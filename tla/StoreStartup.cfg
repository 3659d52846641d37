SPECIFICATION StartupFairSpec
CONSTANTS
  admission = admission
  watcher = watcher
  v1 = v1
  v2 = v2
  NoValue = NoValue
  Pod <- MCPod
  Name <- MCName
  Scheduled <- MCScheduled
  Item <- MCItem
  Value <- MCValue
  Failing <- MCFailing
  MaxFailures = 1
  MaxStarts = 1
  MaxWrites = 1
CHECK_DEADLOCK FALSE
INVARIANTS StartupTypeOK Kept ReadyHasAll
PROPERTIES AllReady
