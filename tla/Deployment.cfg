SPECIFICATION FairSpec
CONSTANTS
  Module <- MCModule
  Replicas = 2
  MaxBuilds = 2
  MaxFailures = 1
  MaxCrashes = 1
CHECK_DEADLOCK FALSE
INVARIANTS AnsweredByTheBuild DeployedWhole Permitted
PROPERTIES DeployEnds RollsOut
