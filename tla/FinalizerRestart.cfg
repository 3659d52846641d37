SPECIFICATION FairSpec
CONSTANTS
  Pepr = Pepr
  backup = backup
  Foreign <- MCForeign
  Policies = {"Fail"}
  Matches <- MCMatches
  Modules <- MCSimple
  Places <- MCApp
  Labelings <- MCUnlabelled
  Verdicts <- MCDone
  MaxObjects = 1
  MaxUpdates = 0
  MaxCrashes = 1
  MaxFailures = 0
CHECK_DEADLOCK FALSE
PROPERTY DeletionEndsAfterRestart
