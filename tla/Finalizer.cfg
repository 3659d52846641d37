SPECIFICATION FairSpec
CONSTANTS
  Pepr = Pepr
  backup = backup
  Foreign <- MCForeign
  Policies = {"Fail", "Ignore"}
  Matches <- MCMatches
  Modules <- MCModules
  Places <- MCPlaces
  Labelings <- MCLabelings
  Verdicts <- MCVerdicts
  MaxObjects = 2
  MaxUpdates = 1
  MaxCrashes = 1
  MaxFailures = 1
CHECK_DEADLOCK FALSE
INVARIANTS AlwaysArmed FirstFinalized
PROPERTIES PatchesOwnOnly DeletionEnds
