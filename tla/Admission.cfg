SPECIFICATION Spec
CONSTANTS
  Matches <- MCMatches
  DefaultPlural <- MCDefaultPlural
  Modules <- MCModules
  Requests <- MCRequests
  CallsFail = TRUE
  UnprintableErrors = TRUE
CHECK_DEADLOCK FALSE
INVARIANTS DenialStands RejectMeansRejected FailuresAreToldOf StatusTells MutatedOnce RejectMeansProcessed
