SPECIFICATION FairSpec
CONSTANTS
  MaxEdits = 6
  MaxCrashes = 1
  webhooks <- MCWebhooks
  Broken = {4}
  Throws = {5}
CHECK_DEADLOCK FALSE
INVARIANTS OneProcess
PROPERTIES RunsLatest WebhooksSettle
