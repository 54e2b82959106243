SPECIFICATION FairSpec
CONSTANTS
  Versions = {1, 2}
  MaxUpdates = 2
  MaxSmCrashes = 1
  MaxAgentCrashes = 1
  MaxHangUps = 1
  MaxFreeApplies = 1
  MaxLifecycle = 1
  MaxEvents = 3
INVARIANTS TypeOK RecoveryIsPossible ServedIsRecorded CollectedSecretsKept
PROPERTIES UpdatesSettle
CHECK_DEADLOCK FALSE
