SPECIFICATION FairSpec
CONSTANTS
  Jobs = {j1, j2}
  Places = {d1, b1}
  Buckets = {b1}
  Apps = {a1}
  NoJob = NoJob
INVARIANTS TypeOK OneWorker SucceededIsRestorable
PROPERTIES JobsSettle SuccessAfterResume ImplementsQueue
CHECK_DEADLOCK FALSE
