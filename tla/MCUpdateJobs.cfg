SPECIFICATION Spec
CONSTANTS
  Updates = {u1, u2}
  Jobs = {b1, b2}
  OwnerJobs = {}
  NoJob = NoJob
  NoUpdate = NoUpdate
  Places = {"unset", "here"}
  Disturbed = {u1}
SYMMETRY Symmetry
INVARIANTS TypeOK BackupBeforeTouch FailedCheckpointIsUntouched RunningBackupDecides
CHECK_DEADLOCK FALSE
