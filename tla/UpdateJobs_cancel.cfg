SPECIFICATION Spec
CONSTANTS
  Updates = {u1}
  Jobs = {b1, b2, o1}
  OwnerJobs = {o1}
  NoJob = NoJob
  NoUpdate = NoUpdate
  Places = {"unset", "away", "here"}
  Disturbed = {u1}
INVARIANTS CancelHonoured
CHECK_DEADLOCK FALSE
