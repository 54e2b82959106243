SPECIFICATION FairSpec
CONSTANTS
  Updates = {u1}
  Jobs = {b1, o1}
  OwnerJobs = {o1}
  NoJob = NoJob
  NoUpdate = NoUpdate
  Places = {"unset", "away", "here"}
  Disturbed = {u1}
PROPERTIES UpdateEnds
CHECK_DEADLOCK FALSE
