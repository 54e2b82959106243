SPECIFICATION FairSpec
CONSTANTS
  Commits = {1, 2, 3}
  Version <- MCVersion
  Unshipped = {}
  Tracks = {"staging", "next"}
  Services <- MCServices
  NoCommit = 0
  MaxPublishes = 2
  MaxSwitches = 1
  MaxUpdates = 2
  MaxFailures = 1
  MaxCrashes = 1
  MaxReboots = 1
INVARIANTS MachineIsSound
PROPERTIES HoldEnds
CHECK_DEADLOCK FALSE
