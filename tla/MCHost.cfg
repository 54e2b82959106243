SPECIFICATION Spec
CONSTANTS
  SchedulePlaces = {"d"}
  MaxTime = 4
  MaxBackups = 3
  MaxMoves = 2
  MaxAgentRestarts = 1
  RetentionAttempts = 2
  OwnArchives = {"a1", "a2"}
  ForeignHere = TRUE
  MaxJobs = 3
  MaxFailures = 1
  MaxDeaths = 1
  MaxExpiries = 1
  Folders = {"n1", "n2", "n3"}
  ForeignArchive = TRUE
  MaxDriveBackups = 3
  MaxMoveFails = 1
  MaxProbeFails = 1
  MaxPulls = 1
  Passwords = {"p1", "p2"}
  FirstPassword = "p1"
  Tabs = {"t1", "t2"}
  MaxCuts = 2
  MaxRefusals = 2
  MaxRotations = 1
  MaxRequests = 1
  Apps = {"a", "b"}
  MaxRestores = 1
  MaxKills = 1
  MaxInstalls = 1
  DriveApps = {"x"}
  MaxDrivePulls = 1
  MaxActions = 2
  MaxDriveRefusals = 1
  Size = 2
  ChunkSize = 1
  MaxUploadCuts = 1
  MaxUploadDeaths = 1
  MaxUploadPulls = 1
  MaxStops = 1
  Packages = {"kernel"}
  SecurityOnes = {"kernel"}
  Kernels = {"kernel"}
  Units = {"docker", "lab"}
  NeverHere = {"lab"}
  OwnerHolds = {}
  Starts <- MCStarts
INVARIANTS RunsOncePerOccurrence ArchivesAreOurs OwnersFilesAreSafe RecoveryIsAtHand PatchesAreSound
PROPERTIES RetentionSparesTheOwner PointsStayTrue
CHECK_DEADLOCK FALSE
