SPECIFICATION Spec
CONSTANTS
  MaxEdits = 2
  MaxSaves = 1
  MaxVariables = 1
  MaxLinks = 1
  Values = {"v1", "v2"}
  MaxRequests = 2
  MaxStarts = 1
  MaxKills = 0
  OfficialApps = {"x"}
  ExternalApps = {"y"}
  MaxInstalls = 2
  Refs = {"main", "beta"}
  MaxCommits = 3
  MaxRefreshes = 3
  MaxRestarts = 1
  MaxDownloads = 1
  SourceRequests = {"r1", "r2"}
  MaxSourceCommits = 2
  MaxChecks = 3
  MaxDecisions = 2
  MaxFailures = 1
  Domains = {"d1", "d2"}
  Doors = {"e1", "e2"}
  Budgets <- MCBudgets
INVARIANTS ReferencesResolve AppsAreAsRecorded HostFollowsTheSuite
PROPERTIES UpdatesKeepValues CheckedIsListed
CHECK_DEADLOCK FALSE
