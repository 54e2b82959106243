CONSTANTS
  Refs = {"main", "beta"}
  MaxCommits = 3
  MaxRefreshes = 3
  MaxFailures = 1
  MaxRestarts = 1
  MaxDownloads = 2
SPECIFICATION CatalogSpec
PROPERTY FeedIsKept
CHECK_DEADLOCK FALSE
