SPECIFICATION Spec
CONSTANTS
  NoOwner = NoOwner
  NoRelay = NoRelay
  NoPassword = NoPassword
  NoTalk = NoTalk
  NoSub = NoSub
  NoBase = NoBase
  NoApp = NoApp
  Nothing = Nothing
  Typed = Typed
  NoFile = NoFile
  OfficialPackages <- CalendarReleases
  ExternalPackages <- AddedPackages
  Folders = {"notes", "diary"}
  Links = {"cal"}
  Lacking = {"https"}
  Budgets <- OfferBudgets
INVARIANTS RecordsAreSound ScreensAreTrue OffersAreSound PlannerKeepsTheWork
PROPERTIES OwnersDataIsKept ScreensGoForward
CHECK_DEADLOCK FALSE
