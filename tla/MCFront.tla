-------------------------------- MODULE MCFront --------------------------------
(***************************************************************************)
(* The parts an owner meets, checked side by side: signing in and its       *)
(* limits, the mail relay, the store beneath them, the dashboard, an app's   *)
(* settings and screens, what is on offer, a job's progress, and the roadmap *)
(* planner of the site.  As in MCHost, `part` names the one that moves.      *)
(***************************************************************************)
EXTENDS Offers

CONSTANTS NoOwner, NoRelay, NoPassword, NoTalk, NoSub, NoBase, NoApp, Nothing, Typed, NoFile

VARIABLES part,
          owner, sessions, knownBrowsers, jar, accessRequest, gate, begun, accessUsed,
          limitNow, buckets, limitStored, attempt, alert, restarts,
          settings, secretFile, talks, panel, proved, overlapped, relayCount,
          release, process, db, backup, storeNow, storeCount,
          template, shown, routes, base, rows, homeTab, requests, dropped, crossed, unsettled, homeCount,
          dialogStored, tabs, acted, dialogCount,
          srv, list, answers, screenPage, screenRequest, installing, reviewed, done, screenCount,
          job, worker, file, age, history, progressPage, progressCount,
          storage, libraryTab, truth, libraryCount,
          nodes, viewDate, lost, documentUsed,
          design, row, edits,
          icons, canvas, chooser, fetching, flips, hydration, attempted, artworkCount

accessVars   == <<owner, sessions, knownBrowsers, jar, accessRequest, gate, begun, accessUsed>>
limitVars    == <<limitNow, buckets, limitStored, attempt, alert, restarts>>
relayVars    == <<settings, secretFile, talks, panel, proved, overlapped, relayCount>>
storeVars    == <<release, process, db, backup, storeNow, storeCount>>
homeVars     == <<template, shown, routes, base, rows, homeTab, requests, dropped, crossed,
                  unsettled, homeCount>>
dialogVars   == <<dialogStored, tabs, acted, dialogCount>>
screenVars   == <<srv, list, answers, screenPage, screenRequest, installing, reviewed, done,
                  screenCount>>
progressVars == <<job, worker, file, age, history, progressPage, progressCount>>
libraryVars  == <<storage, libraryTab, truth, libraryCount>>
documentVars == <<nodes, viewDate, lost, documentUsed>>
drawingVars  == <<design, row, edits>>
artworkVars  == <<icons, canvas, chooser, fetching, flips, hydration, attempted, artworkCount>>

(* What the owner types for the relay, and how two mail servers answer.     *)
RelayForms == {[host |-> "h1", security |-> "starttls", user |-> TRUE, insecure |-> FALSE],
               [host |-> "h2", security |-> "starttls", user |-> TRUE, insecure |-> FALSE],
               [host |-> "h2", security |-> "none", user |-> TRUE, insecure |-> TRUE],
               [host |-> "h2", security |-> "none", user |-> TRUE, insecure |-> FALSE],
               [host |-> "h1", security |-> "tls", user |-> FALSE, insecure |-> FALSE]}
RelayServers == [h1 |-> [starttls |-> TRUE, trusted |-> TRUE, logins |-> {"PLAIN"}],
                 h2 |-> [starttls |-> FALSE, trusted |-> FALSE, logins |-> {"LOGIN"}]]

(* Releases of one official app, with the order semver gives them, and the   *)
(* packages of a repository the owner adds.                                  *)
Identifier(numeric, rank) == [numeric |-> numeric, rank |-> rank]
Release(core, pre) == [core |-> core, pre |-> pre]
V1rc  == Release(1, <<Identifier(FALSE, 1), Identifier(TRUE, 1)>>)
V1rc2 == Release(1, <<Identifier(FALSE, 1), Identifier(TRUE, 2)>>)
V1    == Release(1, <<>>)
V2    == Release(2, <<>>)

NoReview == [status |-> "none", binds |-> FALSE, of |-> "none", egress |-> "none",
             control |-> "none", posture |-> "none", evidence |-> FALSE, outbound |-> {}]
CalendarReview == [status |-> "reviewed", binds |-> TRUE, of |-> "cal", egress |-> "none",
             control |-> "nothing-to-decide", posture |-> "private-by-default",
             evidence |-> TRUE, outbound |-> {}]
Package(id, version, rank, host) ==
  [id |-> id, version |-> version, rank |-> rank, min |-> 1, host |-> host, asks |-> {},
   sound |-> TRUE, claims |-> {}, needs |-> {}, provides |-> {}, requires |-> {}, review |-> NoReview]
Calendar(version, rank) == [Package("cal", version, rank, "cal") EXCEPT !.provides = {"calendar"}]
Added(id, version, rank, host) == [Package(id, version, rank, host) EXCEPT !.requires = {"calendar"}]

CalendarReleases ==
  {Calendar(V1rc, 1), [Calendar(V1, 3) EXCEPT !.review = CalendarReview],
   [Calendar(V2, 4) EXCEPT !.min = 2, !.needs = {"https"}, !.review = [CalendarReview EXCEPT !.binds = FALSE]]}
AddedPackages ==
  {Added("notes", V1rc2, 2, "notes"), Added("diary", V1, 3, "cal"),
   [Added("notes", V1, 3, "cal") EXCEPT !.asks = {"volume"}]}

\* Two publications and three decisions, or one with an update of MOS and four.
OfferBudgets == {[publish |-> 2, mos |-> 0, decision |-> 3], [publish |-> 1, mos |-> 1, decision |-> 4]}

StageSize == [k \in {"backup", "restore", "validate", "delete"} |-> 1]

(* A short row of the drawing, a long one with tall and wide labels, and a    *)
(* single node.                                                               *)
Px == 1000
Side(count, label) == [icons |-> count, label |-> label]
Node(moved, source, replacement, date, category) ==
  [done |-> moved, source |-> source, replacement |-> replacement, date |-> date, category |-> category]
Plain == Node(FALSE, Side(1, <<<<6, 5>>>>), Side(1, <<<<7>>>>), 7, 5)
Tall  == Node(FALSE, Side(3, <<<<6, 4>>, <<6>>, <<6, 8, 9>>>>), Side(0, <<<<>>>>), 10, 30)
Wide  == Node(FALSE, Side(6, <<<<21, 20>>>>), Side(1, <<<<9, 9, 9>>>>), 14, 8)
DrawnRows == {<<>>, <<Plain>>, <<Plain, Tall>>, <<[Tall EXCEPT !.done = TRUE], Wide, Plain>>}
DefaultDesign ==
  [mode |-> "auto", width |-> 2000 * Px, height |-> 900 * Px, outer |-> 72 * Px, spacing |-> 60 * Px,
   scale |-> 100, minNode |-> 78 * Px, icon |-> 52 * Px, lanes |-> 220 * Px, tension |-> 72,
   title |-> TRUE, subtitle |-> TRUE, categories |-> TRUE, display |-> "icon"]

Access == INSTANCE SignIn WITH
  request <- accessRequest, used <- accessUsed,
  Browsers <- {"b1", "b2"}, Passwords <- {"p1", "p2"}, MaxConcurrent <- 1, MaxQueued <- 1,
  MaxKnown <- 1, MaxIssued <- 3, MaxHashes <- 2, MaxRestarts <- 0, MaxAgings <- 0

Returning == INSTANCE SignIn WITH
  request <- accessRequest, used <- accessUsed,
  Browsers <- {"b1", "b2"}, Passwords <- {"p1", "p2"}, MaxConcurrent <- 1, MaxQueued <- 1,
  MaxKnown <- 1, MaxIssued <- 2, MaxHashes <- 1, MaxRestarts <- 1, MaxAgings <- 1

Limit == INSTANCE Throttle WITH
  now <- limitNow, onDisk <- limitStored,
  Addresses <- {"i1", "i2"}, Attempts <- {"n1"}, FreeFailures <- [account |-> 1, ip |-> 0],
  BaseDelay <- 1, MaxDelay <- 2, EntryTtl <- 2, MaxEntries <- 1, AlertEvery <- 2,
  MaxTime <- 3, MaxFailures <- 3, MaxRestarts <- 1

Mailer == INSTANCE Relay WITH
  count <- relayCount,
  Tabs <- {"t1"}, Passwords <- {"p1"}, Forms <- RelayForms, Servers <- RelayServers,
  MaxSaves <- 2, MaxTests <- 0, MaxAlerts <- 0, MaxCrashes <- 1

Alerting == INSTANCE Relay WITH
  count <- relayCount,
  Tabs <- {"t1"}, Passwords <- {"p1"}, Forms <- RelayForms, Servers <- RelayServers,
  MaxSaves <- 1, MaxTests <- 1, MaxAlerts <- 1, MaxCrashes <- 0

Records == INSTANCE Store WITH
  now <- storeNow, count <- storeCount,
  Releases <- {21}, Packages <- {"a"}, MaxWrites <- 1, MaxMishaps <- 1, MaxTime <- 0, IdleLife <- 1

Upgraded == INSTANCE Store WITH
  now <- storeNow, count <- storeCount,
  Releases <- {11, 21}, Packages <- {"a"}, MaxWrites <- 0, MaxMishaps <- 1, MaxTime <- 0, IdleLife <- 1

Ageing == INSTANCE Store WITH
  now <- storeNow, count <- storeCount,
  Releases <- {11, 21}, Packages <- {"a"}, MaxWrites <- 1, MaxMishaps <- 0, MaxTime <- 1, IdleLife <- 1

Home == INSTANCE Homepage WITH
  tab <- homeTab, count <- homeCount,
  Apps <- {"a"}, HostOf <- [a |-> "notes"], Subs <- {"notes"}, Reserved <- {"home"}, Asking <- {"a"},
  Bases <- {"old", "new"}, Slots <- {1, 2}, MaxRequests <- 3, MaxInstalls <- 1, MaxEdits <- 1,
  MaxFailures <- 1, MaxLost <- 0, MaxCuts <- 1, MaxMoves <- 1

Unheard == INSTANCE Homepage WITH
  tab <- homeTab, count <- homeCount,
  Apps <- {"a"}, HostOf <- [a |-> "notes"], Subs <- {"notes"}, Reserved <- {"home"}, Asking <- {"a"},
  Bases <- {"old", "new"}, Slots <- {1, 2}, MaxRequests <- 3, MaxInstalls <- 1, MaxEdits <- 1,
  MaxFailures <- 0, MaxLost <- 1, MaxCuts <- 0, MaxMoves <- 1

Refusing == INSTANCE Homepage WITH
  tab <- homeTab, count <- homeCount,
  Apps <- {"a"}, HostOf <- [a |-> "notes"], Subs <- {"notes", "home"}, Reserved <- {"home"}, Asking <- {"a"},
  Bases <- {"old", "new"}, Slots <- {1, 2}, MaxRequests <- 4, MaxInstalls <- 1, MaxEdits <- 1,
  MaxFailures <- 1, MaxLost <- 0, MaxCuts <- 0, MaxMoves <- 0

Dialog == INSTANCE AppSettings WITH
  stored <- dialogStored, count <- dialogCount,
  Tabs <- {"t1"}, Names <- {"A", "B_KEY", "MOS"}, Secretive <- {"B_KEY"}, Managed <- {"MOS"},
  Values <- {"", "v1"}, MaxRows <- 2, MaxEdits <- 3, MaxSaves <- 2, MaxLost <- 0

Answering == INSTANCE AppSettings WITH
  stored <- dialogStored, count <- dialogCount,
  Tabs <- {"t1", "t2"}, Names <- {"A", "B_KEY"}, Secretive <- {"B_KEY"}, Managed <- {"MOS"},
  Values <- {"", "v1"}, MaxRows <- 2, MaxEdits <- 2, MaxSaves <- 2, MaxLost <- 1

Screens == INSTANCE AppScreens WITH
  page <- screenPage, menuRequest <- screenRequest, count <- screenCount,
  Apps <- {"a1", "a2"}, MaxVersion <- 3, MaxJobs <- 1, MaxOps <- 0, MaxReads <- 1, MaxMoves <- 1

Followed == INSTANCE AppScreens WITH
  page <- screenPage, menuRequest <- screenRequest, count <- screenCount,
  Apps <- {"a1", "a2"}, MaxVersion <- 2, MaxJobs <- 2, MaxOps <- 0, MaxReads <- 1, MaxMoves <- 1

Lifecycle == INSTANCE AppScreens WITH
  page <- screenPage, menuRequest <- screenRequest, count <- screenCount,
  Apps <- {"a1", "a2"}, MaxVersion <- 1, MaxJobs <- 2, MaxOps <- 1, MaxReads <- 1, MaxMoves <- 1

JobPlan == INSTANCE Progress WITH
  page <- progressPage, count <- progressCount,
  Kinds <- {"restore", "validate"}, Total <- 1, Size <- StageSize, StaleAge <- 0, Watched <- FALSE,
  MaxJobs <- 2, MaxTicks <- 1, MaxMishaps <- 1, MaxToggles <- 1

JobPage == INSTANCE Progress WITH
  page <- progressPage, count <- progressCount,
  Kinds <- {"backup"}, Total <- 1, Size <- StageSize, StaleAge <- 0, Watched <- TRUE,
  MaxJobs <- 1, MaxTicks <- 0, MaxMishaps <- 0, MaxToggles <- 1

StalePage == INSTANCE Progress WITH
  page <- progressPage, count <- progressCount,
  Kinds <- {"validate"}, Total <- 1, Size <- StageSize, StaleAge <- 0, Watched <- TRUE,
  MaxJobs <- 1, MaxTicks <- 1, MaxMishaps <- 0, MaxToggles <- 1

Library == INSTANCE Planner WITH
  tab <- libraryTab, count <- libraryCount,
  Tabs <- {"t1"}, MaxProjects <- 3, MaxPast <- 1, MaxEdits <- 1, MaxIds <- 3, MaxRefusals <- 1,
  MaxOpens <- 1, Reopens <- FALSE

Document == INSTANCE Roadmap WITH
  used <- documentUsed,
  Dates <- {20240815, 20251231}, Years <- {2024, 2025}, ViewDates <- {20240930, 20250101},
  Icons <- {"x"}, MaxNodes <- 2, IconsPerSide <- 2, Overfill <- 0, MaxEdits <- 5, MaxIds <- 2

Drawing == INSTANCE Layout WITH
  Rows <- DrawnRows, Default <- DefaultDesign, Scales <- {80, 240}, Spacings <- {8 * Px, 400 * Px},
  LaneGaps <- {150 * Px, 650 * Px}, IconSizes <- {24 * Px, 110 * Px},
  Sizes <- {500 * Px, 1400 * Px, 5000 * Px}, Margins <- {24 * Px, 300 * Px}, NodeWidths <- {54 * Px, 280 * Px},
  Tensions <- {35, 140}, Legend <- <<11, 8>>, BrandChars <- 19, NoteChars <- 33, MaxEdits <- 2

Icon == INSTANCE Artwork WITH
  count <- artworkCount,
  Logos <- {"apple", "mail"}, Paired <- {"apple"}, IconsPerSide <- 2, MaxPicks <- 2, MaxUploads <- 1,
  MaxFailures <- 1, MaxFlips <- 1, MaxVisits <- 1, Leaves <- FALSE

Parts == {"signin", "return", "throttle", "relay", "alerts", "store", "upgrade", "expiry",
          "homepage", "unheard", "refusals", "settings", "answers", "updates", "following", "operations",
          "offers", "jobs", "page", "stale", "planner", "roadmap", "layout", "artwork"}

\* Every part as installed.  What varies of a part's start varies only where it moves.
Init ==
  /\ part \in Parts
  /\ Access!SignInInit
  /\ Limit!ThrottleInit
  /\ Mailer!RelayInit
  /\ Upgraded!StoreInit /\ (part \notin {"upgrade", "expiry"} => release = 21)
  /\ Home!Init /\ base = "old"      \* the two addresses are alike
  /\ IF part = "answers" THEN Answering!SettingsInit ELSE Dialog!SettingsInit
  /\ (part \notin {"settings", "answers"} => dialogStored = {})
  /\ Screens!ScreensInit  /\ (part \notin {"updates", "following", "operations"} => srv["a1"].installed = 1)
  /\ OfferInit
  /\ part # "offers" =>
       /\ uses = CHOOSE budget \in Budgets : TRUE
       /\ \A p \in OfficialPackages : p.rank = 1 => published["main"][p.id] = p
  /\ JobPlan!Init
  /\ Library!PlannerInit
  /\ Document!RoadmapInit /\ (part # "roadmap" => viewDate = 20240930)
  /\ Drawing!LayoutInit   /\ (part # "layout" => row = <<>>)
  /\ Icon!ArtworkInit     /\ (part # "artwork" => icons = <<>>)

AccessMoves ==
  /\ part = "signin" /\ Access!SignInNext
  /\ UNCHANGED <<part, limitVars, relayVars, storeVars, homeVars, dialogVars, screenVars, offerVars,
                 progressVars, libraryVars, documentVars, drawingVars, artworkVars>>

ReturningMoves ==
  /\ part = "return" /\ Returning!SignInNext
  /\ UNCHANGED <<part, limitVars, relayVars, storeVars, homeVars, dialogVars, screenVars, offerVars,
                 progressVars, libraryVars, documentVars, drawingVars, artworkVars>>

LimitMoves ==
  /\ part = "throttle" /\ Limit!ThrottleNext
  /\ UNCHANGED <<part, accessVars, relayVars, storeVars, homeVars, dialogVars, screenVars, offerVars,
                 progressVars, libraryVars, documentVars, drawingVars, artworkVars>>

MailerMoves ==
  /\ part = "relay" /\ Mailer!RelayNext
  /\ UNCHANGED <<part, accessVars, limitVars, storeVars, homeVars, dialogVars, screenVars, offerVars,
                 progressVars, libraryVars, documentVars, drawingVars, artworkVars>>

AlertingMoves ==
  /\ part = "alerts" /\ Alerting!RelayNext
  /\ UNCHANGED <<part, accessVars, limitVars, storeVars, homeVars, dialogVars, screenVars, offerVars,
                 progressVars, libraryVars, documentVars, drawingVars, artworkVars>>

RecordsMoves ==
  /\ part = "store" /\ Records!StoreNext
  /\ UNCHANGED <<part, accessVars, limitVars, relayVars, homeVars, dialogVars, screenVars, offerVars,
                 progressVars, libraryVars, documentVars, drawingVars, artworkVars>>

UpgradedMoves ==
  /\ part = "upgrade" /\ Upgraded!StoreNext
  /\ UNCHANGED <<part, accessVars, limitVars, relayVars, homeVars, dialogVars, screenVars, offerVars,
                 progressVars, libraryVars, documentVars, drawingVars, artworkVars>>

AgeingMoves ==
  /\ part = "expiry" /\ Ageing!StoreNext
  /\ UNCHANGED <<part, accessVars, limitVars, relayVars, homeVars, dialogVars, screenVars, offerVars,
                 progressVars, libraryVars, documentVars, drawingVars, artworkVars>>

HomeMoves ==
  /\ part = "homepage" /\ Home!Next
  /\ UNCHANGED <<part, accessVars, limitVars, relayVars, storeVars, dialogVars, screenVars, offerVars,
                 progressVars, libraryVars, documentVars, drawingVars, artworkVars>>

UnheardMoves ==
  /\ part = "unheard" /\ Unheard!Next
  /\ UNCHANGED <<part, accessVars, limitVars, relayVars, storeVars, dialogVars, screenVars, offerVars,
                 progressVars, libraryVars, documentVars, drawingVars, artworkVars>>

RefusingMoves ==
  /\ part = "refusals" /\ Refusing!Next
  /\ UNCHANGED <<part, accessVars, limitVars, relayVars, storeVars, dialogVars, screenVars, offerVars,
                 progressVars, libraryVars, documentVars, drawingVars, artworkVars>>

DialogMoves ==
  /\ part = "settings" /\ Dialog!SettingsNext
  /\ UNCHANGED <<part, accessVars, limitVars, relayVars, storeVars, homeVars, screenVars, offerVars,
                 progressVars, libraryVars, documentVars, drawingVars, artworkVars>>

AnsweringMoves ==
  /\ part = "answers" /\ Answering!SettingsNext
  /\ UNCHANGED <<part, accessVars, limitVars, relayVars, storeVars, homeVars, screenVars, offerVars,
                 progressVars, libraryVars, documentVars, drawingVars, artworkVars>>

ScreensMoves ==
  /\ part = "updates" /\ Screens!ScreensNext
  /\ UNCHANGED <<part, accessVars, limitVars, relayVars, storeVars, homeVars, dialogVars, offerVars,
                 progressVars, libraryVars, documentVars, drawingVars, artworkVars>>

FollowedMoves ==
  /\ part = "following" /\ Followed!ScreensNext
  /\ UNCHANGED <<part, accessVars, limitVars, relayVars, storeVars, homeVars, dialogVars, offerVars,
                 progressVars, libraryVars, documentVars, drawingVars, artworkVars>>

LifecycleMoves ==
  /\ part = "operations" /\ Lifecycle!ScreensNext
  /\ UNCHANGED <<part, accessVars, limitVars, relayVars, storeVars, homeVars, dialogVars, offerVars,
                 progressVars, libraryVars, documentVars, drawingVars, artworkVars>>

OfferMoves ==
  /\ part = "offers" /\ OfferNext
  /\ UNCHANGED <<part, accessVars, limitVars, relayVars, storeVars, homeVars, dialogVars, screenVars,
                 progressVars, libraryVars, documentVars, drawingVars, artworkVars>>

JobPlanMoves ==
  /\ part = "jobs" /\ JobPlan!Next
  /\ UNCHANGED <<part, accessVars, limitVars, relayVars, storeVars, homeVars, dialogVars, screenVars,
                 offerVars, libraryVars, documentVars, drawingVars, artworkVars>>

JobPageMoves ==
  /\ part = "page" /\ JobPage!Next
  /\ UNCHANGED <<part, accessVars, limitVars, relayVars, storeVars, homeVars, dialogVars, screenVars,
                 offerVars, libraryVars, documentVars, drawingVars, artworkVars>>

StalePageMoves ==
  /\ part = "stale" /\ StalePage!Next
  /\ UNCHANGED <<part, accessVars, limitVars, relayVars, storeVars, homeVars, dialogVars, screenVars,
                 offerVars, libraryVars, documentVars, drawingVars, artworkVars>>

LibraryMoves ==
  /\ part = "planner" /\ Library!PlannerNext
  /\ UNCHANGED <<part, accessVars, limitVars, relayVars, storeVars, homeVars, dialogVars, screenVars,
                 offerVars, progressVars, documentVars, drawingVars, artworkVars>>

DocumentMoves ==
  /\ part = "roadmap" /\ Document!RoadmapNext
  /\ UNCHANGED <<part, accessVars, limitVars, relayVars, storeVars, homeVars, dialogVars, screenVars,
                 offerVars, progressVars, libraryVars, drawingVars, artworkVars>>

DrawingMoves ==
  /\ part = "layout" /\ Drawing!LayoutNext
  /\ UNCHANGED <<part, accessVars, limitVars, relayVars, storeVars, homeVars, dialogVars, screenVars,
                 offerVars, progressVars, libraryVars, documentVars, artworkVars>>

IconMoves ==
  /\ part = "artwork" /\ Icon!ArtworkNext
  /\ UNCHANGED <<part, accessVars, limitVars, relayVars, storeVars, homeVars, dialogVars, screenVars,
                 offerVars, progressVars, libraryVars, documentVars, drawingVars>>

Next ==
  \/ AccessMoves
  \/ ReturningMoves
  \/ LimitMoves
  \/ MailerMoves
  \/ AlertingMoves
  \/ RecordsMoves
  \/ UpgradedMoves
  \/ AgeingMoves
  \/ HomeMoves
  \/ UnheardMoves
  \/ RefusingMoves
  \/ DialogMoves
  \/ AnsweringMoves
  \/ ScreensMoves
  \/ FollowedMoves
  \/ LifecycleMoves
  \/ OfferMoves
  \/ JobPlanMoves
  \/ JobPageMoves
  \/ StalePageMoves
  \/ LibraryMoves
  \/ DocumentMoves
  \/ DrawingMoves
  \/ IconMoves

vars == <<part, accessVars, limitVars, relayVars, storeVars, homeVars, dialogVars, screenVars, offerVars,
          progressVars, libraryVars, documentVars, drawingVars, artworkVars>>
Spec == Init /\ [][Next]_vars

\* A change of the password ends every session, and no sign-in that reads the account after it
\* opens one with an earlier password (one that was comparing meanwhile does); a hash is computed
\* for whoever waits for one, and the delays and alerts of failed sign-ins survive a restart; the
\* migrations recorded are the tables there are and no row outlives its app; a login goes out only
\* over the security the owner chose, and the relay shown as verified is the one stored as long
\* as no two conversations overlapped and Suite Manager did not die; Save is off in the only
\* tab only when the server holds what the dialog shows (setup-service.cjs, login-throttle.cjs,
\* suite-manager-store.cjs, smtp-client.cjs, AppConfigDialog.tsx).
RecordsAreSound ==
  CASE part = "signin"   -> Access!GateServesEveryone /\ Access!PasswordTakesItsSessions /\ Access!SignInHolds
    [] part = "return"   -> Returning!GateServesEveryone /\ Returning!PasswordTakesItsSessions
                            /\ Returning!SignInHolds
    [] part = "throttle" -> Limit!BackoffIsStored /\ Limit!AlertsAreSpaced
    [] part = "store"    -> Records!SchemaIsSound
    [] part = "upgrade"  -> Upgraded!SchemaIsSound
    [] part = "expiry"   -> Ageing!SchemaIsSound
    [] part = "relay"    -> Mailer!RelayIsSound
    [] part = "alerts"   -> Alerting!RelayIsSound
    [] part = "settings" -> Dialog!SettingsAreSound
    [] part = "answers"  -> Answering!SettingsAreSound
    [] OTHER             -> TRUE

\* The dashboard follows its template, and its tiles the apps and what is noted of them, unless
\* two changes were open at once or one was left half way; a link and an app whose install asks
\* share no address, unless the two were being decided at once or the install asked in vain; a
\* job's plan ticks only what was passed, and leaves nothing of another job standing
\* (homepage/agent-core.cjs, system-adapter.cjs, homepage-service.cjs, app-package-service.cjs,
\* progress.cjs, control-plane-runtime.cjs).
ScreensAreTrue ==
  CASE part = "homepage" -> Home!HomepageIsSound
    [] part = "unheard"  -> Unheard!HomepageIsSound
    [] part = "refusals" -> Refusing!HomepageIsSound
    [] part = "jobs"     -> JobPlan!ProgressIsSound
    [] part = "page"     -> JobPage!ProgressIsSound
    [] part = "stale"    -> StalePage!ProgressIsSound
    [] OTHER             -> TRUE

\* No roadmap is lost by opening, starting, deleting or refused saves, the built-in example
\* stays as published, what is reloaded is what was drawn; nothing of a drawing lies over
\* another part of it, its two lines cross at the marker, and the artwork shown is that of the
\* icon chosen (site/planner page.tsx, roadmap-library.ts, roadmap-model.ts,
\* roadmap-layout.ts, dashboard-icon-library.ts, icon-hydration.ts).
PlannerKeepsTheWork ==
  CASE part = "planner" -> Library!WorkIsKept /\ Library!ExampleIsPristine /\ Library!SavedIsStored
    [] part = "roadmap" -> Document!LanesCrossOnce /\ Document!ReloadKeepsTheRoadmap
    [] part = "layout"  -> Drawing!NothingCollides /\ Drawing!LinesCrossAtTheMarker
    [] part = "artwork" -> Icon!ArtworkFollowsTheIcon /\ Icon!NoLogoTwice
    [] OTHER            -> TRUE

\* No step takes what is the owner's: rows of a table that stays, hidden values a dialog was
\* opened on and left alone, with another tab saving too; a change to the dashboard, by one made
\* from older content or by taking another back, unless the two were open at once; the password,
\* and the count of failures (suite-manager-store.cjs, app-package-service.cjs
\* savePackageEnvironment, homepage/agent-core.cjs, setup-service.cjs, login-throttle.cjs).
OwnersDataIsKept == [][
  CASE part = "store"     -> Records!Upgrades
    [] part = "upgrade"   -> Upgraded!Upgrades
    [] part = "expiry"    -> Ageing!Upgrades
    [] part = "settings"  -> Dialog!KeepsSecrets
    [] part = "answers"   -> Answering!KeepsSecrets
    [] part = "homepage"  -> Home!LosesNoChange
    [] part = "unheard"   -> Unheard!LosesNoChange
    [] part = "refusals"  -> Refusing!LosesNoChange
    [] part = "signin"    -> Access!OwnerDecides
    [] part = "return"    -> Returning!OwnerDecides
    [] part = "throttle"  -> Limit!ForgetsNoFailure
    [] OTHER              -> TRUE]_vars

\* Screens and offers go forward: only what the owner reviewed is applied, a dialog closes on
\* its own job's end, a plan never steps back or folds what the owner opened, a reconcile that
\* meets no other change heals the dashboard, and no app goes back a version without being asked.
ScreensGoForward == [][
  CASE part = "updates"   -> Screens!AppliesTheReviewed /\ Screens!ClosesWhenDone
    [] part = "following" -> Followed!AppliesTheReviewed /\ Followed!ClosesWhenDone
    [] part = "jobs"      -> JobPlan!Advances
    [] part = "page"      -> JobPage!Advances /\ JobPage!KeepsOpen
    [] part = "stale"     -> StalePage!Advances /\ StalePage!ShowsNothingOld
    [] part = "homepage"  -> Home!Rebuilds
    [] part = "unheard"   -> Unheard!Rebuilds
    [] part = "refusals"  -> Refusing!Rebuilds
    [] part = "offers"    -> GoesNotBack
    [] OTHER              -> TRUE]_vars
================================================================================
