-------------------------------- MODULE MCSuite --------------------------------
(***************************************************************************)
(* The parts of Suite Manager, checked side by side: the manifests of an    *)
(* app's versions, a connection between two apps, installs and uninstalls,   *)
(* the suite's address, the official catalog and an external source.  As in  *)
(* MCHost, `part` names the one that moves.                                  *)
(***************************************************************************)
EXTENDS Manifests

CONSTANTS Values,                    \* of connections
          MaxRequests, MaxStarts, MaxKills,
          OfficialApps, ExternalApps, \* of installs
          MaxInstalls,
          Refs, MaxCommits,           \* of the official catalog
          MaxRefreshes, MaxRestarts, MaxDownloads,
          SourceRequests,             \* of an external source
          MaxSourceCommits, MaxChecks, MaxDecisions,
          MaxFailures,                \* of each part but the address
          Domains, Doors, Budgets     \* of the suite's address

VARIABLES part,
          appRows, env, secret, folder, link, projected, suite, runs, joined, handlers, crossed, used,
          listing, packages, secrets, docker, routes, candidate, before, work, crowded, installSpent,
          track, address, offer, change, run, tick, held, door, web, parked, saved, queue, job, severed, uses,
          followed, tip, commits, cache, disk, refresh, lastError, push, pushed, holds, lost, downloads, catalogSpent,
          head, row, listed, sweeping, req, fromSource, astray, sourceDid

connectionVars == <<appRows, env, secret, folder, link, projected, suite, runs, joined, handlers, crossed, used>>
installVars    == <<listing, packages, secrets, docker, routes, candidate, before, work, crowded, installSpent>>
moveVars       == <<track, address, offer, change, run, tick, held, door, web, parked, saved, queue, job,
                    severed, uses>>
catalogVars    == <<tip, commits, followed, cache, disk, refresh, lastError, push, pushed, holds, lost, downloads,
                    catalogSpent>>
sourceVars     == <<head, row, listed, sweeping, req, fromSource, astray, sourceDid>>

Connection == INSTANCE Connections WITH
  rows <- appRows

Install == INSTANCE Installs WITH
  rows <- listing, spent <- installSpent

Move == INSTANCE Address

\* A machine always has a door's name, and no domain of the owner's is one.
ASSUME NamesAreDistinct == Doors # {} /\ Domains \cap Doors = {}
\* The track of the releases is one of those a server may follow.
ASSUME ReleasesAreFollowed == "main" \in Refs
ASSUME BudgetsAreCounts ==
  Budgets \subseteq [{"change", "tick", "fail", "death", "offer", "update", "move"} -> Nat]

\* Two changes, one of them of an offered domain, over a failure and a death; and one beside
\* the watch, with a managed update and a door that moves.
MCBudgets ==
  {[change |-> 2, tick |-> 0, fail |-> 1, death |-> 1, offer |-> 1, update |-> 0, move |-> 0],
   [change |-> 1, tick |-> 1, fail |-> 1, death |-> 0, offer |-> 1, update |-> 1, move |-> 1]}

Official == INSTANCE Catalog WITH
  track <- followed, spent <- catalogSpent

Source == INSTANCE Sources WITH
  installed <- fromSource, did <- sourceDid, Requests <- SourceRequests,
  MaxCommits <- MaxSourceCommits, MaxRequests <- MaxChecks

Parts == {"manifests", "connections", "installs", "address", "catalog", "sources"}

\* Every part as installed.  What varies of a part's start varies only where it moves.
Init ==
  /\ part \in Parts
  /\ ManifestInit
  /\ Connection!ConnInit /\ (part # "connections" => joined)
  /\ Install!InstallInit
  /\ Move!AddressInit
  /\ part # "address" => track = "home" /\ uses = CHOOSE budget \in Budgets : TRUE
  /\ Official!CatalogInit
  /\ Source!SourcesInit

ManifestMoves ==
  /\ part = "manifests" /\ ManifestNext
  /\ UNCHANGED <<part, connectionVars, installVars, moveVars, catalogVars, sourceVars>>

ConnectionMoves ==
  /\ part = "connections" /\ Connection!ConnNext
  /\ UNCHANGED <<part, manifestVars, installVars, moveVars, catalogVars, sourceVars>>

InstallMoves ==
  /\ part = "installs" /\ Install!InstallNext
  /\ UNCHANGED <<part, manifestVars, connectionVars, moveVars, catalogVars, sourceVars>>

MoveMoves ==
  /\ part = "address" /\ Move!AddressNext
  /\ UNCHANGED <<part, manifestVars, connectionVars, installVars, catalogVars, sourceVars>>

OfficialMoves ==
  /\ part = "catalog" /\ Official!CatalogNext
  /\ UNCHANGED <<part, manifestVars, connectionVars, installVars, moveVars, sourceVars>>

SourceMoves ==
  /\ part = "sources" /\ Source!SourcesNext
  /\ UNCHANGED <<part, manifestVars, connectionVars, installVars, moveVars, catalogVars>>

Next ==
  \/ ManifestMoves
  \/ ConnectionMoves
  \/ InstallMoves
  \/ MoveMoves
  \/ OfficialMoves
  \/ SourceMoves

vars == <<part, manifestVars, connectionVars, installVars, moveVars, catalogVars, sourceVars>>
Spec == Init /\ [][Next]_vars

\* What is recorded as installed has its files and secrets, and once applied no containers or
\* volume but its own, whatever was refused, failed or overlapped; its route is there too unless
\* two requests worked on the app or on the routes file at once.  What runs of a connected app
\* can be rendered again from what the store holds, and a save that reports it was put back has
\* left the app as before it unless another request crossed it
\* (app-package-service.cjs installPackage, savePackageEnvironment).
AppsAreAsRecorded ==
  CASE part = "installs"    -> Install!InstalledIsWhole
    [] part = "connections" -> Connection!ProjectionsAreReproducible /\ Connection!RolledBackIsAsBefore
    [] OTHER                -> TRUE

\* The door's token on the host is the one of the address in force, an address change has the
\* web server to itself until it is settled, and a revision counted as pushed is the one the
\* host's holds were written from, unless an answer was lost and the server left its track
\* (suite-address-service.cjs, services.cjs onRefreshed).
HostFollowsTheSuite ==
  CASE part = "address" -> Move!TokenIsTheAddress /\ Move!ChangeOwnsTheWebServer
    [] part = "catalog" -> Official!HoldsFollowTheFeed
    [] OTHER            -> TRUE

\* A source row never claims a check that its stored list of packages does not come from
\* (external-source-service.cjs refresh).
CheckedIsListed == Source!CheckedIsListed
================================================================================
