------------------------------ MODULE Installs ------------------------------
(***************************************************************************)
(* Installing, starting and uninstalling apps: Suite Manager's handlers    *)
(* and install jobs on one side, the app agent on the other, which runs    *)
(* whatever it is asked at once and keeps the routes of every app in one   *)
(* file, with one candidate and one copy of it beside it.                  *)
(***************************************************************************)
EXTENDS Naturals, FiniteSets

CONSTANTS
  OfficialApps,  \* apps of the checkout
  ExternalApps,  \* apps of an added source
  MaxInstalls,   \* bound: installs begun
  MaxRequests,   \* bound: starts and uninstalls asked for on their own
  MaxFailures    \* bound: steps that fail

VARIABLES
  rows,      \* Suite Manager's record of each app: its instance, and whether it was applied
  packages,  \* instances whose package is on disk
  secrets,   \* instances whose secret files are on disk
  docker,    \* of each app, the instance its container and its volume belong to
  routes,    \* the routes file: the apps it serves
  candidate, \* the file Caddy is asked to validate
  before,    \* the copy a failed change is undone from
  work,      \* the requests under way
  crowded,   \* history: apps whose requests, or whose routes, were worked on two at a time
  spent      \* how much of each bound is used

installVars == <<rows, packages, secrets, docker, routes, candidate, before, work, crowded, spent>>
caddyFiles  == <<routes, candidate, before>>
records     == <<rows, secrets>>

Apps      == OfficialApps \cup ExternalApps
Slots     == {1, 2}
Nobody    == 0
Instances == 1..MaxInstalls
NoFile    == [there |-> FALSE, serves |-> {}]
File(apps) == [there |-> TRUE, serves |-> apps]
Idle      == [kind |-> "none", pc |-> "none", job |-> FALSE, app |-> CHOOSE a \in Apps : TRUE,
              inst |-> Nobody, next |-> {}]

InstallTypeOK ==
  /\ rows \in [Apps -> [inst : Instances \cup {Nobody}, applied : BOOLEAN]]
  /\ packages \subseteq Instances /\ secrets \subseteq Instances
  /\ docker \in [Apps -> [run : Instances \cup {Nobody}, volume : Instances \cup {Nobody}]]
  /\ routes \subseteq Apps /\ candidate.serves \subseteq Apps /\ before.serves \subseteq Apps
  /\ \A s \in Slots : work[s].kind = "none" <=> work[s] = Idle

InstallInit ==
  /\ rows = [a \in Apps |-> [inst |-> Nobody, applied |-> FALSE]]
  /\ packages = {} /\ secrets = {}
  /\ docker = [a \in Apps |-> [run |-> Nobody, volume |-> Nobody]]
  /\ routes = {} /\ candidate = NoFile /\ before = NoFile
  /\ work = [s \in Slots |-> Idle]
  /\ crowded = {}
  /\ spent = [install |-> 0, request |-> 0, failure |-> 0]

Installed(a)   == rows[a].inst # Nobody
Under(a)       == {s \in Slots : work[s].kind # "none" /\ work[s].app = a}
At(s, pc)      == work[s].kind # "none" /\ work[s].pc = pc
Goes(s, pc)    == work' = [work EXCEPT ![s].pc = pc]
Ends(s)        == work' = [work EXCEPT ![s] = Idle]
Spend(bound, max) == spent[bound] < max /\ spent' = [spent EXCEPT ![bound] = @ + 1]
Fails          == Spend("failure", MaxFailures)

\* Two requests for one app at once, and two changes of the routes file at once.
InRoutes(s) == work[s].pc \in {"validate", "write", "reload"}
Crowds(a)   == crowded' = IF Under(a) # {} THEN crowded \cup {a} ELSE crowded
CrowdsRoutes(s) ==
  crowded' = IF \E r \in Slots \ {s} : InRoutes(r) THEN Apps ELSE crowded

(***************************************************************************)
(* Suite Manager.                                                          *)
(***************************************************************************)
\* One install job to an app; an install asked for directly has no key at all.
\* An app that is installed answers with what is there, and a job goes on to start it.
JobRunning(a) == \E r \in Under(a) : work[r].job
Begins(s, a, job) ==
  /\ work[s] = Idle /\ Spend("install", MaxInstalls)
  /\ work' = [work EXCEPT ![s] = [Idle EXCEPT !.kind = "install", !.job = job, !.app = a,
                !.inst = spent.install + 1, !.pc = IF Installed(a) THEN "installed" ELSE "snapshot"]]
  /\ Crowds(a)
  /\ UNCHANGED <<records, packages, docker, caddyFiles>>

BeginInstall(s, a)    == ~Installed(a) /\ a \in OfficialApps /\ Begins(s, a, FALSE)
BeginInstallJob(s, a) == (Installed(a) \/ a \in OfficialApps) /\ ~JobRunning(a) /\ Begins(s, a, TRUE)
BeginExternalInstall(s, a) == ~Installed(a) /\ a \in ExternalApps /\ Begins(s, a, FALSE)

\* The agent copies the package and verifies the copy, or keeps nothing of it.
Snapshot(s) ==
  /\ At(s, "snapshot")
  /\ \/ packages' = packages \cup {work[s].inst} /\ Goes(s, "record") /\ UNCHANGED spent
     \/ Fails /\ Ends(s) /\ UNCHANGED packages
  /\ UNCHANGED <<records, docker, caddyFiles, crowded>>

\* The last step every install shares, one transaction after the secret files:
\* it fails on the owner's input, or because another install of the app was
\* first.  Only an official package is then disowned; it is by the app's name
\* that the agent is asked.
DisownSecrets(a, i) == secrets' = secrets \ {i}
InstallAppInstance(a, i) == rows' = [rows EXCEPT ![a] = [inst |-> i, applied |-> FALSE]]
Disowns(a) == a \in OfficialApps

CompleteInstall(s) ==
  LET a == work[s].app i == work[s].inst IN
  /\ At(s, "record")
  /\ \/ /\ ~Installed(a)
        /\ InstallAppInstance(a, i) /\ secrets' = secrets \cup {i}
        /\ work' = [work EXCEPT ![s] = IF @.job THEN [@ EXCEPT !.pc = "installed"] ELSE Idle]
        /\ UNCHANGED spent
     \/ /\ UNCHANGED rows /\ DisownSecrets(a, i)
        /\ work' = [work EXCEPT ![s] = IF Disowns(a) THEN [@ EXCEPT !.pc = "containers"] ELSE Idle]
        /\ \/ Installed(a) /\ UNCHANGED spent
           \/ ~Installed(a) /\ Fails
  /\ UNCHANGED <<packages, docker, caddyFiles, crowded>>

\* The job's second step, skipped when the runtime is applied already.
StartsAfterInstall(s) ==
  LET a == work[s].app IN
  /\ At(s, "installed")
  /\ \/ /\ Installed(a) /\ ~rows[a].applied /\ ~\E r \in Under(a) : work[r].kind = "start"
        /\ work' = [work EXCEPT ![s].kind = "start", ![s].inst = rows[a].inst, ![s].pc = "build"]
     \/ /\ \/ ~Installed(a) \/ rows[a].applied
           \/ \E r \in Under(a) : work[r].kind = "start"
        /\ Ends(s)
  /\ UNCHANGED <<records, packages, docker, caddyFiles, crowded, spent>>

\* A start has a key of its own, which gates neither a stop nor an uninstall.
BeginStart(s, a) ==
  /\ work[s] = Idle /\ Installed(a) /\ Spend("request", MaxRequests)
  /\ ~\E r \in Under(a) : work[r].kind = "start"
  /\ work' = [work EXCEPT ![s] = [Idle EXCEPT !.kind = "start", !.app = a, !.inst = rows[a].inst, !.pc = "build"]]
  /\ Crowds(a)
  /\ UNCHANGED <<records, packages, docker, caddyFiles>>

BeginUninstall(s, a) ==
  /\ work[s] = Idle /\ Installed(a) /\ Spend("request", MaxRequests)
  /\ ~\E r \in Under(a) : work[r].kind = "uninstall"
  /\ work' = [work EXCEPT ![s] = [Idle EXCEPT !.kind = "uninstall", !.app = a, !.inst = rows[a].inst, !.pc = "containers"]]
  /\ Crowds(a)
  /\ UNCHANGED <<records, packages, docker, caddyFiles>>

\* What the agent did is recorded: of an instance that is gone, nothing is.
RecordsApplied(s) ==
  LET a == work[s].app IN
  /\ At(s, "applied") /\ Ends(s)
  /\ rows' = IF rows[a].inst = work[s].inst THEN [rows EXCEPT ![a].applied = TRUE] ELSE rows
  /\ UNCHANGED <<secrets, packages, docker, caddyFiles, crowded, spent>>

DeletesInstance(s) ==
  LET a == work[s].app IN
  /\ At(s, "delete") /\ Ends(s)
  /\ secrets' = secrets \ {work[s].inst}
  /\ rows' = IF rows[a].inst = work[s].inst THEN [rows EXCEPT ![a] = [inst |-> Nobody, applied |-> FALSE]] ELSE rows
  /\ UNCHANGED <<packages, docker, caddyFiles, crowded, spent>>

(***************************************************************************)
(* The agent: applying.                                                    *)
(***************************************************************************)
BuildsImages(s) ==
  /\ At(s, "build")
  /\ \/ work[s].inst \in packages /\ Goes(s, "run") /\ UNCHANGED spent
     \/ work[s].inst \notin packages /\ Ends(s) /\ UNCHANGED spent
     \/ work[s].inst \in packages /\ Fails /\ Ends(s)
  /\ UNCHANGED <<records, packages, docker, caddyFiles, crowded>>

\* A volume is created for the instance; one left by another is refused, after
\* the containers that ran are gone.  One that does not become healthy runs on.
StaleVolume(s) == docker[work[s].app].volume \notin {Nobody, work[s].inst}
RunsContainers(s) ==
  LET a == work[s].app stale == StaleVolume(s) IN
  /\ At(s, "run")
  /\ \/ /\ ~stale /\ UNCHANGED spent
        /\ docker' = [docker EXCEPT ![a] = [run |-> work[s].inst, volume |-> work[s].inst]]
        /\ Goes(s, "routes")
     \/ stale /\ UNCHANGED spent /\ docker' = [docker EXCEPT ![a].run = Nobody] /\ Ends(s)
     \/ /\ ~stale /\ Fails /\ Ends(s)
        /\ \E run \in {Nobody, work[s].inst} : docker' = [docker EXCEPT ![a] = [run |-> run, volume |-> work[s].inst]]
  /\ UNCHANGED <<records, packages, caddyFiles, crowded>>

(***************************************************************************)
(* The agent: one app's block of the routes file, put in or taken out.     *)
(***************************************************************************)
AppliesTo(s) == IF work[s].kind = "start" THEN routes \cup {work[s].app} ELSE routes \ {work[s].app}
AfterRoutes(s) == IF work[s].kind = "start" THEN "applied" ELSE "discard"

ReadsRoutes(s) ==
  /\ At(s, "routes")
  /\ \/ AppliesTo(s) = routes /\ Goes(s, AfterRoutes(s)) /\ UNCHANGED candidate
     \/ /\ AppliesTo(s) # routes
        /\ work' = [work EXCEPT ![s].next = AppliesTo(s), ![s].pc = "validate"]
        /\ candidate' = File(AppliesTo(s))
  /\ CrowdsRoutes(s)
  /\ UNCHANGED <<records, packages, docker, routes, before, spent>>

\* A failed change is undone from the copy, whoever made it; without one it is left.
Undone(s) == routes' = IF before.there THEN before.serves ELSE routes

ValidatesRoutes(s) ==
  /\ At(s, "validate")
  /\ candidate' = NoFile
  /\ \/ candidate.there /\ Goes(s, "write") /\ UNCHANGED <<routes, spent>>
     \/ candidate.there /\ Fails /\ Ends(s) /\ Undone(s)
     \/ ~candidate.there /\ UNCHANGED spent /\ Ends(s) /\ Undone(s)
  /\ CrowdsRoutes(s)
  /\ UNCHANGED <<records, packages, docker, before>>

WritesRoutes(s) ==
  /\ At(s, "write") /\ Goes(s, "reload")
  /\ before' = File(routes) /\ routes' = work[s].next
  /\ CrowdsRoutes(s)
  /\ UNCHANGED <<records, packages, docker, candidate, spent>>

ReloadsCaddy(s) ==
  /\ At(s, "reload")
  /\ \/ Goes(s, AfterRoutes(s)) /\ before' = NoFile /\ UNCHANGED <<routes, spent>>
     \/ Fails /\ Ends(s) /\ Undone(s) /\ UNCHANGED before
  /\ CrowdsRoutes(s)
  /\ UNCHANGED <<records, packages, docker, candidate>>

(***************************************************************************)
(* The agent: removing an app, or what an install disowns.                 *)
(***************************************************************************)
RemovesContainers(s) ==
  LET a == work[s].app IN
  /\ At(s, "containers")
  /\ docker' = [docker EXCEPT ![a].run = Nobody]
  /\ Goes(s, IF work[s].kind = "uninstall" THEN "volumes" ELSE "routes")
  /\ UNCHANGED <<records, packages, caddyFiles, crowded, spent>>

\* Docker keeps a volume a container uses, and the uninstall ends there.
RemovesVolumes(s) ==
  LET a == work[s].app IN
  /\ At(s, "volumes")
  /\ \/ docker[a].run = Nobody /\ docker' = [docker EXCEPT ![a].volume = Nobody] /\ Goes(s, "routes") /\ UNCHANGED spent
     \/ docker[a].run # Nobody /\ Ends(s) /\ UNCHANGED <<docker, spent>>
     \/ Fails /\ Ends(s) /\ UNCHANGED docker
  /\ UNCHANGED <<records, packages, caddyFiles, crowded>>

\* Last, the package of that instance alone.
DiscardSnapshot(s) ==
  /\ At(s, "discard")
  /\ packages' = packages \ {work[s].inst}
  /\ work' = [work EXCEPT ![s] = IF @.kind = "uninstall" THEN [@ EXCEPT !.pc = "delete"] ELSE Idle]
  /\ UNCHANGED <<records, docker, caddyFiles, crowded, spent>>

WorkStep(s) ==
  \/ Snapshot(s) \/ CompleteInstall(s) \/ StartsAfterInstall(s) \/ RecordsApplied(s) \/ DeletesInstance(s)
  \/ BuildsImages(s) \/ RunsContainers(s) \/ ReadsRoutes(s) \/ ValidatesRoutes(s) \/ WritesRoutes(s) \/ ReloadsCaddy(s)
  \/ RemovesContainers(s) \/ RemovesVolumes(s) \/ DiscardSnapshot(s)

InstallNext ==
  \E s \in Slots :
    \/ \E a \in Apps : BeginInstall(s, a) \/ BeginInstallJob(s, a) \/ BeginExternalInstall(s, a) \/ BeginStart(s, a) \/ BeginUninstall(s, a)
    \/ WorkStep(s)

InstallSpec == InstallInit /\ [][InstallNext]_installVars

(***************************************************************************)
(* Properties.                                                             *)
(***************************************************************************)
\* Whatever failed or overlapped, an installed app nothing is done to has its
\* package and its secrets, and once its runtime is recorded as applied, the
\* containers and the volume under its name, if an uninstall that failed has left
\* it any, are its own instance's and not another's.  Its address then answers
\* too, unless two requests changed the routes file at once, which every app
\* shares, or worked on the app at once: the code takes no lock for either.
InstalledIsWhole ==
  \A a \in Apps : Installed(a) /\ Under(a) = {} =>
    /\ rows[a].inst \in packages /\ rows[a].inst \in secrets
    /\ rows[a].applied => {docker[a].run, docker[a].volume} \subseteq {Nobody, rows[a].inst}
    /\ (rows[a].applied /\ a \notin crowded) => a \in routes

\* Uninstalling returns the app to a fresh installable state: nothing runs, is
\* served, or is kept under its name.
UninstalledIsFresh ==
  \A a \in Apps : ~Installed(a) /\ Under(a) = {} =>
    docker[a] = [run |-> Nobody, volume |-> Nobody] /\ a \notin routes
=============================================================================
