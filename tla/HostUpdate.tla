----------------------------- MODULE HostUpdate -----------------------------
(***************************************************************************)
(* What a managed update does to the machine once its backup is taken: the *)
(* checkout moves, the packages are installed anew, the pages are built    *)
(* beside those being served, and reconciliation writes what the host runs *)
(* and restarts it, service by service.  Every service runs from the       *)
(* checkout, so one that starts early starts on whatever lies there.  The  *)
(* check behind the Updates screen asks the checkout, not the services.  A *)
(* browser tab holds the whole screen until the update is over.            *)
(***************************************************************************)
EXTENDS Naturals, Sequences, FiniteSets

CONSTANTS
    Commits,      \* 1..n, in the order they were made
    Version,      \* the VERSION file of each commit
    Unshipped,    \* commits that changed nothing a machine receives
    Tracks,       \* the update tracks; "stable" names published releases
    Services,     \* in the order reconciliation restarts them
    NoCommit,
    MaxPublishes, \* bound: times a track moves on
    MaxSwitches,  \* bound: times the owner changes track
    MaxUpdates,   \* bound: updates started
    MaxFailures,  \* bound: steps and lookups that fail
    MaxCrashes,   \* bound: services that crash
    MaxReboots    \* bound: power cuts

ASSUME CommitsAssumption ==
    /\ Commits \subseteq Nat \ {0} /\ NoCommit \notin Commits
    /\ \E first \in Commits : \A c \in Commits : first <= c

VARIABLES
    origin,   \* what each track offers
    track,    \* the track this machine follows
    disk,     \* the checkout, its packages, the two builds, and what the host was given
    runs,     \* the commit each service was started on
    job,      \* the update: its step, the release it is for, what is left to restart
    seen,     \* the last check: what it found, and what it compared
    tab,      \* a page: the build it loaded, what holds it
    count     \* what the bounds count, and the number of the update

updateVars == <<origin, track, disk, runs, job, seen, tab, count>>

ServiceSet == {Services[i] : i \in 1 .. Len(Services)}
ASSUME ServicesAssumption == Services \in Seq(ServiceSet) /\ "manager" \in ServiceSet

NoBuild == [of |-> NoCommit, whole |-> FALSE]
Build(c) == [of |-> c, whole |-> TRUE]
NoJob == [step |-> "none", status |-> "none", target |-> NoCommit, left |-> <<>>]
Active == job.status = "running"

Init ==
    LET c == CHOOSE c \in Commits : \A d \in Commits : c <= d IN
    /\ origin = [t \in Tracks |-> c]
    /\ track \in Tracks
    /\ disk = [head |-> c, deps |-> c, next |-> NoBuild, dist |-> Build(c),
               caddy |-> c, engine |-> c, units |-> c, door |-> c, dirty |-> FALSE]
    /\ runs = [s \in ServiceSet |-> c]
    /\ job = NoJob
    /\ seen = [available |-> "unknown", head |-> c, track |-> track, latest |-> NoCommit]
    /\ tab = [build |-> c, phase |-> "idle", job |-> 0]
    /\ count = [publishes |-> 0, switches |-> 0, updates |-> 0, failures |-> 0, crashes |-> 0, reboots |-> 0]

-----------------------------------------------------------------------------
(* The check.  A release track compares version numbers, a branch track    *)
(* commits, of which one that changes nothing shipped is no update.        *)
IsRelease(c) == \A d \in Commits : Version[d] = Version[c] => c <= d

Publish(t, c) ==
    /\ count.publishes < MaxPublishes /\ c > origin[t]
    /\ t = "stable" => IsRelease(c)
    /\ origin' = [origin EXCEPT ![t] = c]
    /\ count' = [count EXCEPT !.publishes = @ + 1]
    /\ UNCHANGED <<track, disk, runs, job, seen, tab>>

ChangesShippedCode(from, to) == \E c \in Commits \ Unshipped : (from < c /\ c <= to) \/ (to < c /\ c <= from)
IsNewer(t, head, latest) ==
    IF t = "stable" THEN Version[latest] # Version[head]
    ELSE head # latest /\ ChangesShippedCode(head, latest)
CheckFailed == "unknown"
Lookup(t, fails) == IF fails THEN NoCommit ELSE origin[t]
StatusOf(t, latest) ==
    [available |-> IF latest = NoCommit THEN CheckFailed
                   ELSE IF IsNewer(t, disk.head, latest) THEN "yes" ELSE "no",
     head |-> disk.head, track |-> t, latest |-> latest]
CollectStatus(fails) == StatusOf(track, Lookup(track, fails))

MayFail(fails) == fails => count.failures < MaxFailures
Failures(fails) == IF fails THEN count.failures + 1 ELSE count.failures

Serves(s) == runs[s] # NoCommit

(* The Updates screen asks; while an update runs it is given the last check.*)
CheckAgain(fails) ==
    /\ ~ Active /\ Serves("manager") /\ Serves("agents") /\ MayFail(fails)
    /\ seen' = CollectStatus(fails)
    /\ seen' # seen
    /\ count' = [count EXCEPT !.failures = Failures(fails)]
    /\ UNCHANGED <<origin, track, disk, runs, job, tab>>

(* What the screen leads with.                                             *)
Headline ==
    IF Active THEN "Updating"
    ELSE CASE seen.available = "unknown" -> "Could not check for updates"
           [] seen.available = "yes" -> "An update is available"
           [] OTHER -> "You're up to date"

WriteUpdateTrack(t) == track' = t
SwitchTrack(t) ==
    /\ count.switches < MaxSwitches /\ ~ Active /\ t # track
    /\ Serves("manager") /\ Serves("agents")
    /\ WriteUpdateTrack(t)
    /\ seen' = StatusOf(t, Lookup(t, FALSE))
    /\ count' = [count EXCEPT !.switches = @ + 1]
    /\ UNCHANGED <<origin, disk, runs, job, tab>>

StartUpdate ==
    /\ count.updates < MaxUpdates /\ ~ Active
    /\ Serves("manager") /\ Serves("agents") /\ tab.phase = "idle"
    /\ CollectStatus(FALSE).available = "yes"
    /\ seen' = CollectStatus(FALSE)
    /\ job' = [NoJob EXCEPT !.step = "clean", !.status = "running"]
    /\ count' = [count EXCEPT !.updates = @ + 1]
    /\ UNCHANGED <<origin, track, disk, runs, tab>>

-----------------------------------------------------------------------------
(* The worker, a unit of its own, so restarting the agent leaves it alone. *)
Order == <<"clean", "check", "checkout", "deps", "installing", "build", "building",
           "pages", "binary", "host", "units", "door", "restart", "finish">>
After(step) == LET i == CHOOSE i \in 1 .. Len(Order) : Order[i] = step IN Order[i + 1]
AtStep(step) == Active /\ job.step = step
Advanced == [job EXCEPT !.step = After(job.step)]
FailJob == job' = [job EXCEPT !.status = "failed"]
Proceeds == job' = Advanced

(* A step that fails ends the update where it stands: nothing is put back. *)
Fail ==
    /\ Active /\ count.failures < MaxFailures
    /\ job.step \in {"clean", "checkout", "installing", "building", "binary", "units",
                    "door", "restart"}
    /\ FailJob
    /\ count' = [count EXCEPT !.failures = @ + 1]
    /\ UNCHANGED <<origin, track, disk, runs, seen, tab>>

(* npm leaves a changed lockfile; that one file is put back, no other.     *)
EnsureCleanWorkingTree ==
    /\ AtStep("clean")
    /\ disk' = [disk EXCEPT !.dirty = FALSE]
    /\ Proceeds
    /\ UNCHANGED <<origin, track, runs, seen, tab, count>>

CheckBeforeApply(fails) ==
    /\ AtStep("check") /\ MayFail(fails)
    /\ LET status == CollectStatus(fails) IN
        /\ seen' = status
        /\ IF status.available = "yes"
           THEN job' = [Advanced EXCEPT !.target = status.latest]
           ELSE FailJob
    /\ count' = [count EXCEPT !.failures = Failures(fails)]
    /\ UNCHANGED <<origin, track, disk, runs, tab>>

(* A release is the tag the check named; a branch is fetched once more, so *)
(* it is wherever the branch has got to.                                   *)
Fetched == IF track = "stable" THEN job.target ELSE origin[track]
Checkout ==
    /\ AtStep("checkout")
    /\ disk' = [disk EXCEPT !.head = Fetched]
    /\ job' = [Advanced EXCEPT !.target = Fetched]
    /\ UNCHANGED <<origin, track, runs, seen, tab, count>>

(* npm ci removes what is installed before it installs.                    *)
InstallBegins ==
    /\ AtStep("deps")
    /\ disk' = [disk EXCEPT !.deps = NoCommit]
    /\ Proceeds
    /\ UNCHANGED <<origin, track, runs, seen, tab, count>>

InstallEnds ==
    /\ AtStep("installing")
    /\ disk' = [disk EXCEPT !.deps = disk.head, !.dirty = TRUE]
    /\ Proceeds
    /\ UNCHANGED <<origin, track, runs, seen, tab, count>>

Partial(c) == [of |-> c, whole |-> FALSE]
OutDir(next) == [disk EXCEPT !.next = next]

BuildBegins ==
    /\ AtStep("build")
    /\ disk' = OutDir(Partial(disk.head))
    /\ Proceeds
    /\ UNCHANGED <<origin, track, runs, seen, tab, count>>

BuildEnds ==
    /\ AtStep("building")
    /\ disk' = OutDir(Build(disk.head))
    /\ Proceeds
    /\ UNCHANGED <<origin, track, runs, seen, tab, count>>

-----------------------------------------------------------------------------
(* A service starts on the checkout as it is.  Suite Manager needs its     *)
(* packages, and first swaps in a new build that is complete.              *)
CompleteUnchecked(build) == build # NoBuild
Complete(build) == build.whole
Promoted(d) ==
    IF d.next = NoBuild \/ ~ Complete(d.next) THEN d
    ELSE [d EXCEPT !.dist = d.next, !.next = NoBuild]

Starts(s, d) == IF s = "manager" /\ d.deps = NoCommit THEN NoCommit
                ELSE IF s = "caddy" THEN d.caddy ELSE d.head
DiskAfter(s) == IF s = "manager" THEN Promoted(disk) ELSE disk
Restarted(s) == runs' = [runs EXCEPT ![s] = Starts(s, disk)] /\ disk' = DiskAfter(s)

CrashService(s) ==
    /\ count.crashes < MaxCrashes /\ Serves(s)
    /\ Restarted(s)
    /\ count' = [count EXCEPT !.crashes = @ + 1]
    /\ UNCHANGED <<origin, track, job, seen, tab>>

(* systemd tries again every three seconds.                                *)
StartAgain(s) ==
    /\ ~ Serves(s) /\ Starts(s, disk) # NoCommit
    /\ Restarted(s)
    /\ UNCHANGED <<origin, track, job, seen, tab, count>>

(* A power cut.  Everything starts again but the update, which the agent   *)
(* finds without its unit and marks failed.                                *)
Reboot ==
    /\ count.reboots < MaxReboots
    /\ disk' = Promoted(disk)
    /\ runs' = [s \in ServiceSet |-> Starts(s, disk)]
    /\ job' = IF Active THEN [job EXCEPT !.status = "failed"] ELSE job
    /\ count' = [count EXCEPT !.reboots = @ + 1]
    /\ UNCHANGED <<origin, track, seen, tab>>

-----------------------------------------------------------------------------
(* scripts/reconcile-system.cjs, run by the new checkout.                  *)
MissingPages == disk.next # NoBuild /\ ~ disk.next.whole
ReconcilePages ==
    /\ AtStep("pages")
    /\ IF MissingPages THEN FailJob ELSE Proceeds
    /\ UNCHANGED <<origin, track, disk, runs, seen, tab, count>>

(* What a machine without a network goes on without: Node, the backup      *)
(* engine, Ubuntu's patching.  A Node that apt replaces restarts nothing.  *)
RefreshHost(fails) ==
    /\ AtStep("host") /\ MayFail(fails)
    /\ disk' = IF fails THEN disk ELSE [disk EXCEPT !.engine = disk.head]
    /\ Proceeds
    /\ count' = [count EXCEPT !.failures = Failures(fails)]
    /\ UNCHANGED <<origin, track, runs, seen, tab>>

(* The new binary replaces the old once it names every module it needs.    *)
RefreshCaddyBinary ==
    /\ AtStep("binary")
    /\ disk' = [disk EXCEPT !.caddy = disk.head]
    /\ Proceeds
    /\ UNCHANGED <<origin, track, runs, seen, tab, count>>

WriteUnits ==
    /\ AtStep("units")
    /\ disk' = [disk EXCEPT !.units = disk.head]
    /\ Proceeds
    /\ UNCHANGED <<origin, track, runs, seen, tab, count>>

(* Written beside the installed one, and put in its place once the binary  *)
(* accepts it.                                                             *)
RenderInstalledCaddyfile ==
    /\ AtStep("door")
    /\ disk' = [disk EXCEPT !.door = disk.head]
    /\ job' = [Advanced EXCEPT !.left = Services]
    /\ UNCHANGED <<origin, track, runs, seen, tab, count>>

RestartNext ==
    /\ AtStep("restart") /\ job.left # <<>>
    /\ Restarted(Head(job.left))
    /\ job' = IF Len(job.left) = 1 THEN [Advanced EXCEPT !.left = <<>>] ELSE [job EXCEPT !.left = Tail(@)]
    /\ UNCHANGED <<origin, track, seen, tab, count>>

Finish(fails) ==
    /\ AtStep("finish") /\ MayFail(fails)
    /\ seen' = CollectStatus(fails)
    /\ job' = [job EXCEPT !.status = "succeeded", !.step = "none"]
    /\ count' = [count EXCEPT !.failures = Failures(fails)]
    /\ UNCHANGED <<origin, track, disk, runs, tab>>

-----------------------------------------------------------------------------
(* The page.  While it is held nothing on it can be used; an unanswered    *)
(* question means MOS is restarting, not that the update is over.          *)
Answered == Serves("manager") /\ Serves("agents")
Holding == tab.phase \in {"running", "reconnecting"}
OutcomeHeld(status) == CASE status = "succeeded" -> "done" [] status = "failed" -> "running" [] OTHER -> "idle"
Outcome(status) == CASE status = "succeeded" -> "done" [] status = "failed" -> "failed" [] OTHER -> "idle"

NextHoldUnanswered(holding) == IF holding THEN "reconnecting" ELSE "idle"
NextHold(phase, holding) ==
    IF ~ Answered THEN NextHoldUnanswered(holding)
    ELSE IF Active THEN "running"
    ELSE IF ~ holding THEN phase
    ELSE IF tab.job # count.updates THEN "idle"
    ELSE Outcome(job.status)

Poll ==
    /\ tab.phase \in {"idle", "running", "reconnecting"}
    /\ tab' = [tab EXCEPT !.phase = NextHold(tab.phase, Holding),
                          !.job = IF Answered /\ Active THEN count.updates ELSE @]
    /\ tab' # tab
    /\ UNCHANGED <<origin, track, disk, runs, job, seen, count>>

BuildChanged == Serves("manager") /\ disk.dist.of # tab.build
Loaded == [tab EXCEPT !.build = disk.dist.of, !.phase = "idle"]

(* A page that waits for MOS to come back loads the new pages as soon as   *)
(* they are served, whatever the update says of itself.                    *)
Reconnect ==
    /\ tab.phase = "reconnecting" /\ BuildChanged
    /\ tab' = Loaded
    /\ UNCHANGED <<origin, track, disk, runs, job, seen, count>>

(* Once done, the pages are loaded again unless they are the same, or the  *)
(* question which are served goes unanswered.                              *)
Reload(unread) ==
    /\ tab.phase = "done" /\ (unread => count.failures < MaxFailures)
    /\ tab' = IF BuildChanged /\ ~ unread THEN Loaded ELSE [tab EXCEPT !.phase = "idle"]
    /\ count' = [count EXCEPT !.failures = Failures(unread)]
    /\ UNCHANGED <<origin, track, disk, runs, job, seen>>

Dismiss ==
    /\ tab.phase = "failed"
    /\ tab' = [tab EXCEPT !.phase = "idle"]
    /\ UNCHANGED <<origin, track, disk, runs, job, seen, count>>

-----------------------------------------------------------------------------
Worker ==
    \/ EnsureCleanWorkingTree \/ CheckBeforeApply(FALSE) \/ Checkout
    \/ InstallBegins \/ InstallEnds \/ BuildBegins \/ BuildEnds
    \/ ReconcilePages \/ RefreshCaddyBinary \/ RefreshHost(FALSE) \/ WriteUnits
    \/ RenderInstalledCaddyfile \/ RestartNext \/ Finish(FALSE)

Page == Poll \/ Reconnect \/ Reload(FALSE)

Next ==
    \/ \E t \in Tracks, c \in Commits : Publish(t, c)
    \/ \E fails \in BOOLEAN : CheckAgain(fails)
    \/ \E t \in Tracks : SwitchTrack(t)
    \/ StartUpdate
    \/ Fail
    \/ EnsureCleanWorkingTree
    \/ \E fails \in BOOLEAN : CheckBeforeApply(fails)
    \/ Checkout
    \/ InstallBegins
    \/ InstallEnds
    \/ BuildBegins
    \/ BuildEnds
    \/ \E s \in ServiceSet : CrashService(s)
    \/ \E s \in ServiceSet : StartAgain(s)
    \/ Reboot
    \/ ReconcilePages
    \/ RefreshCaddyBinary
    \/ \E fails \in BOOLEAN : RefreshHost(fails)
    \/ WriteUnits
    \/ RenderInstalledCaddyfile
    \/ RestartNext
    \/ \E fails \in BOOLEAN : Finish(fails)
    \/ Poll
    \/ Reconnect
    \/ \E unread \in BOOLEAN : Reload(unread)
    \/ Dismiss

Spec == Init /\ [][Next]_updateVars

(* The worker's unit runs on, systemd starts what is down, and an open     *)
(* page polls on its timer.                                                *)
FairSpec ==
    /\ Spec
    /\ WF_updateVars(Worker)
    /\ \A s \in ServiceSet : WF_updateVars(StartAgain(s))
    /\ WF_updateVars(Page)

-----------------------------------------------------------------------------
(* An update that reports success left every service, the pages and what   *)
(* the host was given at the commit that was checked out.                  *)
SuccessIsWhole ==
    job.status = "succeeded" =>
        /\ \A s \in ServiceSet : runs[s] = disk.head
        /\ disk.dist = Build(disk.head) /\ disk.next = NoBuild
        /\ disk.deps = disk.head
        /\ {disk.caddy, disk.units, disk.door} = {disk.head}

(* Whatever was cut off, the pages being served are complete, and Caddy    *)
(* was never given a file a later commit rendered than its binary's, as    *)
(* long as the owner stays on one track: a switch can take the machine     *)
(* back, and the binary goes back before the file does.                    *)
PagesAreWhole ==
    /\ disk.dist.whole
    /\ count.switches = 0 => disk.door <= disk.caddy

(* frontend-release.cjs:24-25: "a running server never hands out pages     *)
(* newer than itself".  On one track, for the same reason.                 *)
PagesAreNotNewer ==
    Serves("manager") /\ count.switches = 0 => disk.dist.of <= runs["manager"]

(* A page that is not held works with the server it talks to, unless the   *)
(* server was replaced without the page ever seeing an update.             *)
UsablePages == tab.phase = "idle" /\ Serves("manager") /\ tab.job = count.updates /\ ~ Active => ~ BuildChanged

MachineIsSound == SuccessIsWhole /\ PagesAreWhole /\ PagesAreNotNewer

(* The Updates screen says "You're up to date" only of a machine that runs *)
(* what it was compared with.                                              *)
UpToDateIsTrue ==
    Headline = "You're up to date" /\ seen.head = disk.head =>
        \A s \in ServiceSet : runs[s] = disk.head

(* The update tracks: "Stable releases" is a machine on a published release.*)
StableIsARelease ==
    Headline = "You're up to date" /\ seen.track = "stable" => seen.head = seen.latest

(* A held page is let go, unless the update was cut off between removing   *)
(* the packages and installing them, and Suite Manager cannot start.       *)
HoldEnds == Holding ~> (~ Holding \/ disk.deps = NoCommit)

(* Suite Manager comes back, whenever the update was cut off.              *)
ManagerReturns == ~ Serves("manager") ~> Serves("manager")
=============================================================================
