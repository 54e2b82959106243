---------------------------- MODULE HostPatches ----------------------------
(***************************************************************************)
(* Ubuntu's own security patches on the machine MOS runs on.  The files in *)
(* apt.conf.d are read in name order: the distro's, an owner's file that   *)
(* sorts before MOS's or after them, MOS's policy (52mos) and MOS's hold  *)
(* list (53mos).  applyHostPatching writes the policy in every managed     *)
(* update or records why it did not; Suite Manager carries the signed hold *)
(* list to the update agent; unattended-upgrades installs; the post-patch  *)
(* check writes down whether the suite came back; the owner restarts.      *)
(***************************************************************************)
EXTENDS Naturals

CONSTANTS
  Packages,      \* the Ubuntu packages a newer version can wait for
  SecurityOnes,  \* those whose newer version is in the security pocket
  Kernels,       \* those that ask for a restart once installed
  Units,         \* the units MOS looks at
  Absent,        \* those this machine never had a file for
  OwnerHolds,    \* the packages an owner's own file blacklists
  Starts         \* what a machine starts with: its files and its record, and the budget
                 \* that bounds updates, edits, feeds, runs, reboots and failures

NoList == {"no list"}   \* 53mos-package-holds is not there
NoHealth == [ok |-> FALSE, failures |-> {"no verdict"}]

VARIABLES
  apt,      \* the files of apt.conf.d: distro, other (the owner's), policy, holds
  record,   \* enablement.json: who MOS decided runs the policy
  feed,     \* the signed advisories Suite Manager holds: revision, held
  pushed,   \* pushedAdvisoryRevision of the running Suite Manager, 0 for none
  waiting,  \* packages with a newer version on the lists already fetched
  log,      \* unattended-upgrades.log: what its readers make of it, and its last line
  needed,   \* reboot-required.pkgs
  units,    \* what systemd says of each unit
  check,    \* the post-patch check: "idle" or "settling"
  health,   \* health.json
  job,      \* what holds the machine: "idle", "update", "backup"
  armed,    \* the transient unit that reboots in five seconds
  seen,     \* what the Updates screen last read of the host
  count,    \* what is left of the budget
  ghost     \* for the properties: see GhostInit

vars == <<apt, record, feed, pushed, waiting, log, needed, units, check, health,
          job, armed, seen, count, ghost>>

GhostInit(r) == [ever |-> r = "mos",        \* MOS took the policy on while nobody else ran it
                 handed |-> FALSE,          \* a record became "mos" since the last push
                 installed |-> {},          \* what the last run that finished installed
                 edited |-> FALSE,          \* the owner changed the files
                 own |-> FALSE,             \* a reboot nobody asked for
                 cut |-> FALSE]             \* a reboot under an update or a backup

(* What apt makes of the files, in the order it reads them. *)
OwnerPockets == {"security", "updates"}
DistroPockets == [absent |-> {}, stock |-> {"security"}, edited |-> OwnerPockets]

Origins(a) ==
  (IF a.policy THEN {"security"}
   ELSE DistroPockets[a.distro] \cup (IF a.other = "before" THEN OwnerPockets ELSE {}))
  \cup (IF a.other = "after" THEN OwnerPockets ELSE {})

AutomaticReboot(a) ==
  \/ a.other = "after"
  \/ ~a.policy /\ (a.other = "before" \/ a.distro = "edited")

Blacklist(a) ==
  (IF a.holds # NoList THEN a.holds
   ELSE IF a.other = "before" THEN OwnerHolds ELSE {})
  \cup (IF a.other = "after" THEN OwnerHolds ELSE {})

(* Without MOS's two files: what the owner set down. *)
OwnersOwn(a) == [a EXCEPT !.policy = FALSE, !.holds = NoList]

PocketOf(p) == IF p \in SecurityOnes THEN "security" ELSE "updates"
Installable(a) == {p \in waiting : PocketOf(p) \in Origins(a)} \ Blacklist(a)

OwnerManagedReason(a) == a.distro = "edited" \/ a.other # "none"

(* parseUnattendedLog goes through the lines in order: the packages named are kept
   until a run says it finished.  A line that is appended is one more it goes through. *)
NothingRead == [pending |-> {}, last |-> {}, ran |-> FALSE]
ReadLine(state, line) ==
  [ran |-> state.ran \/ line.kind = "start",
   pending |-> IF line.kind = "upgrading" THEN line.packages ELSE state.pending,
   last |-> IF line.kind = "installed" THEN state.pending ELSE state.last]

Line(kind, packages) == [kind |-> kind, packages |-> packages]
Logged(l, line) == [read |-> ReadLine(l.read, line), line |-> line]

(* hostPatches, normalizeHostPatches and the sentence the screen leads with. *)
Waiting(pocket) == {p \in waiting : PocketOf(p) = pocket}
Sentence(who, security) ==
  CASE who = "owner" -> "you manage"
    [] who = "none"  -> "not applied"
    [] OTHER         -> IF security = {} THEN "none waiting" ELSE "installs on its own"
HostState ==
  [managedBy |-> record, security |-> Waiting("security"),
   summary |-> Sentence(record, Waiting("security")),
   held |-> Blacklist(apt), reboot |-> needed]
Unread == [managedBy |-> "unknown", security |-> {}, summary |-> "could not be read",
           held |-> {}, reboot |-> {}]

Down == {u \in Units : units[u] = "down"}
Starting == {u \in Units : units[u] = "starting"}
IsMissing(u) == units[u] = "missing"
NotActive == {u \in Units : ~IsMissing(u) /\ units[u] # "active"}

Booted == [u \in Units |-> IF u \in Absent THEN "missing" ELSE "starting"]
Up == [u \in Units |-> IF u \in Absent THEN "missing" ELSE "active"]

Init ==
  /\ \E start \in Starts :
       /\ apt = start.apt
       /\ record = start.record
       /\ ghost = GhostInit(start.record)
       /\ count = start.budget
  /\ feed = [revision |-> 1, held |-> {}]
  /\ pushed = 0
  /\ waiting = {}
  /\ log = [read |-> NothingRead, line |-> Line("none", {})]
  /\ needed = {}
  /\ units = Up
  /\ check = "idle"
  /\ health = NoHealth
  /\ job = "idle"
  /\ armed = FALSE
  /\ seen = Unread

Counted(what) == count[what] > 0 /\ count' = [count EXCEPT ![what] = @ - 1]

(* An update or a backup takes the machine; the restart armed before it stays. *)
JobStarts(kind) ==
  /\ job = "idle"
  /\ job' = kind
  /\ IF kind = "update" THEN Counted("updates") ELSE UNCHANGED count
  /\ UNCHANGED <<apt, record, feed, pushed, waiting, log, needed, units, check, health,
                 armed, seen, ghost>>

Decides(who) ==
  /\ record' = who
  /\ ghost' = [ghost EXCEPT !.ever = @ \/ (who = "mos" /\ apt.distro # "edited" /\ apt.other = "none"),
                            !.handed = @ \/ (who = "mos" /\ record # "mos")]

(* applyHostPatching: an owner's policy is recorded and nothing is written. *)
LeavesToTheOwner ==
  /\ OwnerManagedReason(apt)
  /\ Decides("owner")
  /\ UNCHANGED <<apt, count>>

CannotInstall ==
  /\ ~OwnerManagedReason(apt)
  /\ apt.distro = "absent"
  /\ Decides("none")
  /\ Counted("failures")
  /\ UNCHANGED apt

WritesThePolicy ==
  /\ ~OwnerManagedReason(apt)
  /\ apt' = [apt EXCEPT !.policy = TRUE,
                        !.distro = IF @ = "absent" THEN "stock" ELSE @]
  /\ Decides("mos")
  /\ UNCHANGED count

ApplyHostPatching ==
  /\ job = "update"
  /\ LeavesToTheOwner \/ CannotInstall \/ WritesThePolicy
  /\ UNCHANGED <<feed, pushed, waiting, log, needed, units, check, health, job, armed, seen>>

(* A finished update restarts Suite Manager, which forgets what it pushed; one
   that failed did not.  A backup leaves it alone. *)
JobEnds ==
  /\ job # "idle"
  /\ \E failed \in BOOLEAN :
       /\ IF failed THEN Counted("failures") ELSE UNCHANGED count
       /\ pushed' = IF job = "update" /\ ~failed THEN 0 ELSE pushed
  /\ job' = "idle"
  /\ UNCHANGED <<apt, record, feed, waiting, log, needed, units, check, health, armed, seen, ghost>>

(* The owner edits the distro's file, puts one of their own there or takes it away. *)
OwnerEdits ==
  /\ \E other \in {"none", "before", "after"}, distro \in {"stock", "edited"} :
       /\ apt.distro = "absent" => distro = "stock" /\ other # "none"
       /\ apt' = [apt EXCEPT !.other = other, !.distro = IF @ = "absent" THEN @ ELSE distro]
  /\ apt' # apt
  /\ ghost' = [ghost EXCEPT !.edited = TRUE]
  /\ Counted("edits")
  /\ UNCHANGED <<record, feed, pushed, waiting, log, needed, units, check, health, job,
                 armed, seen>>

FeedMoves ==
  /\ \E held \in {{}, SecurityOnes} :
       feed' = [revision |-> feed.revision + 1, held |-> held]
  /\ Counted("feeds")
  /\ UNCHANGED <<apt, record, pushed, waiting, log, needed, units, check, health, job,
                 armed, seen, ghost>>

(* onRefreshed, and POST /v1/host/holds: the list goes in only where MOS runs
   the policy, and is taken away elsewhere.  A push that failed is not noted,
   though the agent may have written before its answer was lost. *)
HoldsFor(who) == IF who = "mos" THEN feed.held ELSE NoList
PushHolds ==
  /\ pushed # feed.revision
  /\ apt' = [apt EXCEPT !.holds = HoldsFor(record)]
  /\ pushed' = feed.revision
  /\ ghost' = [ghost EXCEPT !.handed = FALSE]
  /\ UNCHANGED <<record, feed, waiting, log, needed, units, check, health, job, armed,
                 seen, count>>

AfterFailedPushNoted == feed.revision
AfterFailedPush == pushed
PushFails ==
  /\ pushed # feed.revision
  /\ pushed' = AfterFailedPush
  /\ apt' \in {apt, [apt EXCEPT !.holds = HoldsFor(record)]}
  /\ ghost' = [ghost EXCEPT !.handed = FALSE]
  /\ Counted("failures")
  /\ UNCHANGED <<record, feed, waiting, log, needed, units, check, health, job, armed, seen>>

ListsRefresh ==
  /\ \E p \in Packages \ waiting : waiting' = waiting \cup {p}
  /\ count.runs > 0
  /\ UNCHANGED <<apt, record, feed, pushed, log, needed, units, check, health, job, armed,
                 seen, count, ghost>>

Running == log.line.kind = "upgrading"

RunStarts ==
  /\ ~Running
  /\ apt.distro # "absent"
  /\ Installable(apt) # {}
  /\ log' = Logged(Logged(log, Line("start", {})), Line("upgrading", Installable(apt)))
  /\ Counted("runs")
  /\ UNCHANGED <<apt, record, feed, pushed, waiting, needed, units, check, health, job,
                 armed, seen, ghost>>

(* The run installs what it named; a patch may leave a unit restarting or down;
   the check is wanted by the run's own unit. *)
RunEnds ==
  /\ Running
  /\ LET packages == log.line.packages IN
       /\ log' = Logged(log, Line("installed", {}))
       /\ waiting' = waiting \ packages
       /\ needed' = needed \cup (packages \cap Kernels)
       /\ ghost' = [ghost EXCEPT !.installed = packages]
       /\ \E touched \in SUBSET (Units \ Absent), broken \in SUBSET (Units \ Absent) :
            units' = [u \in Units |-> IF u \in broken THEN "down"
                                      ELSE IF u \in touched THEN "starting" ELSE units[u]]
  /\ check' = "settling"
  /\ UNCHANGED <<apt, record, feed, pushed, health, job, armed, seen, count>>

UnitSettles(u) ==
  /\ units[u] = "starting"
  /\ \E state \in {"active", "down"} : units' = [units EXCEPT ![u] = state]
  /\ UNCHANGED <<apt, record, feed, pushed, waiting, log, needed, check, health, job,
                 armed, seen, count, ghost>>

(* main: a verdict once nothing fails, or when the five minutes are over, which
   is longer than any unit takes to come up or to give up. *)
MayDecide == NotActive = {} \/ Starting = {}
Verdict ==
  /\ check = "settling"
  /\ MayDecide
  /\ health' = [ok |-> NotActive = {}, failures |-> NotActive]
  /\ check' = "idle"
  /\ UNCHANGED <<apt, record, feed, pushed, waiting, log, needed, units, job, armed, seen,
                 count, ghost>>

(* RestartDialog, restartHost and POST /v1/host/restart: only what Ubuntu asked
   for, only with nothing running, and only in five seconds. *)
MayRestart == needed # {} /\ job = "idle"
RestartHost ==
  /\ seen.reboot # {}
  /\ MayRestart
  /\ armed' = TRUE
  /\ UNCHANGED <<apt, record, feed, pushed, waiting, log, needed, units, check, health,
                 job, seen, count, ghost>>

Reboots(byItself) ==
  /\ needed' = {}
  /\ units' = Booted
  /\ check' = "settling"
  /\ armed' = FALSE
  /\ job' = "idle"
  /\ pushed' = 0
  /\ log' = IF Running THEN Logged(log, Line("start", {})) ELSE log
  /\ ghost' = [ghost EXCEPT !.cut = @ \/ job # "idle",
                            !.own = @ \/ byItself \/ (needed = {})]
  /\ Counted("reboots")
  /\ UNCHANGED <<apt, record, feed, waiting, health, seen>>

HostRestarts == armed /\ Reboots(FALSE)
RebootsByItself == ~Running /\ needed # {} /\ AutomaticReboot(apt) /\ Reboots(TRUE)

LoadStatus ==
  /\ seen' \in {HostState, Unread}
  /\ seen' # seen
  /\ UNCHANGED <<apt, record, feed, pushed, waiting, log, needed, units, check, health,
                 job, armed, count, ghost>>

Next ==
  \/ \E kind \in {"update", "backup"} : JobStarts(kind)
  \/ ApplyHostPatching
  \/ JobEnds
  \/ OwnerEdits
  \/ FeedMoves
  \/ PushHolds
  \/ PushFails
  \/ ListsRefresh
  \/ RunStarts
  \/ RunEnds
  \/ \E u \in Units : UnitSettles(u)
  \/ Verdict
  \/ RestartHost
  \/ HostRestarts
  \/ RebootsByItself
  \/ LoadStatus

Spec == Init /\ [][Next]_vars

-----------------------------------------------------------------------------
(* Where MOS never had the policy to itself it has written nothing: neither its policy nor
   a hold list, which clears the owner's blacklist before it fills its own. *)
LeftAlone == ~ghost.ever => ~apt.policy /\ apt.holds = NoList

(* Once the feed's holds were taken over, the list on disk is the feed's: a hold
   nobody retries would leave a bad patch to install. *)
HoldsAreApplied ==
  record = "mos" /\ pushed = feed.revision /\ ~ghost.handed => apt.holds = feed.held

(* The verdict names exactly the units that did not come back: one that was only
   slow, or was never on this machine, is no failed patch. *)
VerdictIsFair ==
  health # NoHealth /\ check = "idle" /\ Starting = {} => health.failures = Down

(* What the screen says was installed last is what a run finished installing. *)
LastInstallIsTrue == log.read.last = ghost.installed

(* A server MOS patches restarts only when an owner asked for a restart it needs. *)
NoRestartUnasked == ghost.own => apt.other # "none" \/ apt.distro = "edited" \/ ghost.edited

PatchesAreSound ==
  LeftAlone /\ HoldsAreApplied /\ VerdictIsFair /\ LastInstallIsTrue /\ NoRestartUnasked

(* A policy the owner set is what the machine follows, whoever ran it before. *)
OwnerIsLeftAlone ==
  record = "owner" =>
    /\ Origins(apt) = Origins(OwnersOwn(apt))
    /\ AutomaticReboot(apt) = AutomaticReboot(OwnersOwn(apt))

(* What the screen says installs on its own is not held back. *)
WaitingInstalls == seen.summary = "installs on its own" => ~(seen.security \subseteq seen.held)

(* The restart an owner asked for never cuts off an update or a backup. *)
RestartCutsNothing == ~ghost.cut
=============================================================================
