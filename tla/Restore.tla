------------------------------ MODULE Restore ------------------------------
(***************************************************************************)
(* The restore of one restore point: validated first, then in place, under *)
(* a journal, after a complete rescue copy.  The worker may fail or be     *)
(* killed at every step, the machine may lose power, the owner may dismiss *)
(* an interrupted restore and start it again, and may install an app while *)
(* Suite Manager still runs.                                               *)
(***************************************************************************)
EXTENDS Naturals, FiniteSets

CONSTANTS
  Apps,         \* app packages; each keeps its data in one volume
  MaxRestores,  \* bound: restores started
  MaxKills,     \* bound: workers killed, power losses included
  MaxInstalls   \* bound: apps the owner installs

VARIABLES
  point,    \* the restore point: the apps in it, written elsewhere or here
  machine,  \* the managed state and the app volumes
  runtime,  \* whether Suite Manager and Homepage run
  journal,  \* the restore journal's phase, "none" when there is none
  rescues,  \* the rescue directories, by restore
  restorer, \* the worker's step and what it read before it began
  restoreJob, \* the status of the latest restore
  before,   \* history: the machine as its runtime was stopped for a restore, and
            \* the volumes that restore had listed
  used      \* how much of each bound is used

rvars == <<point, machine, runtime, journal, rescues, restorer, restoreJob, before, used>>

NoJournal  == "none"
Gone       == "gone"       \* a target removed and not yet copied back
Files      == {"app-package-snapshots", "easy-door-id"}
KeptWhenAbsent == {"easy-door-id"}
RestoreIds == 1 .. MaxRestores
NoStore    == [from |-> Gone, apps |-> {}]
NoMachine  == [store |-> NoStore]
NoBefore   == [machine |-> NoMachine, owned |-> {}]
NoRescue   == [status |-> "none", copy |-> NoMachine]
NoWorker   == [pc |-> "none", todo |-> {}, owned |-> {}, stopped |-> FALSE]

(***************************************************************************)
(* What is on the machine.  A volume's content is the set of the suites    *)
(* whose data is in it.                                                    *)
(***************************************************************************)
Installed(m) == m.store.apps
Targets == {"suite-manager-state"} \cup Files
InPoint(t) == t \notin KeptWhenAbsent \/ point.hasId

RestoreTypeOK ==
  /\ point \in [apps : SUBSET Apps, hasId : BOOLEAN, foreign : BOOLEAN]
  /\ machine.present \subseteq Apps
  /\ machine.data \in [Apps -> SUBSET {"own", "backup"}]
  /\ \A f \in Files : machine.files[f] \in {"own", "backup", Gone}
  /\ machine.routes \in {"own", "empty", "backup"}
  /\ runtime \in {"up", "down"}
  /\ journal \in {NoJournal, "stopping-runtime", "rescue", "restoring-state",
                  "restoring-volumes", "reconciling-apps", "verifying"}
  /\ \A r \in RestoreIds : rescues[r].status \in {"none", "partial", "complete"}
  /\ restorer.owned \subseteq Apps
  /\ restoreJob \in {"none", "running", "failed", "succeeded"}

RestoreInit ==
  \E mine \in SUBSET Apps :
    /\ point \in [apps : SUBSET Apps, hasId : BOOLEAN, foreign : BOOLEAN]
    /\ machine = [store |-> [from |-> "own", apps |-> mine],
                  files |-> [f \in Files |-> "own"],
                  present |-> mine,
                  data |-> [a \in Apps |-> IF a \in mine THEN {"own"} ELSE {}],
                  routes |-> "own"]
    /\ runtime = "up" /\ journal = NoJournal
    /\ rescues = [r \in RestoreIds |-> NoRescue]
    /\ restorer = NoWorker /\ restoreJob = "none" /\ before = NoBefore
    /\ used = [restores |-> 0, kills |-> 0, installs |-> 0]

(***************************************************************************)
(* The worker's steps.  Fails ends in the clean-up, which starts the       *)
(* control plane again if it was stopped; the journal stays.               *)
(***************************************************************************)
AtStep(pc) == restorer.pc = pc
Then(pc) == restorer' = [restorer EXCEPT !.pc = pc]
ThenEach(pc, todo) == restorer' = [restorer EXCEPT !.pc = pc, !.todo = todo]

RestorePhases == {"stopping-runtime", "rescue", "restoring-state",
                  "restoring-volumes", "reconciling-apps", "verifying"}
Fails ==
  /\ restorer.pc \notin {"none", "finally-ok", "finally-failed"}
  /\ Then("finally-failed")
  /\ UNCHANGED <<point, machine, runtime, journal, rescues, restoreJob, before, used>>

\* A restore is refused while an earlier one stands interrupted.
BeginRestore ==
  /\ restorer = NoWorker /\ runtime = "up" /\ used.restores < MaxRestores
  /\ journal = NoJournal
  /\ used' = [used EXCEPT !.restores = @ + 1]
  /\ restoreJob' = "running" /\ Then("checking")
  /\ UNCHANGED <<point, machine, runtime, journal, rescues, before>>

\* Every snapshot of the point is read back and the packages are proved against
\* a staged copy of the state; nothing on the machine is touched.
ValidateRestorePoint ==
  /\ AtStep("checking") /\ Then("space")
  /\ UNCHANGED <<point, machine, runtime, journal, rescues, restoreJob, before, used>>

\* The owned volumes are listed here, while apps and Suite Manager still run.
Owned(m) == m.present
CheckSpace ==
  /\ AtStep("space")
  /\ restorer' = [restorer EXCEPT !.pc = "journal", !.owned = Owned(machine)]
  /\ UNCHANGED <<point, machine, runtime, journal, rescues, restoreJob, before, used>>

OpenRestoreJournal ==
  /\ AtStep("journal") /\ journal' = "stopping-runtime" /\ Then("stop")
  /\ UNCHANGED <<point, machine, runtime, rescues, restoreJob, before, used>>

\* The app containers are removed and Suite Manager and Homepage stopped.
StopRuntime ==
  /\ AtStep("stop")
  /\ runtime' = "down" /\ before' = [machine |-> machine, owned |-> restorer.owned]
  /\ journal' = "rescue"
  /\ restorer' = [restorer EXCEPT !.pc = "rescue", !.stopped = TRUE]
  /\ UNCHANGED <<point, machine, rescues, restoreJob, used>>

This == used.restores

\* The state's archive, then one per volume the survey listed; the manifest last,
\* once every archive has been read back.
Rescue ==
  \/ /\ AtStep("rescue") /\ ThenEach("rescue-volumes", restorer.owned)
     /\ rescues' = [rescues EXCEPT ![This] =
          [status |-> "partial", copy |-> [machine EXCEPT !.present = {}]]]
  \/ /\ AtStep("rescue-volumes")
     /\ \E a \in restorer.todo :
          /\ rescues' = [rescues EXCEPT ![This].copy.present = @ \cup {a}]
          /\ restorer' = [restorer EXCEPT !.todo = @ \ {a}]
  \/ /\ AtStep("rescue-volumes") /\ restorer.todo = {}
     /\ rescues' = [rescues EXCEPT ![This].status = "complete"] /\ Then("retire")

SaveRescueCopy ==
  /\ Rescue
  /\ UNCHANGED <<point, machine, runtime, journal, restoreJob, before, used>>

\* Exactly one generation is kept: the others go now that this one is proven.
RetireRescues ==
  /\ AtStep("retire")
  /\ \/ /\ \E r \in RestoreIds \ {This} :
             /\ rescues[r] # NoRescue /\ rescues' = [rescues EXCEPT ![r] = NoRescue]
        /\ UNCHANGED <<journal, restorer>>
     \/ /\ \A r \in RestoreIds \ {This} : rescues[r] = NoRescue
        /\ journal' = "restoring-state" /\ ThenEach("remove-target", Targets)
        /\ UNCHANGED rescues
  /\ UNCHANGED <<point, machine, runtime, restoreJob, before, used>>

\* One target after another is removed and copied from the staged state; one the
\* backup does not have is left absent, or as it is if it is kept when absent.
Removed(m, t) ==
  IF t = "suite-manager-state" THEN [m EXCEPT !.store = NoStore] ELSE [m EXCEPT !.files[t] = Gone]
Copied(m, t) ==
  IF t = "suite-manager-state"
  THEN [m EXCEPT !.store = [from |-> "backup", apps |-> point.apps]]
  ELSE [m EXCEPT !.files[t] = "backup"]

RestoreTarget ==
  \/ /\ AtStep("remove-target")
     /\ \E t \in restorer.todo :
          IF InPoint(t)
          THEN machine' = Removed(machine, t) /\ ThenEach("copy-target", restorer.todo \ {t})
          ELSE UNCHANGED machine /\ ThenEach("remove-target", restorer.todo \ {t})
  \/ /\ AtStep("copy-target")
     /\ \E t \in Targets \ restorer.todo :
          /\ \/ t = "suite-manager-state" /\ machine.store = NoStore
             \/ t \in Files /\ machine.files[t] = Gone
          /\ machine' = Copied(machine, t) /\ Then("remove-target")

\* The routes are reset to their empty content, and rebuilt from the data below.
RestoreState ==
  /\ \/ RestoreTarget /\ UNCHANGED journal
     \/ /\ AtStep("remove-target") /\ restorer.todo = {}
        /\ machine' = [machine EXCEPT !.routes = "empty"]
        /\ journal' = "restoring-volumes" /\ ThenEach("remove-volumes", restorer.owned)
  /\ UNCHANGED <<point, runtime, rescues, restoreJob, before, used>>

\* docker volume rm; a removed volume takes its data with it.
WithoutVolume(m, a) == [m EXCEPT !.present = @ \ {a}, !.data[a] = {}]
\* docker volume create answers for one that exists, and restic restores over
\* whatever is in it.
WithVolume(m, a) == [m EXCEPT !.present = @ \cup {a}, !.data[a] = @ \cup {"backup"}]

RestoreVolumes ==
  /\ \/ /\ AtStep("remove-volumes")
        /\ \E a \in restorer.todo :
             machine' = WithoutVolume(machine, a) /\ ThenEach("remove-volumes", restorer.todo \ {a})
        /\ UNCHANGED journal
     \/ /\ AtStep("remove-volumes") /\ restorer.todo = {}
        /\ ThenEach("create-volumes", point.apps) /\ UNCHANGED <<machine, journal>>
     \/ /\ AtStep("create-volumes")
        /\ \E a \in restorer.todo :
             machine' = WithVolume(machine, a) /\ ThenEach("create-volumes", restorer.todo \ {a})
        /\ UNCHANGED journal
     \/ /\ AtStep("create-volumes") /\ restorer.todo = {}
        /\ journal' = "reconciling-apps" /\ Then("reconcile") /\ UNCHANGED machine
  /\ UNCHANGED <<point, runtime, rescues, restoreJob, before, used>>

\* Every installed app is started from the restored store; one that will not
\* start is reported and the rest carry on, and so is the homepage.
ReconcileApps ==
  /\ AtStep("reconcile")
  /\ machine' = [machine EXCEPT !.routes = "backup"]
  /\ journal' = "verifying" /\ Then("verify")
  /\ UNCHANGED <<point, runtime, rescues, restoreJob, before, used>>

\* Presence and absence: the apps the store lists and the owned volumes.
Verified(m) == Installed(m) = point.apps /\ Owned(m) = point.apps

VerifyRestore ==
  /\ AtStep("verify") /\ Verified(machine)
  /\ Then(IF point.foreign THEN "assume-key" ELSE "complete")
  /\ UNCHANGED <<point, machine, runtime, journal, rescues, restoreJob, before, used>>

\* Taking another machine's key ends either way; the restore is complete.
AssumeArchiveKey ==
  /\ AtStep("assume-key") /\ Then("complete")
  /\ UNCHANGED <<point, machine, runtime, journal, rescues, restoreJob, before, used>>

CompleteRestore ==
  /\ AtStep("complete") /\ journal' = NoJournal /\ Then("finally-ok")
  /\ UNCHANGED <<point, machine, runtime, rescues, restoreJob, before, used>>

\* The clean-up: the staged state goes, the control plane starts, and the worker
\* reports and exits.
Finally ==
  /\ restorer.pc \in {"finally-ok", "finally-failed"}
  /\ runtime' = IF restorer.stopped THEN "up" ELSE runtime
  /\ restoreJob' = IF AtStep("finally-ok") THEN "succeeded" ELSE "failed"
  /\ restorer' = NoWorker
  /\ before' = IF AtStep("finally-ok") THEN NoBefore ELSE before
  /\ UNCHANGED <<point, machine, journal, rescues, used>>

RestoreStep ==
  \/ ValidateRestorePoint \/ CheckSpace \/ OpenRestoreJournal \/ StopRuntime
  \/ SaveRescueCopy \/ RetireRescues \/ RestoreState \/ RestoreVolumes
  \/ ReconcileApps \/ VerifyRestore \/ AssumeArchiveKey \/ CompleteRestore \/ Finally

(***************************************************************************)
(* Around it.                                                              *)
(***************************************************************************)
\* The worker is killed, alone or with the machine, which boots with its
\* services; the next poll gives the job up.
KillWorker ==
  /\ restorer # NoWorker /\ used.kills < MaxKills
  /\ used' = [used EXCEPT !.kills = @ + 1]
  /\ restorer' = NoWorker /\ restoreJob' = "failed"
  /\ runtime' \in {runtime, "up"}
  /\ UNCHANGED <<point, machine, journal, rescues, before>>

\* The owner restarts a machine whose worker left Suite Manager stopped.
RestartMachine ==
  /\ restorer = NoWorker /\ runtime = "down" /\ runtime' = "up"
  /\ UNCHANGED <<point, machine, journal, rescues, restorer, restoreJob, before, used>>

\* The only exit from the interrupted state.  The machine stays as it is.
AcknowledgeInterruptedRestore ==
  /\ restorer = NoWorker /\ runtime = "up" /\ journal # NoJournal
  /\ journal' = NoJournal /\ before' = NoBefore
  /\ UNCHANGED <<point, machine, runtime, rescues, restorer, restoreJob, used>>

\* The owner installs an app, beside a restore too: Suite Manager runs until it
\* is stopped.  Not while a restore stands interrupted (a bound of the model).
InstallApp ==
  /\ runtime = "up" /\ before = NoBefore /\ used.installs < MaxInstalls
  /\ machine.store.from = "own"
  /\ \E a \in Apps \ (machine.present \cup machine.store.apps) :
       machine' = [machine EXCEPT !.store.apps = @ \cup {a}, !.present = @ \cup {a},
                                  !.data[a] = {"own"}]
  /\ used' = [used EXCEPT !.installs = @ + 1]
  /\ UNCHANGED <<point, runtime, journal, rescues, restorer, restoreJob, before>>

RestoreNext ==
  \/ BeginRestore \/ RestoreStep \/ Fails \/ KillWorker \/ RestartMachine
  \/ AcknowledgeInterruptedRestore \/ InstallApp

RestoreSpec == RestoreInit /\ [][RestoreNext]_rvars

(***************************************************************************)
(* Properties.                                                             *)
(***************************************************************************)
\* The parts of a machine that a restore replaces, and where each can be had.
SameStore(m)   == m.store = before.machine.store
SameFiles(m)   == m.files = before.machine.files
SameVolume(m, a) == a \in m.present /\ m.data[a] = before.machine.data[a]
Copies == {rescues[r].copy : r \in {r \in RestoreIds : rescues[r].status = "complete"}}

\* From the moment the runtime is stopped, whatever the machine then had is
\* still on it or in a complete rescue copy, part by part, until the restore
\* succeeds or the owner dismisses it: of the volumes it had listed by then.
NothingLostBeforeItIsRescued ==
  before # NoBefore =>
    /\ \E m \in Copies \cup {machine} : SameStore(m)
    /\ \E m \in Copies \cup {machine} : SameFiles(m)
    /\ \A a \in before.machine.present \cap before.owned :
         \E m \in Copies \cup {machine} : SameVolume(m, a)

\* "Its presence is the durable statement this machine is between two states":
\* a machine that is neither as it was nor as the restore point says has an open
\* journal, whatever ended the worker, until the owner dismisses it.
Untouched == [machine EXCEPT !.routes = before.machine.routes] = before.machine
Restored ==
  /\ machine.store = [from |-> "backup", apps |-> point.apps]
  /\ \A f \in Files : InPoint(f) => machine.files[f] = "backup"
  /\ machine.routes = "backup"
  /\ Verified(machine)

JournalTellsTheTruth ==
  before # NoBefore /\ ~Untouched /\ ~Restored => journal # NoJournal

\* A restore that reports success has put back what the restore point holds,
\* presence and absence, and nothing of before is left in what it restored,
\* unless an app was installed after the volumes were listed.
ReportsTheBackup ==
  restoreJob' = "succeeded" /\ restoreJob # "succeeded" =>
    Restored /\ \A a \in point.apps : \/ machine.data[a] = {"backup"}
                                      \/ a \in before.machine.present \ before.owned
SuccessIsTheBackup == [][ReportsTheBackup]_rvars

\* "every currently MOS-owned volume was rescued above and is now removed, so a
\* volume created after this backup was taken cannot survive": a restore that
\* reports success left no data of before in a volume.
NoEarlierDataSurvives ==
  [][restoreJob' = "succeeded" /\ restoreJob # "succeeded" =>
       \A a \in Apps : "own" \notin machine.data[a]]_rvars
=============================================================================
