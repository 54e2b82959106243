----------------------------- MODULE BackupJobs -----------------------------
(****************************************************************************)
(* The backup agent's job pipeline (system-agents/backup/agent.cjs) and what *)
(* a worker does to an archive and to the running suite for each kind of job  *)
(* (agent-core.cjs).  The agent and a worker are separate processes that      *)
(* meet in the job file, in current-job.json and in the repository; either   *)
(* may be killed between two steps, and a place may stop answering between    *)
(* two steps.  The inside of a restore is left to a module of its own: here   *)
(* it is a job that opens the restore journal and, if it ends well, closes it. *)
(****************************************************************************)
EXTENDS FiniteSets

CONSTANTS Jobs,         \* job ids createJob may draw, which name restore points too
          Places,       \* where this server keeps an archive: drives and buckets
          Buckets,      \* the places that are buckets
          Apps,         \* app containers
          NoJob

ASSUME NoJobAssumption == NoJob \notin Jobs
ASSUME BucketsAssumption == Buckets \subseteq Places

VARIABLES job,          \* job files: [kind, place, target, status]
          current,      \* the job current-job.json is a copy of
          journal,      \* TRUE while restore-journal.json exists
          uncollected,  \* places named in uncollected-data.json
          worker,       \* where each job's worker process is
          halted,       \* containers a worker stopped and remembers
          founder,      \* TRUE if the worker created the repository it writes to
          running,      \* app containers that run
          reachable,    \* places that answer right now
          repository,   \* places that hold a repository
          stored,       \* what each job has left in its repository
          listed        \* restore points that have a manifest

agentVars == <<job, current, uncollected>>
workerVars == <<worker, halted, founder>>
archiveVars == <<repository, stored, listed>>
vars == <<job, current, journal, uncollected, worker, halted, founder, running,
          reachable, repository, stored, listed>>

Kinds == {"backup", "delete", "validate", "restore"}

\* Steps of a worker, by what it does next.  "dead" is killed, "exited" is done.
BackupSteps == {"collect", "prepare", "open", "halt", "snapshot", "finish snapshots",
                "manifest", "note", "discard manifest", "discard data",
                "resume", "resume after failure"}
Steps == BackupSteps \union
         {"none", "spawned", "unlist", "forget", "maintain", "check",
          "open journal", "restoring", "report", "report failure", "dead", "exited"}

\* Nothing; packs no snapshot refers to; some of the backup's snapshots; all of them.
Amounts == {"none", "packs", "some", "all"}

Live(j) == worker[j] \notin {"none", "dead", "exited"}
Active(j) == job[j].status \in {"queued", "running"}
Place(j) == job[j].place

JobRecords == [kind : Kinds \union {"none"}, place : Places, target : Jobs \union {NoJob},
               status : {"none", "queued", "running", "succeeded", "failed"}]

TypeOK ==
  /\ job \in [Jobs -> JobRecords]
  /\ current \in Jobs \union {NoJob}
  /\ journal \in BOOLEAN
  /\ uncollected \subseteq Places
  /\ worker \in [Jobs -> Steps]
  /\ halted \in [Jobs -> SUBSET Apps]
  /\ founder \in [Jobs -> BOOLEAN]
  /\ running \subseteq Apps
  /\ reachable \subseteq Places
  /\ repository \subseteq Places
  /\ stored \in [Jobs -> Amounts]
  /\ listed \subseteq Jobs

Init ==
  /\ \E p \in Places :
       job = [j \in Jobs |-> [kind |-> "none", place |-> p, target |-> NoJob, status |-> "none"]]
  /\ current = NoJob
  /\ journal = FALSE
  /\ uncollected = {}
  /\ worker = [j \in Jobs |-> "none"]
  /\ halted = [j \in Jobs |-> {}]
  /\ founder = [j \in Jobs |-> FALSE]
  /\ running = Apps
  /\ reachable = Places
  /\ repository = {}
  /\ stored = [j \in Jobs |-> "none"]
  /\ listed = {}

------------------------------------------------------------------------------
(* The agent.                                                                *)

\* Mutants of WorkerLost: a job not yet running is passed over; the pid is not asked.
WorkerLostRunningOnly == /\ current # NoJob
                         /\ job[current].status = "running"
                         /\ ~Live(current)
WorkerLostUnasked == current # NoJob /\ Active(current)

\* current-job.json claims a job whose worker is no longer a process.
WorkerLost == /\ current # NoJob
              /\ Active(current)
              /\ ~Live(current)

\* Mutant: the job is left in a status no reader of the file knows.
ReconciledJobsUnknown ==
  IF WorkerLost THEN [job EXCEPT ![current].status = "interrupted"] ELSE job

\* What reconcileCurrentJob leaves behind.
ReconciledJobs ==
  IF WorkerLost THEN [job EXCEPT ![current].status = "failed"] ELSE job

ReconciledUncollected ==
  IF WorkerLost /\ job[current].kind = "backup"
    THEN uncollected \union {Place(current)} ELSE uncollected

\* Any poll of the agent, once the 15 s grace a new worker has is over.
Reconcile ==
  /\ WorkerLost
  /\ job' = ReconciledJobs
  /\ uncollected' = ReconciledUncollected
  /\ UNCHANGED <<current, journal, workerVars, running, reachable, archiveVars>>

\* Mutant: only a running job refuses another.
IdleUnlessRunning == current # NoJob => job[current].status # "running" \/ ~Live(current)

\* The check createJob makes once it has reconciled.
Idle == current # NoJob => ~Active(current) \/ ~Live(current)

\* createJob is synchronous: it reconciles, refuses, writes both files and spawns.
CreateJob(j, kind, place, target) ==
  /\ job[j].status = "none"
  /\ Idle
  /\ ~journal \/ kind = "validate"
  /\ job' = [ReconciledJobs EXCEPT ![j] = [kind |-> kind, place |-> place,
                                           target |-> target, status |-> "queued"]]
  /\ uncollected' = ReconciledUncollected
  /\ current' = j
  /\ worker' = [worker EXCEPT ![j] = "spawned"]
  /\ UNCHANGED <<journal, halted, founder, running, reachable, archiveVars>>

\* A backup names a place; every other kind names a restore point that is listed.
Request(j) ==
  \/ \E p \in Places : CreateJob(j, "backup", p, NoJob)
  \/ \E kind \in Kinds \ {"backup"}, t \in listed : CreateJob(j, kind, Place(t), t)

AcknowledgeInterrupted ==
  /\ journal
  /\ journal' = FALSE
  /\ UNCHANGED <<agentVars, workerVars, running, reachable, archiveVars>>

------------------------------------------------------------------------------
(* The worker: what every kind of job does.                                  *)

At(j, step) == worker[j] = step
GoTo(j, step) == worker' = [worker EXCEPT ![j] = step]

FirstStep(kind) == CASE kind = "restore" -> "open journal"
                     [] kind = "validate" -> "check"
                     [] kind = "delete" -> "unlist"
                     [] OTHER -> "collect"

\* A backup or a restore that finds an unfinished restore stops here.
Start(j) ==
  /\ At(j, "spawned")
  /\ job' = [job EXCEPT ![j].status = "running"]
  /\ GoTo(j, IF journal /\ job[j].kind \in {"backup", "restore"}
               THEN "report failure" ELSE FirstStep(job[j].kind))
  /\ UNCHANGED <<current, journal, uncollected, halted, founder, running, reachable, archiveVars>>

\* Both copies of the job record: the job file and current-job.json.
Report(j) ==
  /\ worker[j] \in {"report", "report failure"}
  /\ job' = [job EXCEPT ![j].status = IF At(j, "report") THEN "succeeded" ELSE "failed"]
  /\ current' = j
  /\ GoTo(j, "exited")
  /\ UNCHANGED <<journal, uncollected, halted, founder, running, reachable, archiveVars>>

\* A step that touches nothing and may fail: the job is reported failed.
MayFail(j, step, next) ==
  /\ At(j, step)
  /\ \/ GoTo(j, next)
     \/ GoTo(j, "report failure")

------------------------------------------------------------------------------
(* A backup.                                                                 *)

\* Maintenance removes what no snapshot refers to; a snapshot keeps its data.
Pruned(p) == [j \in Jobs |-> IF stored[j] = "packs" /\ job[j].status # "none" /\ Place(j) = p
                               THEN "none" ELSE stored[j]]

\* An archive that is removed takes everything in it along.
Emptied(p) == [j \in Jobs |-> IF job[j].status # "none" /\ Place(j) = p
                                THEN "none" ELSE stored[j]]

\* The place must answer; what an interrupted backup left there is collected first.
Collect(j) ==
  /\ At(j, "collect")
  /\ IF Place(j) \notin reachable
       THEN GoTo(j, "report failure") /\ UNCHANGED <<stored, uncollected>>
       ELSE /\ GoTo(j, "prepare")
            /\ IF Place(j) \in uncollected
                 THEN /\ stored' \in {stored, Pruned(Place(j))}
                      /\ uncollected' = uncollected \ {Place(j)}
                 ELSE UNCHANGED <<stored, uncollected>>
  /\ UNCHANGED <<job, current, journal, halted, founder, running, reachable, repository, listed>>

\* Inventory, sizes and free space: refusals that leave nothing behind.
Prepare(j) ==
  /\ MayFail(j, "prepare", "open")
  /\ UNCHANGED <<agentVars, journal, halted, founder, running, reachable, archiveVars>>

\* A repository is created only where there is none.
OpenRepository(j) ==
  /\ At(j, "open")
  /\ IF Place(j) \notin reachable
       THEN GoTo(j, "report failure") /\ UNCHANGED <<repository, founder>>
       ELSE /\ founder' = [founder EXCEPT ![j] = Place(j) \notin repository]
            /\ repository' = repository \union {Place(j)}
            /\ GoTo(j, "halt")
  /\ UNCHANGED <<agentVars, journal, halted, running, reachable, stored, listed>>

\* The list of running containers is remembered before the first is stopped; no list,
\* no backup, and nothing is undone.
HaltApps(j) ==
  /\ At(j, "halt")
  /\ \/ GoTo(j, "report failure") /\ UNCHANGED <<halted, running>>
     \/ /\ halted' = [halted EXCEPT ![j] = running]
        /\ \E stopped \in SUBSET running :
             /\ running' = running \ stopped
             /\ GoTo(j, IF stopped = running THEN "snapshot" ELSE "discard manifest")
  /\ UNCHANGED <<agentVars, journal, founder, reachable, archiveVars>>

\* Storing the state and then the volumes: the work may stop after any snapshot.
TakeSnapshots(j) ==
  /\ At(j, "snapshot")
  /\ \/ /\ Place(j) \in reachable
        /\ GoTo(j, "finish snapshots")
        /\ stored' \in {[stored EXCEPT ![j] = amount] : amount \in {"packs", "some"}}
     \/ /\ GoTo(j, "discard manifest")
        /\ stored' \in {stored} \union
             {[stored EXCEPT ![j] = amount] : amount \in IF Place(j) \in reachable
                                                          THEN {"packs", "some"} ELSE {}}
  /\ UNCHANGED <<agentVars, journal, halted, founder, running, reachable, repository, listed>>

FinishSnapshots(j) ==
  /\ At(j, "finish snapshots")
  /\ IF Place(j) \in reachable
       THEN GoTo(j, "manifest") /\ stored' = [stored EXCEPT ![j] = "all"]
       ELSE GoTo(j, "discard manifest") /\ UNCHANGED stored
  /\ UNCHANGED <<agentVars, journal, halted, founder, running, reachable, repository, listed>>

\* The manifest is the completion marker, written once the place still answers.
WriteManifest(j) ==
  /\ At(j, "manifest")
  /\ IF Place(j) \in reachable
       THEN GoTo(j, "note") /\ listed' = listed \union {j}
       ELSE GoTo(j, "discard manifest") /\ UNCHANGED listed
  /\ UNCHANGED <<agentVars, journal, halted, founder, running, reachable, repository, stored>>

\* Only a backup with a note has anything to write here.
WriteNote(j) ==
  /\ At(j, "note")
  /\ \/ GoTo(j, "resume")
     \/ Place(j) \notin reachable /\ GoTo(j, "discard manifest")
  /\ UNCHANGED <<agentVars, journal, halted, founder, running, reachable, archiveVars>>

\* Mutant: the archive is removed whoever created it.
RemovableAnyway(j) == Place(j) \in reachable \ Buckets

\* discardCreatedRepository: an archive this job created goes with it, on a drive.
Removable(j) == founder[j] /\ Place(j) \in reachable \ Buckets

\* discardFailedBackup, first half: the error of a removal is swallowed.
DiscardManifest(j) ==
  /\ At(j, "discard manifest")
  /\ listed' = IF Place(j) \in reachable THEN listed \ {j} ELSE listed
  /\ GoTo(j, "discard data")
  /\ UNCHANGED <<agentVars, journal, halted, founder, running, reachable, repository, stored>>

\* Second half: with no snapshot recorded the place is noted, otherwise the snapshots
\* are forgotten and pruned.
DiscardData(j) ==
  /\ At(j, "discard data")
  /\ LET p == Place(j)
         recorded == stored[j] \in {"some", "all"}
         removable == Removable(j)
     IN /\ uncollected' = IF recorded THEN uncollected ELSE uncollected \union {p}
        /\ stored' = CASE removable -> Emptied(p)
                       [] ~removable /\ recorded /\ p \in reachable ->
                            [Pruned(p) EXCEPT ![j] = "none"]
                       [] OTHER -> stored
        /\ repository' = IF removable THEN repository \ {p} ELSE repository
        /\ listed' = IF removable THEN {k \in listed : Place(k) # p} ELSE listed
  /\ GoTo(j, "resume after failure")
  /\ UNCHANGED <<job, current, journal, halted, founder, running, reachable>>

\* Mutant: a container that will not start is forgiven.
AfterResumeForgiving(j, started) == IF At(j, "resume") THEN "report" ELSE "report failure"

AfterResume(j, started) ==
  IF At(j, "resume") /\ started = halted[j] THEN "report" ELSE "report failure"

\* The finally block: a container that will not start turns the job into a failure.
ResumeApps(j) ==
  /\ worker[j] \in {"resume", "resume after failure"}
  /\ \E started \in SUBSET halted[j] :
       /\ running' = running \union started
       /\ GoTo(j, AfterResume(j, started))
  /\ UNCHANGED <<agentVars, journal, halted, founder, reachable, archiveVars>>

BackupStep(j) ==
  \/ Collect(j) \/ Prepare(j) \/ OpenRepository(j) \/ HaltApps(j)
  \/ TakeSnapshots(j) \/ FinishSnapshots(j) \/ WriteManifest(j) \/ WriteNote(j)
  \/ DiscardManifest(j) \/ DiscardData(j) \/ ResumeApps(j)

------------------------------------------------------------------------------
(* A delete, a check, a restore.                                             *)

\* The manifest goes first.  One that does not read names no snapshots to forget.
Unlist(j) ==
  /\ At(j, "unlist")
  /\ IF Place(j) \notin reachable
       THEN GoTo(j, "report failure") /\ UNCHANGED listed
       ELSE /\ listed' = listed \ {job[j].target}
            /\ worker' \in {[worker EXCEPT ![j] = "forget"], [worker EXCEPT ![j] = "report"]}
  /\ UNCHANGED <<agentVars, journal, halted, founder, running, reachable, repository, stored>>

Forget(j) ==
  /\ At(j, "forget")
  /\ IF Place(j) \in reachable
       THEN GoTo(j, "maintain") /\ stored' = [stored EXCEPT ![job[j].target] = "packs"]
       ELSE GoTo(j, "report failure") /\ UNCHANGED stored
  /\ UNCHANGED <<agentVars, journal, halted, founder, running, reachable, repository, listed>>

Maintain(j) ==
  /\ At(j, "maintain")
  /\ IF Place(j) \in reachable
       THEN GoTo(j, "report") /\ stored' = Pruned(Place(j))
       ELSE GoTo(j, "report failure") /\ UNCHANGED stored
  /\ UNCHANGED <<agentVars, journal, halted, founder, running, reachable, repository, listed>>

Check(j) ==
  /\ MayFail(j, "check", "report")
  /\ UNCHANGED <<agentVars, journal, halted, founder, running, reachable, archiveVars>>

\* A restore may refuse before it opens its journal; past that it ends well or leaves it.
OpenJournal(j) ==
  /\ MayFail(j, "open journal", "restoring")
  /\ journal' = (worker'[j] = "restoring")
  /\ UNCHANGED <<agentVars, halted, founder, running, reachable, archiveVars>>

\* Every phase writes the journal again, an acknowledged one included; the services
\* that come back once it is removed may still fail the job.
Restoring(j) ==
  /\ At(j, "restoring")
  /\ \/ journal' = TRUE /\ UNCHANGED worker
     \/ journal' = TRUE /\ GoTo(j, "report failure")
     \/ journal' = FALSE /\ (GoTo(j, "report") \/ GoTo(j, "report failure"))
  /\ UNCHANGED <<agentVars, halted, founder, running, reachable, archiveVars>>

------------------------------------------------------------------------------
(* The machine.                                                              *)

\* Power loss, a kill, or the agent's service being restarted with its worker.
WorkerKilled(j) ==
  /\ Live(j)
  /\ GoTo(j, "dead")
  /\ UNCHANGED <<agentVars, journal, halted, founder, running, reachable, archiveVars>>

PlaceComesAndGoes(p) ==
  /\ reachable' = IF p \in reachable THEN reachable \ {p} ELSE reachable \union {p}
  /\ UNCHANGED <<agentVars, journal, workerVars, running, archiveVars>>

WorkerStep(j) ==
  \/ Start(j) \/ Report(j) \/ BackupStep(j)
  \/ Unlist(j) \/ Forget(j) \/ Maintain(j) \/ Check(j)
  \/ OpenJournal(j) \/ Restoring(j)

Next ==
  \/ Reconcile
  \/ AcknowledgeInterrupted
  \/ \E j \in Jobs : Request(j) \/ WorkerStep(j) \/ WorkerKilled(j)
  \/ \E p \in Places : PlaceComesAndGoes(p)

Spec == Init /\ [][Next]_vars

\* A live worker goes on, a restore's last phase is reached, and the agent is polled.
Fairness ==
  /\ WF_vars(Reconcile)
  /\ \A j \in Jobs : /\ WF_vars(WorkerStep(j))
                     /\ WF_vars(Restoring(j) /\ worker'[j] # "restoring")

FairSpec == Spec /\ Fairness

------------------------------------------------------------------------------
(* Properties.                                                               *)

\* At most one worker process exists, so nothing writes a repository beside
\* another job's maintenance pass (createJob, reconcileCurrentJob, workerAlive).
OneWorker == \A i, j \in Jobs : Live(i) /\ Live(j) => i = j

\* A delete of this backup has been started.
BeingDeleted(j) == \E d \in Jobs : /\ job[d].kind = "delete"
                                   /\ job[d].target = j
                                   /\ job[d].status # "queued"

\* A backup that was reported succeeded stays listed and whole until its owner
\* deletes it: no later job's clean-up, discard or interruption takes from it.
SucceededIsRestorable ==
  \A j \in Jobs : /\ job[j].kind = "backup"
                  /\ job[j].status = "succeeded"
                  /\ ~BeingDeleted(j)
                  => j \in listed /\ stored[j] = "all"

ResumedBeforeSuccess ==
  \A j \in Jobs : /\ job[j].status # "succeeded"
                 /\ job'[j].status = "succeeded"
                 => halted[j] \subseteq running'

\* A backup reports success only with every container it stopped running again.
SuccessAfterResume == [][ResumedBeforeSuccess]_vars

\* Every accepted job ends, whether its worker finishes, fails or is killed.
JobsSettle == \A j \in Jobs : Active(j) ~> ~Active(j)

\* The agent keeps the promise of BackupQueue.
Queue == INSTANCE BackupQueue
  WITH queue <- [j \in Jobs |-> IF Active(j) THEN "active" ELSE job[j].status],
       lost <- {j \in Jobs : Active(j) /\ ~Live(j)}
ImplementsQueue == Queue!QueueSpec

\* What agent-core.cjs says of a failed backup: it "must leave nothing listed",
\* so a restore point that is listed still has its contents.
ListedIsComplete == \A j \in listed : At(j, "exited") => stored[j] = "all"
=============================================================================
