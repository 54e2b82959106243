-------------------------- MODULE BackupJobsProofs --------------------------
(****************************************************************************)
(* Theorems about BackupJobs for any jobs, places, buckets and containers:   *)
(* the variables keep their types, one worker at a time is alive, the agent  *)
(* implements the queue the update agent is written against, and a backup    *)
(* that was reported succeeded keeps its restore point and all of its data   *)
(* until its owner deletes it, and is reported only with every container it  *)
(* stopped running again, whatever fails or is killed on the way.            *)
(*                                                                           *)
(* And of what is mailed to the owner: of Relay, a login goes out over the   *)
(* security the owner chose, and the relay shown as verified is the stored   *)
(* one; of Throttle, two alerts of failed sign-ins are a window apart.       *)
(****************************************************************************)
EXTENDS BackupJobs, Relay, Throttle, SequenceTheorems, TLAPS

------------------------------------------------------------------------------
(* Types. *)

\* What createJob writes is a job, and reconciling leaves jobs and places.
LEMMA ReconciledTypes ==
  ASSUME TypeOK
  PROVE  /\ ReconciledJobs \in [Jobs -> JobRecords]
         /\ ReconciledUncollected \subseteq Places
<1>1. CASE ~WorkerLost
  BY <1>1 DEF TypeOK, JobRecords, ReconciledJobs, ReconciledUncollected
<1>2. CASE WorkerLost
  <2>1. current \in Jobs BY <1>2 DEF TypeOK, WorkerLost
  <2> QED BY <1>2, <2>1 DEF TypeOK, JobRecords, ReconciledJobs, ReconciledUncollected, Place
<1> QED BY <1>1, <1>2

\* The agent's own steps.
LEMMA AgentKeepsTypes ==
  ASSUME TypeOK, Reconcile \/ AcknowledgeInterrupted \/ \E j \in Jobs : Request(j)
  PROVE  TypeOK'
<1>1. CASE Reconcile
  BY <1>1, ReconciledTypes
  DEF Reconcile, TypeOK, agentVars, workerVars, archiveVars
<1>2. CASE AcknowledgeInterrupted
  BY <1>2 DEF AcknowledgeInterrupted, TypeOK, agentVars, workerVars, archiveVars
<1>3. ASSUME NEW j \in Jobs, NEW kind \in Kinds, NEW p \in Places,
             NEW t \in Jobs \union {NoJob}, CreateJob(j, kind, p, t)
      PROVE  TypeOK'
  BY <1>3, ReconciledTypes
  DEF CreateJob, TypeOK, JobRecords, workerVars, archiveVars, Steps
<1>4. ASSUME NEW j \in Jobs, Request(j)
      PROVE  TypeOK'
  <2>1. CASE \E p \in Places : CreateJob(j, "backup", p, NoJob)
    BY <2>1, <1>3 DEF Kinds
  <2>2. CASE \E kind \in Kinds \ {"backup"}, t \in listed : CreateJob(j, kind, Place(t), t)
    <3>1. PICK kind \in Kinds, t \in listed : CreateJob(j, kind, Place(t), t)
      BY <2>2
    <3>2. t \in Jobs /\ Place(t) \in Places
      BY <3>1 DEF TypeOK, JobRecords, Place
    <3> QED BY <3>1, <3>2, <1>3
  <2> QED BY <1>4, <2>1, <2>2 DEF Request
<1> QED BY <1>1, <1>2, <1>4

\* What maintenance and a removed archive leave are amounts.
LEMMA ClearedTypes ==
  ASSUME TypeOK, NEW p \in Places
  PROVE  Pruned(p) \in [Jobs -> Amounts] /\ Emptied(p) \in [Jobs -> Amounts]
BY DEF TypeOK, Pruned, Emptied, Amounts

\* The steps of a backup.
LEMMA BackupKeepsTypes ==
  ASSUME TypeOK, NEW j \in Jobs, BackupStep(j)
  PROVE  TypeOK'
<1>0. Place(j) \in Places BY DEF TypeOK, JobRecords, Place
<1>1. CASE Collect(j)
  BY <1>0, <1>1, ClearedTypes DEF Collect, TypeOK, GoTo, Steps, BackupSteps
<1>2. CASE Prepare(j)
  BY <1>2 DEF Prepare, MayFail, TypeOK, GoTo, Steps, BackupSteps, agentVars, archiveVars
<1>3. CASE OpenRepository(j)
  <2>1. founder' \in [Jobs -> BOOLEAN]
    BY <1>3, Zenon DEF OpenRepository, TypeOK
  <2> QED BY <1>0, <1>3, <2>1 DEF OpenRepository, TypeOK, GoTo, Steps, BackupSteps, agentVars
<1>4. CASE HaltApps(j)
  BY <1>4 DEF HaltApps, TypeOK, GoTo, Steps, BackupSteps, agentVars, archiveVars
<1>5. CASE TakeSnapshots(j)
  BY <1>5 DEF TakeSnapshots, TypeOK, GoTo, Steps, BackupSteps, Amounts, agentVars
<1>6. CASE FinishSnapshots(j)
  BY <1>6 DEF FinishSnapshots, TypeOK, GoTo, Steps, BackupSteps, Amounts, agentVars
<1>7. CASE WriteManifest(j)
  BY <1>7 DEF WriteManifest, TypeOK, GoTo, Steps, BackupSteps, agentVars
<1>8. CASE WriteNote(j)
  BY <1>8 DEF WriteNote, TypeOK, GoTo, Steps, BackupSteps, agentVars, archiveVars
<1>9. CASE DiscardManifest(j)
  BY <1>9 DEF DiscardManifest, TypeOK, GoTo, Steps, BackupSteps, agentVars
<1>10. CASE DiscardData(j)
  <2>1. stored' \in [Jobs -> Amounts]
    <3>1. stored' \in {Emptied(Place(j)), [Pruned(Place(j)) EXCEPT ![j] = "none"], stored}
      BY <1>10 DEF DiscardData
    <3> QED BY <3>1, <1>0, ClearedTypes DEF TypeOK, Amounts
  <2> QED
    BY <1>0, <1>10, <2>1
    DEF DiscardData, TypeOK, GoTo, Steps, BackupSteps
<1>11. CASE ResumeApps(j)
  BY <1>11 DEF ResumeApps, AfterResume, TypeOK, GoTo, Steps, agentVars, archiveVars
<1> QED BY <1>1, <1>2, <1>3, <1>4, <1>5, <1>6, <1>7, <1>8, <1>9, <1>10, <1>11 DEF BackupStep

\* The steps of the other kinds of job, the first and last of each, and a kill.
LEMMA WorkerKeepsTypes ==
  ASSUME TypeOK, NEW j \in Jobs, WorkerStep(j) \/ WorkerKilled(j)
  PROVE  TypeOK'
<1>0. Place(j) \in Places BY DEF TypeOK, JobRecords, Place
<1>1. CASE Start(j)
  <2>1. FirstStep(job[j].kind) \in Steps /\ "report failure" \in Steps
    BY DEF FirstStep, Steps, BackupSteps
  <2>2. worker' \in [Jobs -> Steps]
    BY <1>1, <2>1 DEF Start, TypeOK, GoTo
  <2>3. job' \in [Jobs -> JobRecords]
    BY <1>1, ZenonT(30) DEF Start, TypeOK, JobRecords
  <2> QED BY <1>1, <2>2, <2>3 DEF Start, TypeOK, archiveVars
<1>2. CASE Report(j)
  <2>1. job' \in [Jobs -> JobRecords]
    <3>1. PICK status \in {"succeeded", "failed"} : job' = [job EXCEPT ![j].status = status]
      BY <1>2 DEF Report
    <3> QED BY <3>1 DEF TypeOK, JobRecords
  <2>2. worker' \in [Jobs -> Steps]
    BY <1>2 DEF Report, TypeOK, GoTo, Steps
  <2>3. UNCHANGED <<journal, uncollected, halted, founder, running, reachable, archiveVars>>
        /\ current' = j
    BY <1>2 DEF Report
  <2> QED BY <2>1, <2>2, <2>3 DEF TypeOK, archiveVars
<1>3. CASE Unlist(j)
  BY <1>3 DEF Unlist, TypeOK, GoTo, Steps, agentVars
<1>4. CASE Forget(j)
  BY <1>4 DEF Forget, TypeOK, GoTo, Steps, Amounts, agentVars
<1>5. CASE Maintain(j)
  BY <1>0, <1>5, ClearedTypes DEF Maintain, TypeOK, GoTo, Steps, agentVars
<1>6. CASE Check(j)
  BY <1>6 DEF Check, MayFail, TypeOK, GoTo, Steps, agentVars, archiveVars
<1>7. CASE OpenJournal(j)
  BY <1>7 DEF OpenJournal, MayFail, TypeOK, GoTo, Steps, agentVars, archiveVars
<1>8. CASE Restoring(j)
  BY <1>8 DEF Restoring, TypeOK, GoTo, Steps, agentVars, archiveVars
<1>9. CASE WorkerKilled(j)
  BY <1>9 DEF WorkerKilled, TypeOK, GoTo, Steps, agentVars, archiveVars
<1> QED BY <1>1, <1>2, <1>3, <1>4, <1>5, <1>6, <1>7, <1>8, <1>9, BackupKeepsTypes DEF WorkerStep

\* Every variable keeps its type.  The initial place of an unused job id is any
\* place, so there are no initial states at all without one.
THEOREM TypeCorrect == Spec => []TypeOK
<1>1. Init => TypeOK
  <2> SUFFICES ASSUME Init
               PROVE  TypeOK
    OBVIOUS
  <2>1. job \in [Jobs -> JobRecords] BY DEF Init, JobRecords
  <2> QED BY <2>1 DEF Init, TypeOK, Steps, Amounts
<1>2. TypeOK /\ [Next]_vars => TypeOK'
  <2> SUFFICES ASSUME TypeOK, [Next]_vars
               PROVE  TypeOK'
    OBVIOUS
  <2>1. CASE \E p \in Places : PlaceComesAndGoes(p)
    BY <2>1 DEF PlaceComesAndGoes, TypeOK, agentVars, workerVars, archiveVars
  <2>2. CASE UNCHANGED vars
    BY <2>2 DEF vars, TypeOK
  <2> QED BY <2>1, <2>2, AgentKeepsTypes, WorkerKeepsTypes DEF Next
<1> QED BY <1>1, <1>2, PTL DEF Spec
------------------------------------------------------------------------------
(* One worker. *)

\* A live worker is the one of the job current-job.json is a copy of, and that
\* copy does not claim to be over: the two checks createJob makes see it.
LiveIsCurrent == \A j \in Jobs : Live(j) => current = j /\ Active(j)

\* A step of a worker is taken by a live one, leaves every other job alone, and
\* writes its own record only; the worker has exited once its record is over.
LEMMA WorkerFrame ==
  ASSUME TypeOK, NEW j \in Jobs, WorkerStep(j) \/ WorkerKilled(j)
  PROVE  /\ Live(j)
         /\ \A k \in Jobs \ {j} : worker'[k] = worker[k] /\ job'[k] = job[k]
         /\ current' \in {current, j}
         /\ job' # job => (Live(j)' /\ Active(j)') \/ worker'[j] = "exited"
<1>1. CASE Start(j)
  BY <1>1 DEF Start, TypeOK, JobRecords, GoTo, At, Live, Active, FirstStep
<1>2. CASE Report(j)
  BY <1>2 DEF Report, TypeOK, GoTo, Live
<1>3. CASE BackupStep(j)
  BY <1>3 DEF BackupStep, Collect, Prepare, OpenRepository, HaltApps, TakeSnapshots,
              FinishSnapshots, WriteManifest, WriteNote, DiscardManifest, DiscardData,
              ResumeApps, MayFail, TypeOK, GoTo, At, Live, agentVars
<1>4. CASE Unlist(j) \/ Forget(j) \/ Maintain(j)
  BY <1>4, ZenonT(30) DEF Unlist, Forget, Maintain, TypeOK, GoTo, At, Live, agentVars
<1>5. CASE Check(j) \/ OpenJournal(j) \/ Restoring(j)
  BY <1>5 DEF Check, OpenJournal, Restoring, MayFail, TypeOK, GoTo, At, Live, agentVars
<1>6. CASE WorkerKilled(j)
  BY <1>6 DEF WorkerKilled, TypeOK, GoTo, Live, agentVars
<1> QED BY <1>1, <1>2, <1>3, <1>4, <1>5, <1>6 DEF WorkerStep

LEMMA LiveIsCurrentInductive ==
  ASSUME TypeOK, LiveIsCurrent, [Next]_vars
  PROVE  LiveIsCurrent'
<1>1. CASE Reconcile
  BY <1>1 DEF Reconcile, WorkerLost, ReconciledJobs, LiveIsCurrent, Live, Active,
              TypeOK, workerVars
<1>2. CASE AcknowledgeInterrupted
  BY <1>2 DEF AcknowledgeInterrupted, LiveIsCurrent, Live, Active, agentVars, workerVars
<1>3. ASSUME NEW j \in Jobs, NEW kind, NEW p, NEW t, CreateJob(j, kind, p, t)
      PROVE  LiveIsCurrent'
  <2>1. \A k \in Jobs : ~Live(k)
    BY <1>3, NoJobAssumption DEF CreateJob, Idle, LiveIsCurrent
  <2>2. ReconciledJobs \in [Jobs -> JobRecords] BY ReconciledTypes
  <2>3. /\ current' = j
        /\ job'[j].status = "queued"
        /\ \A k \in Jobs \ {j} : worker'[k] = worker[k]
    BY <1>3, <2>2 DEF CreateJob, TypeOK
  <2> QED BY <2>1, <2>3 DEF LiveIsCurrent, Live, Active
<1>4. ASSUME NEW j \in Jobs, Request(j)
      PROVE  LiveIsCurrent'
  BY <1>3, <1>4 DEF Request
<1>5. ASSUME NEW j \in Jobs, WorkerStep(j) \/ WorkerKilled(j)
      PROVE  LiveIsCurrent'
  <2>1. Live(j) /\ current = j /\ Active(j)
    BY <1>5, WorkerFrame DEF LiveIsCurrent
  <2>2. \A k \in Jobs \ {j} : ~Live(k) /\ ~Live(k)'
    BY <1>5, <2>1, WorkerFrame DEF LiveIsCurrent, Live
  <2>3. current' = j BY <1>5, <2>1, WorkerFrame
  <2>4. Live(j)' => Active(j)'
    BY <1>5, <2>1, WorkerFrame DEF Live, Active
  <2> QED BY <2>2, <2>3, <2>4 DEF LiveIsCurrent
<1>6. CASE \E p \in Places : PlaceComesAndGoes(p)
  BY <1>6 DEF PlaceComesAndGoes, LiveIsCurrent, Live, Active, agentVars, workerVars
<1>7. CASE UNCHANGED vars
  BY <1>7 DEF vars, LiveIsCurrent, Live, Active
<1> QED BY <1>1, <1>2, <1>4, <1>5, <1>6, <1>7 DEF Next

\* At most one worker process exists at any time, whatever is killed and however
\* requests, polls and reports interleave.
THEOREM OneWorkerAtATime == Spec => []OneWorker
<1>1. Init => LiveIsCurrent BY DEF Init, LiveIsCurrent, Live
<1>2. TypeOK /\ LiveIsCurrent /\ [Next]_vars => LiveIsCurrent'
  BY LiveIsCurrentInductive
<1>3. LiveIsCurrent => OneWorker BY DEF LiveIsCurrent, OneWorker
<1> QED BY <1>1, <1>2, <1>3, TypeCorrect, PTL DEF Spec
------------------------------------------------------------------------------
(* The promise of BackupQueue. *)

\* At most one job claims to be active: createJob settles the one before it.
ActiveIsCurrent == \A j \in Jobs : Active(j) => current = j

LEMMA ActiveIsCurrentInductive ==
  ASSUME TypeOK, LiveIsCurrent, ActiveIsCurrent, [Next]_vars
  PROVE  ActiveIsCurrent'
<1>1. CASE Reconcile
  BY <1>1 DEF Reconcile, WorkerLost, ReconciledJobs, ActiveIsCurrent, Active, TypeOK,
              JobRecords
<1>2. CASE AcknowledgeInterrupted
  BY <1>2 DEF AcknowledgeInterrupted, ActiveIsCurrent, Active, agentVars
<1>3. ASSUME NEW j \in Jobs, NEW kind, NEW p, NEW t, CreateJob(j, kind, p, t)
      PROVE  ActiveIsCurrent'
  <2>1. \A k \in Jobs : ReconciledJobs[k].status \notin {"queued", "running"}
    <3>1. \A k \in Jobs : Active(k) => WorkerLost /\ current = k
      BY <1>3, NoJobAssumption DEF CreateJob, Idle, WorkerLost, ActiveIsCurrent
    <3> QED BY <3>1 DEF WorkerLost, ReconciledJobs, Active, TypeOK, JobRecords
  <2>2. current' = j /\ \A k \in Jobs \ {j} : job'[k] = ReconciledJobs[k]
    BY <1>3, ReconciledTypes DEF CreateJob
  <2> QED BY <2>1, <2>2 DEF ActiveIsCurrent, Active
<1>4. ASSUME NEW j \in Jobs, Request(j)
      PROVE  ActiveIsCurrent'
  BY <1>3, <1>4 DEF Request
<1>5. ASSUME NEW j \in Jobs, WorkerStep(j) \/ WorkerKilled(j)
      PROVE  ActiveIsCurrent'
  BY <1>5, WorkerFrame DEF LiveIsCurrent, ActiveIsCurrent, Active
<1>6. CASE \E p \in Places : PlaceComesAndGoes(p)
  BY <1>6 DEF PlaceComesAndGoes, ActiveIsCurrent, Active, agentVars
<1>7. CASE UNCHANGED vars
  BY <1>7 DEF vars, ActiveIsCurrent, Active
<1> QED BY <1>1, <1>2, <1>4, <1>5, <1>6, <1>7 DEF Next

\* What a caller of the queue sees of a job, and what it cannot see.
ShownJobs == [j \in Jobs |-> IF Active(j) THEN "active" ELSE job[j].status]
Gone == {j \in Jobs : Active(j) /\ ~Live(j)}

LEMMA BusyIsActive ==
  ASSUME TypeOK
  PROVE  Queue!Busy = {j \in Jobs : Active(j)}
BY DEF Queue!Busy, Active, TypeOK, JobRecords

\* Reconciling is a caller noticing that an active job has no worker.
LEMMA ReconcileGivesUp ==
  ASSUME TypeOK, Reconcile
  PROVE  \E j \in Jobs : Queue!GiveUp(j)
<1>1. current \in Jobs /\ Active(current) /\ ~Live(current)
  BY DEF Reconcile, WorkerLost, TypeOK
<1>2. /\ job'[current].status = "failed"
      /\ \A k \in Jobs \ {current} : job'[k] = job[k]
      /\ worker' = worker
  BY <1>1 DEF Reconcile, ReconciledJobs, TypeOK, JobRecords, workerVars
<1>3. ShownJobs' = [ShownJobs EXCEPT ![current] = "failed"]
  BY <1>1, <1>2 DEF ShownJobs, Active
<1>4. Gone' = Gone \ {current} BY <1>1, <1>2 DEF Gone, Active, Live
<1> QED BY <1>1, <1>3, <1>4, BusyIsActive DEF Queue!GiveUp, ShownJobs, Gone

\* A job that is created is accepted, and what was active before it has failed.
LEMMA CreateAccepts ==
  ASSUME TypeOK, LiveIsCurrent, ActiveIsCurrent,
         NEW j \in Jobs, NEW kind, NEW p, NEW t, CreateJob(j, kind, p, t)
  PROVE  Queue!Accept(j)
<1>1. job[j].status = "none" /\ ShownJobs[j] = "none"
  BY DEF CreateJob, ShownJobs, Active
<1>2. \A k \in Jobs : Active(k) => ~Live(k) /\ WorkerLost /\ current = k
  BY NoJobAssumption DEF CreateJob, Idle, WorkerLost, ActiveIsCurrent
<1>3. \A k \in Jobs : ReconciledJobs[k].status = IF Active(k) THEN "failed" ELSE job[k].status
  BY <1>2 DEF WorkerLost, ReconciledJobs, TypeOK, JobRecords, Active
<1>4. /\ job'[j].status = "queued" /\ worker'[j] = "spawned"
      /\ \A k \in Jobs \ {j} : job'[k] = ReconciledJobs[k] /\ worker'[k] = worker[k]
  BY ReconciledTypes DEF CreateJob, TypeOK
<1>5. \A k \in Jobs : Active(k)' <=> k = j BY <1>3, <1>4 DEF Active
<1>6. ShownJobs' = [k \in Jobs |-> IF k = j THEN "active"
                               ELSE IF k \in Queue!Busy THEN "failed" ELSE ShownJobs[k]]
  BY <1>3, <1>4, <1>5, BusyIsActive DEF ShownJobs
<1>7. Gone' = {} BY <1>4, <1>5 DEF Gone, Live
<1>8. Queue!Busy \subseteq Gone BY <1>2, BusyIsActive DEF Gone
<1> QED BY <1>1, <1>6, <1>7, <1>8 DEF Queue!Accept, ShownJobs, Gone

\* Only its last report ends the record of a live worker.
LEMMA ReportEnds ==
  ASSUME TypeOK, NEW j \in Jobs, WorkerStep(j) \/ WorkerKilled(j), Active(j), ~Active(j)'
  PROVE  Report(j)
<1>1. ~Start(j) BY DEF Start, TypeOK, JobRecords, Active
<1>2. WorkerStep(j) /\ ~Start(j) /\ ~Report(j) => job' = job
  BY DEF WorkerStep, BackupStep, Collect, Prepare, OpenRepository, HaltApps, TakeSnapshots,
         FinishSnapshots, WriteManifest, WriteNote, DiscardManifest, DiscardData, ResumeApps,
         Unlist, Forget, Maintain, Check, OpenJournal, Restoring, MayFail, agentVars
<1>3. WorkerKilled(j) => job' = job BY DEF WorkerKilled, agentVars
<1> QED BY <1>1, <1>2, <1>3 DEF Active

\* A worker's step is seen by nobody, or it is its result, or its end.
LEMMA WorkerSettlesOrLoses ==
  ASSUME TypeOK, LiveIsCurrent, NEW j \in Jobs, WorkerStep(j) \/ WorkerKilled(j)
  PROVE  \/ \E result \in Queue!Results : Queue!Settle(j, result)
         \/ Queue!Lose(j)
         \/ UNCHANGED <<ShownJobs, Gone>>
<1>1. Live(j) /\ Active(j) /\ j \in Queue!Busy \ Gone
  BY WorkerFrame, BusyIsActive DEF LiveIsCurrent, Gone
<1>2. \A k \in Jobs \ {j} : Active(k)' = Active(k) /\ Live(k)' = Live(k)
                            /\ job'[k].status = job[k].status
  BY WorkerFrame DEF Active, Live
<1>3. CASE Active(j)' /\ Live(j)'
  BY <1>1, <1>2, <1>3 DEF ShownJobs, Gone
<1>4. CASE Active(j)' /\ ~Live(j)'
  <2>1. ShownJobs' = ShownJobs /\ Gone' = Gone \union {j}
    BY <1>1, <1>2, <1>4 DEF ShownJobs, Gone
  <2> QED BY <1>1, <2>1 DEF Queue!Lose, ShownJobs, Gone
<1>5. CASE ~Active(j)'
  <2>1. Report(j) BY <1>1, <1>5, ReportEnds
  <2>2. PICK result \in Queue!Results : job'[j].status = result
    BY <2>1 DEF Report, Queue!Results, TypeOK, JobRecords
  <2>3. ShownJobs' = [ShownJobs EXCEPT ![j] = result] /\ Gone' = Gone
    BY <1>1, <1>2, <1>5, <2>2 DEF ShownJobs, Gone
  <2> QED BY <1>1, <2>3 DEF Queue!Settle, ShownJobs, Gone
<1> QED BY <1>3, <1>4, <1>5

LEMMA StepImplementsQueue ==
  ASSUME TypeOK, LiveIsCurrent, ActiveIsCurrent, [Next]_vars
  PROVE  Queue!QueueNext \/ UNCHANGED <<ShownJobs, Gone>>
<1>1. CASE Reconcile
  BY <1>1, ReconcileGivesUp DEF Queue!QueueNext
<1>2. CASE AcknowledgeInterrupted
  BY <1>2 DEF AcknowledgeInterrupted, ShownJobs, Gone, Active, Live, agentVars, workerVars
<1>3. ASSUME NEW j \in Jobs, Request(j)
      PROVE  Queue!QueueNext
  <2>1. Queue!Accept(j) BY <1>3, CreateAccepts DEF Request
  <2> QED BY <2>1 DEF Queue!QueueNext
<1>4. ASSUME NEW j \in Jobs, WorkerStep(j) \/ WorkerKilled(j)
      PROVE  Queue!QueueNext \/ UNCHANGED <<ShownJobs, Gone>>
  BY <1>4, WorkerSettlesOrLoses DEF Queue!QueueNext
<1>5. CASE \E p \in Places : PlaceComesAndGoes(p)
  BY <1>5 DEF PlaceComesAndGoes, ShownJobs, Gone, Active, Live, agentVars, workerVars
<1>6. CASE UNCHANGED vars
  BY <1>6 DEF vars, ShownJobs, Gone, Active, Live
<1> QED BY <1>1, <1>2, <1>3, <1>4, <1>5, <1>6 DEF Next

\* The agent and its workers are an implementation of the one-job queue the update
\* agent and the schedule rely on.
THEOREM AgentImplementsQueue == Spec => ImplementsQueue
<1>1. Init => LiveIsCurrent /\ ActiveIsCurrent
  BY DEF Init, LiveIsCurrent, ActiveIsCurrent, Live, Active
<1>2. TypeOK /\ LiveIsCurrent /\ ActiveIsCurrent /\ [Next]_vars
      => LiveIsCurrent' /\ ActiveIsCurrent'
  BY LiveIsCurrentInductive, ActiveIsCurrentInductive
<1>3. Init => Queue!QueueInit BY DEF Init, Queue!QueueInit, Active
<1>4. TypeOK /\ LiveIsCurrent /\ ActiveIsCurrent /\ [Next]_vars
      => [Queue!QueueNext]_(Queue!queueVars)
  BY StepImplementsQueue DEF Queue!queueVars, ShownJobs, Gone
<1> QED BY <1>1, <1>2, <1>3, <1>4, TypeCorrect, PTL DEF Spec, ImplementsQueue, Queue!QueueSpec

------------------------------------------------------------------------------
(* The restore points: the inductive invariant. *)

\* A worker takes only the steps of its own kind of job, and has said so in its
\* record before it takes the first of them.
StepsFitKind ==
  \A j \in Jobs :
    /\ job[j].status # "none" => job[j].kind # "none"
    /\ job[j].kind # "none" => job[j].status # "none"
    /\ worker[j] \in BackupSteps => job[j].kind = "backup"
    /\ worker[j] \in {"unlist", "forget", "maintain"} => job[j].kind = "delete"
    /\ worker[j] \in {"check", "open journal", "restoring"} => job[j].kind # "backup"
    /\ worker[j] \in {"unlist", "forget", "maintain"} => job[j].status = "running"

\* Nothing is listed or stored of a job nobody asked for, or where no repository is.
WrittenInRepositories ==
  \A j \in Jobs : job[j].status = "none" \/ Place(j) \notin repository
                  => j \notin listed /\ stored[j] = "none"

\* Steps of a backup between its opening a repository and leaving it for good.
WritingSteps == {"halt", "snapshot", "finish snapshots", "manifest", "note",
                 "discard manifest", "discard data"}

\* What a backup writes to is there, and holds nothing of another job if it made it.
WritersHaveARepository ==
  \A j \in Jobs : worker[j] \in WritingSteps =>
    /\ Place(j) \in repository
    /\ job[j].status # "none"
    /\ founder[j] => \A k \in Jobs \ {j} : Place(k) = Place(j) /\ job[k].status # "none"
                                             => k \notin listed /\ stored[k] = "none"

\* A delete that has not ended is of a job that was asked for, at the place of the
\* delete, which holds a repository.
DeletesHaveATarget ==
  \A d \in Jobs : Live(d) /\ job[d].kind = "delete" =>
    /\ job[d].target \in Jobs
    /\ job[job[d].target].status # "none"
    /\ Place(job[d].target) = Place(d)
    /\ Place(d) \in repository

\* What a backup has done by the step it is at: all is stored before it is listed, and
\* it is listed before it can be reported.
Progressed ==
  \A j \in Jobs :
    /\ worker[j] \in {"manifest", "note", "resume"} => stored[j] = "all"
    /\ worker[j] \in {"note", "resume"} => j \in listed
    /\ worker[j] = "report" /\ job[j].kind = "backup" => j \in listed /\ stored[j] = "all"

PointsInv ==
  /\ StepsFitKind
  /\ WrittenInRepositories
  /\ WritersHaveARepository
  /\ DeletesHaveATarget
  /\ Progressed
  /\ SucceededIsRestorable

\* A backup alone remembers containers, and has them all running before it reports.
HaltedAreRunning ==
  \A j \in Jobs :
    /\ job[j].kind # "backup" => halted[j] = {}
    /\ worker[j] = "report" => halted[j] \subseteq running

------------------------------------------------------------------------------
(* What a step of a worker leaves alone. *)

\* The worker that takes a step is the only live one; it changes its own record in
\* its status only, and no other job's.
LEMMA WorkerAlone ==
  ASSUME TypeOK, LiveIsCurrent, NEW j \in Jobs, WorkerStep(j) \/ WorkerKilled(j)
  PROVE  /\ Live(j) /\ Active(j)
         /\ \A k \in Jobs \ {j} : /\ worker[k] \in {"none", "dead", "exited"}
                                  /\ worker'[k] = worker[k]
                                  /\ job'[k] = job[k]
         /\ job'[j].kind = job[j].kind
         /\ job'[j].place = job[j].place
         /\ job'[j].target = job[j].target
         /\ job'[j].status # "none"
         /\ job[j].status # "none"
<1>1. Live(j) /\ Active(j) /\ \A k \in Jobs \ {j} : worker'[k] = worker[k] /\ job'[k] = job[k]
  BY WorkerFrame DEF LiveIsCurrent
<1>2. \A k \in Jobs \ {j} : worker[k] \in {"none", "dead", "exited"}
  BY <1>1 DEF LiveIsCurrent, Live
<1>3. Start(j) \/ Report(j) \/ job' = job
  BY DEF WorkerStep, WorkerKilled, BackupStep, Collect, Prepare, OpenRepository, HaltApps,
         TakeSnapshots, FinishSnapshots, WriteManifest, WriteNote, DiscardManifest, DiscardData,
         ResumeApps, Unlist, Forget, Maintain, Check, OpenJournal, Restoring, MayFail, agentVars
<1>4. \/ job' = job
      \/ \E status \in {"running", "succeeded", "failed"} : job' = [job EXCEPT ![j].status = status]
  BY <1>3 DEF Start, Report
<1>5. /\ job'[j].kind = job[j].kind
      /\ job'[j].place = job[j].place
      /\ job'[j].target = job[j].target
      /\ job'[j].status # "none"
      /\ job[j].status # "none"
  <2>1. CASE job' = job
    BY <1>1, <2>1 DEF Active
  <2>2. ASSUME NEW status \in {"running", "succeeded", "failed"},
               job' = [job EXCEPT ![j].status = status]
        PROVE  job'[j] = [job[j] EXCEPT !.status = status]
    BY <2>2 DEF TypeOK
  <2>3. job[j] \in JobRecords /\ job[j].status # "none"
    BY <1>1 DEF TypeOK, Active
  <2> QED
    <3>1. \A status \in {"running", "succeeded", "failed"} :
            LET r == [job[j] EXCEPT !.status = status]
            IN  /\ r.kind = job[j].kind /\ r.place = job[j].place
                /\ r.target = job[j].target /\ r.status = status
      BY <2>3 DEF JobRecords
    <3> QED BY <1>4, <2>1, <2>2, <2>3, <3>1
<1> QED BY <1>1, <1>2, <1>5

\* The place and the kind of every job stay as they were.
LEMMA StepKeepsStepsFitKind ==
  ASSUME TypeOK, LiveIsCurrent, StepsFitKind, NEW j \in Jobs, WorkerStep(j) \/ WorkerKilled(j)
  PROVE  StepsFitKind'
<1> DEFINE Fits(k) == /\ job[k].status # "none" => job[k].kind # "none"
                      /\ job[k].kind # "none" => job[k].status # "none"
                      /\ worker[k] \in BackupSteps => job[k].kind = "backup"
                      /\ worker[k] \in {"unlist", "forget", "maintain"} => job[k].kind = "delete"
                      /\ worker[k] \in {"check", "open journal", "restoring"} => job[k].kind # "backup"
                      /\ worker[k] \in {"unlist", "forget", "maintain"} => job[k].status = "running"
<1>1. \A k \in Jobs \ {j} : Fits(k)'
  <2>1. TAKE k \in Jobs \ {j}
  <2>2. worker'[k] = worker[k] /\ job'[k] = job[k] BY WorkerAlone
  <2>3. Fits(k) BY DEF StepsFitKind
  <2> QED BY <2>2, <2>3
<1>2. Fits(j)'
  <2>0. /\ Fits(j) /\ job[j].kind # "none"
        /\ job'[j].kind = job[j].kind /\ job'[j].status # "none"
    BY WorkerAlone DEF StepsFitKind
  <2>1. CASE Start(j)
    <3>1. worker'[j] \in {"report failure", FirstStep(job[j].kind)} /\ job'[j].status = "running"
      BY <2>1 DEF Start, GoTo, TypeOK, JobRecords
    <3>2. job[j].kind \in Kinds BY <2>0 DEF TypeOK, JobRecords
    <3> QED BY <2>0, <3>1, <3>2 DEF FirstStep, BackupSteps, Kinds
  <2>2. CASE Report(j) \/ WorkerKilled(j)
    BY <2>0, <2>2 DEF Report, WorkerKilled, GoTo, TypeOK, BackupSteps
  <2>3. CASE BackupStep(j)
    <3> DEFINE Taken(k) == /\ worker[k] \in BackupSteps
                           /\ worker'[k] \in BackupSteps \union {"report", "report failure"}
    <3>1. ASSUME Collect(j) \/ Prepare(j) \/ OpenRepository(j) \/ HaltApps(j)
          PROVE  Taken(j)
      BY <3>1 DEF Collect, Prepare, OpenRepository, HaltApps, MayFail, TypeOK, GoTo, At, BackupSteps
    <3>2. ASSUME TakeSnapshots(j) \/ FinishSnapshots(j) \/ WriteManifest(j) \/ WriteNote(j)
          PROVE  Taken(j)
      BY <3>2 DEF TakeSnapshots, FinishSnapshots, WriteManifest, WriteNote, TypeOK, GoTo, At,
                  BackupSteps
    <3>3. ASSUME DiscardManifest(j) \/ DiscardData(j) \/ ResumeApps(j)
          PROVE  Taken(j)
      BY <3>3 DEF DiscardManifest, DiscardData, ResumeApps, AfterResume, TypeOK, GoTo, At, BackupSteps
    <3>4. Taken(j) BY <2>3, <3>1, <3>2, <3>3 DEF BackupStep
    <3> QED BY <2>0, <3>4 DEF BackupSteps
  <2>4. CASE Unlist(j) \/ Forget(j) \/ Maintain(j)
    BY <2>0, <2>4 DEF Unlist, Forget, Maintain, TypeOK, GoTo, At, BackupSteps, agentVars
  <2>5. CASE Check(j) \/ OpenJournal(j) \/ Restoring(j)
    BY <2>0, <2>5 DEF Check, OpenJournal, Restoring, MayFail, TypeOK, GoTo, At, BackupSteps
  <2> QED BY <2>1, <2>2, <2>3, <2>4, <2>5 DEF WorkerStep
<1> QED BY <1>1, <1>2 DEF StepsFitKind

\* The steps that leave the archive and its founder as they are.
QuietStep(j) ==
  \/ Start(j) \/ Report(j) \/ Prepare(j) \/ HaltApps(j) \/ WriteNote(j) \/ ResumeApps(j)
  \/ Check(j) \/ OpenJournal(j) \/ Restoring(j) \/ WorkerKilled(j)

\* What there is at every place stays where a repository holds it.
LEMMA StepKeepsWritten ==
  ASSUME TypeOK, LiveIsCurrent, PointsInv, NEW j \in Jobs, WorkerStep(j) \/ WorkerKilled(j)
  PROVE  WrittenInRepositories'
<1>1. \A k \in Jobs : Place(k)' = Place(k) /\ (job'[k].status = "none" => job[k].status = "none")
  BY WorkerAlone DEF Place
<1>2. \A k \in Jobs : k # j /\ job[k].status = "none" => k \notin listed /\ stored[k] = "none"
  BY DEF PointsInv, WrittenInRepositories
<1>3. job[j].status # "none" /\ Live(j) BY WorkerAlone
<1>4. CASE QuietStep(j)
  <2>1. UNCHANGED <<repository, stored, listed>>
    BY <1>4 DEF QuietStep, Start, Report, Prepare, HaltApps, WriteNote, ResumeApps, Check,
                OpenJournal, Restoring, WorkerKilled, archiveVars
  <2> QED BY <1>1, <2>1 DEF PointsInv, WrittenInRepositories
<1>5. CASE Collect(j)
  <2>1. stored' \in {stored, Pruned(Place(j))} /\ UNCHANGED <<repository, listed>>
    BY <1>5 DEF Collect
  <2> QED BY <1>1, <2>1 DEF Pruned, PointsInv, WrittenInRepositories
<1>6. CASE OpenRepository(j)
  <2>1. repository \subseteq repository' /\ UNCHANGED <<stored, listed>>
    BY <1>6 DEF OpenRepository
  <2> QED BY <1>1, <2>1 DEF PointsInv, WrittenInRepositories
<1>7. CASE TakeSnapshots(j) \/ FinishSnapshots(j) \/ WriteManifest(j)
  <2>1. Place(j) \in repository
    BY <1>7 DEF PointsInv, WritersHaveARepository, WritingSteps, TakeSnapshots, FinishSnapshots,
                WriteManifest, At
  <2>2. /\ repository' = repository
        /\ \A k \in Jobs \ {j} : stored'[k] = stored[k]
        /\ listed' \subseteq listed \union {j}
    BY <1>7 DEF TakeSnapshots, FinishSnapshots, WriteManifest, TypeOK
  <2> QED BY <1>1, <1>3, <2>1, <2>2, WorkerAlone DEF PointsInv, WrittenInRepositories
<1>8. CASE DiscardManifest(j) \/ Unlist(j)
  <2>1. listed' \subseteq listed /\ UNCHANGED <<repository, stored>>
    BY <1>8 DEF DiscardManifest, Unlist
  <2> QED BY <1>1, <2>1 DEF PointsInv, WrittenInRepositories
<1>9. CASE DiscardData(j)
  <2>1. CASE Removable(j)
    <3>1. /\ stored' = Emptied(Place(j))
          /\ repository' = repository \ {Place(j)}
          /\ listed' = {k \in listed : Place(k) # Place(j)}
      BY <1>9, <2>1 DEF DiscardData
    <3> QED BY <1>1, <3>1, WorkerAlone DEF Emptied, PointsInv, WrittenInRepositories
  <2>2. CASE ~Removable(j)
    <3>1. /\ stored' \in {stored, [Pruned(Place(j)) EXCEPT ![j] = "none"]}
          /\ UNCHANGED <<repository, listed>>
      BY <1>9, <2>2 DEF DiscardData
    <3> QED BY <1>1, <3>1 DEF Pruned, PointsInv, WrittenInRepositories
  <2> QED BY <2>1, <2>2
<1>10. CASE Forget(j)
  <2>1. LET t == job[j].target
        IN  t \in Jobs /\ job[t].status # "none" /\ Place(t) \in repository
    BY <1>3, <1>10 DEF PointsInv, DeletesHaveATarget, StepsFitKind, Forget, At
  <2>2. /\ UNCHANGED <<job, repository, listed>>
        /\ stored' \in {stored, [stored EXCEPT ![job[j].target] = "packs"]}
    BY <1>10 DEF Forget, agentVars
  <2> QED BY <2>1, <2>2 DEF PointsInv, WrittenInRepositories, Place, TypeOK
<1>11. CASE Maintain(j)
  <2>1. stored' \in {stored, Pruned(Place(j))} /\ UNCHANGED <<repository, listed>>
    BY <1>11 DEF Maintain
  <2> QED BY <1>1, <2>1 DEF Pruned, PointsInv, WrittenInRepositories
<1> QED BY <1>4, <1>5, <1>6, <1>7, <1>8, <1>9, <1>10, <1>11 DEF WorkerStep, BackupStep, QuietStep

\* A backup that writes goes on writing where it opened a repository: only its own
\* discard removes that, and a founder finds none of another job's data before it and
\* lets none in.
LEMMA StepKeepsWriters ==
  ASSUME TypeOK, LiveIsCurrent, PointsInv, NEW j \in Jobs, WorkerStep(j) \/ WorkerKilled(j)
  PROVE  WritersHaveARepository'
<1> DEFINE Alone == founder[j] => \A k \in Jobs \ {j} : Place(k) = Place(j) /\ job[k].status # "none"
                                                        => k \notin listed /\ stored[k] = "none"
           Writer == Place(j) \in repository /\ Alone
<1>1. /\ job'[j].status # "none"
      /\ Place(j)' = Place(j)
      /\ \A k \in Jobs \ {j} : /\ Place(k)' = Place(k)
                               /\ job'[k].status = job[k].status
                               /\ worker'[k] \notin WritingSteps
  BY WorkerAlone DEF Place, WritingSteps
<1>2. SUFFICES ASSUME worker'[j] \in WritingSteps
               PROVE  Writer'
  BY <1>1 DEF WritersHaveARepository
<1>3. worker[j] \in WritingSteps => Writer
  BY DEF PointsInv, WritersHaveARepository
<1>4. CASE OpenRepository(j)
  <2>1. /\ repository' = repository \union {Place(j)}
        /\ founder'[j] => Place(j) \notin repository
        /\ UNCHANGED <<stored, listed>>
    BY <1>2, <1>4 DEF OpenRepository, GoTo, TypeOK, WritingSteps
  <2> QED BY <1>1, <2>1 DEF PointsInv, WrittenInRepositories
<1>5. CASE DiscardManifest(j) \/ TakeSnapshots(j) \/ FinishSnapshots(j) \/ WriteManifest(j)
  <2>1. /\ worker[j] \in WritingSteps
        /\ UNCHANGED <<repository, founder>>
        /\ listed' \subseteq listed \union {j}
        /\ \A k \in Jobs \ {j} : stored'[k] = stored[k]
    BY <1>5 DEF DiscardManifest, TakeSnapshots, FinishSnapshots, WriteManifest, At, WritingSteps,
                TypeOK
  <2> QED BY <1>1, <1>3, <2>1
<1>6. CASE HaltApps(j) \/ WriteNote(j)
  <2>1. worker[j] \in WritingSteps /\ UNCHANGED <<repository, founder, listed, stored>>
    BY <1>6 DEF HaltApps, WriteNote, At, WritingSteps, archiveVars
  <2> QED BY <1>1, <1>3, <2>1
<1>7. CASE Start(j) \/ Report(j) \/ WorkerKilled(j) \/ Check(j) \/ OpenJournal(j) \/ Restoring(j)
  <2>1. CASE Start(j)
    BY <1>2, <2>1 DEF Start, FirstStep, GoTo, TypeOK, WritingSteps
  <2>2. CASE Report(j)
    BY <1>2, <2>2 DEF Report, GoTo, TypeOK, WritingSteps
  <2>3. CASE WorkerKilled(j)
    BY <1>2, <2>3 DEF WorkerKilled, GoTo, TypeOK, WritingSteps
  <2>4. CASE Check(j)
    BY <1>2, <2>4 DEF Check, MayFail, GoTo, TypeOK, WritingSteps
  <2>5. CASE OpenJournal(j)
    BY <1>2, <2>5 DEF OpenJournal, MayFail, GoTo, TypeOK, WritingSteps
  <2>6. CASE Restoring(j)
    BY <1>2, <2>6 DEF Restoring, At, GoTo, TypeOK, WritingSteps
  <2> QED BY <1>7, <2>1, <2>2, <2>3, <2>4, <2>5, <2>6
<1>8. CASE Collect(j) \/ Prepare(j) \/ DiscardData(j) \/ ResumeApps(j)
  <2>1. CASE Collect(j) \/ Prepare(j)
    BY <1>2, <2>1 DEF Collect, Prepare, MayFail, GoTo, TypeOK, WritingSteps
  <2>2. CASE DiscardData(j)
    BY <1>2, <2>2 DEF DiscardData, GoTo, TypeOK, WritingSteps
  <2>3. CASE ResumeApps(j)
    BY <1>2, <2>3 DEF ResumeApps, AfterResume, GoTo, TypeOK, WritingSteps
  <2> QED BY <1>8, <2>1, <2>2, <2>3
<1>9. CASE Unlist(j) \/ Forget(j) \/ Maintain(j)
  BY <1>2, <1>9 DEF Unlist, Forget, Maintain, GoTo, TypeOK, WritingSteps
<1> QED BY <1>4, <1>5, <1>6, <1>7, <1>8, <1>9 DEF WorkerStep, BackupStep

\* The target of a delete under way was asked for once, where the delete is, and no
\* repository goes while a delete is under way.
LEMMA StepKeepsTargets ==
  ASSUME TypeOK, LiveIsCurrent, PointsInv, NEW j \in Jobs, WorkerStep(j) \/ WorkerKilled(j)
  PROVE  DeletesHaveATarget'
<1>1. \A d \in Jobs : Live(d)' => d = j /\ Live(j)
  BY WorkerAlone DEF Live
<1>2. \A k \in Jobs : /\ job'[k].kind = job[k].kind /\ job'[k].target = job[k].target
                      /\ Place(k)' = Place(k)
                      /\ job[k].status # "none" => job'[k].status # "none"
  BY WorkerAlone DEF Place
<1>3. job[j].kind = "delete" => repository \subseteq repository'
  BY DEF PointsInv, StepsFitKind, BackupSteps, At, WorkerStep, BackupStep, Start, Report, Collect,
         Prepare, OpenRepository, HaltApps, TakeSnapshots, FinishSnapshots, WriteManifest, WriteNote,
         DiscardManifest, DiscardData, ResumeApps, Unlist, Forget, Maintain, Check, OpenJournal,
         Restoring, WorkerKilled, MayFail, archiveVars
<1> QED BY <1>1, <1>2, <1>3 DEF PointsInv, DeletesHaveATarget

\* A backup gets past a step only with what that step was to write.
LEMMA StepKeepsProgress ==
  ASSUME TypeOK, LiveIsCurrent, PointsInv, NEW j \in Jobs, WorkerStep(j) \/ WorkerKilled(j)
  PROVE  Progressed'
<1> DEFINE Done(k) == /\ worker[k] \in {"manifest", "note", "resume"} => stored[k] = "all"
                      /\ worker[k] \in {"note", "resume"} => k \in listed
                      /\ worker[k] = "report" /\ job[k].kind = "backup"
                         => k \in listed /\ stored[k] = "all"
<1>1. \A k \in Jobs \ {j} : worker'[k] \in {"none", "dead", "exited"}
  BY WorkerAlone
<1>2. Done(j) /\ job'[j].kind = job[j].kind
  BY WorkerAlone DEF PointsInv, Progressed
<1>3. Done(j)'
  <2>1. CASE Start(j)
    BY <2>1 DEF Start, FirstStep, GoTo, TypeOK
  <2>2. CASE Report(j) \/ WorkerKilled(j)
    BY <2>2 DEF Report, WorkerKilled, GoTo, TypeOK
  <2>3. CASE Collect(j) \/ Prepare(j) \/ OpenRepository(j) \/ HaltApps(j)
    BY <2>3 DEF Collect, Prepare, OpenRepository, HaltApps, MayFail, GoTo, TypeOK
  <2>4. CASE TakeSnapshots(j) \/ FinishSnapshots(j) \/ WriteManifest(j)
    BY <1>2, <2>4 DEF TakeSnapshots, FinishSnapshots, WriteManifest, GoTo, At, TypeOK
  <2>5. CASE WriteNote(j) \/ DiscardManifest(j) \/ DiscardData(j)
    BY <1>2, <2>5 DEF WriteNote, DiscardManifest, DiscardData, GoTo, At, TypeOK, archiveVars
  <2>6. CASE ResumeApps(j)
    <3>1. UNCHANGED <<stored, listed>> /\ (worker'[j] = "report" => worker[j] = "resume")
      BY <2>6 DEF ResumeApps, AfterResume, GoTo, At, TypeOK, archiveVars
    <3>2. worker'[j] \in {"report", "report failure"}
      BY <2>6 DEF ResumeApps, AfterResume, GoTo, TypeOK
    <3> QED BY <1>2, <3>1, <3>2
  <2>7. CASE Unlist(j) \/ Forget(j) \/ Maintain(j)
    <3>1. job[j].kind # "backup"
      BY <2>7 DEF PointsInv, StepsFitKind, Unlist, Forget, Maintain, At
    <3> QED BY <1>2, <2>7, <3>1 DEF Unlist, Forget, Maintain, GoTo, TypeOK
  <2>8. CASE Check(j) \/ OpenJournal(j) \/ Restoring(j)
    <3>1. job[j].kind # "backup"
      BY <2>8 DEF PointsInv, StepsFitKind, Check, OpenJournal, Restoring, MayFail, At
    <3> QED BY <1>2, <2>8, <3>1 DEF Check, OpenJournal, Restoring, MayFail, GoTo, At, TypeOK
  <2> QED BY <2>1, <2>2, <2>3, <2>4, <2>5, <2>6, <2>7, <2>8 DEF WorkerStep, BackupStep
<1> QED BY <1>1, <1>3 DEF Progressed

\* Nobody takes from a backup that succeeded but the delete it is the target of.
LEMMA StepSparesTheSucceeded ==
  ASSUME TypeOK, LiveIsCurrent, PointsInv, NEW j \in Jobs, WorkerStep(j) \/ WorkerKilled(j),
         NEW k \in Jobs \ {j}, job[k].status # "none", k \in listed, stored[k] = "all",
         ~BeingDeleted(k)'
  PROVE  k \in listed' /\ stored'[k] = "all"
<1>1. \A p \in Places : Pruned(p)[k] = "all" BY DEF Pruned
<1>2. Place(j) \in Places BY DEF TypeOK, JobRecords, Place
<1>3. CASE QuietStep(j) \/ OpenRepository(j)
  BY <1>3 DEF QuietStep, Start, Report, Prepare, HaltApps, WriteNote, ResumeApps, Check,
              OpenJournal, Restoring, WorkerKilled, OpenRepository, archiveVars
<1>4. CASE Collect(j) \/ Maintain(j)
  BY <1>1, <1>2, <1>4 DEF Collect, Maintain
<1>5. CASE TakeSnapshots(j) \/ FinishSnapshots(j) \/ WriteManifest(j) \/ DiscardManifest(j)
  BY <1>5 DEF TakeSnapshots, FinishSnapshots, WriteManifest, DiscardManifest, TypeOK
<1>6. CASE DiscardData(j)
  <2>1. CASE Removable(j)
    <3>1. Place(k) # Place(j)
      BY <1>6, <2>1 DEF Removable, DiscardData, At, PointsInv, WritersHaveARepository, WritingSteps
    <3> QED BY <1>6, <2>1, <3>1 DEF DiscardData, Emptied
  <2>2. CASE ~Removable(j)
    <3>1. stored' \in {stored, [Pruned(Place(j)) EXCEPT ![j] = "none"]} /\ listed' = listed
      BY <1>6, <2>2 DEF DiscardData
    <3> QED BY <1>1, <1>2, <3>1 DEF Pruned
  <2> QED BY <2>1, <2>2
<1>7. CASE Unlist(j) \/ Forget(j)
  <2>1. job' = job /\ job[j].kind = "delete" /\ job[j].status = "running"
    BY <1>7 DEF Unlist, Forget, agentVars, At, PointsInv, StepsFitKind
  <2>2. job[j].target # k BY <2>1 DEF BeingDeleted
  <2> QED BY <1>7, <2>2 DEF Unlist, Forget, TypeOK
<1> QED BY <1>3, <1>4, <1>5, <1>6, <1>7 DEF WorkerStep, BackupStep, QuietStep

\* The worker that reports a backup succeeded has listed and stored it.
LEMMA StepKeepsSucceeded ==
  ASSUME TypeOK, LiveIsCurrent, PointsInv, NEW j \in Jobs, WorkerStep(j) \/ WorkerKilled(j)
  PROVE  SucceededIsRestorable'
<1>1. SUFFICES ASSUME NEW k \in Jobs, job'[k].kind = "backup", job'[k].status = "succeeded",
                      ~BeingDeleted(k)'
               PROVE  k \in listed' /\ stored'[k] = "all"
  BY DEF SucceededIsRestorable
<1>2. CASE k = j
  <2>1. Report(j) /\ worker[j] = "report" /\ job[j].kind = "backup"
    <3>1. Report(j) BY <1>1, <1>2, WorkerAlone, ReportEnds DEF Active
    <3>2. At(j, "report")
      BY <1>1, <1>2, <3>1 DEF Report, TypeOK, JobRecords
    <3> QED BY <1>1, <1>2, <3>1, <3>2, WorkerAlone DEF At
  <2> QED BY <1>2, <2>1 DEF Report, archiveVars, PointsInv, Progressed
<1>3. CASE k # j
  <2>1. job[k] = job'[k] BY <1>3, WorkerAlone
  <2>2. ~BeingDeleted(k)
    <3>1. SUFFICES ASSUME NEW d \in Jobs, job[d].kind = "delete", job[d].target = k,
                          job[d].status # "queued"
                   PROVE  FALSE
      BY DEF BeingDeleted
    <3>2. d = j BY <1>1, <3>1, WorkerAlone DEF BeingDeleted
    <3>3. job' = job \/ Start(j) \/ Report(j)
      BY DEF WorkerStep, WorkerKilled, BackupStep, Collect, Prepare, OpenRepository, HaltApps,
             TakeSnapshots, FinishSnapshots, WriteManifest, WriteNote, DiscardManifest,
             DiscardData, ResumeApps, Unlist, Forget, Maintain, Check, OpenJournal, Restoring,
             MayFail, agentVars
    <3>4. \/ job' = job
          \/ \E status \in {"running", "succeeded", "failed"} : job' = [job EXCEPT ![j].status = status]
      BY <3>3 DEF Start, Report
    <3>5. job'[j].status # "queued"
      BY <3>1, <3>2, <3>4 DEF TypeOK, JobRecords
    <3> QED BY <1>1, <3>1, <3>2, <3>5, WorkerAlone DEF BeingDeleted
  <2>3. k \in listed /\ stored[k] = "all"
    BY <1>1, <2>1, <2>2 DEF PointsInv, SucceededIsRestorable
  <2> QED BY <1>1, <1>3, <2>1, <2>3, StepSparesTheSucceeded
<1> QED BY <1>2, <1>3

------------------------------------------------------------------------------
(* What the agent and a place leave alone. *)

\* Reconciling changes a status only: of a job that was active, to one that ends it.
LEMMA ReconciledKeeps ==
  ASSUME TypeOK, NEW k \in Jobs
  PROVE  /\ ReconciledJobs[k].kind = job[k].kind
         /\ ReconciledJobs[k].place = job[k].place
         /\ ReconciledJobs[k].target = job[k].target
         /\ \/ ReconciledJobs[k].status = job[k].status
            \/ Active(k) /\ ~Live(k) /\ ReconciledJobs[k].status = "failed"
<1>1. CASE ~WorkerLost
  BY <1>1 DEF ReconciledJobs
<1>2. CASE WorkerLost
  BY <1>2 DEF WorkerLost, ReconciledJobs, TypeOK, JobRecords
<1> QED BY <1>1, <1>2

LEMMA ReconcileKeepsPoints ==
  ASSUME TypeOK, PointsInv, Reconcile
  PROVE  PointsInv'
<1>1. \A k \in Jobs :
        /\ job'[k].kind = job[k].kind
        /\ Place(k)' = Place(k)
        /\ job'[k].target = job[k].target
        /\ \/ job'[k].status = job[k].status
           \/ Active(k) /\ ~Live(k) /\ job'[k].status = "failed"
  BY ReconciledKeeps DEF Reconcile, Place
<1>2. UNCHANGED <<worker, halted, founder, running, repository, stored, listed>>
  BY DEF Reconcile, workerVars, archiveVars
<1>3. StepsFitKind'
  BY <1>1, <1>2, ZenonT(30) DEF PointsInv, StepsFitKind, Active, Live
<1>4. WrittenInRepositories' /\ WritersHaveARepository' /\ Progressed'
  BY <1>1, <1>2 DEF PointsInv, WrittenInRepositories, WritersHaveARepository, Progressed, Active
<1>5. DeletesHaveATarget'
  BY <1>1, <1>2 DEF PointsInv, DeletesHaveATarget, Active, Live
<1>6. SucceededIsRestorable'
  BY <1>1, <1>2 DEF PointsInv, SucceededIsRestorable, BeingDeleted, Active
<1> QED BY <1>3, <1>4, <1>5, <1>6 DEF PointsInv

\* A job is created while no worker is alive; its id was never used, and a delete is
\* created of what is listed.
LEMMA RequestKeepsPoints ==
  ASSUME TypeOK, LiveIsCurrent, PointsInv, NEW j \in Jobs, Request(j)
  PROVE  PointsInv'
<1>1. PICK kind \in Kinds, p \in Places, t \in Jobs \union {NoJob} :
        /\ CreateJob(j, kind, p, t)
        /\ kind = "delete" => t \in listed /\ p = Place(t)
  <2>1. \A t \in listed : t \in Jobs /\ Place(t) \in Places
    BY DEF TypeOK, JobRecords, Place
  <2> QED BY <2>1 DEF Request, Kinds
<1>2. /\ job[j].status = "none" /\ j \notin listed /\ stored[j] = "none"
      /\ job[j].kind = "none"
  BY <1>1 DEF CreateJob, PointsInv, WrittenInRepositories, StepsFitKind
<1>3. \A k \in Jobs : ~Live(k)
  BY <1>1, NoJobAssumption DEF CreateJob, Idle, LiveIsCurrent
<1>4. \A k \in Jobs \ {j} :
        /\ job'[k].kind = job[k].kind
        /\ Place(k)' = Place(k)
        /\ job'[k].target = job[k].target
        /\ \/ job'[k].status = job[k].status
           \/ Active(k) /\ job'[k].status = "failed"
        /\ worker'[k] = worker[k]
  BY <1>1, ReconciledKeeps, ReconciledTypes DEF CreateJob, Place
<1>5. /\ job'[j].kind = kind /\ job'[j].target = t /\ Place(j)' = p
      /\ job'[j].status = "queued"
      /\ worker'[j] = "spawned"
  BY <1>1, ReconciledTypes DEF CreateJob, Place, TypeOK
<1>6. UNCHANGED <<repository, stored, listed>>
  BY <1>1 DEF CreateJob, archiveVars
<1>7. \A k \in Jobs : worker'[k] \in {"none", "dead", "exited", "spawned"}
  <2>1. \A k \in Jobs \ {j} : worker'[k] = worker[k] /\ ~Live(k)
    BY <1>3, <1>4
  <2> QED BY <1>5, <2>1 DEF Live
<1>8. StepsFitKind'
  <2>1. \A k \in Jobs : job'[k].status = "none" <=> job'[k].kind = "none"
    <3>1. \A k \in Jobs \ {j} : job'[k].kind = job[k].kind
                                /\ (job'[k].status = "none" <=> job[k].status = "none")
      BY <1>4 DEF Active
    <3> QED BY <1>5, <3>1 DEF PointsInv, StepsFitKind, Kinds
  <2> QED BY <1>7, <2>1 DEF StepsFitKind, BackupSteps
<1>9. WrittenInRepositories'
  BY <1>2, <1>4, <1>5, <1>6 DEF PointsInv, WrittenInRepositories, Active
<1>10. WritersHaveARepository' /\ Progressed'
  BY <1>7 DEF WritersHaveARepository, WritingSteps, Progressed
<1>11. DeletesHaveATarget'
  <2>1. SUFFICES ASSUME kind = "delete"
                 PROVE  /\ t \in Jobs /\ job'[t].status # "none"
                        /\ Place(t)' = p /\ p \in repository'
    BY <1>3, <1>4, <1>5 DEF DeletesHaveATarget, Live
  <2>2. t \in listed /\ t \in Jobs /\ t # j /\ p = Place(t)
    BY <1>1, <1>2, <2>1 DEF TypeOK
  <2>3. job[t].status # "none" /\ Place(t) \in repository
    BY <2>2 DEF PointsInv, WrittenInRepositories
  <2> QED BY <1>4, <1>6, <2>2, <2>3
<1>12. SucceededIsRestorable'
  <2>1. \A k \in Jobs : BeingDeleted(k) => BeingDeleted(k)'
    BY <1>2, <1>4 DEF BeingDeleted, Active
  <2> QED BY <1>4, <1>5, <1>6, <2>1 DEF PointsInv, SucceededIsRestorable
<1> QED BY <1>8, <1>9, <1>10, <1>11, <1>12 DEF PointsInv

LEMMA PointsInvInductive ==
  ASSUME TypeOK, LiveIsCurrent, PointsInv, [Next]_vars
  PROVE  PointsInv'
<1>1. ASSUME UNCHANGED <<job, worker, founder, archiveVars>>
      PROVE  PointsInv'
  <2>1. StepsFitKind' /\ Progressed' /\ SucceededIsRestorable'
    BY <1>1 DEF PointsInv, StepsFitKind, Progressed, SucceededIsRestorable, BeingDeleted, archiveVars
  <2>2. WrittenInRepositories' /\ WritersHaveARepository' /\ DeletesHaveATarget'
    BY <1>1 DEF PointsInv, WrittenInRepositories, WritersHaveARepository, DeletesHaveATarget, Place,
                Live, archiveVars
  <2> QED BY <2>1, <2>2 DEF PointsInv
<1>2. CASE Reconcile
  BY <1>2, ReconcileKeepsPoints
<1>3. CASE AcknowledgeInterrupted \/ (\E p \in Places : PlaceComesAndGoes(p)) \/ UNCHANGED vars
  <2>1. UNCHANGED <<job, worker, founder, archiveVars>>
    BY <1>3 DEF AcknowledgeInterrupted, PlaceComesAndGoes, vars, agentVars, workerVars, archiveVars
  <2> QED BY <1>1, <2>1
<1>4. ASSUME NEW j \in Jobs, Request(j)
      PROVE  PointsInv'
  BY <1>4, RequestKeepsPoints
<1>5. ASSUME NEW j \in Jobs, WorkerStep(j) \/ WorkerKilled(j)
      PROVE  PointsInv'
  BY <1>5, StepKeepsStepsFitKind, StepKeepsWritten, StepKeepsWriters, StepKeepsTargets,
     StepKeepsProgress, StepKeepsSucceeded DEF PointsInv
<1> QED BY <1>2, <1>3, <1>4, <1>5 DEF Next

\* A backup that was reported succeeded stays listed with all of its data until a
\* delete of it is started, whatever later jobs discard, prune, remove or leave behind.
THEOREM SucceededStaysRestorable == Spec => []SucceededIsRestorable
<1>1. Init => LiveIsCurrent /\ PointsInv
  BY DEF Init, LiveIsCurrent, Live, PointsInv, StepsFitKind, WrittenInRepositories,
         WritersHaveARepository, WritingSteps, DeletesHaveATarget, Progressed,
         SucceededIsRestorable, BackupSteps
<1>2. TypeOK /\ LiveIsCurrent /\ PointsInv /\ [Next]_vars => LiveIsCurrent' /\ PointsInv'
  BY LiveIsCurrentInductive, PointsInvInductive
<1>3. PointsInv => SucceededIsRestorable BY DEF PointsInv
<1> QED BY <1>1, <1>2, <1>3, TypeCorrect, PTL DEF Spec
------------------------------------------------------------------------------
(* Success after everything runs again. *)

LEMMA StepKeepsHalted ==
  ASSUME TypeOK, LiveIsCurrent, PointsInv, HaltedAreRunning,
         NEW j \in Jobs, WorkerStep(j) \/ WorkerKilled(j)
  PROVE  HaltedAreRunning'
<1>1. /\ \A k \in Jobs \ {j} : worker'[k] # "report" /\ job'[k].kind = job[k].kind
      /\ job'[j].kind = job[j].kind
  BY WorkerAlone
<1>2. \A k \in Jobs \ {j} : halted'[k] = halted[k]
  BY DEF WorkerStep, WorkerKilled, BackupStep, Start, Report, Collect, Prepare, OpenRepository,
         HaltApps, TakeSnapshots, FinishSnapshots, WriteManifest, WriteNote, DiscardManifest,
         DiscardData, ResumeApps, Unlist, Forget, Maintain, Check, OpenJournal, Restoring, TypeOK
<1>3. (job[j].kind # "backup" => halted'[j] = {}) /\ (worker'[j] = "report" => halted'[j] \subseteq running')
  <2>1. CASE HaltApps(j)
    <3>1. job[j].kind = "backup" /\ worker'[j] # "report"
      BY <2>1 DEF HaltApps, PointsInv, StepsFitKind, BackupSteps, At, GoTo, TypeOK
    <3> QED BY <3>1
  <2>2. CASE ResumeApps(j)
    <3>1. PICK started \in SUBSET halted[j] :
            running' = running \union started /\ GoTo(j, AfterResume(j, started))
      BY <2>2 DEF ResumeApps
    <3>2. worker'[j] = "report" => started = halted[j]
      BY <3>1 DEF GoTo, AfterResume, TypeOK
    <3>3. halted' = halted BY <2>2 DEF ResumeApps
    <3> QED BY <3>1, <3>2, <3>3 DEF HaltedAreRunning
  <2>3. CASE ~HaltApps(j) /\ ~ResumeApps(j)
    <3>1. halted' = halted
      BY <2>3 DEF WorkerStep, WorkerKilled, BackupStep, Start, Report, Collect, Prepare,
             OpenRepository, TakeSnapshots, FinishSnapshots, WriteManifest, WriteNote,
             DiscardManifest, DiscardData, Unlist, Forget, Maintain, Check, OpenJournal, Restoring
    <3>2. worker'[j] = "report" => job[j].kind # "backup"
      <4>1. CASE Unlist(j) \/ Forget(j) \/ Maintain(j) \/ Check(j) \/ OpenJournal(j) \/ Restoring(j)
        BY <4>1 DEF Unlist, Forget, Maintain, Check, OpenJournal, Restoring, MayFail, At, PointsInv,
                    StepsFitKind
      <4>2. CASE Start(j) \/ Report(j) \/ WorkerKilled(j)
        BY <4>2 DEF Start, FirstStep, Report, WorkerKilled, GoTo, TypeOK
      <4>3. CASE Collect(j) \/ Prepare(j) \/ OpenRepository(j) \/ TakeSnapshots(j) \/ FinishSnapshots(j)
        BY <4>3 DEF Collect, Prepare, OpenRepository, TakeSnapshots, FinishSnapshots, MayFail, GoTo, TypeOK
      <4>4. CASE WriteManifest(j) \/ WriteNote(j) \/ DiscardManifest(j) \/ DiscardData(j)
        BY <4>4 DEF WriteManifest, WriteNote, DiscardManifest, DiscardData, GoTo, TypeOK
      <4> QED BY <2>3, <4>1, <4>2, <4>3, <4>4 DEF WorkerStep, BackupStep
    <3> QED BY <3>1, <3>2 DEF HaltedAreRunning
  <2> QED BY <2>1, <2>2, <2>3
<1> QED BY <1>1, <1>2, <1>3 DEF HaltedAreRunning

LEMMA HaltedInductive ==
  ASSUME TypeOK, LiveIsCurrent, PointsInv, HaltedAreRunning, [Next]_vars
  PROVE  HaltedAreRunning'
<1>1. CASE Reconcile
  <2>1. \A k \in Jobs : job'[k].kind = job[k].kind
    BY <1>1, ReconciledKeeps DEF Reconcile
  <2> QED BY <1>1, <2>1 DEF Reconcile, workerVars, HaltedAreRunning
<1>2. CASE AcknowledgeInterrupted \/ (\E p \in Places : PlaceComesAndGoes(p)) \/ UNCHANGED vars
  BY <1>2 DEF AcknowledgeInterrupted, PlaceComesAndGoes, vars, agentVars, workerVars, HaltedAreRunning
<1>3. ASSUME NEW j \in Jobs, NEW kind, NEW p, NEW t, CreateJob(j, kind, p, t)
      PROVE  HaltedAreRunning'
  <2>1. job[j].kind # "backup"
    BY <1>3 DEF CreateJob, PointsInv, StepsFitKind
  <2>2. \A k \in Jobs \ {j} : job'[k].kind = job[k].kind
    BY <1>3, ReconciledKeeps, ReconciledTypes DEF CreateJob
  <2>3. \A k \in Jobs : worker'[k] = "report" => worker[k] = "report"
    BY <1>3 DEF CreateJob, TypeOK
  <2>4. halted' = halted /\ running' = running /\ halted[j] = {}
    BY <1>3, <2>1 DEF CreateJob, HaltedAreRunning
  <2> QED BY <2>2, <2>3, <2>4 DEF HaltedAreRunning
<1>4. ASSUME NEW j \in Jobs, Request(j)
      PROVE  HaltedAreRunning'
  BY <1>3, <1>4 DEF Request
<1> QED BY <1>1, <1>2, <1>4, StepKeepsHalted DEF Next

\* Only a worker whose every step went well reports success, with what it halted running.
LEMMA SuccessIsReported ==
  ASSUME TypeOK, LiveIsCurrent, HaltedAreRunning, [Next]_vars,
         NEW j \in Jobs, job[j].status # "succeeded", job'[j].status = "succeeded"
  PROVE  halted[j] \subseteq running'
<1>1. CASE Reconcile
  BY <1>1, ReconciledKeeps DEF Reconcile
<1>2. CASE AcknowledgeInterrupted \/ (\E p \in Places : PlaceComesAndGoes(p)) \/ UNCHANGED vars
  BY <1>2 DEF AcknowledgeInterrupted, PlaceComesAndGoes, vars, agentVars
<1>3. ASSUME NEW k \in Jobs, NEW kind, NEW p, NEW t, CreateJob(k, kind, p, t)
      PROVE  FALSE
  <2>1. job' = [ReconciledJobs EXCEPT ![k] = [kind |-> kind, place |-> p, target |-> t,
                                              status |-> "queued"]]
    BY <1>3 DEF CreateJob
  <2>2. CASE j = k
    BY <2>1, <2>2, ReconciledTypes
  <2>3. CASE j # k
    BY <2>1, <2>3, ReconciledTypes, ReconciledKeeps
  <2> QED BY <2>2, <2>3
<1>4. ASSUME NEW k \in Jobs, Request(k)
      PROVE  FALSE
  BY <1>3, <1>4 DEF Request
<1>5. ASSUME NEW k \in Jobs, WorkerStep(k) \/ WorkerKilled(k)
      PROVE  halted[j] \subseteq running'
  <2>1. j = k BY <1>5, WorkerAlone
  <2>2. Active(j) /\ ~Active(j)' BY <1>5, <2>1, WorkerAlone DEF Active
  <2>3. Report(j) BY <1>5, <2>1, <2>2, ReportEnds
  <2>4. At(j, "report") BY <2>3 DEF Report, TypeOK, JobRecords
  <2> QED BY <2>3, <2>4 DEF Report, At, HaltedAreRunning
<1> QED BY <1>1, <1>2, <1>4, <1>5 DEF Next

\* A backup is reported succeeded only in a step that finds every container it stopped
\* running again.
THEOREM SucceedsAfterResume == Spec => SuccessAfterResume
<1> DEFINE Inv == LiveIsCurrent /\ PointsInv /\ HaltedAreRunning
<1>1. Init => Inv
  BY DEF Init, LiveIsCurrent, Live, PointsInv, StepsFitKind, WrittenInRepositories,
         WritersHaveARepository, WritingSteps, DeletesHaveATarget, Progressed,
         SucceededIsRestorable, BackupSteps, HaltedAreRunning
<1>2. TypeOK /\ Inv /\ [Next]_vars => Inv'
  BY LiveIsCurrentInductive, PointsInvInductive, HaltedInductive
<1>3. TypeOK /\ Inv /\ [Next]_vars => [ResumedBeforeSuccess]_vars
  BY SuccessIsReported DEF ResumedBeforeSuccess
<1> QED BY <1>1, <1>2, <1>3, TypeCorrect, PTL DEF Spec, SuccessAfterResume

------------------------------------------------------------------------------
(* The relay the mail goes through. *)

(* The inductive invariant.                                                  *)

Securities == {"tls", "starttls", "none"}
FormsAreWhole == \A f \in Forms : f.security \in Securities /\ f # NoRelay

\* A relay that is stored, or spoken to, was accepted with what it lacks.
Agreed(f) == f.security = "none" /\ f.user => f.insecure

PanelFields == {"editing", "seen", "form", "typed"}
IsPanel(tab) ==
  /\ tab = [x \in PanelFields |-> tab[x]]
  /\ tab.seen \in Forms \cup {NoRelay} /\ tab.form \in Forms \cup {NoRelay}

\* The row: half a credential is never in it.
RowIsWhole(s) ==
  /\ s = [x \in {"relay", "ref", "verdict"} |-> s[x]]
  /\ s.relay \in Forms \cup {NoRelay}
  /\ s.relay = NoRelay => ~s.ref
  /\ s.relay # NoRelay => (s.relay.user <=> s.ref) /\ Agreed(s.relay)

\* A conversation is with a whole relay, at a command of its script, and one that is recorded
\* is a tab's.
IsTalk(t, talk) ==
  /\ talk = [x \in {"kind", "with", "at"} |-> talk[x]]
  /\ talk.with.relay \in Forms /\ Agreed(talk.with.relay)
  /\ talk.with.relay.user <=> talk.with.password # NoPassword
  /\ talk.kind # "alert" => t \in Tabs
  /\ talk.at \in 1 .. Len(Script(talk.kind, talk.with.relay))

\* Where no two overlapped, a conversation under way is with the relay that is stored.
TalksAreCurrent ==
  ~overlapped /\ count.crashes = 0 =>
    \A t \in Talkers : Busy(t) /\ talks[t].kind # "alert" => talks[t].with = Stored

RelayInv ==
  /\ RowIsWhole(settings)
  /\ talks = [t \in Talkers |-> talks[t]] /\ \A t \in Talkers : Busy(t) => IsTalk(t, talks[t])
  /\ panel = [t \in Tabs |-> panel[t]] /\ \A t \in Tabs : IsPanel(panel[t])
  /\ count = [x \in {"saves", "tests", "alerts", "crashes"} |-> count[x]] /\ count.crashes \in Nat
  /\ TalksAreCurrent /\ VerifiedIsStored

------------------------------------------------------------------------------
(* The conversation, command by command. *)

Commands ==
  {"connect", "handshake", "greeting", "EHLO", "STARTTLS", "AUTH PLAIN", "AUTH LOGIN", "username",
   "password", "RSET", "QUIT", "MAIL", "RCPT", "DATA", "message"}
LoginWords == {"AUTH PLAIN", "username", "password"}
SaysNoLogin(s) == s \in Seq(Commands) /\ \A i \in 1 .. Len(s) : s[i] \notin LoginWords
Encrypts(s) == s \in Seq(Commands) /\ \E i \in 1 .. Len(s) : s[i] = "handshake"

\* One part of a script after another.
LEMMA PartAfterPart ==
  ASSUME NEW s \in Seq(Commands), NEW r \in Seq(Commands)
  PROVE  /\ s \o r \in Seq(Commands) /\ Len(s \o r) = Len(s) + Len(r)
         /\ Len(s) \in Nat /\ Len(r) \in Nat
         /\ \A i \in 1 .. Len(s) : i \in 1 .. Len(s \o r) /\ (s \o r)[i] = s[i]
         /\ \A i \in 1 .. Len(s \o r) : i \notin 1 .. Len(s) =>
              i - Len(s) \in 1 .. Len(r) /\ (s \o r)[i] = r[i - Len(s)]
         /\ \A i \in 1 .. Len(r) :
              Len(s) + i \in 1 .. Len(s \o r) /\ (s \o r)[Len(s) + i] = r[i]
<1>1. Len(s) \in Nat /\ Len(r) \in Nat BY LenProperties
<1>2. /\ s \o r \in Seq(Commands) /\ Len(s \o r) = Len(s) + Len(r)
      /\ \A i \in 1 .. Len(s) + Len(r) :
           (s \o r)[i] = IF i <= Len(s) THEN s[i] ELSE r[i - Len(s)]
  BY ConcatProperties
<1> DEFINE both == s \o r
<1>3. /\ both \in Seq(Commands) /\ Len(both) = Len(s) + Len(r)
      /\ \A i \in 1 .. Len(s) + Len(r) : both[i] = IF i <= Len(s) THEN s[i] ELSE r[i - Len(s)]
  BY <1>2
<1> HIDE DEF both
<1>4. \A i \in 1 .. Len(s) : i \in 1 .. Len(both) /\ both[i] = s[i]
  BY <1>1, <1>3
<1>5. ASSUME NEW i \in 1 .. Len(both), i \notin 1 .. Len(s)
      PROVE  i - Len(s) \in 1 .. Len(r) /\ both[i] = r[i - Len(s)]
  BY <1>1, <1>3, <1>5
<1>6. ASSUME NEW i \in 1 .. Len(r)
      PROVE  Len(s) + i \in 1 .. Len(both) /\ both[Len(s) + i] = r[i]
  <2>1. Len(s) + i \in 1 .. Len(s) + Len(r) /\ ~(Len(s) + i <= Len(s)) /\ Len(s) + i - Len(s) = i
    BY <1>1
  <2> QED BY <1>3, <2>1
<1> QED BY <1>1, <1>3, <1>4, <1>5, <1>6 DEF both

\* What neither part says, the two do not.
LEMMA NoLoginInEither ==
  ASSUME NEW s, NEW r, SaysNoLogin(s), SaysNoLogin(r) PROVE SaysNoLogin(s \o r)
BY PartAfterPart DEF SaysNoLogin

\* And what one part does, the two do.
LEMMA EncryptsInEither ==
  ASSUME NEW s \in Seq(Commands), NEW r \in Seq(Commands), Encrypts(s) \/ Encrypts(r)
  PROVE  Encrypts(s \o r)
<1> DEFINE both == s \o r
<1>1. /\ both \in Seq(Commands)
      /\ \A i \in 1 .. Len(s) : i \in 1 .. Len(both) /\ both[i] = s[i]
      /\ \A i \in 1 .. Len(r) : Len(s) + i \in 1 .. Len(both) /\ both[Len(s) + i] = r[i]
  BY PartAfterPart
<1> HIDE DEF both
<1>2. Encrypts(both) BY <1>1 DEF Encrypts
<1> QED BY <1>2 DEF both

Opening(f) == IF f.security = "tls" THEN <<"connect", "handshake">> ELSE <<"connect">>
Closing(kind) ==
  IF kind = "verify" THEN <<"RSET", "QUIT">> ELSE <<"MAIL", "RCPT", "DATA", "message", "QUIT">>
BeforeLogin(f) == (Opening(f) \o <<"greeting", "EHLO">>) \o Upgrade(f)

LEMMA ScriptIs == \A kind, f : Script(kind, f) = (BeforeLogin(f) \o Login(f)) \o Closing(kind)
BY DEF Script, BeforeLogin, Opening, Closing

\* A few words are a sequence of words.
LEMMA OneWord == ASSUME NEW S, NEW a \in S PROVE <<a>> \in Seq(S)
OBVIOUS

\* Likewise.
LEMMA ThreeWords == ASSUME NEW S, NEW a \in S, NEW b \in S, NEW c \in S PROVE <<a, b, c>> \in Seq(S)
OBVIOUS

\* The parts, word by word.
LEMMA PartsOfAScript ==
  ASSUME NEW f, NEW kind
  PROVE  /\ SaysNoLogin(Opening(f)) /\ SaysNoLogin(<<"greeting", "EHLO">>) /\ SaysNoLogin(Upgrade(f))
         /\ SaysNoLogin(Closing(kind)) /\ Login(f) \in Seq(Commands)
         /\ ~f.user => SaysNoLogin(Login(f))
         /\ f.security = "tls" => Encrypts(Opening(f))
         /\ f.security = "starttls" => Encrypts(Upgrade(f))
         /\ Len(Opening(f)) >= 1
<1> DEFINE Quiet == Commands \ LoginWords
<1>1. \A w \in {"connect", "handshake", "greeting", "EHLO", "STARTTLS", "RSET", "QUIT", "MAIL", "RCPT",
                "DATA", "message"} : w \in Quiet
  BY DEF Commands, LoginWords
<1>2. "AUTH PLAIN" \in Commands /\ "AUTH LOGIN" \in Commands /\ "username" \in Commands
      /\ "password" \in Commands
  BY DEF Commands
<1>3. ASSUME NEW s \in Seq(Quiet) PROVE SaysNoLogin(s)
  <2>1. Quiet \subseteq Commands OBVIOUS
  <2>2. Len(s) \in Nat /\ \A i \in 1 .. Len(s) : s[i] \in Quiet
    BY LenProperties, ElementOfSeq
  <2>3. s \in Seq(Commands)
    <3>1. s \in [1 .. Len(s) -> Commands] BY <2>1, <2>2, LenProperties
    <3> QED BY <2>2, <3>1, SeqDef
  <2> QED BY <2>2, <2>3 DEF SaysNoLogin
<1> HIDE DEF Quiet
<1>4. Opening(f) \in Seq(Quiet) /\ <<"greeting", "EHLO">> \in Seq(Quiet) /\ Upgrade(f) \in Seq(Quiet)
  BY <1>1 DEF Opening, Upgrade
<1>5. Closing(kind) \in Seq(Quiet) BY <1>1 DEF Closing
<1>6. Login(f) \in Seq(Commands)
  <2>1. /\ <<>> \in Seq(Commands) /\ <<"AUTH PLAIN">> \in Seq(Commands)
        /\ <<"AUTH LOGIN", "username", "password">> \in Seq(Commands)
    <3>1. <<>> \in Seq(Commands) OBVIOUS
    <3>2. <<"AUTH PLAIN">> \in Seq(Commands) BY <1>2, OneWord, Zenon
    <3>3. <<"AUTH LOGIN", "username", "password">> \in Seq(Commands) BY <1>2, ThreeWords, Zenon
    <3> QED BY <3>1, <3>2, <3>3, Zenon
  <2> QED BY <2>1 DEF Login
<1>7. ~f.user => SaysNoLogin(Login(f))
  <2>1. SaysNoLogin(<<>>)
    <3>1. <<>> \in Seq(Quiet) OBVIOUS
    <3> QED BY <1>3, <3>1
  <2> QED BY <2>1 DEF Login
<1>8. f.security = "tls" => Encrypts(Opening(f))
  <2> DEFINE s == <<"connect", "handshake">>
  <2>1. s[2] = "handshake" /\ Len(s) = 2 OBVIOUS
  <2>2. f.security = "tls" => Opening(f) = s BY DEF Opening
  <2> HIDE DEF s
  <2>3. Opening(f) \in Seq(Commands) BY <1>3, <1>4 DEF SaysNoLogin
  <2>4. ASSUME Opening(f) = s PROVE Encrypts(Opening(f))
    <3>1. 2 \in 1 .. Len(Opening(f)) /\ Opening(f)[2] = "handshake" BY <2>1, <2>4
    <3> QED BY <2>3, <3>1 DEF Encrypts
  <2> QED BY <2>2, <2>4
<1>9. f.security = "starttls" => Encrypts(Upgrade(f))
  <2> DEFINE s == <<"STARTTLS", "handshake", "EHLO">>
  <2>1. s[2] = "handshake" /\ Len(s) = 3 OBVIOUS
  <2>2. f.security = "starttls" => Upgrade(f) = s BY DEF Upgrade
  <2> HIDE DEF s
  <2>3. Upgrade(f) \in Seq(Commands) BY <1>3, <1>4 DEF SaysNoLogin
  <2>4. ASSUME Upgrade(f) = s PROVE Encrypts(Upgrade(f))
    <3>1. 2 \in 1 .. Len(Upgrade(f)) /\ Upgrade(f)[2] = "handshake" BY <2>1, <2>4
    <3> QED BY <2>3, <3>1 DEF Encrypts
  <2> QED BY <2>2, <2>4
<1>10. Len(Opening(f)) >= 1 BY DEF Opening
<1> QED BY <1>3, <1>4, <1>5, <1>6, <1>7, <1>8, <1>9, <1>10

\* A login comes after an encryption, where the security chosen is one; and it comes only
\* from a relay with a user.
LEMMA LoginComesLater ==
  ASSUME NEW f, NEW kind, NEW i \in 1 .. Len(Script(kind, f)), Script(kind, f)[i] \in LoginWords
  PROVE  /\ f.user
         /\ f.security \in {"tls", "starttls"} =>
              \E j \in 1 .. i - 1 : Script(kind, f)[j] = "handshake"
<1> DEFINE p == BeforeLogin(f)
           l == Login(f)
           c == Closing(kind)
           q == p \o l
           script == q \o c
           word == <<"greeting", "EHLO">>
<1>1. /\ SaysNoLogin(Opening(f)) /\ SaysNoLogin(word) /\ SaysNoLogin(Upgrade(f))
      /\ SaysNoLogin(c) /\ l \in Seq(Commands)
      /\ ~f.user => SaysNoLogin(l)
      /\ f.security = "tls" => Encrypts(Opening(f))
      /\ f.security = "starttls" => Encrypts(Upgrade(f))
  BY PartsOfAScript
<1>2. script = Script(kind, f) BY ScriptIs
<1> HIDE DEF word, l, c
<1>3. SaysNoLogin(p) BY <1>1, NoLoginInEither DEF BeforeLogin, word
<1>4. f.security \in {"tls", "starttls"} => Encrypts(p)
  <2>1. /\ Opening(f) \in Seq(Commands) /\ word \in Seq(Commands) /\ Upgrade(f) \in Seq(Commands)
    BY <1>1 DEF SaysNoLogin
  <2>2. Opening(f) \o word \in Seq(Commands) BY <2>1, PartAfterPart
  <2>3. f.security = "tls" => Encrypts(Opening(f) \o word)
    BY <2>1, <1>1, EncryptsInEither
  <2> QED BY <2>1, <2>2, <2>3, <1>1, EncryptsInEither DEF BeforeLogin, word
<1> HIDE DEF p
<1>5. /\ p \in Seq(Commands) /\ l \in Seq(Commands) /\ c \in Seq(Commands)
  BY <1>1, <1>3 DEF SaysNoLogin
<1>6. /\ q \in Seq(Commands)
      /\ \A j \in 1 .. Len(p) : j \in 1 .. Len(q) /\ q[j] = p[j]
  BY <1>5, PartAfterPart
<1>7. ~f.user => SaysNoLogin(q) BY <1>1, <1>3, NoLoginInEither
<1> HIDE DEF q
<1>8. /\ \A j \in 1 .. Len(q) : j \in 1 .. Len(script) /\ script[j] = q[j]
      /\ ~f.user => SaysNoLogin(script)
  BY <1>5, <1>6, <1>7, <1>1, PartAfterPart, NoLoginInEither
<1>9. /\ \A j \in 1 .. Len(script) : j \notin 1 .. Len(q) =>
           j - Len(q) \in 1 .. Len(c) /\ script[j] = c[j - Len(q)]
      /\ Len(p) \in Nat /\ Len(script) \in Nat
  <2>1. script \in Seq(Commands) BY <1>5, <1>6, PartAfterPart
  <2> QED BY <1>5, <1>6, <2>1, PartAfterPart, LenProperties
<1> HIDE DEF script
<1>10. i \in 1 .. Len(script) /\ script[i] \in LoginWords BY <1>2
<1>11. f.user BY <1>8, <1>10 DEF SaysNoLogin
<1>12. i \in 1 .. Len(q) /\ q[i] \in LoginWords
  BY <1>1, <1>8, <1>9, <1>10 DEF SaysNoLogin
<1>13. i \notin 1 .. Len(p) BY <1>3, <1>6, <1>12 DEF SaysNoLogin
<1>14. ASSUME f.security \in {"tls", "starttls"}
       PROVE  \E j \in 1 .. i - 1 : script[j] = "handshake"
  <2>1. PICK j \in 1 .. Len(p) : p[j] = "handshake"
    BY <1>4, <1>14 DEF Encrypts
  <2>2. script[j] = "handshake" BY <1>6, <1>8, <2>1
  <2>3. j \in 1 .. i - 1 BY <1>9, <1>10, <1>13
  <2> QED BY <2>2, <2>3
<1> QED BY <1>2, <1>11, <1>14

\* A script has a first command.
LEMMA ScriptBegins == \A kind, f : Len(Script(kind, f)) \in Nat /\ 1 \in 1 .. Len(Script(kind, f))
<1> SUFFICES ASSUME NEW kind, NEW f
             PROVE  Len(Script(kind, f)) \in Nat /\ 1 \in 1 .. Len(Script(kind, f))
  OBVIOUS
<1> DEFINE o == Opening(f)
           w == <<"greeting", "EHLO">>
           u == Upgrade(f)
           l == Login(f)
           c == Closing(kind)
<1>1. /\ o \in Seq(Commands) /\ w \in Seq(Commands) /\ u \in Seq(Commands)
      /\ l \in Seq(Commands) /\ c \in Seq(Commands) /\ Len(o) >= 1
  BY PartsOfAScript DEF SaysNoLogin
<1>2. Script(kind, f) = (((o \o w) \o u) \o l) \o c
  BY ScriptIs DEF BeforeLogin
<1> HIDE DEF o, w, u, l, c
<1>3. o \o w \in Seq(Commands) /\ Len(o \o w) >= 1
  BY <1>1, PartAfterPart
<1> DEFINE a == o \o w
<1>4. a \in Seq(Commands) /\ Len(a) >= 1 BY <1>3
<1> HIDE DEF a
<1>5. a \o u \in Seq(Commands) /\ Len(a \o u) >= 1
  BY <1>1, <1>4, PartAfterPart
<1> DEFINE b == a \o u
<1>6. b \in Seq(Commands) /\ Len(b) >= 1 BY <1>5
<1> HIDE DEF b
<1>7. b \o l \in Seq(Commands) /\ Len(b \o l) >= 1
  BY <1>1, <1>6, PartAfterPart
<1> DEFINE d == b \o l
<1>8. d \in Seq(Commands) /\ Len(d) >= 1 BY <1>7
<1> HIDE DEF d
<1>9. Len(d \o c) \in Nat /\ Len(d \o c) >= 1
  BY <1>1, <1>8, PartAfterPart, LenProperties
<1>10. Len(Script(kind, f)) \in Nat /\ Len(Script(kind, f)) >= 1
  BY <1>2, <1>9 DEF d, b, a
<1> QED BY <1>10

------------------------------------------------------------------------------
(* The steps. *)

CountFields == {"saves", "tests", "alerts", "crashes"}
RowFields == {"relay", "ref", "verdict"}

LEMMA RelayStart == ASSUME FormsAreWhole PROVE RelayInit => RelayInv
<1> SUFFICES ASSUME RelayInit PROVE RelayInv
  OBVIOUS
<1>1. RowIsWhole(settings) /\ settings.relay = NoRelay /\ settings.verdict = "never"
  BY DEF RelayInit, RowIsWhole
<1>2. talks = [t \in Talkers |-> talks[t]] /\ \A t \in Talkers : ~Busy(t)
  BY DEF RelayInit, Busy
<1>3. panel = [t \in Tabs |-> panel[t]] /\ \A t \in Tabs : IsPanel(panel[t])
  <2>1. \A t \in Tabs : panel[t] = [editing |-> FALSE, seen |-> NoRelay, form |-> NoRelay, typed |-> NoPassword]
    BY <1>1 DEF RelayInit, Shown
  <2>2. IsPanel([editing |-> FALSE, seen |-> NoRelay, form |-> NoRelay, typed |-> NoPassword])
    BY DEF IsPanel, PanelFields
  <2> QED BY <2>1, <2>2 DEF RelayInit
<1>4. count = [x \in CountFields |-> count[x]] /\ count.crashes = 0
  BY DEF RelayInit, CountFields
<1>5. TalksAreCurrent BY <1>2 DEF TalksAreCurrent
<1>6. VerifiedIsStored
  BY <1>1 DEF VerifiedIsStored, VerdictIsAboutTheRelay
<1> QED BY <1>1, <1>2, <1>3, <1>4, <1>5, <1>6 DEF RelayInv, CountFields

\* A tab of the panel, changed as the panel changes.
LEMMA PanelMoves ==
  ASSUME RelayInv, NEW t \in Tabs, NEW tab, IsPanel(tab), panel' = [panel EXCEPT ![t] = tab]
  PROVE  panel' = [u \in Tabs |-> panel'[u]] /\ \A u \in Tabs : IsPanel(panel'[u])
BY DEF RelayInv

\* What a tab shows of a row is a panel.
LEMMA ShownIsPanel == ASSUME NEW s, RowIsWhole(s) PROVE IsPanel(Shown(s))
BY DEF RowIsWhole, Shown, IsPanel, PanelFields

\* The relay as stored can be spoken to, and is then at its first command.
LEMMA TalkBegins ==
  ASSUME NEW t, NEW f \in Forms, NEW p, NEW kind, Agreed(f), f.user <=> p # NoPassword,
         kind # "alert" => t \in Tabs
  PROVE  IsTalk(t, [kind |-> kind, at |-> 1, with |-> [relay |-> f, password |-> p]])
<1> DEFINE talk == [kind |-> kind, at |-> 1, with |-> [relay |-> f, password |-> p]]
<1>1. /\ talk = [x \in {"kind", "with", "at"} |-> talk[x]] /\ talk.kind = kind /\ talk.at = 1
      /\ talk.with.relay = f /\ talk.with.password = p
  OBVIOUS
<1> HIDE DEF talk
<1>2. 1 \in 1 .. Len(Script(kind, f)) BY ScriptBegins
<1>3. IsTalk(t, talk) BY <1>1, <1>2 DEF IsTalk
<1> QED BY <1>3 DEF talk

\* One conversation, changed as the conversations change.
LEMMA TalkMoves ==
  ASSUME RelayInv, NEW t \in Talkers, NEW talk, talk = NoTalk \/ IsTalk(t, talk),
         talks' = [talks EXCEPT ![t] = talk]
  PROVE  /\ talks' = [u \in Talkers |-> talks'[u]]
         /\ \A u \in Talkers : (Busy(u))' => IsTalk(u, talks'[u])
         /\ talks'[t] = talk /\ \A u \in Talkers \ {t} : talks'[u] = talks[u]
BY DEF RelayInv, Busy

LEMMA EndsKeeps ==
  ASSUME FormsAreWhole, RelayInv, NEW t \in Talkers, NEW success \in BOOLEAN, Busy(t), Ends(t, success)
  PROVE  RelayInv'
<1> DEFINE talk == talks[t]
           told == IF talk.kind = "alert" THEN settings
                   ELSE [settings EXCEPT !.verdict = IF success THEN "verified" ELSE "failed"]
<1>1. /\ talks' = [talks EXCEPT ![t] = NoTalk] /\ settings' = told
      /\ proved' = (IF success /\ talk.kind # "alert" THEN talk.with ELSE proved)
      /\ panel' = (CASE talk.kind = "verify" -> [panel EXCEPT ![t] = Shown(settings)]
                     [] talk.kind = "test" /\ success ->
                          [panel EXCEPT ![t].seen = settings.relay, ![t].form = settings.relay]
                     [] OTHER -> panel)
      /\ secretFile' = secretFile /\ overlapped' = overlapped /\ count' = count
  BY DEF Ends
<1>2. /\ talks' = [u \in Talkers |-> talks'[u]]
      /\ \A u \in Talkers : (Busy(u))' => IsTalk(u, talks'[u])
      /\ talks'[t] = NoTalk /\ \A u \in Talkers \ {t} : talks'[u] = talks[u]
  BY <1>1, TalkMoves
<1>3. /\ RowIsWhole(told) /\ told.relay = settings.relay /\ told.ref = settings.ref
      /\ talk.kind # "alert" => told.verdict = IF success THEN "verified" ELSE "failed"
      /\ talk.kind = "alert" => told = settings
  <2>1. settings = [x \in RowFields |-> settings[x]] BY DEF RelayInv, RowIsWhole, RowFields
  <2> QED BY <2>1 DEF RelayInv, RowIsWhole, RowFields
<1>4. IsTalk(t, talk) BY DEF RelayInv
<1>5. panel' = [u \in Tabs |-> panel'[u]] /\ \A u \in Tabs : IsPanel(panel'[u])
  <2>1. CASE talk.kind = "verify"
    <3>1. t \in Tabs /\ panel' = [panel EXCEPT ![t] = Shown(settings)]
      BY <1>1, <1>4, <2>1 DEF IsTalk
    <3>2. IsPanel(Shown(settings)) BY ShownIsPanel DEF RelayInv
    <3> QED BY <3>1, <3>2, PanelMoves
  <2>2. CASE talk.kind = "test" /\ success
    <3>1. t \in Tabs /\ panel' = [panel EXCEPT ![t].seen = settings.relay, ![t].form = settings.relay]
      BY <1>1, <1>4, <2>2 DEF IsTalk
    <3> DEFINE tab == [x \in PanelFields |-> IF x \in {"seen", "form"} THEN settings.relay ELSE panel[t][x]]
    <3>2. IsPanel(tab) BY DEF RelayInv, IsPanel, RowIsWhole, PanelFields
    <3>3. panel[t] = [x \in PanelFields |-> panel[t][x]] /\ panel = [u \in Tabs |-> panel[u]]
      BY <3>1 DEF RelayInv, IsPanel
    <3>4. panel' = [panel EXCEPT ![t] = tab]
      BY <3>1, <3>3 DEF PanelFields
    <3> QED BY <3>1, <3>2, <3>4, PanelMoves
  <2>3. CASE talk.kind # "verify" /\ ~(talk.kind = "test" /\ success)
    BY <1>1, <2>3 DEF RelayInv
  <2> QED BY <2>1, <2>2, <2>3
<1>6. Stored' = Stored BY <1>1, <1>3 DEF Stored
<1>7. TalksAreCurrent'
  BY <1>1, <1>2, <1>6 DEF RelayInv, TalksAreCurrent, Busy
<1>8. VerifiedIsStored'
  <2>1. CASE talk.kind = "alert"
    BY <1>1, <1>3, <1>6, <2>1 DEF RelayInv, VerifiedIsStored, VerdictIsAboutTheRelay
  <2>2. CASE talk.kind # "alert"
    BY <1>1, <1>3, <1>6, <2>2 DEF RelayInv, VerifiedIsStored, VerdictIsAboutTheRelay, TalksAreCurrent
  <2> QED BY <2>1, <2>2
<1> QED BY <1>1, <1>2, <1>3, <1>5, <1>7, <1>8 DEF RelayInv

LEMMA AnsweredKeeps ==
  ASSUME FormsAreWhole, RelayInv, NEW t \in Talkers, Answered(t)
  PROVE  RelayInv'
<1>1. Busy(t) /\ IsTalk(t, talks[t]) BY DEF Answered, RelayInv
<1>2. CASE talks[t].at = Len(Script(talks[t].kind, talks[t].with.relay))
  <2>1. Ends(t, TRUE) BY <1>2 DEF Answered
  <2> QED BY <1>1, <2>1, EndsKeeps
<1>3. CASE talks[t].at # Len(Script(talks[t].kind, talks[t].with.relay))
  <2> DEFINE talk == talks[t]
             next == [x \in {"kind", "with", "at"} |-> IF x = "at" THEN talk.at + 1 ELSE talk[x]]
  <2>1. /\ talks' = [talks EXCEPT ![t].at = @ + 1]
        /\ UNCHANGED <<settings, secretFile, panel, proved, overlapped, count>>
    BY <1>3 DEF Answered
  <2>2. next.kind = talk.kind /\ next.with = talk.with /\ next.at = talk.at + 1
    OBVIOUS
  <2>3. talk = [x \in {"kind", "with", "at"} |-> talk[x]] /\ talks = [u \in Talkers |-> talks[u]]
    BY <1>1 DEF IsTalk, RelayInv
  <2>4. talks' = [talks EXCEPT ![t] = next] BY <2>1, <2>3
  <2>5. next = [x \in {"kind", "with", "at"} |-> next[x]] OBVIOUS
  <2> HIDE DEF next
  <2>6. IsTalk(t, next)
    <3>1. Len(Script(talk.kind, talk.with.relay)) \in Nat BY ScriptBegins
    <3> QED BY <1>1, <1>3, <2>2, <2>5, <3>1 DEF IsTalk
  <2>7. /\ talks' = [u \in Talkers |-> talks'[u]]
        /\ \A u \in Talkers : (Busy(u))' => IsTalk(u, talks'[u])
        /\ talks'[t] = next /\ \A u \in Talkers \ {t} : talks'[u] = talks[u]
    BY <2>4, <2>6, TalkMoves
  <2>8. Stored' = Stored BY <2>1 DEF Stored
  <2>9. TalksAreCurrent'
    BY <1>1, <2>1, <2>2, <2>7, <2>8 DEF RelayInv, TalksAreCurrent, Busy
  <2>10. VerifiedIsStored'
    BY <2>1, <2>8 DEF RelayInv, VerifiedIsStored, VerdictIsAboutTheRelay
  <2> QED BY <2>1, <2>7, <2>9, <2>10 DEF RelayInv
<1> QED BY <1>2, <1>3

\* A relay accepted by the form is whole once it is stored with its password.
LEMMA ValidIsWhole ==
  ASSUME FormsAreWhole, RelayInv, NEW t \in Tabs, Valid(panel[t].form, panel[t].typed)
  PROVE  LET f == panel[t].form typed == panel[t].typed
         IN  /\ f \in Forms /\ f # NoRelay /\ Agreed(f)
             /\ f.user <=> (typed # NoPassword \/ settings.ref)
BY DEF Valid, RelayInv, IsPanel, Agreed, FormsAreWhole

LEMMA SaveKeeps ==
  ASSUME FormsAreWhole, RelayInv, NEW t \in Tabs, Save(t)
  PROVE  RelayInv'
<1> DEFINE f == panel[t].form
           typed == panel[t].typed
           row == Saved(f, typed)
           talk == [kind |-> "verify", at |-> 1, with |-> [relay |-> f, password |-> secretFile']]
<1>1. /\ ~Busy(t) /\ Valid(f, typed) /\ secretFile' = PasswordSaved(f, typed)
      /\ overlapped' = (overlapped \/ Checking)
      /\ count' = [count EXCEPT !.saves = @ + 1]
      /\ proved' = proved
      /\ \/ /\ row.ref /\ secretFile' = NoPassword
            /\ settings' = [row EXCEPT !.verdict = "never"]
            /\ panel' = [panel EXCEPT ![t] = Shown(settings')]
            /\ talks' = talks
         \/ /\ ~(row.ref /\ secretFile' = NoPassword)
            /\ settings' = row /\ talks' = [talks EXCEPT ![t] = talk] /\ panel' = panel
  BY DEF Save
<1>2. /\ f \in Forms /\ f # NoRelay /\ Agreed(f)
      /\ f.user <=> (typed # NoPassword \/ settings.ref)
  BY <1>1, ValidIsWhole
<1>3. row = [relay |-> f, ref |-> settings.ref \/ typed # NoPassword, verdict |-> "verifying"]
  BY DEF Saved
<1>4. /\ row.relay = f /\ (row.ref <=> f.user) /\ row.verdict = "verifying"
      /\ row = [x \in RowFields |-> row[x]]
  <2> DEFINE b == settings.ref \/ typed # NoPassword
  <2>1. b \in BOOLEAN /\ (b <=> f.user) BY <1>2
  <2>2. row = [relay |-> f, ref |-> b, verdict |-> "verifying"] BY <1>3
  <2> HIDE DEF b, f, row
  <2>3. row.relay = f /\ row.ref = b /\ row.verdict = "verifying" /\ row = [x \in RowFields |-> row[x]]
    BY <2>2 DEF RowFields
  <2> QED BY <2>1, <2>3
<1>5. ~f.user => secretFile' = NoPassword
  BY <1>1, <1>2 DEF PasswordSaved
<1> HIDE DEF f, typed, row
<1>6. /\ count' = [x \in CountFields |-> count'[x]] /\ count'.crashes = count.crashes
      /\ count.crashes \in Nat
  <2>1. count = [x \in CountFields |-> count[x]] /\ count.crashes \in Nat
    BY DEF RelayInv, CountFields
  <2> QED BY <1>1, <2>1 DEF CountFields
<1>7. Forms \subseteq Forms \cup {NoRelay} /\ t \in Talkers
  BY DEF Talkers
<1>8. CASE /\ row.ref /\ secretFile' = NoPassword
           /\ settings' = [row EXCEPT !.verdict = "never"]
           /\ panel' = [panel EXCEPT ![t] = Shown(settings')]
           /\ talks' = talks
  <2>1. /\ settings' = [x \in RowFields |-> settings'[x]] /\ settings'.relay = f
        /\ (settings'.ref <=> f.user) /\ settings'.verdict = "never"
    BY <1>4, <1>8 DEF RowFields
  <2>2. RowIsWhole(settings')
    BY <1>2, <1>7, <2>1 DEF RowIsWhole, RowFields
  <2>3. IsPanel(Shown(settings')) BY <2>2, ShownIsPanel
  <2>4. panel' = [u \in Tabs |-> panel'[u]] /\ \A u \in Tabs : IsPanel(panel'[u])
    BY <1>8, <2>3, PanelMoves
  <2>5. \A u \in Talkers : (Busy(u))' <=> Busy(u) BY <1>8 DEF Busy
  <2>6. TalksAreCurrent'
    <3> SUFFICES ASSUME ~overlapped', count'.crashes = 0, NEW u \in Talkers, Busy(u), talks[u].kind # "alert"
                 PROVE  FALSE
      BY <1>8, <2>5 DEF TalksAreCurrent
    <3>1. u \in Tabs BY DEF RelayInv, IsTalk
    <3> QED BY <1>1, <3>1 DEF Checking
  <2>7. VerifiedIsStored'
    BY <2>1 DEF VerifiedIsStored, VerdictIsAboutTheRelay
  <2>8. talks' = [u \in Talkers |-> talks'[u]] /\ \A u \in Talkers : (Busy(u))' => IsTalk(u, talks'[u])
    BY <1>8, <2>5 DEF RelayInv
  <2> QED BY <1>6, <2>2, <2>4, <2>6, <2>7, <2>8 DEF RelayInv, CountFields
<1>9. CASE /\ ~(row.ref /\ secretFile' = NoPassword)
           /\ settings' = row /\ talks' = [talks EXCEPT ![t] = talk] /\ panel' = panel
  <2>1. RowIsWhole(settings')
    BY <1>2, <1>4, <1>7, <1>9 DEF RowIsWhole, RowFields
  <2>2. f.user <=> secretFile' # NoPassword BY <1>4, <1>5, <1>9
  <2>3. IsTalk(t, talk) BY <1>2, <2>2, TalkBegins
  <2>4. talk.with = [relay |-> f, password |-> secretFile'] OBVIOUS
  <2> HIDE DEF talk
  <2>5. /\ talks' = [u \in Talkers |-> talks'[u]]
        /\ \A u \in Talkers : (Busy(u))' => IsTalk(u, talks'[u])
        /\ talks'[t] = talk /\ \A u \in Talkers \ {t} : talks'[u] = talks[u]
    BY <1>7, <1>9, <2>3, TalkMoves
  <2>6. Stored' = talk.with BY <1>4, <1>5, <1>9, <2>4 DEF Stored
  <2>7. TalksAreCurrent'
    <3> SUFFICES ASSUME ~overlapped', NEW u \in Talkers, (Busy(u))', talks'[u].kind # "alert"
                 PROVE  talks'[u].with = Stored'
      BY DEF TalksAreCurrent
    <3>1. CASE u = t BY <2>5, <2>6, <3>1
    <3>2. CASE u # t
      <4>1. talks'[u] = talks[u] BY <2>5, <3>2
      <4>2. Busy(u) /\ u \in Tabs BY <4>1 DEF RelayInv, IsTalk, Busy
      <4> QED BY <1>1, <4>2 DEF Checking
    <3> QED BY <3>1, <3>2
  <2>8. VerifiedIsStored'
    BY <1>4, <1>9 DEF VerifiedIsStored, VerdictIsAboutTheRelay
  <2>9. panel' = [u \in Tabs |-> panel'[u]] /\ \A u \in Tabs : IsPanel(panel'[u])
    BY <1>9 DEF RelayInv
  <2> QED BY <1>6, <2>1, <2>5, <2>7, <2>8, <2>9 DEF RelayInv, CountFields
<1> QED BY <1>1, <1>8, <1>9

\* What can be read back can be spoken to.
LEMMA ReadableTalks ==
  ASSUME RelayInv, Readable, NEW t, NEW kind, kind # "alert" => t \in Tabs
  PROVE  IsTalk(t, Talk(kind)) /\ Talk(kind).with = Stored
<1>1. /\ settings.relay \in Forms /\ Agreed(settings.relay)
      /\ settings.relay.user <=> (IF settings.ref THEN secretFile ELSE NoPassword) # NoPassword
  BY DEF RelayInv, RowIsWhole, Readable
<1>2. Talk(kind) = [kind |-> kind, at |-> 1, with |-> [relay |-> settings.relay,
                    password |-> IF settings.ref THEN secretFile ELSE NoPassword]]
  BY DEF Talk, Stored
<1>3. Talk(kind).with = Stored BY DEF Talk
<1> QED BY <1>1, <1>2, <1>3, TalkBegins

LEMMA SendTestKeeps ==
  ASSUME FormsAreWhole, RelayInv, NEW t \in Tabs, SendTest(t)
  PROVE  RelayInv'
<1> DEFINE talk == Talk("test")
<1>1. /\ ~Busy(t) /\ Readable
      /\ settings' = [settings EXCEPT !.verdict = "verifying"]
      /\ talks' = [talks EXCEPT ![t] = talk]
      /\ overlapped' = (overlapped \/ Checking)
      /\ count' = [count EXCEPT !.tests = @ + 1]
      /\ UNCHANGED <<secretFile, panel, proved>>
  BY DEF SendTest
<1>2. IsTalk(t, talk) /\ talk.with = Stored /\ t \in Talkers
  BY <1>1, ReadableTalks DEF Talkers
<1> HIDE DEF talk
<1>3. /\ talks' = [u \in Talkers |-> talks'[u]]
      /\ \A u \in Talkers : (Busy(u))' => IsTalk(u, talks'[u])
      /\ talks'[t] = talk /\ \A u \in Talkers \ {t} : talks'[u] = talks[u]
  BY <1>1, <1>2, TalkMoves
<1>4. /\ RowIsWhole(settings') /\ settings'.relay = settings.relay /\ settings'.ref = settings.ref
      /\ settings'.verdict = "verifying"
  <2>1. settings = [x \in RowFields |-> settings[x]] BY DEF RelayInv, RowIsWhole, RowFields
  <2> QED BY <1>1, <2>1 DEF RelayInv, RowIsWhole, RowFields
<1>5. Stored' = Stored BY <1>1, <1>4 DEF Stored
<1>6. TalksAreCurrent'
  <2> SUFFICES ASSUME ~overlapped', NEW u \in Talkers, (Busy(u))', talks'[u].kind # "alert"
               PROVE  talks'[u].with = Stored'
    BY DEF TalksAreCurrent
  <2>1. CASE u = t BY <1>2, <1>3, <1>5, <2>1
  <2>2. CASE u # t
    <3>1. talks'[u] = talks[u] BY <1>3, <2>2
    <3>2. Busy(u) /\ u \in Tabs BY <3>1 DEF RelayInv, IsTalk, Busy
    <3> QED BY <1>1, <3>2 DEF Checking
  <2> QED BY <2>1, <2>2
<1>7. VerifiedIsStored'
  BY <1>4 DEF VerifiedIsStored, VerdictIsAboutTheRelay
<1>8. count' = [x \in CountFields |-> count'[x]] /\ count'.crashes \in Nat
  <2>1. count = [x \in CountFields |-> count[x]] /\ count.crashes \in Nat
    BY DEF RelayInv, CountFields
  <2> QED BY <1>1, <2>1 DEF CountFields
<1>9. panel' = [u \in Tabs |-> panel'[u]] /\ \A u \in Tabs : IsPanel(panel'[u])
  BY <1>1 DEF RelayInv
<1> QED BY <1>3, <1>4, <1>6, <1>7, <1>8, <1>9 DEF RelayInv, CountFields

LEMMA SendToOwnerKeeps ==
  ASSUME FormsAreWhole, RelayInv, SendToOwner
  PROVE  RelayInv'
<1> DEFINE talk == Talk("alert")
<1>1. /\ ~Busy(Alert) /\ Readable /\ talks' = [talks EXCEPT ![Alert] = talk]
      /\ count' = [count EXCEPT !.alerts = @ + 1]
      /\ UNCHANGED <<settings, secretFile, panel, proved, overlapped>>
  BY DEF SendToOwner
<1>2. IsTalk(Alert, talk) /\ talk.kind = "alert" /\ Alert \in Talkers
  BY <1>1, ReadableTalks DEF Talkers, Talk
<1> HIDE DEF talk
<1>3. /\ talks' = [u \in Talkers |-> talks'[u]]
      /\ \A u \in Talkers : (Busy(u))' => IsTalk(u, talks'[u])
      /\ talks'[Alert] = talk /\ \A u \in Talkers \ {Alert} : talks'[u] = talks[u]
  BY <1>1, <1>2, TalkMoves
<1>4. count' = [x \in CountFields |-> count'[x]] /\ count'.crashes = count.crashes /\ count.crashes \in Nat
  <2>1. count = [x \in CountFields |-> count[x]] /\ count.crashes \in Nat
    BY DEF RelayInv, CountFields
  <2> QED BY <1>1, <2>1 DEF CountFields
<1>5. Stored' = Stored BY <1>1 DEF Stored
<1>6. TalksAreCurrent'
  BY <1>1, <1>2, <1>3, <1>4, <1>5 DEF RelayInv, TalksAreCurrent, Busy
<1>7. VerifiedIsStored'
  BY <1>1, <1>4, <1>5 DEF RelayInv, VerifiedIsStored, VerdictIsAboutTheRelay
<1> QED BY <1>1, <1>3, <1>4, <1>6, <1>7 DEF RelayInv, CountFields

LEMMA RemoveKeeps ==
  ASSUME FormsAreWhole, RelayInv, NEW t \in Tabs, Remove(t)
  PROVE  RelayInv'
<1>1. /\ settings' = Removed /\ panel' = [panel EXCEPT ![t] = Shown(settings')]
      /\ overlapped' = (overlapped \/ Checking)
      /\ UNCHANGED <<talks, proved, count>>
  BY DEF Remove
<1>2. RowIsWhole(settings') /\ settings'.verdict = "never"
  BY <1>1 DEF Removed, RowIsWhole
<1>3. panel' = [u \in Tabs |-> panel'[u]] /\ \A u \in Tabs : IsPanel(panel'[u])
  <2>1. IsPanel(Shown(settings')) BY <1>2, ShownIsPanel
  <2> QED BY <1>1, <2>1, PanelMoves
<1>4. \A u \in Talkers : (Busy(u))' <=> Busy(u) BY <1>1 DEF Busy
<1>5. TalksAreCurrent'
  <2> SUFFICES ASSUME ~overlapped', NEW u \in Talkers, Busy(u), talks[u].kind # "alert"
               PROVE  FALSE
    BY <1>1, <1>4 DEF TalksAreCurrent
  <2>1. u \in Tabs BY DEF RelayInv, IsTalk
  <2> QED BY <1>1, <2>1 DEF Checking
<1>6. VerifiedIsStored'
  BY <1>2 DEF VerifiedIsStored, VerdictIsAboutTheRelay
<1> QED BY <1>1, <1>2, <1>3, <1>4, <1>5, <1>6 DEF RelayInv

LEMMA PanelKeeps ==
  ASSUME RelayInv, NEW t \in Tabs, NEW tab, IsPanel(tab), panel' = [panel EXCEPT ![t] = tab],
         UNCHANGED <<settings, secretFile, talks, proved, overlapped, count>>
  PROVE  RelayInv'
<1>1. panel' = [u \in Tabs |-> panel'[u]] /\ \A u \in Tabs : IsPanel(panel'[u])
  BY PanelMoves
<1>2. Stored' = Stored /\ \A u \in Talkers : (Busy(u))' <=> Busy(u) BY DEF Stored, Busy
<1>3. TalksAreCurrent' BY <1>2 DEF RelayInv, TalksAreCurrent
<1>4. VerifiedIsStored' BY <1>2 DEF RelayInv, VerifiedIsStored, VerdictIsAboutTheRelay
<1> QED BY <1>1, <1>2, <1>3, <1>4 DEF RelayInv

LEMMA ToggleEditingKeeps ==
  ASSUME RelayInv, NEW t \in Tabs, ToggleEditing(t)
  PROVE  RelayInv'
<1> DEFINE tab == panel'[t]
<1>1. UNCHANGED <<settings, secretFile, talks, proved, overlapped, count>>
  BY DEF ToggleEditing
<1>2. /\ panel[t] = [x \in PanelFields |-> panel[t][x]] /\ IsPanel(panel[t])
      /\ panel = [u \in Tabs |-> panel[u]]
  BY DEF RelayInv, IsPanel
<1>3. /\ panel' = [panel EXCEPT ![t] = tab] /\ tab = [x \in PanelFields |-> tab[x]]
      /\ tab.seen = panel[t].seen /\ tab.form \in {panel[t].seen, panel[t].form}
  BY <1>2 DEF ToggleEditing, PanelFields
<1> HIDE DEF tab
<1>4. IsPanel(tab) BY <1>2, <1>3 DEF IsPanel
<1> QED BY <1>1, <1>3, <1>4, PanelKeeps

LEMMA TypeKeeps ==
  ASSUME RelayInv, NEW t \in Tabs, NEW f \in Forms, NEW typed, Type(t, f, typed)
  PROVE  RelayInv'
<1> DEFINE old == panel[t]
           tab == [x \in PanelFields |-> IF x = "form" THEN f ELSE IF x = "typed" THEN typed ELSE old[x]]
<1>1. /\ panel' = [panel EXCEPT ![t].form = f, ![t].typed = typed]
      /\ UNCHANGED <<settings, secretFile, talks, proved, overlapped, count>>
  BY DEF Type
<1>2. /\ old = [x \in PanelFields |-> old[x]] /\ IsPanel(old)
      /\ panel = [u \in Tabs |-> panel[u]]
  BY DEF RelayInv, IsPanel
<1>3. IsPanel(tab) BY <1>2 DEF IsPanel, PanelFields
<1>4. panel' = [panel EXCEPT ![t] = tab] BY <1>1, <1>2 DEF PanelFields
<1> HIDE DEF tab
<1> QED BY <1>1, <1>3, <1>4, PanelKeeps

LEMMA DiesKeeps ==
  ASSUME RelayInv, NEW file, Dies(file)
  PROVE  RelayInv'
<1>1. /\ talks' = [u \in Talkers |-> NoTalk] /\ count' = [count EXCEPT !.crashes = @ + 1]
      /\ UNCHANGED <<settings, panel, proved, overlapped>>
  BY DEF Dies
<1>2. count' = [x \in CountFields |-> count'[x]] /\ count'.crashes \in Nat /\ count'.crashes # 0
  <2>1. count = [x \in CountFields |-> count[x]] /\ count.crashes \in Nat
    BY DEF RelayInv, CountFields
  <2> QED BY <1>1, <2>1 DEF CountFields
<1>3. \A u \in Talkers : ~(Busy(u))' BY <1>1 DEF Busy
<1>4. TalksAreCurrent' /\ VerifiedIsStored'
  BY <1>2 DEF TalksAreCurrent, VerifiedIsStored
<1>5. talks' = [u \in Talkers |-> talks'[u]] BY <1>1
<1> QED BY <1>1, <1>2, <1>3, <1>4, <1>5 DEF RelayInv, CountFields

LEMMA RelayStep == ASSUME FormsAreWhole PROVE RelayInv /\ [RelayNext]_relayVars => RelayInv'
<1> SUFFICES ASSUME RelayInv, [RelayNext]_relayVars PROVE RelayInv'
  OBVIOUS
<1>1. CASE \E t \in Talkers : Answered(t)
  BY <1>1, AnsweredKeeps
<1>2. CASE \E t \in Talkers : Refused(t)
  BY <1>2, EndsKeeps DEF Refused
<1>3. CASE \E t \in Tabs : Save(t)
  BY <1>3, SaveKeeps
<1>4. CASE \E t \in Tabs : SendTest(t)
  BY <1>4, SendTestKeeps
<1>5. CASE \E t \in Tabs : Remove(t)
  BY <1>5, RemoveKeeps
<1>6. CASE \E t \in Tabs : ToggleEditing(t)
  BY <1>6, ToggleEditingKeeps
<1>7. CASE \E t \in Tabs : SaveCut(t) \/ RemoveCut(t)
  BY <1>7, DiesKeeps DEF SaveCut, RemoveCut
<1>8. CASE \E t \in Tabs : \E f \in Forms, typed \in Passwords \cup {NoPassword} : Type(t, f, typed)
  BY <1>8, TypeKeeps
<1>9. CASE SendToOwner
  BY <1>9, SendToOwnerKeeps
<1>10. CASE Crash
  BY <1>10, DiesKeeps DEF Crash
<1>11. CASE UNCHANGED relayVars
  <2>1. UNCHANGED <<settings, secretFile, talks, panel, proved, overlapped, count>>
    BY <1>11 DEF relayVars
  <2>2. Stored' = Stored /\ \A u \in Talkers : (Busy(u))' <=> Busy(u) BY <2>1 DEF Stored, Busy
  <2>3. TalksAreCurrent' BY <2>1, <2>2 DEF RelayInv, TalksAreCurrent
  <2>4. VerifiedIsStored' BY <2>1, <2>2 DEF RelayInv, VerifiedIsStored, VerdictIsAboutTheRelay
  <2> QED BY <2>1, <2>2, <2>3, <2>4 DEF RelayInv
<1> QED BY <1>1, <1>2, <1>3, <1>4, <1>5, <1>6, <1>7, <1>8, <1>9, <1>10, <1>11 DEF RelayNext

\* What the invariant says of a login: it comes after the encryption, or with the owner's word.
LEMMA RelaySays == ASSUME FormsAreWhole PROVE RelayInv => RelayIsSound
<1> SUFFICES ASSUME RelayInv PROVE RelayIsSound
  OBVIOUS
<1>1. NeverHalfACredential
  BY DEF RelayInv, RowIsWhole, IsTalk, NeverHalfACredential
<1>2. VerifiedIsStored BY DEF RelayInv
<1>3. LoginIsProtected
  <2> SUFFICES ASSUME NEW t \in Talkers, Busy(t), AtLogin(talks[t])
               PROVE  Secured(talks[t]) \/ talks[t].with.relay.insecure
    BY DEF LoginIsProtected
  <2> DEFINE kind == talks[t].kind
             f == talks[t].with.relay
             at == talks[t].at
  <2>1. f \in Forms /\ Agreed(f) /\ at \in 1 .. Len(Script(kind, f))
    BY DEF RelayInv, IsTalk
  <2>2. Script(kind, f)[at] \in LoginWords
    BY Zenon DEF AtLogin, LoginWords
  <2>3. f.security \in Securities BY <2>1 DEF FormsAreWhole
  <2> HIDE DEF kind, f, at
  <2>4. /\ f.user
        /\ f.security \in {"tls", "starttls"} => \E j \in 1 .. at - 1 : Script(kind, f)[j] = "handshake"
    BY <2>1, <2>2, LoginComesLater
  <2>5. CASE f.security \in {"tls", "starttls"}
    BY <2>4, <2>5 DEF Secured, kind, f, at
  <2>6. CASE f.security = "none"
    BY <2>1, <2>4, <2>6 DEF Agreed, f
  <2> QED BY <2>3, <2>5, <2>6 DEF Securities
<1> QED BY <1>1, <1>2, <1>3 DEF RelayIsSound

\* A login goes out only over the security the owner chose, no credential is ever half of one,
\* and the relay shown as verified is the one stored (smtp-client.cjs, email-settings.cjs), for
\* any tabs, relays and servers, and any number of changes, checks and alerts.
THEOREM RelayStaysSound ==
  ASSUME FormsAreWhole
  PROVE  RelaySpec => []RelayIsSound
<1> QED BY RelayStart, RelayStep, RelaySays, PTL DEF RelaySpec

------------------------------------------------------------------------------
(* The alerts of failed sign-ins. *)

\* The last claim is at most now, no alert is later than it, and two are a window apart.
AlertsInv ==
  /\ now \in Nat /\ alert.claimed \in Nat /\ alert.claimed <= now + 1
  /\ alert = [x \in {"claimed", "relay", "sending", "sent"} |-> alert[x]]
  /\ \A t \in alert.sent \cup alert.sending : t \in Nat /\ t + 1 <= alert.claimed
  /\ AlertsAreSpaced

LEMMA AlertsStart == ThrottleInit => AlertsInv
<1> SUFFICES ASSUME ThrottleInit PROVE AlertsInv
  OBVIOUS
<1>1. /\ now = 0 /\ alert.claimed = 0 /\ alert.sent \cup alert.sending = {}
      /\ alert = [x \in {"claimed", "relay", "sending", "sent"} |-> alert[x]]
  BY DEF ThrottleInit
<1> QED BY <1>1 DEF AlertsInv, AlertsAreSpaced

\* A claim opens a window of its own.
LEMMA ClaimKeeps ==
  ASSUME AlertEvery \in Nat, AlertsInv, Claims, alert' = Claimed, now' = now
  PROVE  AlertsInv'
<1>1. /\ alert = [x \in {"claimed", "relay", "sending", "sent"} |-> alert[x]]
      /\ now \in Nat /\ alert.claimed \in Nat
      /\ \A t \in alert.sent \cup alert.sending : t \in Nat /\ t + 1 <= alert.claimed
      /\ AlertsAreSpaced
  BY DEF AlertsInv
<1>2. /\ alert' = [x \in {"claimed", "relay", "sending", "sent"} |-> alert'[x]]
      /\ alert'.claimed = now + 1 /\ alert'.sending = alert.sending \cup {now} /\ alert'.sent = alert.sent
  BY <1>1 DEF Claimed
<1>3. \A t \in alert.sent \cup alert.sending : now - t >= AlertEvery /\ t <= now
  <2> SUFFICES ASSUME NEW t \in alert.sent \cup alert.sending PROVE now - t >= AlertEvery /\ t <= now
    OBVIOUS
  <2>1. t \in Nat /\ t + 1 <= alert.claimed /\ alert.claimed # 0 BY <1>1
  <2>2. now - (alert.claimed - 1) >= AlertEvery BY <2>1 DEF Claims
  <2> QED BY <1>1, <2>1, <2>2
<1>4. AlertsAreSpaced'
  <2> SUFFICES ASSUME NEW t \in alert'.sent \cup alert'.sending, NEW u \in alert'.sent \cup alert'.sending,
                      t < u
               PROVE  u - t >= AlertEvery
    BY DEF AlertsAreSpaced
  <2>1. CASE u = now /\ t # now
    BY <1>2, <1>3, <2>1
  <2>2. CASE u # now /\ t = now
    BY <1>1, <1>2, <1>3, <2>2
  <2>3. CASE u # now /\ t # now
    BY <1>1, <1>2, <2>3 DEF AlertsAreSpaced
  <2> QED BY <1>1, <2>1, <2>2, <2>3
<1>5. \A t \in alert'.sent \cup alert'.sending : t \in Nat /\ t + 1 <= alert'.claimed
  BY <1>1, <1>2, <1>3
<1> QED BY <1>1, <1>2, <1>4, <1>5 DEF AlertsInv

\* Nothing else adds an alert, or takes a claim back.
LEMMA NoClaimKeeps ==
  ASSUME AlertsInv, now' \in Nat, now' >= now, alert'.claimed = alert.claimed,
         alert' = [x \in {"claimed", "relay", "sending", "sent"} |-> alert'[x]],
         alert'.sent \cup alert'.sending \subseteq alert.sent \cup alert.sending
  PROVE  AlertsInv'
<1>1. AlertsAreSpaced' BY DEF AlertsInv, AlertsAreSpaced
<1> QED BY <1>1 DEF AlertsInv

LEMMA AlertsStep ==
  ASSUME AlertEvery \in Nat PROVE AlertsInv /\ [ThrottleNext]_throttleVars => AlertsInv'
<1> SUFFICES ASSUME AlertsInv, [ThrottleNext]_throttleVars PROVE AlertsInv'
  OBVIOUS
<1>1. /\ alert = [x \in {"claimed", "relay", "sending", "sent"} |-> alert[x]] /\ now \in Nat
      /\ \A t \in alert.sent \cup alert.sending : t \in Nat /\ t + 1 <= alert.claimed
  BY DEF AlertsInv
<1>2. CASE alert' = alert /\ now' = now
  BY <1>1, <1>2, NoClaimKeeps
<1>3. CASE \E n \in Attempts, a \in Addresses, known \in BOOLEAN : Refuse(n, a, known)
  BY <1>2, <1>3, ClaimKeeps DEF Refuse
<1>4. CASE \E n \in Attempts, a \in Addresses, known \in BOOLEAN : LetIn(n, a, known)
  BY <1>2, <1>4 DEF LetIn
<1>5. CASE \E n \in Attempts : Fail(n) \/ Succeed(n) \/ GiveUp(n)
  BY <1>2, <1>5 DEF Fail, Succeed, GiveUp
<1>6. CASE Deliver
  <2>1. PICK t \in alert.sending, ok \in BOOLEAN :
          /\ alert' = [alert EXCEPT !.sending = @ \ {t}, !.sent = IF ok THEN @ \cup {t} ELSE @]
          /\ now' = now
    BY <1>6 DEF Deliver
  <2>2. /\ alert'.claimed = alert.claimed /\ alert'.sending = alert.sending \ {t}
        /\ alert'.sent = (IF ok THEN alert.sent \cup {t} ELSE alert.sent)
        /\ alert' = [x \in {"claimed", "relay", "sending", "sent"} |-> alert'[x]]
    BY <1>1, <2>1
  <2>3. alert'.sent \cup alert'.sending \subseteq alert.sent \cup alert.sending
    BY <2>2
  <2> QED BY <1>1, <2>1, <2>2, <2>3, NoClaimKeeps
<1>7. CASE ConfigureRelay
  <2>1. alert' = [alert EXCEPT !.relay = TRUE] /\ now' = now BY <1>7 DEF ConfigureRelay
  <2>2. /\ alert'.claimed = alert.claimed /\ alert'.sending = alert.sending /\ alert'.sent = alert.sent
        /\ alert' = [x \in {"claimed", "relay", "sending", "sent"} |-> alert'[x]]
    BY <1>1, <2>1
  <2> QED BY <1>1, <2>1, <2>2, NoClaimKeeps
<1>8. CASE Tick
  BY <1>1, <1>8, NoClaimKeeps DEF Tick
<1>9. CASE Restart
  <2>1. alert' = [alert EXCEPT !.sending = {}] /\ now' = now BY <1>9 DEF Restart
  <2>2. /\ alert'.claimed = alert.claimed /\ alert'.sending = {} /\ alert'.sent = alert.sent
        /\ alert' = [x \in {"claimed", "relay", "sending", "sent"} |-> alert'[x]]
    BY <1>1, <2>1
  <2> QED BY <1>1, <2>1, <2>2, NoClaimKeeps
<1>10. CASE UNCHANGED throttleVars
  BY <1>2, <1>10 DEF throttleVars
<1> QED BY <1>3, <1>4, <1>5, <1>6, <1>7, <1>8, <1>9, <1>10 DEF ThrottleNext

\* However many attempts are refused, and whether or not the relay answers, the owner hears of
\* it once in a window, restarts included (SignInAlerts.notify).
THEOREM AlertsStaySpaced ==
  ASSUME AlertEvery \in Nat
  PROVE  ThrottleSpec => []AlertsAreSpaced
<1>1. AlertsInv => AlertsAreSpaced BY DEF AlertsInv
<1> QED BY <1>1, AlertsStart, AlertsStep, PTL DEF ThrottleSpec
=============================================================================
