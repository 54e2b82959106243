----------------------------- MODULE UpdateJobs -----------------------------
(****************************************************************************)
(* The update agent (system-agents/update/agent.cjs), the worker it starts   *)
(* for an update (worker.cjs), the backup the worker takes first             *)
(* (checkpoint.cjs), and the two others who use the same backup queue: the    *)
(* owner and the backup schedule.  The agents are separate processes; they    *)
(* see each other through job files and through requests that take time, so   *)
(* a request is split where its handler awaits.  The backup agent is the      *)
(* promise BackupQueue states and BackupJobs keeps.                           *)
(****************************************************************************)
EXTENDS BackupQueue, Naturals

CONSTANTS Updates,      \* update job ids, each the subject of one start request
          OwnerJobs,    \* the backup job ids left to everybody else
          NoJob,        \* no backup job
          NoUpdate,
          Places,       \* bound: what the primary destination may be in a run
          Disturbed     \* bound: the updates the owner answers or systemd-run fails for

ASSUME OwnerJobsAssumption == OwnerJobs \subseteq Jobs
ASSUME NoJobAssumption == NoJob \notin Jobs
ASSUME PlacesAssumption == Places \subseteq {"unset", "away", "here"}
ASSUME NoUpdateAssumption == NoUpdate \notin Updates

VARIABLES file,         \* the update agent's job files
          current,      \* the update current-job.json is a summary of
          request,      \* how far the agent is with each start request
          worker,       \* what each update's worker does next
          loose,        \* updates whose worker was started without a unit of systemd's
          backup,       \* the backup job a worker asked for
          excused,      \* updates that found no primary destination
          touched,      \* updates whose apply changed the checkout
          answering,    \* what a handler that has read the record is about to write
          answered,     \* what the owner was told about each update
          place         \* the primary destination: "unset", "away" or "here"

updateVars == <<file, current, request, worker, loose, backup, excused, touched,
                answering, answered>>
vars == <<queue, lost, file, current, request, worker, loose, backup, excused, touched,
          answering, answered, place>>

Stages == {"queued", "taking-checkpoint", "waiting-for-backup-destination", "checking",
           "ready-to-apply", "applying", "succeeded", "failed", "cancelled"}
CancellableStages == {"queued", "taking-checkpoint", "waiting-for-backup-destination"}
SkippableStages == {"waiting-for-backup-destination"}

\* A worker by its next step; those of ApplySteps have left the checkpoint behind.
ApplySteps == {"check", "apply", "build", "reconcile", "finish"}
Steps == ApplySteps \union
         {"none", "boot", "decide", "summary", "start", "started", "poll", "look",
          "dead", "exited"}

Active(u) == file[u].status \in {"queued", "running"}
Live(u) == worker[u] \notin {"none", "dead", "exited"}

Records == [status : {"none", "queued", "running", "succeeded", "failed", "cancelled"},
            stage : Stages, skip : BOOLEAN]
Answers == {"cancel", "skip"}
NoAnswer == [what |-> "none"]
Writes == Answers \union {"lost"}

TypeOK ==
  /\ QueueTypeOK
  /\ file \in [Updates -> Records]
  /\ current \in Updates \union {NoUpdate}
  /\ request \in [Updates -> {"none", "asked", "clear", "closed"}]
  /\ worker \in [Updates -> Steps]
  /\ backup \in [Updates -> Jobs \union {NoJob}]
  /\ loose \subseteq Updates
  /\ excused \subseteq Updates
  /\ touched \subseteq Updates
  /\ answering \in [Updates -> {NoAnswer} \union [what : Writes, job : Records]]
  /\ answered \in [Updates -> SUBSET Answers]
  /\ place \in Places

Init ==
  /\ QueueInit
  /\ file = [u \in Updates |-> [status |-> "none", stage |-> "queued", skip |-> FALSE]]
  /\ current = NoUpdate
  /\ request = [u \in Updates |-> "none"]
  /\ worker = [u \in Updates |-> "none"]
  /\ backup = [u \in Updates |-> NoJob]
  /\ loose = {}
  /\ excused = {}
  /\ touched = {}
  /\ answering = [u \in Updates |-> NoAnswer]
  /\ answered = [u \in Updates |-> {}]
  /\ place \in Places

------------------------------------------------------------------------------
(* The update agent.                                                         *)

\* systemd knows a worker only by the unit it was started in.
UnitActive(u) == Live(u) /\ u \notin loose

\* Mutant: an update whose unit is gone before it wrote "running" is passed over.
LostUpdateRunningOnly == /\ current # NoUpdate
                         /\ file[current].status = "running"
                         /\ ~UnitActive(current)

\* What readCurrentJob takes for lost: an active job without an active unit, silent for
\* 120 s.  A worker that was started without one may well be at work.
LostUpdate == /\ current # NoUpdate
              /\ Active(current)
              /\ ~UnitActive(current)

\* Mutant: the stage is one no reader knows.
FailedAsLost(u) == [file EXCEPT ![u].status = "failed", ![u].stage = "lost"]

Failed(u) == [file EXCEPT ![u].status = "failed", ![u].stage = "failed"]
FilesAfterRead == IF LostUpdate THEN Failed(current) ELSE file

UpdateIdle == current # NoUpdate => ~Active(current) \/ LostUpdate

\* Any read of the agent's status; the mark is written without an await.
MarkLost ==
  /\ LostUpdate
  /\ file' = FilesAfterRead
  /\ UNCHANGED <<queueVars, current, request, worker, loose, backup, excused, touched,
                 answering, answered, place>>

\* POST /v1/jobs, first step: an active update refuses the request; another request
\* that is being answered does not.
AskUpdate(u) ==
  /\ request[u] = "none"
  /\ UpdateIdle
  /\ file' = FilesAfterRead
  /\ request' = [request EXCEPT ![u] = "asked"]
  /\ UNCHANGED <<queueVars, current, worker, loose, backup, excused, touched, answering,
                 answered, place>>

\* The backup agent's summary: an active job refuses, no answer counts as none.
HearBackupAgent(u) ==
  /\ request[u] = "asked"
  /\ \/ Busy # {} /\ request' = [request EXCEPT ![u] = "closed"]
     \/ request' = [request EXCEPT ![u] = "clear"]
  /\ UNCHANGED <<queueVars, file, current, worker, loose, backup, excused, touched,
                 answering, answered, place>>

\* The body is read, the job written and its worker started, without a unit when
\* systemd-run fails; or the agent dies before that.
CreateUpdate(u) ==
  /\ request[u] = "clear"
  /\ request' = [request EXCEPT ![u] = "closed"]
  /\ file' = [file EXCEPT ![u].status = "queued"]
  /\ current' = u
  /\ \E step \in {"boot", "none"} : worker' = [worker EXCEPT ![u] = step]
  /\ loose' \in {loose, loose \union ({u} \intersect Disturbed)}
  /\ UNCHANGED <<queueVars, backup, excused, touched, answering, answered, place>>

\* The agent's service restarts: a request in flight is never answered.
AgentRestarts ==
  /\ \E u \in Updates : request[u] \in {"asked", "clear"} \/ answering[u] # NoAnswer
  /\ request' = [u \in Updates |-> IF request[u] = "none" THEN "none" ELSE "closed"]
  /\ answering' = [u \in Updates |-> NoAnswer]
  /\ UNCHANGED <<queueVars, file, current, worker, loose, backup, excused, touched,
                 answered, place>>

\* The owner's two answers while the update waits, each accepted in some stages.
Accepting(u, what) ==
  /\ Active(u)
  /\ file[u].stage \in IF what = "skip" THEN SkippableStages ELSE CancellableStages

\* The whole record is written back as it was read, with the answer or the mark in it.
Written(what, job) ==
  CASE what = "skip"   -> [job EXCEPT !.skip = TRUE]
    [] what = "cancel" -> [job EXCEPT !.status = "cancelled", !.stage = "cancelled"]
    [] what = "lost"   -> [job EXCEPT !.status = "failed", !.stage = "failed"]

\* A handler reads the record.  It never awaits before it writes, but the worker is
\* another process and there is no lock.
BeginAnswer(u, what) ==
  /\ IF what = "lost" THEN LostUpdate /\ u = current /\ Live(u) ELSE Accepting(u, what)
  /\ answering' = [answering EXCEPT ![u] = [what |-> what, job |-> file[u]]]
  /\ UNCHANGED <<queueVars, file, current, request, worker, loose, backup, excused,
                 touched, answered, place>>

\* It writes, and the owner is told; a worker that had itself read the record before
\* that and writes it after leaves nothing of the answer.
EndAnswer(u) ==
  /\ answering[u] # NoAnswer
  /\ \/ file' = [file EXCEPT ![u] = Written(answering[u].what, answering[u].job)]
     \/ Live(u) /\ UNCHANGED file
  /\ current' = u
  /\ answered' = [answered EXCEPT ![u] = @ \union ({answering[u].what} \ {"lost"})]
  /\ answering' = [answering EXCEPT ![u] = NoAnswer]
  /\ UNCHANGED <<queueVars, request, worker, loose, backup, excused, touched, place>>

\* One event loop: a handler between its read and its write holds up every other.
AgentFree == \A u \in Updates : answering[u] = NoAnswer

AgentNext ==
  \/ AgentRestarts
  \/ AgentFree /\ MarkLost
  \/ \E u \in Updates :
       \/ EndAnswer(u)
       \/ AgentFree /\ (AskUpdate(u) \/ HearBackupAgent(u) \/ CreateUpdate(u))
       \/ AgentFree /\ u \in Disturbed /\ \E what \in Writes : BeginAnswer(u, what)

------------------------------------------------------------------------------
(* The worker of an update.                                                  *)

At(u, step) == worker[u] = step
GoTo(u, step) == worker' = [worker EXCEPT ![u] = step]

\* updateJob: the record is read, patched, and written to both files.
Patch(u, status, stage) ==
  /\ file' = [file EXCEPT ![u].status = status, ![u].stage = stage]
  /\ current' = u

FailCheckpoint(u) == Patch(u, "failed", "taking-checkpoint") /\ GoTo(u, "exited")
\* Mutant: the stage of a failed checkpoint is written for any failure.
FailApplyEarly(u) == Patch(u, "failed", "taking-checkpoint") /\ GoTo(u, "exited")

FailApply(u) == Patch(u, "failed", "failed") /\ GoTo(u, "exited")
StopCancelled(u) == Patch(u, "cancelled", "cancelled") /\ GoTo(u, "exited")

\* The checkpoint is over and main goes on: both patches, no await between them.
Conclude(u) == Patch(u, "running", "checking") /\ GoTo(u, "check")

\* onState: the stage is written over, the status is left as it is.
Wait(u) == Patch(u, file[u].status, "waiting-for-backup-destination") /\ GoTo(u, "decide")

Boot(u) ==
  /\ At(u, "boot")
  /\ Patch(u, "running", "taking-checkpoint")
  /\ GoTo(u, "decide")
  /\ UNCHANGED <<queueVars, backup, excused, touched>>

\* What the owner said is read from the file, once a round.
Decide(u) ==
  /\ At(u, "decide")
  /\ \/ file[u].status = "cancelled" /\ StopCancelled(u)
     \/ file[u].status # "cancelled" /\ file[u].skip /\ Conclude(u)
     \/ /\ file[u].status # "cancelled" /\ ~file[u].skip
        /\ GoTo(u, "summary") /\ UNCHANGED <<file, current>>
  /\ UNCHANGED <<queueVars, backup, excused, touched>>

\* The backup agent's summary names the primary destination, or does not come.
HearSummary(u) ==
  /\ At(u, "summary")
  /\ IF place = "unset"
       THEN Conclude(u) /\ excused' = excused \union {u}
       ELSE GoTo(u, "start") /\ UNCHANGED <<file, current, excused>>
  /\ UNCHANGED <<queueVars, backup, touched>>

FreshJobs == {j \in Jobs \ OwnerJobs : queue[j] = "none"}

BackupAccepted(u) ==
  /\ At(u, "start")
  /\ place = "here"
  /\ \E j \in FreshJobs : Accept(j) /\ backup' = [backup EXCEPT ![u] = j]
  /\ GoTo(u, "started")
  /\ UNCHANGED <<file, current, excused, touched>>

\* Accepted, but the answer is lost: the worker waits and will ask again.
AcceptedUnheard(u) ==
  /\ At(u, "start")
  /\ place = "here"
  /\ Cardinality(FreshJobs) > 1
  /\ \E j \in FreshJobs : Accept(j)
  /\ Wait(u)
  /\ UNCHANGED <<backup, excused, touched>>

\* No answer, a place that is away and a busy queue are waited out; a primary that
\* is gone meanwhile, a key nobody saved or an unfinished restore fail the update.
BackupRefused(u) ==
  /\ worker[u] \in {"summary", "start"}
  /\ \/ Wait(u)
     \/ At(u, "start") /\ FailCheckpoint(u)
  /\ UNCHANGED <<queueVars, backup, excused, touched>>

NoteStarted(u) ==
  /\ At(u, "started")
  /\ Patch(u, file[u].status, "taking-checkpoint")
  /\ GoTo(u, "poll")
  /\ UNCHANGED <<queueVars, backup, excused, touched>>

\* Mutant: a skip is honoured while the backup runs.
PollSkips(u) ==
  /\ At(u, "poll")
  /\ IF file[u].status = "cancelled" THEN StopCancelled(u)
       ELSE IF file[u].skip THEN Conclude(u)
       ELSE GoTo(u, "look") /\ UNCHANGED <<file, current>>
  /\ UNCHANGED <<queueVars, backup, excused, touched>>

Poll(u) ==
  /\ At(u, "poll")
  /\ IF file[u].status = "cancelled"
       THEN StopCancelled(u)
       ELSE GoTo(u, "look") /\ UNCHANGED <<file, current>>
  /\ UNCHANGED <<queueVars, backup, excused, touched>>

\* Mutant: any end of the backup is an end of the wait.
CheckpointEnded(u) == queue[backup[u]] \in Results

CheckpointTaken(u) == queue[backup[u]] = "succeeded"

\* The one backup this update asked for, by id; no answer is asked again.
Look(u) ==
  /\ At(u, "look")
  /\ \/ GoTo(u, "poll") /\ UNCHANGED <<file, current>>
     \/ CheckpointTaken(u) /\ Conclude(u)
     \/ queue[backup[u]] = "failed" /\ FailCheckpoint(u)
  /\ UNCHANGED <<queueVars, backup, excused, touched>>

\* collectStatus asks the origin; the patch has a stage and no status.
CheckOrigin(u) ==
  /\ At(u, "check")
  /\ \/ Patch(u, file[u].status, "ready-to-apply") /\ GoTo(u, "apply")
     \/ FailApply(u)
  /\ UNCHANGED <<queueVars, backup, excused, touched>>

\* runApply: refusals first, then the checkout moves, then dependencies and build.
Checkout(u) ==
  /\ At(u, "apply")
  /\ \/ FailApply(u) /\ touched' \in {touched, touched \union {u}}
     \/ /\ Patch(u, file[u].status, "applying") /\ GoTo(u, "build")
        /\ touched' = touched \union {u}
  /\ UNCHANGED <<queueVars, backup, excused>>

Build(u) ==
  /\ At(u, "build")
  /\ \/ FailApply(u)
     \/ GoTo(u, "reconcile") /\ UNCHANGED <<file, current>>
  /\ UNCHANGED <<queueVars, backup, excused, touched>>

\* The host services are restarted: a backup worker under way dies with its agent.
ReconcileHost(u) ==
  /\ At(u, "reconcile")
  /\ lost' = lost \union Busy
  /\ UNCHANGED queue
  /\ \/ FailApply(u)
     \/ GoTo(u, "finish") /\ UNCHANGED <<file, current>>
  /\ UNCHANGED <<backup, excused, touched>>

Finish(u) ==
  /\ At(u, "finish")
  /\ Patch(u, "succeeded", "succeeded")
  /\ GoTo(u, "exited")
  /\ UNCHANGED <<queueVars, backup, excused, touched>>

WorkerStep(u) ==
  /\ \/ Boot(u) \/ Decide(u) \/ HearSummary(u) \/ BackupAccepted(u) \/ AcceptedUnheard(u)
     \/ BackupRefused(u) \/ NoteStarted(u) \/ Poll(u) \/ Look(u) \/ CheckOrigin(u)
     \/ Checkout(u) \/ Build(u) \/ ReconcileHost(u) \/ Finish(u)
  /\ UNCHANGED <<request, loose, answering, answered, place>>

\* Power loss, or the unit being killed.
WorkerKilled(u) ==
  /\ Live(u)
  /\ GoTo(u, "dead")
  /\ UNCHANGED <<queueVars, file, current, request, loose, backup, excused, touched,
                 answering, answered, place>>

------------------------------------------------------------------------------
(* The rest of the host.                                                     *)

\* The owner's backups, restores, checks and deletes: no question about updates.
OthersStart == \E j \in OwnerJobs : Accept(j)

QueueMoves == \E j \in Jobs : \/ Lose(j) \/ GiveUp(j)
                              \/ \E result \in Results : Settle(j, result)

PlaceChanges(to) ==
  /\ place # to
  /\ place' = to
  /\ UNCHANGED <<queueVars, updateVars>>

Next ==
  \/ AgentNext
  \/ \E u \in Updates : WorkerStep(u) \/ WorkerKilled(u)
  \/ (OthersStart \/ QueueMoves) /\ UNCHANGED <<updateVars, place>>
  \/ \E to \in Places : PlaceChanges(to)

Spec == Init /\ [][Next]_vars

\* A job of the queue ends: its worker reports, or a poll notices that it is gone.
QueueJobEnds ==
  /\ \E j \in Jobs : GiveUp(j) \/ \E result \in Results : Settle(j, result)
  /\ UNCHANGED <<updateVars, place>>

\* A question the backup agent answers, and an answer that ends a worker's wait.
Answered(u) ==
  /\ HearSummary(u) \/ BackupAccepted(u) \/ (Look(u) /\ ~At(u, "poll")')
  /\ UNCHANGED <<request, loose, answering, answered, place>>

AnsweredAt(u, step) == At(u, step) /\ Answered(u)

\* Processes go on, the status is polled, jobs of the queue end, and an agent that
\* is asked again and again answers at last.
Fairness ==
  /\ SF_vars(AgentFree /\ MarkLost)
  /\ WF_vars(QueueJobEnds)
  /\ \A u \in Updates : /\ WF_vars(WorkerStep(u))
                        /\ WF_vars(EndAnswer(u))
                        /\ \A step \in {"summary", "start", "look"} :
                             SF_vars(AnsweredAt(u, step))

FairSpec == Spec /\ Fairness

------------------------------------------------------------------------------
(* Properties.                                                               *)

\* The checkout is moved only behind a backup that succeeded, unless the owner was
\* told the update would go on without one or there was no place to write one.
BackupBeforeTouch ==
  \A u \in touched : \/ backup[u] # NoJob /\ queue[backup[u]] = "succeeded"
                     \/ "skip" \in answered[u]
                     \/ u \in excused

\* worker.cjs (failJob): a record that stands as failed at its checkpoint is of an
\* update that changed nothing, whatever handlers and the worker wrote over each other.
FailedCheckpointIsUntouched ==
  \A u \in touched : ~(file[u].status = "failed" /\ file[u].stage = "taking-checkpoint")

\* agent.cjs: "a backup already running is left to finish": an update whose worker
\* knows of a backup of its own goes on only if that one succeeds, though a skip that
\* was granted while there was no place may land in the record afterwards.
RunningBackupDecides ==
  \A u \in touched : backup[u] # NoJob => queue[backup[u]] = "succeeded"

\* An update comes to an end by itself once its destination is back to stay.
UpdateEnds ==
  <>[](place = "here") => \A u \in Updates : Active(u) ~> ~Active(u)

\* docs/decisions.md: "Cancel is honoured while the job is queued, taking-checkpoint
\* or waiting-for-backup-destination": told cancelled, the checkout never moves.
CancelHonoured == \A u \in touched : "cancel" \notin answered[u]

\* While a worker applies, its record says so: every check other requests make
\* (start, track, restart, the schedule) reads that record and nothing else.  A cancel
\* written over an apply, and a worker without a unit, break it.
ApplyIsRecorded == \A u \in Updates : worker[u] \in ApplySteps => Active(u)

\* agent.cjs refuses a start with "An update job is already running.": two
\* updates never have a worker at the same time.
OneUpdateAtATime == \A u, v \in Updates : Live(u) /\ Live(v) => u = v

\* agent.cjs: "once the checkpoint has the backup queue, nothing else can take it
\* before the apply".
QueueHeldUntilApply ==
  \A u \in Updates :
    worker[u] \in {"poll", "look", "check", "apply"} /\ backup[u] # NoJob
    => Busy \subseteq {backup[u]}
=============================================================================
