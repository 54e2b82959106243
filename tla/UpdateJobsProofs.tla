-------------------------- MODULE UpdateJobsProofs --------------------------
(****************************************************************************)
(* Theorems about UpdateJobs for any updates and backup jobs: the variables  *)
(* keep their types, the checkout moves only behind a checkpoint, and a      *)
(* record that says the checkpoint failed is of an update that moved nothing. *)
(*                                                                           *)
(* And of AppScreens, where an owner reviews the update of an app: the one   *)
(* that is applied is the one reviewed, and a review closes for no other.    *)
(****************************************************************************)
EXTENDS UpdateJobs, AppScreens, SequenceTheorems, TLAPS

------------------------------------------------------------------------------
(* The inductive invariants. *)

\* The checkpoint of this update is over, in one of the three ways it may be.
CheckpointOver(u) == \/ backup[u] # NoJob /\ queue[backup[u]] = "succeeded"
                     \/ "skip" \in answered[u]
                     \/ u \in excused

\* An update has one worker, started by its one request.
StartedOnce ==
  \A u \in Updates : request[u] # "closed" => worker[u] = "none" /\ u \notin touched

\* A record that says to skip the backup is one the owner was told of.
SkipIsAnswered ==
  \A u \in Updates :
    /\ file[u].skip => "skip" \in answered[u]
    /\ answering[u] # NoAnswer /\ answering[u].job.skip => "skip" \in answered[u]

\* A worker past its checkpoint has had one; one that waits for a backup has asked for it.
CheckpointFirst ==
  \A u \in Updates :
    /\ worker[u] \in {"started", "poll", "look"} => backup[u] \in Jobs
    /\ worker[u] \in ApplySteps \/ u \in touched => CheckpointOver(u)
    /\ u \in touched => worker[u] \in {"build", "reconcile", "finish", "dead", "exited"}

\* An update whose worker knows of a backup waits for it, and goes on if it succeeds.
BackupFirst ==
  \A u \in Updates :
    /\ worker[u] \in {"none", "boot", "decide", "summary", "start"} => backup[u] = NoJob
    /\ worker[u] \in ApplySteps \/ u \in touched =>
         backup[u] = NoJob \/ queue[backup[u]] = "succeeded"

CheckpointInv == StartedOnce /\ SkipIsAnswered /\ CheckpointFirst /\ BackupFirst

AtCheckpoint(record) == record.status = "failed" /\ record.stage = "taking-checkpoint"

\* What a handler is about to write was an active record when it read it.
ReadActive ==
  \A u \in Updates : answering[u] # NoAnswer => answering[u].job.status \in {"queued", "running"}

RecordInv == ReadActive /\ \A u \in touched : ~AtCheckpoint(file[u])
------------------------------------------------------------------------------
(* The queue, and the update agent's record. *)

Statuses == {"none", "queued", "running", "succeeded", "failed", "cancelled"}

\* A step of the queue keeps its types, and takes no success back.
LEMMA QueueStepKeeps ==
  ASSUME QueueTypeOK,
         \E j \in Jobs : \/ Accept(j) \/ Lose(j) \/ GiveUp(j)
                        \/ \E result \in Results : Settle(j, result)
  PROVE  /\ QueueTypeOK'
         /\ \A j \in Jobs : queue[j] = "succeeded" => queue'[j] = "succeeded"
<1>1. ASSUME NEW j \in Jobs, Accept(j)
      PROVE  QueueTypeOK' /\ \A k \in Jobs : queue[k] = "succeeded" => queue'[k] = "succeeded"
  BY <1>1 DEF Accept, QueueTypeOK, Busy, Results
<1>2. ASSUME NEW j \in Jobs, Lose(j)
      PROVE  QueueTypeOK' /\ \A k \in Jobs : queue[k] = "succeeded" => queue'[k] = "succeeded"
  BY <1>2 DEF Lose, QueueTypeOK
<1>3. ASSUME NEW j \in Jobs, GiveUp(j)
      PROVE  QueueTypeOK' /\ \A k \in Jobs : queue[k] = "succeeded" => queue'[k] = "succeeded"
  BY <1>3 DEF GiveUp, QueueTypeOK, Busy, Results
<1>4. ASSUME NEW j \in Jobs, NEW result \in Results, Settle(j, result)
      PROVE  QueueTypeOK' /\ \A k \in Jobs : queue[k] = "succeeded" => queue'[k] = "succeeded"
  BY <1>4 DEF Settle, QueueTypeOK, Busy, Results
<1> QED BY <1>1, <1>2, <1>3, <1>4

\* A patch is of one record, and leaves what the owner said in it.
LEMMA Patching ==
  ASSUME TypeOK, NEW u \in Updates, NEW status \in Statuses, NEW stage \in Stages,
         Patch(u, status, stage)
  PROVE  /\ file' \in [Updates -> Records] /\ current' \in Updates
         /\ file'[u].status = status /\ file'[u].stage = stage /\ file'[u].skip = file[u].skip
         /\ \A v \in Updates \ {u} : file'[v] = file[v]
<1>1. file' = [file EXCEPT ![u] = [file[u] EXCEPT !.status = status, !.stage = stage]]
  BY DEF Patch, TypeOK
<1>2. file[u] \in Records BY DEF TypeOK
<1>3. LET r == [file[u] EXCEPT !.status = status, !.stage = stage]
      IN  /\ r \in Records /\ r.status = status /\ r.stage = stage /\ r.skip = file[u].skip
  BY <1>2 DEF Records, Statuses
<1> QED BY <1>1, <1>3 DEF Patch, TypeOK

\* A read of the status changes the record of a lost update only.
LEMMA Reading ==
  ASSUME TypeOK
  PROVE  /\ FilesAfterRead \in [Updates -> Records]
         /\ \A u \in Updates :
              \/ FilesAfterRead[u] = file[u]
              \/ /\ FilesAfterRead[u].status = "failed" /\ FilesAfterRead[u].stage = "failed"
                 /\ FilesAfterRead[u].skip = file[u].skip
<1>1. CASE ~LostUpdate
  BY <1>1 DEF FilesAfterRead, TypeOK
<1>2. CASE LostUpdate
  <2>1. current \in Updates BY <1>2 DEF LostUpdate, TypeOK
  <2>2. FilesAfterRead = [file EXCEPT ![current] = [file[current] EXCEPT !.status = "failed",
                                                                        !.stage = "failed"]]
    BY <1>2, <2>1 DEF FilesAfterRead, Failed, TypeOK
  <2>3. LET r == [file[current] EXCEPT !.status = "failed", !.stage = "failed"]
        IN  /\ r \in Records /\ r.status = "failed" /\ r.stage = "failed"
            /\ r.skip = file[current].skip
    BY <2>1, ZenonT(30) DEF TypeOK, Records, Stages
  <2> QED BY <2>1, <2>2, <2>3 DEF TypeOK
<1> QED BY <1>1, <1>2

\* What a handler writes is the record it read, with its answer in it.
LEMMA Writing ==
  ASSUME NEW what \in Writes, NEW job \in Records, job.status \in {"queued", "running"}
  PROVE  /\ Written(what, job) \in Records
         /\ ~AtCheckpoint(Written(what, job))
         /\ Written(what, job).skip => what = "skip" \/ job.skip
<1>1. LET kept == [job EXCEPT !.skip = TRUE]
          ended == [job EXCEPT !.status = "cancelled", !.stage = "cancelled"]
          lostOne == [job EXCEPT !.status = "failed", !.stage = "failed"]
      IN  /\ kept \in Records /\ kept.status = job.status
          /\ ended \in Records /\ ended.skip = job.skip /\ ended.status = "cancelled"
          /\ lostOne \in Records /\ lostOne.skip = job.skip /\ lostOne.stage = "failed"
  BY DEF Records, Stages
<1>2. what \in {"skip", "cancel", "lost"} BY DEF Writes, Answers
<1>3. CASE what = "skip"
  BY <1>1, <1>3 DEF Written, AtCheckpoint
<1>4. CASE what = "cancel"
  BY <1>1, <1>4 DEF Written, AtCheckpoint
<1>5. CASE what = "lost"
  BY <1>1, <1>5 DEF Written, AtCheckpoint
<1> QED BY <1>2, <1>3, <1>4, <1>5

\* An answer lands in the record it was given for, or under a write of the worker's.
LEMMA Answering ==
  ASSUME TypeOK, ReadActive, NEW u \in Updates, EndAnswer(u)
  PROVE  /\ file' \in [Updates -> Records] /\ current' \in Updates
         /\ answered' \in [Updates -> SUBSET Answers]
         /\ \A v \in Updates \ {u} : file'[v] = file[v]
         /\ \A v \in Updates : answered[v] \subseteq answered'[v]
         /\ file'[u] = file[u] \/ ~AtCheckpoint(file'[u])
         /\ file'[u].skip => \/ file[u].skip
                             \/ answering[u].job.skip
                             \/ "skip" \in answered'[u]
         /\ \A v \in Updates : answering'[v] \in {answering[v], NoAnswer}
<1>1. /\ answering[u].what \in Writes /\ answering[u].job \in Records
      /\ answering[u].job.status \in {"queued", "running"}
  BY DEF EndAnswer, TypeOK, ReadActive
<1>2. /\ Written(answering[u].what, answering[u].job) \in Records
      /\ ~AtCheckpoint(Written(answering[u].what, answering[u].job))
      /\ Written(answering[u].what, answering[u].job).skip =>
           answering[u].what = "skip" \/ answering[u].job.skip
  BY <1>1, Writing
<1>3. answering[u].what = "skip" => "skip" \in answered'[u]
  BY DEF EndAnswer, TypeOK
<1>4. answered' \in [Updates -> SUBSET Answers]
      /\ \A v \in Updates : answered[v] \subseteq answered'[v]
  BY <1>1 DEF EndAnswer, TypeOK, Writes
<1>5. \A v \in Updates : answering'[v] \in {answering[v], NoAnswer}
  BY DEF EndAnswer, TypeOK
<1>6. /\ file' \in [Updates -> Records]
      /\ \A v \in Updates \ {u} : file'[v] = file[v]
      /\ file'[u] = file[u] \/ file'[u] = Written(answering[u].what, answering[u].job)
  BY <1>2 DEF EndAnswer, TypeOK
<1> QED BY <1>2, <1>3, <1>4, <1>5, <1>6 DEF EndAnswer

------------------------------------------------------------------------------
(* Types. *)

\* What every step of a worker is made of.
LEMMA WorkerShape ==
  ASSUME TypeOK, NEW u \in Updates, WorkerStep(u)
  PROVE  /\ \/ UNCHANGED <<file, current>>
            \/ \E status \in Statuses, stage \in Stages : Patch(u, status, stage)
         /\ \E step \in Steps \ {"none"} : GoTo(u, step)
         /\ Live(u)
<1>0. file[u].status \in Statuses BY DEF TypeOK, Records, Statuses
<1>1. CASE Boot(u) \/ Decide(u) \/ HearSummary(u)
  BY <1>0, <1>1
  DEF Boot, Decide, HearSummary, StopCancelled, Conclude, At, Live, Statuses, Stages, Steps, ApplySteps
<1>2. CASE BackupAccepted(u) \/ AcceptedUnheard(u) \/ BackupRefused(u)
  BY <1>0, <1>2
  DEF BackupAccepted, AcceptedUnheard, BackupRefused, Wait, FailCheckpoint, At, Live, Statuses,
      Stages, Steps, ApplySteps
<1>3. CASE NoteStarted(u) \/ Poll(u) \/ Look(u)
  BY <1>0, <1>3
  DEF NoteStarted, Poll, Look, StopCancelled, Conclude, FailCheckpoint, At, Live, Statuses, Stages,
      Steps, ApplySteps
<1>4. CASE CheckOrigin(u) \/ Checkout(u)
  BY <1>0, <1>4
  DEF CheckOrigin, Checkout, FailApply, At, Live, Statuses, Stages, Steps, ApplySteps
<1>5. CASE Build(u) \/ ReconcileHost(u) \/ Finish(u)
  BY <1>0, <1>5
  DEF Build, ReconcileHost, Finish, FailApply, At, Live, Statuses, Stages, Steps, ApplySteps
<1> QED BY <1>1, <1>2, <1>3, <1>4, <1>5 DEF WorkerStep

\* What a step of a worker leaves alone.
LEMMA WorkerFrame ==
  ASSUME TypeOK, NEW u \in Updates, WorkerStep(u)
  PROVE  /\ TypeOK'
         /\ \A v \in Updates \ {u} :
              /\ file'[v] = file[v] /\ worker'[v] = worker[v] /\ backup'[v] = backup[v]
              /\ (v \in touched' <=> v \in touched) /\ (v \in excused' <=> v \in excused)
         /\ file'[u].skip = file[u].skip
         /\ worker'[u] # "none"
         /\ \A j \in Jobs : queue[j] = "succeeded" => queue'[j] = "succeeded"
         /\ Live(u)
         /\ UNCHANGED <<request, loose, answering, answered, place>>
<1>1. /\ file' \in [Updates -> Records] /\ current' \in Updates \union {NoUpdate}
      /\ file'[u].skip = file[u].skip
      /\ \A v \in Updates \ {u} : file'[v] = file[v]
  BY WorkerShape, Patching DEF TypeOK
<1>2. /\ worker' \in [Updates -> Steps] /\ worker'[u] # "none"
      /\ \A v \in Updates \ {u} : worker'[v] = worker[v]
  BY WorkerShape DEF TypeOK, GoTo
<1>3. /\ backup' \in [Updates -> Jobs \union {NoJob}]
      /\ \A v \in Updates \ {u} : backup'[v] = backup[v]
  BY DEF WorkerStep, Boot, Decide, HearSummary, BackupAccepted, AcceptedUnheard, BackupRefused,
         NoteStarted, Poll, Look, CheckOrigin, Checkout, Build, ReconcileHost, Finish, FreshJobs,
         TypeOK
<1>4. touched' \in {touched, touched \union {u}} /\ excused' \in {excused, excused \union {u}}
  BY DEF WorkerStep, Boot, Decide, HearSummary, BackupAccepted, AcceptedUnheard, BackupRefused,
         NoteStarted, Poll, Look, CheckOrigin, Checkout, Build, ReconcileHost, Finish
<1>5. QueueTypeOK' /\ \A j \in Jobs : queue[j] = "succeeded" => queue'[j] = "succeeded"
  <2>1. CASE \E j \in Jobs : Accept(j)
    BY <2>1, QueueStepKeeps DEF TypeOK
  <2>2. CASE ReconcileHost(u)
    BY <2>2 DEF ReconcileHost, TypeOK, QueueTypeOK, Busy
  <2>3. CASE UNCHANGED queueVars
    BY <2>3 DEF queueVars, TypeOK, QueueTypeOK
  <2> QED
    BY <2>1, <2>2, <2>3
    DEF WorkerStep, Boot, Decide, HearSummary, BackupAccepted, AcceptedUnheard, BackupRefused,
        NoteStarted, Poll, Look, CheckOrigin, Checkout, Build, Finish, FreshJobs
<1>6. UNCHANGED <<request, loose, answering, answered, place>>
  BY DEF WorkerStep
<1> QED BY <1>1, <1>2, <1>3, <1>4, <1>5, <1>6, WorkerShape DEF TypeOK

LEMMA AgentKeepsTypes ==
  ASSUME TypeOK, ReadActive, AgentNext
  PROVE  TypeOK'
<1>1. CASE AgentRestarts
  BY <1>1 DEF AgentRestarts, TypeOK, QueueTypeOK, queueVars
<1>2. CASE MarkLost
  BY <1>2, Reading DEF MarkLost, TypeOK, QueueTypeOK, queueVars
<1>3. ASSUME NEW u \in Updates, EndAnswer(u)
      PROVE  TypeOK'
  <2>1. answering' \in [Updates -> {NoAnswer} \union [what : Writes, job : Records]]
    BY <1>3 DEF EndAnswer, TypeOK
  <2> QED BY <1>3, <2>1, Answering DEF EndAnswer, TypeOK, QueueTypeOK, queueVars
<1>4. ASSUME NEW u \in Updates, AskUpdate(u) \/ HearBackupAgent(u)
      PROVE  TypeOK'
  BY <1>4, Reading DEF AskUpdate, HearBackupAgent, TypeOK, QueueTypeOK, queueVars
<1>5. ASSUME NEW u \in Updates, CreateUpdate(u)
      PROVE  TypeOK'
  <2>1. file' \in [Updates -> Records]
    BY <1>5 DEF CreateUpdate, TypeOK, Records
  <2>2. worker' \in [Updates -> Steps]
    BY <1>5 DEF CreateUpdate, TypeOK, Steps
  <2> QED BY <1>5, <2>1, <2>2 DEF CreateUpdate, TypeOK, QueueTypeOK, queueVars
<1>7. ASSUME NEW u \in Updates, NEW what \in Writes, BeginAnswer(u, what)
      PROVE  TypeOK'
  BY <1>7 DEF BeginAnswer, TypeOK, QueueTypeOK, queueVars
<1> QED BY <1>1, <1>2, <1>3, <1>4, <1>5, <1>7 DEF AgentNext

LEMMA StepKeepsTypes == TypeOK /\ ReadActive /\ [Next]_vars => TypeOK'
<1> SUFFICES ASSUME TypeOK, ReadActive, [Next]_vars PROVE TypeOK'
  OBVIOUS
<1>1. ASSUME NEW u \in Updates, WorkerKilled(u)
      PROVE  TypeOK'
  BY <1>1 DEF WorkerKilled, GoTo, TypeOK, QueueTypeOK, queueVars, Steps
<1>2. CASE (OthersStart \/ QueueMoves) /\ UNCHANGED <<updateVars, place>>
  <2>1. QueueTypeOK'
    BY <1>2, QueueStepKeeps, OwnerJobsAssumption DEF OthersStart, QueueMoves, TypeOK
  <2> QED BY <1>2, <2>1 DEF updateVars, TypeOK
<1>3. ASSUME NEW to \in Places, PlaceChanges(to)
      PROVE  TypeOK'
  BY <1>3 DEF PlaceChanges, updateVars, queueVars, TypeOK, QueueTypeOK
<1>4. CASE UNCHANGED vars
  BY <1>4 DEF vars, TypeOK, QueueTypeOK
<1> QED BY <1>1, <1>2, <1>3, <1>4, AgentKeepsTypes, WorkerFrame DEF Next

LEMMA InitTypes == Init => TypeOK
BY DEF Init, QueueInit, TypeOK, QueueTypeOK, Records, Stages, Steps

\* A handler reads an active record, and only its own steps change what it read.
LEMMA ReadsStayActive == TypeOK /\ ReadActive /\ [Next]_vars => ReadActive'
<1> SUFFICES ASSUME TypeOK, ReadActive, [Next]_vars PROVE ReadActive'
  OBVIOUS
<1>1. ASSUME \A u \in Updates : answering'[u] \in {answering[u], NoAnswer}
      PROVE  ReadActive'
  BY <1>1 DEF ReadActive
<1>2. CASE AgentNext
  <2>1. CASE AgentRestarts \/ MarkLost
    BY <1>1, <2>1 DEF AgentRestarts, MarkLost
  <2>2. ASSUME NEW u \in Updates, AskUpdate(u) \/ HearBackupAgent(u) \/ CreateUpdate(u)
        PROVE  ReadActive'
    BY <1>1, <2>2 DEF AskUpdate, HearBackupAgent, CreateUpdate
  <2>3. ASSUME NEW u \in Updates, EndAnswer(u)
        PROVE  ReadActive'
    BY <1>1, <2>3, Answering
  <2>4. ASSUME NEW u \in Updates, NEW what \in Writes, BeginAnswer(u, what)
        PROVE  ReadActive'
    <3>1. Active(u) BY <2>4 DEF BeginAnswer, Accepting, LostUpdate
    <3>2. answering'[u].job = file[u] /\ \A v \in Updates \ {u} : answering'[v] = answering[v]
      BY <2>4 DEF BeginAnswer, TypeOK
    <3> QED BY <3>1, <3>2 DEF Active, ReadActive
  <2> QED BY <1>2, <2>1, <2>2, <2>3, <2>4 DEF AgentNext
<1>3. CASE ~AgentNext
  <2>1. answering' = answering
    BY <1>3, WorkerFrame DEF Next, WorkerKilled, PlaceChanges, updateVars, vars
  <2> QED BY <1>1, <2>1
<1> QED BY <1>2, <1>3

LEMMA ReadInit == Init => ReadActive
BY DEF Init, ReadActive

\* The job files, the requests and the workers of the update agent keep their types,
\* with any number of requests and answers under way together.
THEOREM TypeCorrect == Spec => []TypeOK
BY InitTypes, StepKeepsTypes, ReadInit, ReadsStayActive, PTL DEF Spec
------------------------------------------------------------------------------
(* The checkpoint comes first. *)

\* A checkpoint that is over stays over for an update that asks for no other.
LEMMA CheckpointStaysOver ==
  ASSUME NEW u \in Updates, CheckpointOver(u), TypeOK,
         backup'[u] = backup[u], answered[u] \subseteq answered'[u], u \in excused => u \in excused',
         \A j \in Jobs : queue[j] = "succeeded" => queue'[j] = "succeeded"
  PROVE  CheckpointOver(u)'
BY DEF CheckpointOver, TypeOK

\* The update agent's steps: it starts one worker for each update, before anything.
LEMMA AgentKeepsCheckpoint ==
  ASSUME TypeOK, ReadActive, CheckpointInv, AgentNext
  PROVE  CheckpointInv'
<1> USE DEF CheckpointInv
<1>1. /\ UNCHANGED <<queueVars, backup, excused, touched>>
      /\ \A u \in Updates : answered[u] \subseteq answered'[u]
  <2>1. UNCHANGED <<queueVars, backup, excused, touched>>
    BY DEF AgentNext, AgentRestarts, MarkLost, EndAnswer, AskUpdate, HearBackupAgent, CreateUpdate,
           BeginAnswer
  <2>2. \/ answered' = answered
        \/ \E u \in Updates : \E told : answered' = [answered EXCEPT ![u] = @ \union told]
    BY DEF AgentNext, AgentRestarts, MarkLost, EndAnswer, AskUpdate, HearBackupAgent, CreateUpdate,
           BeginAnswer
  <2>3. \A u \in Updates : answered[u] \subseteq answered'[u]
    BY <2>2 DEF TypeOK
  <2> QED BY <2>1, <2>3
<1>2. \A u \in Updates : CheckpointOver(u) => CheckpointOver(u)'
  BY <1>1, CheckpointStaysOver DEF queueVars
<1>3. SUFFICES /\ StartedOnce' /\ SkipIsAnswered'
               /\ \A u \in Updates : /\ worker'[u] \in {worker[u], "boot", "none"}
                                     /\ u \in touched => worker'[u] = worker[u]
                                     /\ worker'[u] # worker[u] => worker[u] = "none"
  <2>1. CheckpointFirst' BY <1>1, <1>2 DEF CheckpointFirst, ApplySteps
  <2>2. BackupFirst' BY <1>1 DEF BackupFirst, ApplySteps, queueVars
  <2> QED BY <2>1, <2>2
<1>4. CASE AgentRestarts
  <2>1. \A u \in Updates : answering'[u] = NoAnswer /\ (request'[u] # "closed" => request[u] # "closed")
    BY <1>4 DEF AgentRestarts
  <2> QED BY <1>4, <2>1 DEF AgentRestarts, StartedOnce, SkipIsAnswered
<1>5. CASE MarkLost
  <2>1. \A u \in Updates : file'[u].skip = file[u].skip
    BY <1>5, Reading DEF MarkLost
  <2> QED BY <1>5, <2>1 DEF MarkLost, StartedOnce, SkipIsAnswered
<1>6. ASSUME NEW u \in Updates, AskUpdate(u) \/ HearBackupAgent(u)
      PROVE  /\ StartedOnce' /\ SkipIsAnswered' /\ worker' = worker
  <2>1. \A v \in Updates : /\ file'[v].skip = file[v].skip
                           /\ request'[v] # "closed" => request[v] # "closed"
    BY <1>6, Reading DEF AskUpdate, HearBackupAgent, TypeOK
  <2> QED BY <1>6, <2>1 DEF AskUpdate, HearBackupAgent, StartedOnce, SkipIsAnswered
<1>7. ASSUME NEW u \in Updates, CreateUpdate(u)
      PROVE  /\ StartedOnce' /\ SkipIsAnswered'
             /\ \A v \in Updates : /\ worker'[v] \in {worker[v], "boot", "none"}
                                   /\ v \in touched => worker'[v] = worker[v]
                                   /\ worker'[v] # worker[v] => worker[v] = "none"
  <2>1. u \notin touched /\ worker[u] = "none"
    BY <1>7 DEF CreateUpdate, StartedOnce
  <2>2. /\ request'[u] = "closed" /\ worker'[u] \in {"boot", "none"}
        /\ \A v \in Updates \ {u} : request'[v] = request[v] /\ worker'[v] = worker[v]
    BY <1>7 DEF CreateUpdate, TypeOK
  <2>3. \A v \in Updates : file'[v].skip = file[v].skip
    BY <1>7 DEF CreateUpdate, TypeOK, Records
  <2>4. StartedOnce' BY <1>7, <2>2 DEF CreateUpdate, StartedOnce
  <2>5. SkipIsAnswered' BY <1>7, <2>3 DEF CreateUpdate, SkipIsAnswered
  <2> QED BY <2>1, <2>2, <2>4, <2>5
<1>9. ASSUME NEW u \in Updates, EndAnswer(u)
      PROVE  StartedOnce' /\ SkipIsAnswered' /\ worker' = worker
  <2>1. UNCHANGED <<request, worker, touched>> /\ answering[u] # NoAnswer
    BY <1>9 DEF EndAnswer
  <2>2. file'[u].skip => "skip" \in answered'[u]
    BY <1>9, <2>1, Answering DEF SkipIsAnswered
  <2>3. \A v \in Updates \ {u} : file'[v].skip => "skip" \in answered'[v]
    BY <1>9, Answering DEF SkipIsAnswered
  <2>4. \A v \in Updates : answering'[v] # NoAnswer /\ answering'[v].job.skip => "skip" \in answered'[v]
    BY <1>9, Answering DEF SkipIsAnswered
  <2> QED BY <2>1, <2>2, <2>3, <2>4 DEF SkipIsAnswered, StartedOnce
<1>11. ASSUME NEW u \in Updates, NEW what \in Writes, BeginAnswer(u, what)
       PROVE  StartedOnce' /\ SkipIsAnswered' /\ worker' = worker
  <2>1. \A v \in Updates \ {u} : answering'[v] = answering[v]
    BY <1>11 DEF BeginAnswer, TypeOK
  <2>2. answering'[u].job = file[u] BY <1>11 DEF BeginAnswer, TypeOK
  <2> QED BY <1>11, <2>1, <2>2 DEF BeginAnswer, StartedOnce, SkipIsAnswered
<1> QED BY <1>4, <1>5, <1>6, <1>7, <1>9, <1>11 DEF AgentNext, MarkLost, AgentRestarts

\* A worker leaves its checkpoint only when that is over.
LEMMA WorkerKeepsCheckpoint ==
  ASSUME TypeOK, CheckpointInv, NEW u \in Updates, WorkerStep(u)
  PROVE  CheckpointInv'
<1> USE DEF CheckpointInv
<1>1. request[u] = "closed" /\ request' = request
  BY WorkerFrame DEF StartedOnce, Live
<1>2. StartedOnce' BY <1>1, WorkerFrame DEF StartedOnce
<1>3. SkipIsAnswered'
  <2>1. \A v \in Updates : file'[v].skip = file[v].skip BY WorkerFrame
  <2> QED BY <2>1, WorkerFrame DEF SkipIsAnswered
<1> DEFINE First(v) == /\ worker[v] \in {"started", "poll", "look"} => backup[v] \in Jobs
                       /\ worker[v] \in ApplySteps \/ v \in touched => CheckpointOver(v)
                       /\ v \in touched => worker[v] \in {"build", "reconcile", "finish", "dead", "exited"}
<1>4. ASSUME NEW v \in Updates \ {u}
      PROVE  First(v)'
  <2>1. First(v) BY DEF CheckpointFirst
  <2>2. CheckpointOver(v) => CheckpointOver(v)'
    BY <1>4, WorkerFrame, CheckpointStaysOver
  <2> QED BY <2>1, <2>2, WorkerFrame
<1>5. First(u)'
  <2>0. First(u) /\ (file[u].skip => "skip" \in answered[u])
    BY DEF CheckpointFirst, SkipIsAnswered
  <2>1. CASE Boot(u) \/ NoteStarted(u) \/ Poll(u)
    <3>1. UNCHANGED <<backup, touched>> /\ u \notin touched
      BY <2>0, <2>1 DEF Boot, NoteStarted, Poll, At
    <3>2. worker'[u] \notin ApplySteps
          /\ (worker'[u] \in {"started", "poll", "look"} => worker[u] \in {"started", "poll"})
      BY <2>1 DEF Boot, NoteStarted, Poll, StopCancelled, At, GoTo, TypeOK, ApplySteps
    <3> QED BY <2>0, <3>1, <3>2
  <2>2. CASE Decide(u)
    <3>1. UNCHANGED <<backup, touched, answered>> /\ u \notin touched
      BY <2>0, <2>2, WorkerFrame DEF Decide, At
    <3>2. worker'[u] \in {"exited", "summary"} \/ (worker'[u] = "check" /\ file[u].skip)
      BY <2>2 DEF Decide, StopCancelled, Conclude, GoTo, TypeOK
    <3> QED BY <2>0, <3>1, <3>2 DEF CheckpointOver, ApplySteps
  <2>3. CASE HearSummary(u)
    <3>1. UNCHANGED <<backup, touched>> /\ u \notin touched
      BY <2>0, <2>3 DEF HearSummary, At
    <3>2. worker'[u] = "start" \/ (worker'[u] = "check" /\ u \in excused')
      BY <2>3 DEF HearSummary, Conclude, GoTo, TypeOK
    <3> QED BY <3>1, <3>2 DEF CheckpointOver, ApplySteps
  <2>4. CASE BackupAccepted(u)
    <3>1. u \notin touched /\ touched' = touched
      BY <2>0, <2>4 DEF BackupAccepted, At
    <3>2. worker'[u] = "started" /\ backup'[u] \in Jobs
      BY <2>4 DEF BackupAccepted, FreshJobs, GoTo, TypeOK
    <3> QED BY <3>1, <3>2 DEF ApplySteps
  <2>5. CASE AcceptedUnheard(u) \/ BackupRefused(u)
    <3>1. u \notin touched /\ touched' = touched
      BY <2>0, <2>5 DEF AcceptedUnheard, BackupRefused, At
    <3>2. worker'[u] \in {"decide", "exited"}
      BY <2>5 DEF AcceptedUnheard, BackupRefused, Wait, FailCheckpoint, GoTo, TypeOK
    <3> QED BY <3>1, <3>2 DEF ApplySteps
  <2>6. CASE Look(u)
    <3>1. /\ u \notin touched /\ UNCHANGED <<touched, backup, queueVars>> /\ backup[u] \in Jobs
          /\ backup[u] # NoJob
      BY <2>0, <2>6, NoJobAssumption DEF Look, At
    <3>2. worker'[u] \in {"poll", "exited"} \/ (worker'[u] = "check" /\ CheckpointTaken(u))
      BY <2>6 DEF Look, Conclude, FailCheckpoint, GoTo, TypeOK
    <3> QED BY <3>1, <3>2 DEF CheckpointOver, CheckpointTaken, ApplySteps, queueVars
  <2>7. CASE CheckOrigin(u) \/ Checkout(u) \/ Build(u) \/ ReconcileHost(u) \/ Finish(u)
    <3>1. worker[u] \in ApplySteps /\ UNCHANGED <<backup, answered, excused>>
      BY <2>7, WorkerFrame DEF CheckOrigin, Checkout, Build, ReconcileHost, Finish, At, ApplySteps
    <3>2. CheckpointOver(u)'
      BY <2>0, <3>1, WorkerFrame, CheckpointStaysOver
    <3>3. worker'[u] \in {"apply", "build", "reconcile", "finish", "exited"}
      BY <2>7 DEF CheckOrigin, Checkout, Build, ReconcileHost, Finish, FailApply, GoTo, TypeOK
    <3>4. worker'[u] = "apply" => u \notin touched'
      BY <2>0, <2>7 DEF CheckOrigin, Checkout, Build, ReconcileHost, Finish, FailApply, At, GoTo, TypeOK
    <3> QED BY <3>2, <3>3, <3>4
  <2> QED BY <2>1, <2>2, <2>3, <2>4, <2>5, <2>6, <2>7 DEF WorkerStep
<1>6. BackupFirst'
  <2> DEFINE Waits(v) == /\ worker[v] \in {"none", "boot", "decide", "summary", "start"}
                              => backup[v] = NoJob
                         /\ worker[v] \in ApplySteps \/ v \in touched =>
                              backup[v] = NoJob \/ queue[backup[v]] = "succeeded"
  <2>1. ASSUME NEW v \in Updates \ {u}
        PROVE  Waits(v)'
    BY WorkerFrame DEF BackupFirst, TypeOK
  <2>2. Waits(u)'
    <3>0. Waits(u) /\ First(u) /\ backup[u] \in Jobs \union {NoJob}
      BY DEF BackupFirst, CheckpointFirst, TypeOK
    <3>1. \A j \in Jobs : queue[j] = "succeeded" => queue'[j] = "succeeded"
      BY WorkerFrame
    <3>2. CASE \/ Boot(u) \/ Decide(u) \/ HearSummary(u) \/ AcceptedUnheard(u) \/ BackupRefused(u)
      <4>1. backup'[u] = NoJob /\ u \notin touched'
        BY <3>0, <3>2 DEF Boot, Decide, HearSummary, AcceptedUnheard, BackupRefused, At
      <4> QED BY <4>1
    <3>3. CASE BackupAccepted(u)
      <4>1. worker'[u] = "started" /\ u \notin touched'
        BY <3>0, <3>3 DEF BackupAccepted, At, GoTo, TypeOK
      <4> QED BY <4>1 DEF ApplySteps
    <3>4. CASE NoteStarted(u) \/ Poll(u)
      <4>1. worker'[u] \in {"poll", "look", "exited"} /\ u \notin touched'
        BY <3>0, <3>4 DEF NoteStarted, Poll, StopCancelled, At, GoTo, TypeOK
      <4> QED BY <4>1 DEF ApplySteps
    <3>5. CASE Look(u)
      <4>1. /\ worker'[u] \in {"poll", "exited"} \/ (worker'[u] = "check" /\ CheckpointTaken(u))
            /\ u \notin touched' /\ UNCHANGED <<backup, queue>>
        BY <3>0, <3>5 DEF Look, Conclude, FailCheckpoint, At, GoTo, TypeOK, queueVars
      <4> QED BY <4>1 DEF ApplySteps, CheckpointTaken
    <3>6. CASE CheckOrigin(u) \/ Checkout(u) \/ Build(u) \/ ReconcileHost(u) \/ Finish(u)
      <4>1. worker[u] \in ApplySteps /\ backup' = backup
        BY <3>6 DEF CheckOrigin, Checkout, Build, ReconcileHost, Finish, At, ApplySteps
      <4>2. worker'[u] \in {"apply", "build", "reconcile", "finish", "exited"}
        BY <3>6 DEF CheckOrigin, Checkout, Build, ReconcileHost, Finish, FailApply, GoTo, TypeOK
      <4> QED BY <3>0, <3>1, <4>1, <4>2
    <3> QED BY <3>2, <3>3, <3>4, <3>5, <3>6 DEF WorkerStep
  <2> QED BY <2>1, <2>2 DEF BackupFirst
<1> QED BY <1>2, <1>3, <1>4, <1>5, <1>6 DEF CheckpointFirst

LEMMA CheckpointInvInductive ==
  TypeOK /\ ReadActive /\ CheckpointInv /\ [Next]_vars => CheckpointInv'
<1> SUFFICES ASSUME TypeOK, ReadActive, CheckpointInv, [Next]_vars PROVE CheckpointInv'
  OBVIOUS
<1>1. ASSUME UNCHANGED <<file, request, backup, excused, touched, answering, answered>>,
             \A j \in Jobs : queue[j] = "succeeded" => queue'[j] = "succeeded",
             \A u \in Updates : worker'[u] = worker[u] \/ (Live(u) /\ worker'[u] = "dead")
      PROVE  CheckpointInv'
  <2>1. \A u \in Updates : CheckpointOver(u) => CheckpointOver(u)'
    BY <1>1, CheckpointStaysOver
  <2>2. StartedOnce' /\ SkipIsAnswered'
    BY <1>1 DEF CheckpointInv, StartedOnce, SkipIsAnswered, Live
  <2>3. CheckpointFirst'
    BY <1>1, <2>1 DEF CheckpointInv, CheckpointFirst, ApplySteps
  <2>4. BackupFirst'
    BY <1>1 DEF CheckpointInv, BackupFirst, ApplySteps, TypeOK, Live
  <2> QED BY <2>2, <2>3, <2>4 DEF CheckpointInv
<1>2. ASSUME NEW u \in Updates, WorkerKilled(u)
      PROVE  CheckpointInv'
  BY <1>1, <1>2 DEF WorkerKilled, GoTo, TypeOK, queueVars
<1>3. CASE (OthersStart \/ QueueMoves) /\ UNCHANGED <<updateVars, place>>
  <2>1. \A j \in Jobs : queue[j] = "succeeded" => queue'[j] = "succeeded"
    BY <1>3, QueueStepKeeps, OwnerJobsAssumption DEF OthersStart, QueueMoves, TypeOK
  <2> QED BY <1>1, <1>3, <2>1 DEF updateVars
<1>4. CASE (\E to \in Places : PlaceChanges(to)) \/ UNCHANGED vars
  BY <1>1, <1>4 DEF PlaceChanges, updateVars, queueVars, vars
<1> QED BY <1>2, <1>3, <1>4, AgentKeepsCheckpoint, WorkerKeepsCheckpoint DEF Next

LEMMA CheckpointInit == Init => CheckpointInv
BY DEF Init, CheckpointInv, StartedOnce, SkipIsAnswered, CheckpointFirst, BackupFirst, ApplySteps

LEMMA CheckpointHolds == Spec => [](TypeOK /\ ReadActive /\ CheckpointInv)
BY InitTypes, StepKeepsTypes, ReadInit, ReadsStayActive, CheckpointInit, CheckpointInvInductive,
   PTL DEF Spec

\* The checkout is moved only behind a backup that succeeded, unless the owner was told
\* the update would go on without one or there was no place to write one: whatever
\* agent, worker or backup dies, and even if the worker writes its record between a
\* handler's read and its write.
THEOREM CheckpointBeforeTouch == Spec => []BackupBeforeTouch
<1>1. TypeOK /\ CheckpointInv => BackupBeforeTouch
  BY DEF TypeOK, CheckpointInv, CheckpointFirst, CheckpointOver, BackupBeforeTouch
<1> QED BY <1>1, CheckpointHolds, PTL

\* An update whose worker knows of a backup of its own goes on only if that one has
\* succeeded, whatever is written over its record meanwhile.
THEOREM BackupsDecide == Spec => []RunningBackupDecides
<1>1. TypeOK /\ CheckpointInv => RunningBackupDecides
  BY DEF TypeOK, CheckpointInv, BackupFirst, RunningBackupDecides
<1> QED BY <1>1, CheckpointHolds, PTL
------------------------------------------------------------------------------
(* A failed checkpoint has changed nothing. *)

LEMMA AgentKeepsRecord ==
  ASSUME TypeOK, ReadActive, CheckpointInv, RecordInv, AgentNext
  PROVE  \A u \in touched' : ~AtCheckpoint(file'[u])
<1>1. touched' = touched
  BY DEF AgentNext, AgentRestarts, MarkLost, EndAnswer, AskUpdate, HearBackupAgent, CreateUpdate,
         BeginAnswer
<1>2. ASSUME file' \in {file, FilesAfterRead}
      PROVE  \A u \in touched : ~AtCheckpoint(file'[u])
  BY <1>2, Reading DEF RecordInv, AtCheckpoint, TypeOK
<1>3. CASE AgentRestarts \/ MarkLost
  BY <1>1, <1>2, <1>3 DEF AgentRestarts, MarkLost
<1>4. ASSUME NEW u \in Updates, AskUpdate(u) \/ HearBackupAgent(u) \/ \E what \in Writes : BeginAnswer(u, what)
      PROVE  \A v \in touched' : ~AtCheckpoint(file'[v])
  BY <1>1, <1>2, <1>4 DEF AskUpdate, HearBackupAgent, BeginAnswer
<1>5. ASSUME NEW u \in Updates, CreateUpdate(u)
      PROVE  \A v \in touched' : ~AtCheckpoint(file'[v])
  <2>1. u \notin touched
    BY <1>5 DEF CreateUpdate, CheckpointInv, StartedOnce
  <2>2. \A v \in Updates \ {u} : file'[v] = file[v]
    BY <1>5 DEF CreateUpdate, TypeOK
  <2> QED BY <1>1, <2>1, <2>2 DEF RecordInv, TypeOK
<1>6. ASSUME NEW u \in Updates, EndAnswer(u)
      PROVE  \A v \in touched' : ~AtCheckpoint(file'[v])
  <2>1. file'[u] = file[u] \/ ~AtCheckpoint(file'[u]) BY <1>6, Answering
  <2>2. \A v \in Updates \ {u} : file'[v] = file[v] BY <1>6, Answering
  <2> QED BY <1>1, <2>1, <2>2 DEF RecordInv, TypeOK
<1> QED BY <1>3, <1>4, <1>5, <1>6 DEF AgentNext

LEMMA WorkerKeepsRecord ==
  ASSUME TypeOK, CheckpointInv, RecordInv, NEW u \in Updates, WorkerStep(u)
  PROVE  \A v \in touched' : ~AtCheckpoint(file'[v])
<1>1. \A v \in Updates \ {u} : file'[v] = file[v] /\ (v \in touched' <=> v \in touched)
  BY WorkerFrame
<1>2. touched' \subseteq Updates /\ file[u].status \in Statuses
  BY WorkerFrame DEF TypeOK, Records, Statuses
<1>3. u \in touched' => ~AtCheckpoint(file'[u])
  <2>0. u \in touched => /\ worker[u] \in {"build", "reconcile", "finish", "dead", "exited"}
                        /\ ~AtCheckpoint(file[u])
    BY DEF CheckpointInv, CheckpointFirst, RecordInv
  <2>1. CASE \/ Boot(u) \/ Decide(u) \/ HearSummary(u) \/ BackupAccepted(u) \/ AcceptedUnheard(u)
             \/ BackupRefused(u) \/ NoteStarted(u) \/ Poll(u) \/ Look(u)
             \/ (CheckOrigin(u) /\ ~FailApply(u))
    BY <2>0, <2>1 DEF Boot, Decide, HearSummary, BackupAccepted, AcceptedUnheard, BackupRefused,
                      NoteStarted, Poll, Look, CheckOrigin, At
  <2>2. CASE FailApply(u)
    <3>1. file'[u].stage = "failed"
      BY <2>2, Patching DEF FailApply, Statuses, Stages
    <3> QED BY <3>1 DEF AtCheckpoint
  <2>3. CASE Checkout(u) /\ ~FailApply(u)
    <3>1. file'[u].stage = "applying"
      BY <1>2, <2>3, Patching DEF Checkout, Stages
    <3> QED BY <3>1 DEF AtCheckpoint
  <2>4. CASE (Build(u) \/ ReconcileHost(u)) /\ ~FailApply(u)
    BY <2>0, <2>4 DEF Build, ReconcileHost
  <2>5. CASE Finish(u)
    <3>1. file'[u].stage = "succeeded"
      BY <2>5, Patching DEF Finish, Statuses, Stages
    <3> QED BY <3>1 DEF AtCheckpoint
  <2> QED BY <2>1, <2>2, <2>3, <2>4, <2>5 DEF WorkerStep
<1> QED BY <1>1, <1>2, <1>3 DEF RecordInv

LEMMA RecordInvInductive ==
  TypeOK /\ CheckpointInv /\ RecordInv /\ [Next]_vars => RecordInv'
<1> SUFFICES ASSUME TypeOK, CheckpointInv, RecordInv, [Next]_vars PROVE RecordInv'
  OBVIOUS
<1>1. ReadActive /\ ReadActive' BY ReadsStayActive DEF RecordInv
<1>2. CASE AgentNext \/ \E u \in Updates : WorkerStep(u)
  BY <1>1, <1>2, AgentKeepsRecord, WorkerKeepsRecord DEF RecordInv
<1>3. CASE ~(AgentNext \/ \E u \in Updates : WorkerStep(u))
  <2>1. UNCHANGED <<file, touched>>
    BY <1>3 DEF Next, WorkerKilled, PlaceChanges, updateVars, vars
  <2> QED BY <1>1, <2>1 DEF RecordInv
<1> QED BY <1>2, <1>3

\* A record that stands as failed at its checkpoint is of an update that changed nothing:
\* its owner may start another as if it had never been asked for, whatever handlers and
\* workers have written over each other.
THEOREM FailedCheckpointsChangeNothing == Spec => []FailedCheckpointIsUntouched
<1>1. Init => RecordInv BY ReadInit DEF Init, RecordInv
<1>2. RecordInv => FailedCheckpointIsUntouched
  BY DEF RecordInv, AtCheckpoint, FailedCheckpointIsUntouched
<1>3. TypeOK /\ CheckpointInv /\ RecordInv /\ [Next]_vars => RecordInv'
  BY RecordInvInductive
<1> QED BY <1>1, <1>2, <1>3, CheckpointHolds, PTL DEF Spec

------------------------------------------------------------------------------
(* The Apps screen: an update that was reviewed is the one applied. *)

SrvFields == {"installed", "offered", "instance", "job", "token"}
JobFields == {"at", "kind", "status"}
PageFields == {"app", "asking", "comparison", "posting", "startedAt"}

\* An app without an instance has no version, and what an update was given to do was reviewed.
AppIsSound(s, r, d) ==
  /\ s = [x \in SrvFields |-> s[x]] /\ s.job = [x \in JobFields |-> s.job[x]]
  /\ s.installed \in Nat /\ s.offered \in Nat
  /\ s.instance \in {"none", "incomplete"} => s.installed = 0
  /\ Running(s.job) => \/ s.job.kind = "install" /\ s.instance = "incomplete"
                       \/ s.job.kind = "update" /\ s.token \in r
  /\ s.job.status = "succeeded" => s.job.at \in d

\* A job the screen has seen succeed did.
SeenIsSound(packages, d) ==
  \A a \in Apps : packages[a].job.status = "succeeded" => packages[a].job.at \in d

ScreensInv ==
  /\ srv = [a \in Apps |-> srv[a]] /\ \A a \in Apps : AppIsSound(srv[a], reviewed, done)
  /\ Len(answers) \in Nat /\ answers = [i \in 1 .. Len(answers) |-> answers[i]]
  /\ \A i \in 1 .. Len(answers) : SeenIsSound(answers[i].packages, done)
  /\ page = [x \in PageFields |-> page[x]]
  /\ page.app \in Apps \cup {NoApp} /\ page.asking \in Apps \cup {NoApp}
  /\ page.comparison # NoPair => page.comparison \in reviewed

LEMMA ScreensStart == ScreensInit => ScreensInv
<1> SUFFICES ASSUME ScreensInit PROVE ScreensInv
  OBVIOUS
<1>1. \A a \in Apps : AppIsSound(srv[a], reviewed, done)
  <2> SUFFICES ASSUME NEW a \in Apps PROVE AppIsSound(srv[a], reviewed, done)
    OBVIOUS
  <2>1. PICK one \in Apps :
          srv = [b \in Apps |-> [installed |-> IF b = one THEN 1 ELSE 0, offered |-> 1,
                                 instance |-> IF b = one THEN "ready" ELSE "none",
                                 job |-> NoAppJob, token |-> NoPair]]
    BY DEF ScreensInit
  <2>2. /\ srv[a].installed = (IF a = one THEN 1 ELSE 0) /\ srv[a].offered = 1
        /\ srv[a].instance = (IF a = one THEN "ready" ELSE "none") /\ srv[a].job = NoAppJob
        /\ srv[a] = [x \in SrvFields |-> srv[a][x]]
    BY <2>1 DEF SrvFields
  <2> QED BY <2>2 DEF AppIsSound, NoAppJob, JobFields, Running
<1>2. srv = [a \in Apps |-> srv[a]] BY DEF ScreensInit
<1>3. answers = <<>> /\ Len(answers) = 0 BY DEF ScreensInit
<1>4. answers = [i \in 1 .. Len(answers) |-> answers[i]] BY <1>3
<1>5. page = [x \in PageFields |-> page[x]] /\ page.app = NoApp /\ page.asking = NoApp /\ page.comparison = NoPair
  BY DEF ScreensInit, NoPage, PageFields
<1> QED BY <1>1, <1>2, <1>3, <1>4, <1>5 DEF ScreensInv

\* What is reviewed, or done, only grows: what was sound stays so.
LEMMA SoundForLonger ==
  ASSUME NEW r, NEW d, NEW r2, NEW d2, r \subseteq r2, d \subseteq d2
  PROVE  /\ \A s : AppIsSound(s, r, d) => AppIsSound(s, r2, d2)
         /\ \A p : SeenIsSound(p, d) => SeenIsSound(p, d2)
BY DEF AppIsSound, SeenIsSound

\* One app of the server, changed as the server changes; nobody was shown less, and no job undone.
LEMMA ServerMoves ==
  ASSUME ScreensInv, NEW a \in Apps, NEW s, AppIsSound(s, reviewed', done'), srv' = [srv EXCEPT ![a] = s],
         reviewed \subseteq reviewed', done \subseteq done'
  PROVE  /\ srv' = [b \in Apps |-> srv'[b]] /\ \A b \in Apps : AppIsSound(srv'[b], reviewed', done')
         /\ srv'[a] = s /\ \A b \in Apps \ {a} : srv'[b] = srv[b]
<1>1. /\ srv = [b \in Apps |-> srv[b]] /\ \A b \in Apps : AppIsSound(srv[b], reviewed', done')
  BY SoundForLonger DEF ScreensInv
<1>2. srv'[a] = s /\ \A b \in Apps \ {a} : srv'[b] = srv[b] BY <1>1
<1> QED BY <1>1, <1>2

\* A server that does not move keeps its apps.
LEMMA ServerStays ==
  ASSUME ScreensInv, srv' = srv, reviewed \subseteq reviewed', done \subseteq done'
  PROVE  srv' = [b \in Apps |-> srv'[b]] /\ \A b \in Apps : AppIsSound(srv'[b], reviewed', done')
BY SoundForLonger DEF ScreensInv

\* So do the answers on their way.
LEMMA AnswersStay ==
  ASSUME ScreensInv, answers' = answers, done \subseteq done'
  PROVE  /\ Len(answers') \in Nat /\ answers' = [i \in 1 .. Len(answers') |-> answers'[i]]
         /\ \A i \in 1 .. Len(answers') : SeenIsSound(answers'[i].packages, done')
BY SoundForLonger DEF ScreensInv

\* An answer carries what the server is at, so it tells of no success that was not.
LEMMA ReadsKeep ==
  ASSUME ScreensInv, NEW ends, Reads(ends), srv' = srv, done' = done
  PROVE  /\ Len(answers') \in Nat /\ answers' = [i \in 1 .. Len(answers') |-> answers'[i]]
         /\ \A i \in 1 .. Len(answers') : SeenIsSound(answers'[i].packages, done')
<1> DEFINE facts == [a \in Apps |-> [installed |-> srv'[a].installed, offered |-> srv'[a].offered,
                                     instance |-> srv'[a].instance, job |-> srv'[a].job]]
           answer == [packages |-> facts, ends |-> ends]
           S == {answers[i] : i \in 1 .. Len(answers)} \cup {answer}
<1>1. SeenIsSound(facts, done)
  BY DEF ScreensInv, AppIsSound, SeenIsSound
<1>2. answers' = Append(answers, answer) BY DEF Reads
<1>3. answer.packages = facts OBVIOUS
<1>4. Len(answers) \in Nat /\ answers = [i \in 1 .. Len(answers) |-> answers[i]]
  BY DEF ScreensInv
<1>5. answer \in S /\ \A i \in 1 .. Len(answers) : answers[i] \in S
  OBVIOUS
<1> HIDE DEF facts, answer, S
<1>6. answers \in [1 .. Len(answers) -> S] BY <1>4, <1>5
<1>7. answers \in Seq(S) BY <1>4, <1>6, SeqDef
<1>8. /\ Len(answers') = Len(answers) + 1 /\ answers'[Len(answers) + 1] = answer
      /\ \A i \in 1 .. Len(answers) : answers'[i] = answers[i]
      /\ answers' \in Seq(S)
  BY <1>2, <1>5, <1>7, AppendProperties
<1>9. answers' = [i \in 1 .. Len(answers') |-> answers'[i]]
  BY <1>8, LenProperties
<1>10. \A i \in 1 .. Len(answers') : SeenIsSound(answers'[i].packages, done')
  <2> SUFFICES ASSUME NEW i \in 1 .. Len(answers') PROVE SeenIsSound(answers'[i].packages, done)
    OBVIOUS
  <2>1. CASE i = Len(answers) + 1 BY <1>1, <1>3, <1>8, <2>1
  <2>2. CASE i # Len(answers) + 1
    <3>1. i \in 1 .. Len(answers) BY <1>4, <1>8, <2>2
    <3> QED BY <1>8, <3>1 DEF ScreensInv
  <2> QED BY <2>1, <2>2
<1> QED BY <1>4, <1>8, <1>9, <1>10

\* Reading an answer leaves the others.
LEMMA RemovalKeeps ==
  ASSUME ScreensInv, NEW i \in DOMAIN answers, answers' = RemoveAt(answers, i), done' = done
  PROVE  /\ Len(answers') \in Nat /\ answers' = [k \in 1 .. Len(answers') |-> answers'[k]]
         /\ \A k \in 1 .. Len(answers') : SeenIsSound(answers'[k].packages, done')
<1>1. /\ Len(answers) \in Nat /\ answers = [k \in 1 .. Len(answers) |-> answers[k]]
      /\ \A k \in 1 .. Len(answers) : SeenIsSound(answers[k].packages, done)
  BY DEF ScreensInv
<1>2. i \in 1 .. Len(answers) BY <1>1
<1> DEFINE S == {answers[j] : j \in 1 .. Len(answers)}
           n == Len(answers)
           front == SubSeq(answers, 1, i - 1)
           back == SubSeq(answers, i + 1, n)
<1>3. answers \in Seq(S) /\ n \in Nat /\ i \in Int
  <2>1. answers \in [1 .. n -> S] BY <1>1
  <2> QED BY <1>1, <1>2, <2>1, SeqDef
<1>4. \A j \in 1 .. n : answers[j] \in S OBVIOUS
<1>5. front \in Seq(S)
  <2>3. \A j \in 1 .. (i - 1) : j \in 1 .. n BY <1>2, <1>3
  <2>1. \A j \in 1 .. (i - 1) : answers[j] \in S BY <2>3, <1>4
  <2>2. i - 1 \in Int /\ 1 \in Int BY <1>3
  <2> HIDE DEF S
  <2> QED BY <2>1, <2>2, <1>3, SubSeqProperties
<1>6. back \in Seq(S)
  <2>3. \A j \in (i + 1) .. n : j \in 1 .. n BY <1>2, <1>3
  <2>1. \A j \in (i + 1) .. n : answers[j] \in S BY <2>3, <1>4
  <2>2. i + 1 \in Int /\ n \in Int BY <1>3
  <2> HIDE DEF S
  <2> QED BY <2>1, <2>2, <1>3, SubSeqProperties
<1>7. answers' \in Seq(S)
  <2>1. answers' = front \o back BY <1>3 DEF RemoveAt
  <2> HIDE DEF S, front, back
  <2> QED BY <2>1, <1>5, <1>6, ConcatProperties
<1>8. \A e \in S : SeenIsSound(e.packages, done) BY <1>1
<1> HIDE DEF S
<1>9. Len(answers') \in Nat /\ answers' \in [1 .. Len(answers') -> S]
  BY <1>7, LenProperties
<1> QED BY <1>8, <1>9

\* The page: what it compares was shown.
PageIsSound(p, r) ==
  /\ p = [x \in PageFields |-> p[x]]
  /\ p.app \in Apps \cup {NoApp} /\ p.asking \in Apps \cup {NoApp}
  /\ p.comparison # NoPair => p.comparison \in r

LEMMA PageInv == ScreensInv => PageIsSound(page, reviewed)
BY DEF ScreensInv, PageIsSound

\* What a step must keep.
LEMMA AllKept ==
  ASSUME srv' = [b \in Apps |-> srv'[b]], \A b \in Apps : AppIsSound(srv'[b], reviewed', done'),
         Len(answers') \in Nat, answers' = [i \in 1 .. Len(answers') |-> answers'[i]],
         \A i \in 1 .. Len(answers') : SeenIsSound(answers'[i].packages, done'),
         PageIsSound(page', reviewed')
  PROVE  ScreensInv'
BY DEF ScreensInv, PageIsSound

------------------------------------------------------------------------------
(* What the screen does on its own. *)

\* A page that is changed in the fields named, to what it may hold, is sound.
LEMMA LoadKeeps == ASSUME ScreensInv, Load PROVE ScreensInv'
<1>1. /\ srv' = srv /\ reviewed' = reviewed /\ done' = done /\ page' = page /\ Reads(FALSE)
  BY DEF Load
<1> QED BY <1>1, ServerStays, ReadsKeep, PageInv, AllKept

LEMMA LoadedKeeps ==
  ASSUME ScreensInv, NEW i \in DOMAIN answers, Loaded(i)
  PROVE  ScreensInv'
<1>1. /\ srv' = srv /\ reviewed' = reviewed /\ done' = done /\ page' = Followed(answers[i].packages)
      /\ answers' = RemoveAt(answers, i)
  BY DEF Loaded
<1>2. PageIsSound(page, reviewed) BY PageInv
<1>3. \/ page' = page
      \/ page' = [page EXCEPT !.comparison = NoPair, !.startedAt = 0]
  BY <1>1 DEF Followed
<1>4. PageIsSound(page', reviewed')
  <2>1. CASE page' = [page EXCEPT !.comparison = NoPair, !.startedAt = 0]
    <3>1. /\ page' = [x \in PageFields |-> page'[x]] /\ page'.app = page.app /\ page'.asking = page.asking
          /\ page'.comparison = NoPair
      BY <1>2, <2>1 DEF PageIsSound, PageFields
    <3> QED BY <1>1, <1>2, <3>1 DEF PageIsSound
  <2> QED BY <1>1, <1>2, <1>3, <2>1
<1> QED BY <1>1, <1>4, ServerStays, RemovalKeeps, AllKept

LEMMA LoadFailsKeeps ==
  ASSUME ScreensInv, NEW i \in DOMAIN answers, LoadFails(i)
  PROVE  ScreensInv'
<1>1. /\ srv' = srv /\ reviewed' = reviewed /\ done' = done /\ page' = page
      /\ answers' = RemoveAt(answers, i)
  BY DEF LoadFails
<1> QED BY <1>1, ServerStays, RemovalKeeps, PageInv, AllKept

LEMMA SelectKeeps ==
  ASSUME ScreensInv, NEW app \in Apps \cup {NoApp}, Select(app)
  PROVE  ScreensInv'
<1>1. /\ srv' = srv /\ reviewed' = reviewed /\ done' = done /\ answers' = answers
      /\ page' = IF app = NoApp \/ page.app = NoApp THEN Fresh(app)
                 ELSE [Fresh(app) EXCEPT !.asking = page.asking, !.posting = page.posting]
  BY DEF Select
<1>2. PageIsSound(page, reviewed) BY PageInv
<1>3. /\ Fresh(app) = [x \in PageFields |-> Fresh(app)[x]] /\ Fresh(app).app = app
      /\ Fresh(app).asking = NoApp /\ Fresh(app).comparison = NoPair
  BY DEF Fresh, NoPage, PageFields
<1>4. /\ page' = [x \in PageFields |-> page'[x]] /\ page'.app = app
      /\ page'.asking \in {NoApp, page.asking} /\ page'.comparison = NoPair
  BY <1>1, <1>3 DEF PageFields
<1>5. PageIsSound(page', reviewed') BY <1>1, <1>2, <1>4 DEF PageIsSound
<1> QED BY <1>1, <1>5, ServerStays, AnswersStay, AllKept

LEMMA PrepareUpdateKeeps == ASSUME ScreensInv, PrepareUpdate PROVE ScreensInv'
<1>1. /\ srv' = srv /\ reviewed' = reviewed /\ done' = done /\ answers' = answers
      /\ page' = [page EXCEPT !.asking = page.app]
  BY DEF PrepareUpdate
<1>2. PageIsSound(page, reviewed) BY PageInv
<1>3. /\ page' = [x \in PageFields |-> page'[x]] /\ page'.app = page.app /\ page'.asking = page.app
      /\ page'.comparison = page.comparison
  BY <1>1, <1>2 DEF PageIsSound, PageFields
<1>4. PageIsSound(page', reviewed') BY <1>1, <1>2, <1>3 DEF PageIsSound
<1> QED BY <1>1, <1>4, ServerStays, AnswersStay, AllKept

\* What the page comes to compare is shown as it arrives.
LEMMA PreparedKeeps == ASSUME ScreensInv, Prepared PROVE ScreensInv'
<1> DEFINE pair == [app |-> page.asking, from |-> srv[page.asking].installed, to |-> srv[page.asking].offered]
<1>1. /\ srv' = srv /\ reviewed' = reviewed \cup {pair} /\ done' = done /\ answers' = answers
      /\ page' = [page EXCEPT !.asking = NoApp, !.comparison = pair]
  BY DEF Prepared
<1> HIDE DEF pair
<1>2. PageIsSound(page, reviewed) BY PageInv
<1>3. /\ page' = [x \in PageFields |-> page'[x]] /\ page'.app = page.app /\ page'.asking = NoApp
      /\ page'.comparison = pair
  BY <1>1, <1>2 DEF PageIsSound, PageFields
<1>4. PageIsSound(page', reviewed')
  <2>1. page.app \in Apps \cup {NoApp} BY <1>2 DEF PageIsSound
  <2>2. pair \in reviewed' BY <1>1
  <2> QED BY <1>3, <2>1, <2>2 DEF PageIsSound
<1>5. reviewed \subseteq reviewed' /\ done \subseteq done' BY <1>1
<1> QED BY <1>1, <1>4, <1>5, ServerStays, AnswersStay, AllKept

LEMMA CancelReviewKeeps == ASSUME ScreensInv, CancelReview PROVE ScreensInv'
<1>1. /\ srv' = srv /\ reviewed' = reviewed /\ done' = done /\ answers' = answers
      /\ page' = [page EXCEPT !.comparison = NoPair]
  BY DEF CancelReview
<1>2. PageIsSound(page, reviewed) BY PageInv
<1>3. /\ page' = [x \in PageFields |-> page'[x]] /\ page'.app = page.app /\ page'.asking = page.asking
      /\ page'.comparison = NoPair
  BY <1>1, <1>2 DEF PageIsSound, PageFields
<1>4. PageIsSound(page', reviewed') BY <1>1, <1>2, <1>3 DEF PageIsSound
<1> QED BY <1>1, <1>4, ServerStays, AnswersStay, AllKept

LEMMA UpdateStartedKeeps == ASSUME ScreensInv, UpdateStarted PROVE ScreensInv'
<1>1. /\ srv' = srv /\ reviewed' = reviewed /\ done' = done /\ Reads(FALSE)
      /\ page' = [page EXCEPT !.posting = 0, !.startedAt = page.posting]
  BY DEF UpdateStarted
<1>2. PageIsSound(page, reviewed) BY PageInv
<1>3. /\ page' = [x \in PageFields |-> page'[x]] /\ page'.app = page.app /\ page'.asking = page.asking
      /\ page'.comparison = page.comparison
  BY <1>1, <1>2 DEF PageIsSound, PageFields
<1>4. PageIsSound(page', reviewed')
  <2>1. reviewed' = reviewed BY <1>1
  <2> QED BY <1>2, <1>3, <2>1 DEF PageIsSound
<1> QED BY <1>1, <1>4, ServerStays, ReadsKeep, AllKept

LEMMA RequestAnsweredKeeps == ASSUME ScreensInv, RequestAnswered PROVE ScreensInv'
<1>1. /\ srv' = srv /\ reviewed' = reviewed /\ done' = done /\ Reads(TRUE) /\ page' = page
  BY DEF RequestAnswered
<1> QED BY <1>1, ServerStays, ReadsKeep, PageInv, AllKept

------------------------------------------------------------------------------
(* What the server does for it, and on its own. *)

\* A step of the server that leaves the answers on their way, and keeps the page sound.
LEMMA ServerStepKeeps ==
  ASSUME ScreensInv, NEW a \in Apps, NEW s, AppIsSound(s, reviewed', done'), srv' = [srv EXCEPT ![a] = s],
         reviewed \subseteq reviewed', done \subseteq done', answers' = answers,
         PageIsSound(page', reviewed')
  PROVE  ScreensInv'
BY ServerMoves, AnswersStay, AllKept

\* An update that starts has been reviewed.
LEMMA UpdateStarts ==
  ASSUME ScreensInv, NEW a \in Apps, NEW token, Starts(a, "update", token),
         token \in reviewed', reviewed \subseteq reviewed', done' = done, ~Running(srv[a].job),
         srv[a].instance \in {"none", "incomplete"} => srv[a].installed = 0
  PROVE  LET s == [srv[a] EXCEPT !.job = [at |-> count.jobs + 1, kind |-> "update", status |-> "running"],
                                 !.token = token]
         IN AppIsSound(s, reviewed', done') /\ srv' = [srv EXCEPT ![a] = s]
<1> DEFINE j == [at |-> count.jobs + 1, kind |-> "update", status |-> "running"]
           s == [srv[a] EXCEPT !.job = j, !.token = token]
<1>1. srv' = [srv EXCEPT ![a].job = j, ![a].token = token,
                         ![a].instance = IF "update" = "install" THEN "incomplete" ELSE @]
  BY DEF Starts
<1>2. AppIsSound(srv[a], reviewed, done) /\ srv = [b \in Apps |-> srv[b]]
  BY DEF ScreensInv
<1>3. srv[a] = [x \in SrvFields |-> srv[a][x]] BY <1>2 DEF AppIsSound
<1>4. j = [x \in JobFields |-> j[x]] /\ j.kind = "update" /\ j.status = "running"
  BY DEF JobFields
<1> HIDE DEF j
<1>5. /\ s = [x \in SrvFields |-> s[x]] /\ s.job = j /\ s.token = token /\ s.installed = srv[a].installed
      /\ s.offered = srv[a].offered /\ s.instance = srv[a].instance
  BY <1>3 DEF SrvFields
<1>6. AppIsSound(s, reviewed', done')
  BY <1>2, <1>4, <1>5 DEF AppIsSound, Running
<1>7. srv' = [srv EXCEPT ![a] = s]
  <2>1. srv'[a] = [srv[a] EXCEPT !.job = j, !.token = token, !.instance = srv[a].instance]
    BY <1>1, <1>2
  <2>2. srv'[a] = s BY <1>3, <2>1 DEF SrvFields
  <2>3. srv' = [b \in Apps |-> srv'[b]] /\ \A b \in Apps \ {a} : srv'[b] = srv[b]
    BY <1>1, <1>2
  <2> HIDE DEF s
  <2> QED BY <1>2, <2>2, <2>3
<1> QED BY <1>6, <1>7 DEF j

LEMMA ApplyUpdateKeeps == ASSUME ScreensInv, ApplyUpdate PROVE ScreensInv'
<1> DEFINE a == page.app
           s == [srv[a] EXCEPT !.job = [at |-> count.jobs + 1, kind |-> "update", status |-> "running"],
                               !.token = page.comparison]
<1>1. /\ reviewed' = reviewed /\ done' = done /\ answers' = answers /\ a # NoApp
      /\ page' = [page EXCEPT !.posting = count.jobs + 1] /\ page.comparison # NoPair
      /\ ~Running(srv[a].job) /\ Starts(a, "update", page.comparison)
  BY DEF ApplyUpdate, CanApplyUpdate
<1>2. PageIsSound(page, reviewed) BY PageInv
<1>3. a \in Apps /\ page.comparison \in reviewed
  BY <1>1, <1>2 DEF PageIsSound
<1>4. AppIsSound(srv[a], reviewed, done) BY <1>3 DEF ScreensInv
<1>5. srv[a].instance \in {"none", "incomplete"} => srv[a].installed = 0
  BY <1>4 DEF AppIsSound
<1>6. AppIsSound(s, reviewed', done') /\ srv' = [srv EXCEPT ![a] = s]
  BY <1>1, <1>3, <1>5, UpdateStarts
<1>7. /\ page' = [x \in PageFields |-> page'[x]] /\ page'.app = page.app /\ page'.asking = page.asking
      /\ page'.comparison = page.comparison
  BY <1>1, <1>2 DEF PageIsSound, PageFields
<1>8. PageIsSound(page', reviewed')
  <2>1. reviewed' = reviewed BY <1>1
  <2> QED BY <1>2, <1>7, <2>1 DEF PageIsSound
<1> HIDE DEF a, s
<1> QED BY <1>1, <1>3, <1>6, <1>8, ServerStepKeeps

LEMMA OtherTabUpdatesKeeps ==
  ASSUME ScreensInv, NEW a \in Apps, OtherTabUpdates(a)
  PROVE  ScreensInv'
<1> DEFINE pair == [app |-> a, from |-> srv[a].installed, to |-> srv[a].offered]
           s == [srv[a] EXCEPT !.job = [at |-> count.jobs + 1, kind |-> "update", status |-> "running"],
                               !.token = pair]
<1>1. /\ reviewed' = reviewed \cup {pair} /\ done' = done /\ answers' = answers /\ page' = page
      /\ ~Running(srv[a].job) /\ Starts(a, "update", pair)
  BY DEF OtherTabUpdates
<1>2. AppIsSound(srv[a], reviewed, done) /\ PageIsSound(page, reviewed)
  BY PageInv DEF ScreensInv
<1>3. srv[a].instance \in {"none", "incomplete"} => srv[a].installed = 0
  BY <1>2 DEF AppIsSound
<1>4. pair \in reviewed' /\ reviewed \subseteq reviewed' /\ done \subseteq done'
  BY <1>1
<1>5. AppIsSound(s, reviewed', done') /\ srv' = [srv EXCEPT ![a] = s]
  <2> HIDE DEF pair
  <2> QED BY <1>1, <1>3, <1>4, UpdateStarts
<1>6. PageIsSound(page', reviewed') BY <1>1, <1>2, <1>4 DEF PageIsSound
<1> HIDE DEF s, pair
<1> QED BY <1>1, <1>4, <1>5, <1>6, ServerStepKeeps

\* An install starts from no instance, or from one that was never made whole.
LEMMA PerformInstallKeeps == ASSUME ScreensInv, PerformInstall PROVE ScreensInv'
<1> DEFINE a == page.app
           j == [at |-> count.jobs + 1, kind |-> "install", status |-> "running"]
           s == [srv[a] EXCEPT !.job = j, !.instance = "incomplete"]
<1>1. /\ reviewed' = reviewed /\ done' = done /\ answers' = answers /\ page' = page /\ a # NoApp
      /\ \/ /\ srv[a].instance \in {"none", "incomplete"}
            /\ srv' = [srv EXCEPT ![a].job = j, ![a].instance = "incomplete"]
         \/ srv' = srv
  BY DEF PerformInstall
<1>2. PageIsSound(page', reviewed') BY <1>1, PageInv
<1>3. CASE srv' = srv
  BY <1>1, <1>2, <1>3, ServerStays, AnswersStay, AllKept
<1>4. CASE /\ srv[a].instance \in {"none", "incomplete"}
           /\ srv' = [srv EXCEPT ![a].job = j, ![a].instance = "incomplete"]
  <2>1. a \in Apps BY <1>1, PageInv DEF PageIsSound
  <2>2. AppIsSound(srv[a], reviewed, done) /\ srv = [b \in Apps |-> srv[b]]
    BY <2>1 DEF ScreensInv
  <2>3. srv[a] = [x \in SrvFields |-> srv[a][x]] /\ srv[a].installed = 0
    BY <1>4, <2>2 DEF AppIsSound
  <2>4. j = [x \in JobFields |-> j[x]] /\ j.kind = "install" /\ j.status = "running"
    BY DEF JobFields
  <2> HIDE DEF j, a
  <2>5. /\ s = [x \in SrvFields |-> s[x]] /\ s.job = j /\ s.token = srv[a].token /\ s.installed = 0
        /\ s.offered = srv[a].offered /\ s.instance = "incomplete"
    BY <2>3 DEF SrvFields
  <2>6. AppIsSound(s, reviewed', done')
    <3> HIDE DEF s
    <3>1. s.job = [x \in JobFields |-> s.job[x]] /\ s.job.kind = "install" /\ s.job.status = "running"
      BY <2>4, <2>5
    <3>2. s.offered \in Nat BY <2>2, <2>5 DEF AppIsSound
    <3>3. s = [x \in SrvFields |-> s[x]] /\ s.installed = 0 /\ s.instance = "incomplete"
      BY <2>5
    <3> QED BY <3>1, <3>2, <3>3 DEF AppIsSound
  <2>7. srv' = [srv EXCEPT ![a] = s]
    <3>1. srv'[a] = s BY <1>4, <2>1, <2>2
    <3>2. srv' = [b \in Apps |-> srv'[b]] /\ \A b \in Apps \ {a} : srv'[b] = srv[b]
      BY <1>4, <2>1, <2>2
    <3> HIDE DEF s
    <3> QED BY <2>1, <2>2, <3>1, <3>2
  <2> HIDE DEF s
  <2> QED BY <1>1, <1>2, <2>1, <2>6, <2>7, ServerStepKeeps
<1> QED BY <1>1, <1>3, <1>4

\* What the menu does is done to an app no job runs of.
LEMMA OutcomeIsSound ==
  ASSUME ScreensInv, NEW a \in Apps, NEW action, ~Running(srv[a].job)
  PROVE  AppIsSound(Outcome(a, action), reviewed, done)
<1>1. AppIsSound(srv[a], reviewed, done) BY DEF ScreensInv
<1>2. srv[a] = [x \in SrvFields |-> srv[a][x]] BY <1>1 DEF AppIsSound
<1> DEFINE o == Outcome(a, action)
<1>3. CASE o = srv[a]
  BY <1>1, <1>3
<1>4. ASSUME NEW at \in {"ready", "disabled"}, o = [srv[a] EXCEPT !.instance = at]
      PROVE  AppIsSound(o, reviewed, done)
  <2>1. /\ o = [x \in SrvFields |-> o[x]] /\ o.installed = srv[a].installed /\ o.offered = srv[a].offered
        /\ o.instance = at /\ o.job = srv[a].job /\ o.token = srv[a].token
    BY <1>2, <1>4 DEF SrvFields
  <2> HIDE DEF o
  <2> QED BY <1>1, <1>4, <2>1 DEF AppIsSound, Running
<1>5. CASE o = [srv[a] EXCEPT !.instance = "none", !.installed = 0, !.job = NoAppJob, !.token = NoPair]
  <2>1. NoAppJob = [x \in JobFields |-> NoAppJob[x]] /\ NoAppJob.status = "none"
    BY DEF NoAppJob, JobFields
  <2>2. /\ o = [x \in SrvFields |-> o[x]] /\ o.installed = 0 /\ o.offered = srv[a].offered
        /\ o.instance = "none" /\ o.job = NoAppJob /\ o.token = NoPair
    BY <1>2, <1>5 DEF SrvFields
  <2> HIDE DEF o
  <2>3. o.job = [x \in JobFields |-> o.job[x]] /\ o.job.status = "none"
    BY <2>1, <2>2
  <2>4. o.offered \in Nat BY <1>1, <2>2 DEF AppIsSound
  <2>5. AppIsSound(o, reviewed, done)
    BY <2>2, <2>3, <2>4 DEF AppIsSound, Running
  <2> QED BY <2>5 DEF o
<1> QED BY <1>3, <1>4, <1>5 DEF Outcome

LEMMA PerformLifecycleKeeps ==
  ASSUME ScreensInv, NEW action, PerformLifecycle(action)
  PROVE  ScreensInv'
<1> DEFINE a == page.app
<1>1. /\ reviewed' = reviewed /\ done' = done /\ answers' = answers /\ page' = page /\ a # NoApp
      /\ srv' = IF Running(srv[a].job) THEN srv ELSE [srv EXCEPT ![a] = Outcome(a, action)]
  BY DEF PerformLifecycle
<1>2. PageIsSound(page', reviewed') /\ a \in Apps
  BY <1>1, PageInv DEF PageIsSound
<1> HIDE DEF a
<1>3. CASE Running(srv[a].job)
  BY <1>1, <1>2, <1>3, ServerStays, AnswersStay, AllKept
<1>4. CASE ~Running(srv[a].job)
  <2>1. AppIsSound(Outcome(a, action), reviewed', done')
    BY <1>1, <1>2, <1>4, OutcomeIsSound
  <2> QED BY <1>1, <1>2, <1>4, <2>1, ServerStepKeeps
<1> QED BY <1>3, <1>4

LEMMA PublishKeeps == ASSUME ScreensInv, NEW a \in Apps, Publish(a) PROVE ScreensInv'
<1> DEFINE s == [srv[a] EXCEPT !.offered = @ + 1]
<1>1. /\ reviewed' = reviewed /\ done' = done /\ answers' = answers /\ page' = page
      /\ srv' = [srv EXCEPT ![a].offered = @ + 1]
  BY DEF Publish
<1>2. AppIsSound(srv[a], reviewed, done) BY DEF ScreensInv
<1>3. /\ s = [x \in SrvFields |-> s[x]] /\ s.job = srv[a].job /\ s.token = srv[a].token
      /\ s.installed = srv[a].installed /\ s.offered = srv[a].offered + 1 /\ s.instance = srv[a].instance
  BY <1>2 DEF AppIsSound, SrvFields
<1>4. srv' = [srv EXCEPT ![a] = s] BY <1>1
<1> HIDE DEF s
<1>5. AppIsSound(s, reviewed', done')
  BY <1>1, <1>2, <1>3 DEF AppIsSound, Running
<1>6. PageIsSound(page', reviewed') BY <1>1, PageInv
<1> QED BY <1>1, <1>4, <1>5, <1>6, ServerStepKeeps

LEMMA JobSucceedsKeeps == ASSUME ScreensInv, NEW a \in Apps, JobSucceeds(a) PROVE ScreensInv'
<1> DEFINE j == [srv[a].job EXCEPT !.status = "succeeded"]
           s == [srv[a] EXCEPT !.job = j, !.instance = "ready", !.installed = srv[a].offered]
<1>1. /\ reviewed' = reviewed /\ done' = done \cup {srv[a].job.at} /\ answers' = answers /\ page' = page
      /\ srv' = [srv EXCEPT ![a].job.status = "succeeded", ![a].instance = "ready",
                            ![a].installed = srv[a].offered]
  BY DEF JobSucceeds
<1>2. AppIsSound(srv[a], reviewed, done) /\ srv = [b \in Apps |-> srv[b]]
  BY DEF ScreensInv
<1>3. srv[a] = [x \in SrvFields |-> srv[a][x]] /\ srv[a].job = [x \in JobFields |-> srv[a].job[x]]
  BY <1>2 DEF AppIsSound
<1>4. j = [x \in JobFields |-> j[x]] /\ j.status = "succeeded" /\ j.at = srv[a].job.at
  BY <1>3 DEF JobFields
<1>5. srv' = [srv EXCEPT ![a] = s]
  <2>1. srv'[a] = s BY <1>1, <1>2
  <2>2. srv' = [b \in Apps |-> srv'[b]] /\ \A b \in Apps \ {a} : srv'[b] = srv[b]
    BY <1>1, <1>2
  <2> HIDE DEF s
  <2> QED BY <1>2, <2>1, <2>2
<1> HIDE DEF j
<1>6. /\ s = [x \in SrvFields |-> s[x]] /\ s.job = j /\ s.token = srv[a].token
      /\ s.installed = srv[a].offered /\ s.offered = srv[a].offered /\ s.instance = "ready"
  BY <1>3 DEF SrvFields
<1> HIDE DEF s
<1>7. AppIsSound(s, reviewed', done')
  BY <1>1, <1>2, <1>4, <1>6 DEF AppIsSound, Running
<1>8. PageIsSound(page', reviewed') /\ done \subseteq done'
  BY <1>1, PageInv
<1> QED BY <1>1, <1>5, <1>7, <1>8, ServerStepKeeps

LEMMA JobFailsKeeps == ASSUME ScreensInv, NEW a \in Apps, JobFails(a) PROVE ScreensInv'
<1> DEFINE j == [srv[a].job EXCEPT !.status = "failed"]
           s == [srv[a] EXCEPT !.job = j]
<1>1. /\ reviewed' = reviewed /\ done' = done /\ answers' = answers /\ page' = page
      /\ srv' = [srv EXCEPT ![a].job.status = "failed"]
  BY DEF JobFails
<1>2. AppIsSound(srv[a], reviewed, done) /\ srv = [b \in Apps |-> srv[b]]
  BY DEF ScreensInv
<1>3. srv[a] = [x \in SrvFields |-> srv[a][x]] /\ srv[a].job = [x \in JobFields |-> srv[a].job[x]]
  BY <1>2 DEF AppIsSound
<1>4. j = [x \in JobFields |-> j[x]] /\ j.status = "failed"
  BY <1>3 DEF JobFields
<1>5. srv' = [srv EXCEPT ![a] = s] BY <1>1
<1> HIDE DEF j
<1>6. /\ s = [x \in SrvFields |-> s[x]] /\ s.job = j /\ s.token = srv[a].token
      /\ s.installed = srv[a].installed /\ s.offered = srv[a].offered /\ s.instance = srv[a].instance
  BY <1>3 DEF SrvFields
<1> HIDE DEF s
<1>7. AppIsSound(s, reviewed', done')
  BY <1>1, <1>2, <1>4, <1>6 DEF AppIsSound, Running
<1>8. PageIsSound(page', reviewed') BY <1>1, PageInv
<1> QED BY <1>1, <1>5, <1>7, <1>8, ServerStepKeeps

------------------------------------------------------------------------------
(* Every step. *)

LEMMA ScreensStep == ScreensInv /\ [ScreensNext]_screensVars => ScreensInv'
<1> SUFFICES ASSUME ScreensInv, [ScreensNext]_screensVars PROVE ScreensInv'
  OBVIOUS
<1>1. CASE Load BY <1>1, LoadKeeps
<1>2. CASE \E i \in DOMAIN answers : Loaded(i)
  BY <1>2, LoadedKeeps
<1>3. CASE \E i \in DOMAIN answers : LoadFails(i)
  BY <1>3, LoadFailsKeeps
<1>4. CASE \E app \in Apps \cup {NoApp} : Select(app)
  BY <1>4, SelectKeeps
<1>5. CASE PrepareUpdate BY <1>5, PrepareUpdateKeeps
<1>6. CASE Prepared BY <1>6, PreparedKeeps
<1>7. CASE CancelReview BY <1>7, CancelReviewKeeps
<1>8. CASE ApplyUpdate BY <1>8, ApplyUpdateKeeps
<1>9. CASE UpdateStarted BY <1>9, UpdateStartedKeeps
<1>10. CASE PerformInstall BY <1>10, PerformInstallKeeps
<1>11. CASE \E action \in {"stop", "enable", "uninstall"} : PerformLifecycle(action)
  BY <1>11, PerformLifecycleKeeps
<1>12. CASE RequestAnswered BY <1>12, RequestAnsweredKeeps
<1>13. CASE \E a \in Apps : OtherTabUpdates(a)
  BY <1>13, OtherTabUpdatesKeeps
<1>14. CASE \E a \in Apps : Publish(a)
  BY <1>14, PublishKeeps
<1>15. CASE \E a \in Apps : JobSucceeds(a)
  BY <1>15, JobSucceedsKeeps
<1>16. CASE \E a \in Apps : JobFails(a)
  BY <1>16, JobFailsKeeps
<1>17. CASE UNCHANGED screensVars
  BY <1>17 DEF screensVars, ScreensInv
<1> QED BY <1>1, <1>2, <1>3, <1>4, <1>5, <1>6, <1>7, <1>8, <1>9, <1>10, <1>11, <1>12, <1>13, <1>14,
     <1>15, <1>16, <1>17 DEF ScreensNext

\* An update that starts leaves what is installed.
LEMMA UpdateLeavesInstalled ==
  ASSUME ScreensInv, NEW b, NEW token, Starts(b, "update", token), NEW a \in Apps
  PROVE  srv'[a].installed = srv[a].installed
<1> DEFINE j == [at |-> count.jobs + 1, kind |-> "update", status |-> "running"]
<1>1. srv' = [srv EXCEPT ![b].job = j, ![b].token = token, ![b].instance = IF "update" = "install" THEN "incomplete" ELSE @]
  BY DEF Starts
<1>2. srv = [c \in Apps |-> srv[c]] BY DEF ScreensInv
<1>3. srv[a] = [x \in SrvFields |-> srv[a][x]]
  BY DEF ScreensInv, AppIsSound
<1> HIDE DEF j
<1>4. \/ srv'[a] = srv[a]
      \/ srv'[a] = [srv[a] EXCEPT !.job = j, !.token = token, !.instance = srv[a].instance]
  BY <1>1, <1>2
<1> QED BY <1>3, <1>4 DEF SrvFields

\* Only a job that ends well, or an uninstall, changes what is installed.
LEMMA InstalledByJobs ==
  ASSUME ScreensInv, [ScreensNext]_screensVars, NEW a \in Apps,
         srv'[a].installed # srv[a].installed
  PROVE  JobSucceeds(a) \/ srv'[a].installed = 0
<1>1. srv = [b \in Apps |-> srv[b]] BY DEF ScreensInv
<1>2. \A b \in Apps : srv[b] = [x \in SrvFields |-> srv[b][x]]
  BY DEF ScreensInv, AppIsSound
<1>3. CASE \E b \in Apps : JobSucceeds(b)
  <2>1. PICK b \in Apps : JobSucceeds(b)
    BY <1>3
  <2>2. CASE b # a
    BY <1>1, <2>1, <2>2 DEF JobSucceeds
  <2> QED BY <2>1, <2>2
<1>4. CASE \E action \in {"stop", "enable", "uninstall"} : PerformLifecycle(action)
  <2>1. PICK action \in {"stop", "enable", "uninstall"} : PerformLifecycle(action)
    BY <1>4
  <2>2. srv' = [srv EXCEPT ![page.app] = Outcome(page.app, action)]
    BY <2>1 DEF PerformLifecycle
  <2>3. page.app = a /\ srv'[a] = Outcome(a, action) BY <1>1, <2>2
  <2>4. \/ Outcome(a, action) = srv[a]
        \/ \E at \in {"ready", "disabled"} : Outcome(a, action) = [srv[a] EXCEPT !.instance = at]
        \/ Outcome(a, action) = [srv[a] EXCEPT !.instance = "none", !.installed = 0, !.job = NoAppJob,
                                               !.token = NoPair]
    BY <2>1 DEF Outcome
  <2>5. CASE Outcome(a, action) = srv[a]
    BY <2>3, <2>5
  <2>6. ASSUME NEW at, Outcome(a, action) = [srv[a] EXCEPT !.instance = at]
        PROVE  srv'[a].installed = srv[a].installed
    BY <1>2, <2>3, <2>6 DEF SrvFields
  <2>7. CASE Outcome(a, action) = [srv[a] EXCEPT !.instance = "none", !.installed = 0, !.job = NoAppJob,
                                                !.token = NoPair]
    BY <1>2, <2>3, <2>7 DEF SrvFields
  <2> QED BY <2>4, <2>5, <2>6, <2>7
<1>5. CASE ApplyUpdate
  <2>1. Starts(page.app, "update", page.comparison)
    BY <1>5 DEF ApplyUpdate
  <2> QED BY <2>1, UpdateLeavesInstalled
<1>6. CASE \E b \in Apps : OtherTabUpdates(b)
  <2>1. PICK b \in Apps : OtherTabUpdates(b)
    BY <1>6
  <2>2. Starts(b, "update", [app |-> b, from |-> srv[b].installed, to |-> srv[b].offered])
    BY <2>1 DEF OtherTabUpdates
  <2> QED BY <2>2, UpdateLeavesInstalled
<1>7. CASE PerformInstall
  <2> DEFINE j == [at |-> count.jobs + 1, kind |-> "install", status |-> "running"]
  <2>1. \/ srv' = srv
        \/ srv' = [srv EXCEPT ![page.app].job = j, ![page.app].instance = "incomplete"]
    BY <1>7 DEF PerformInstall
  <2> HIDE DEF j
  <2>2. srv'[a] = srv[a] \/ srv'[a] = [srv[a] EXCEPT !.job = j, !.instance = "incomplete"]
    BY <1>1, <2>1
  <2> QED BY <1>2, <2>2 DEF SrvFields
<1>8. CASE \E b \in Apps : Publish(b)
  BY <1>1, <1>2, <1>8 DEF Publish, SrvFields
<1>9. CASE \E b \in Apps : JobFails(b)
  BY <1>1, <1>2, <1>9 DEF JobFails, SrvFields
<1>10. CASE UNCHANGED srv
  BY <1>10
<1>11. CASE \/ Load \/ UpdateStarted \/ RequestAnswered \/ PrepareUpdate \/ Prepared \/ CancelReview
            \/ \E i \in DOMAIN answers : Loaded(i) \/ LoadFails(i)
            \/ \E app \in Apps \cup {NoApp} : Select(app)
            \/ UNCHANGED screensVars
  <2>1. UNCHANGED srv
    BY <1>11 DEF Load, UpdateStarted, RequestAnswered, PrepareUpdate, Prepared, CancelReview, Loaded,
                 LoadFails, Select, screensVars
  <2> QED BY <2>1
<1> QED BY <1>3, <1>4, <1>5, <1>6, <1>7, <1>8, <1>9, <1>11 DEF ScreensNext

LEMMA AppliedWasReviewed == ASSUME ScreensInv, [ScreensNext]_screensVars PROVE AppliesTheReviewed
<1> SUFFICES ASSUME NEW a \in Apps, srv[a].installed # 0, srv'[a].installed > srv[a].installed
             PROVE  [app |-> a, from |-> srv[a].installed, to |-> srv'[a].installed] \in reviewed
  BY DEF AppliesTheReviewed
<1>1. AppIsSound(srv[a], reviewed, done) /\ srv = [b \in Apps |-> srv[b]]
  BY DEF ScreensInv
<1>2. srv[a].installed \in Nat /\ srv[a] = [x \in SrvFields |-> srv[a][x]]
  BY <1>1 DEF AppIsSound
<1>3. srv'[a].installed # srv[a].installed /\ srv'[a].installed # 0
  BY <1>2
<1>4. JobSucceeds(a) BY <1>3, InstalledByJobs
<1>5. Running(srv[a].job) /\ (srv[a].job.kind = "update" => StillReviewed(a))
  BY <1>4 DEF JobSucceeds
<1>6. srv'[a].installed = srv[a].offered
  BY <1>1, <1>2, <1>4 DEF JobSucceeds, SrvFields
<1>7. srv[a].job.kind = "update" /\ srv[a].token \in reviewed
  BY <1>1, <1>5 DEF AppIsSound
<1> QED BY <1>5, <1>6, <1>7 DEF StillReviewed

LEMMA ClosedWasDone == ASSUME ScreensInv, [ScreensNext]_screensVars PROVE ClosesWhenDone
<1> SUFFICES ASSUME page.startedAt # 0, page'.startedAt = 0, page'.app = page.app
             PROVE  page.startedAt \in done
  BY DEF ClosesWhenDone
<1>1. page = [x \in PageFields |-> page[x]] /\ page.app \in Apps \cup {NoApp}
  BY DEF ScreensInv
<1>2. CASE \E i \in DOMAIN answers : Loaded(i)
  <2>1. PICK i \in DOMAIN answers : page' = Followed(answers[i].packages)
    BY <1>2 DEF Loaded
  <2>2. page.app # NoApp /\ DialogJob(answers[i].packages).status = "succeeded"
    BY <2>1 DEF Followed
  <2>3. /\ answers[i].packages[page.app].job.at = page.startedAt
        /\ answers[i].packages[page.app].job.status = "succeeded"
    BY <2>2 DEF DialogJob, NoAppJob
  <2>4. i \in 1 .. Len(answers) BY DEF ScreensInv
  <2>5. SeenIsSound(answers[i].packages, done) BY <2>4 DEF ScreensInv
  <2> QED BY <1>1, <2>2, <2>3, <2>5 DEF SeenIsSound
<1>3. CASE \E app \in Apps \cup {NoApp} : Select(app)
  <2>1. PICK app \in Apps \cup {NoApp} : Select(app)
    BY <1>3
  <2>2. app # page.app /\ page'.app = app
    BY <2>1 DEF Select, Fresh, NoPage
  <2> QED BY <2>2
<1>4. CASE UpdateStarted
  BY <1>1, <1>4 DEF UpdateStarted, PageFields
<1>5. CASE page'.startedAt = page.startedAt
  BY <1>5
<1>6. CASE PrepareUpdate \/ Prepared \/ CancelReview \/ ApplyUpdate
  <2>1. page'.startedAt = page.startedAt
    BY <1>1, <1>6 DEF PrepareUpdate, Prepared, CancelReview, ApplyUpdate, PageFields
  <2> QED BY <2>1
<1>7. CASE \/ Load \/ PerformInstall \/ RequestAnswered
           \/ \E i \in DOMAIN answers : LoadFails(i)
           \/ \E action \in {"stop", "enable", "uninstall"} : PerformLifecycle(action)
           \/ \E a \in Apps : OtherTabUpdates(a) \/ Publish(a) \/ JobSucceeds(a) \/ JobFails(a)
           \/ UNCHANGED screensVars
  <2>1. page' = page
    BY <1>7 DEF Load, PerformInstall, RequestAnswered, LoadFails, PerformLifecycle, OtherTabUpdates,
                Publish, JobSucceeds, JobFails, screensVars
  <2> QED BY <2>1
<1> QED BY <1>2, <1>3, <1>4, <1>6, <1>7 DEF ScreensNext

\* An installed app moves only to a version that was shown to its owner, from the very one it was
\* compared with, whatever page the answer came to stand on (AppDetail.tsx), for any apps,
\* versions, jobs and orders of answers.
THEOREM OnlyTheReviewedIsApplied == ScreensSpec => OnlyTheReviewed
<1>1. ScreensInv /\ [ScreensNext]_screensVars => AppliesTheReviewed
  BY AppliedWasReviewed
<1>2. ScreensInv /\ [ScreensNext]_screensVars => [AppliesTheReviewed]_screensVars
  BY <1>1
<1> QED BY <1>2, ScreensStart, ScreensStep, PTL DEF ScreensSpec, OnlyTheReviewed

\* A review closes itself only for the very update it started, and only once that succeeded
\* (AppDetail.tsx, AppsScreen.tsx), however late or out of order the lists arrive.
THEOREM ReviewsCloseOnTheirOwn == ScreensSpec => ClosesOnItsOwn
<1>1. ScreensInv /\ [ScreensNext]_screensVars => [ClosesWhenDone]_screensVars
  BY ClosedWasDone
<1> QED BY <1>1, ScreensStart, ScreensStep, PTL DEF ScreensSpec, ClosesOnItsOwn
=============================================================================
