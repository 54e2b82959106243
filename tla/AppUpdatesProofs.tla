-------------------------- MODULE AppUpdatesProofs --------------------------
(***************************************************************************)
(* Theorems about what an update is offered, and what becomes of it.       *)
(*                                                                         *)
(* Of AppUpdates, whatever the versions and however often either process   *)
(* dies: its types, that a secret an update collected is on disk for as    *)
(* long as anything can need it, that a recovery which is due finds on     *)
(* disk what it needs, that what serves is on record, and that the record  *)
(* never runs ahead of the disk.                                           *)
(*                                                                         *)
(* Of Offers, whatever packages the project and an added repository        *)
(* publish and in whatever order they are looked at: addresses stay apart, *)
(* access is consented to, and what is offered is what is taken and never  *)
(* older unasked.                                                          *)
(*                                                                         *)
(* Of AppSettings, whatever is typed in an app's settings, saved, refused  *)
(* or lost: the app runs with a set that is one, the only tab that is open *)
(* knows it, and no hidden value goes that the owner has not touched.      *)
(***************************************************************************)
EXTENDS AppUpdates, Offers, AppSettings, WellFoundedInduction, SequenceTheorems,
        FiniteSetTheorems, TLAPS

-----------------------------------------------------------------------------
(* The inductive invariant. *)

Kinds   == DOMAIN FirstStep \cup {"restore", "none"}
Pcs     == {"idle", "answered", "verify", "copy", "repair", "displace", "install", "forget",
            "retain", "stop", "start", "health", "discard"}
Answers == Refusals \cup {"ok", "none"}
CallTypes == [kind : Kinds, pc : Pcs, cand : Packages, inst : Packages, answer : Answers]
SagaTypes == [kind : {"none", "update", "recover", "disable", "enable", "uninstall"}, cand : Packages, activated : BOOLEAN, promoted : BOOLEAN,
              stage : {"none", "recorded"}]

\* The types of TypeOK with those of the handlers.
AppTypes == TypeOK /\ calls \in [Callers -> CallTypes] /\ saga \in SagaTypes

\* A saga runs only in a Suite Manager that is up, and one that has made no
\* request, or needs no more answers, has none in flight.
SagaRuns ==
  /\ sm # "up" => saga = NoSaga
  /\ saga = NoSaga \/ (saga.kind = "update" /\ saga.stage = "none") \/ saga.promoted
       => calls["keyed"] = NoCall
  /\ saga.activated \/ saga.promoted => saga.kind = "update" /\ saga.stage = "recorded"

\* The record of the operation a saga is about.
SagaRecorded ==
  /\ saga.kind = "update" /\ saga.stage = "recorded" => op.status = "running"
  /\ saga.kind = "recover" => op.status = "failed"

\* What an update collected is not the row's before the update succeeds.
AddedIsNotHeld == op.added /\ op.status \in {"running", "failed"} => ~row.held

SecretInv == AppTypes /\ SagaRuns /\ SagaRecorded /\ AddedIsNotHeld /\ CollectedSecretsKept

-----------------------------------------------------------------------------
(* What a step of the agent changes. *)

\* A handler goes on, and the others stay where they are.
Moved(s) == \E c \in CallTypes : calls' = [calls EXCEPT ![s] = c]

LEMMA NoCallIsACall == NoCall \in CallTypes /\ NoSaga \in SagaTypes
PROOF
BY DEF NoCall, CallTypes, Packages, NoSaga, SagaTypes, Kinds, Pcs, Answers

\* How it goes on: to its next command, to an answer, or to the restart of what
\* an activation has stopped.
MovesOn(s) ==
  \/ \E pc \in Pcs \ {"idle", "answered"} : Goto(s, pc)
  \/ \E a \in Answers \ {"rollback-failed"} : Answer(s, a)
  \/ calls[s].kind \in {"restore", "rollback"} /\ Answer(s, "rollback-failed")
  \/ calls[s].kind = "activate"
       /\ calls' = [calls EXCEPT ![s].kind = "restore", ![s].pc = "stop"]
  \/ UNCHANGED calls

LEMMA HandlersMove ==
  ASSUME AppTypes, NEW s \in Callers, MovesOn(s)
  PROVE  Moved(s)
<1>1. calls[s] \in CallTypes /\ calls \in [Callers -> CallTypes]
  BY DEF AppTypes
<1>2. ASSUME NEW pc \in Pcs, Goto(s, pc) PROVE Moved(s)
  <2> DEFINE c == [calls[s] EXCEPT !.pc = pc]
  <2>1. c \in CallTypes BY <1>1, <1>2 DEF CallTypes
  <2>2. calls' = [calls EXCEPT ![s] = c] BY <1>1, <1>2 DEF Goto
  <2> HIDE DEF c
  <2> QED BY <2>1, <2>2 DEF Moved
<1>3. ASSUME NEW a \in Answers, Answer(s, a) PROVE Moved(s)
  <2> DEFINE c == IF s = "lost" THEN NoCall ELSE [calls[s] EXCEPT !.pc = "answered", !.answer = a]
  <2>1. c \in CallTypes BY <1>1, <1>3, NoCallIsACall DEF CallTypes, Pcs
  <2>2. calls' = [calls EXCEPT ![s] = c] BY <1>1, <1>3 DEF Answer
  <2> HIDE DEF c
  <2> QED BY <2>1, <2>2 DEF Moved
<1>4. CASE /\ calls[s].kind = "activate"
           /\ calls' = [calls EXCEPT ![s].kind = "restore", ![s].pc = "stop"]
  <2> DEFINE c == [calls[s] EXCEPT !.kind = "restore", !.pc = "stop"]
  <2>1. c \in CallTypes BY <1>1, <1>4 DEF CallTypes, Kinds, Pcs
  <2>2. calls' = [calls EXCEPT ![s] = c] BY <1>1, <1>4
  <2> HIDE DEF c
  <2> QED BY <2>1, <2>2 DEF Moved
<1>5. CASE UNCHANGED calls
  BY <1>1, <1>5 DEF Moved
<1> QED BY <1>2, <1>3, <1>4, <1>5 DEF MovesOn, Answers, Refusals

\* A step of a handler is one of a handler that runs; it leaves the saga and
\* its record alone, and types as they are.
LEMMA AgentMoves ==
  ASSUME AppTypes, NEW s \in Callers, AgentStep(s)
  PROVE  /\ OnAgent /\ MovesOn(s) /\ calls[s].kind # "none" /\ InFlight(s)
         /\ disk' \in [{"installed", "candidate", "displaced", "previous"} -> Packages]
         /\ docker' \in [run : Packages, route : Packages]
<1> DEFINE Disks == [{"installed", "candidate", "displaced", "previous"} -> Packages]
           Dockers == [run : Packages, route : Packages]
<1>1. /\ disk \in Disks /\ docker \in Dockers /\ NoPackage \in Packages
      /\ calls[s].cand \in Packages /\ calls[s].inst \in Packages
  BY DEF AppTypes, TypeOK, Packages
<1>2. CASE Stage(s)
  <2>1. OnAgent /\ docker' = docker /\ calls[s].kind = "stage" /\ InFlight(s)
    BY <1>2 DEF Stage, At, InFlight
  <2>2. MovesOn(s) BY <1>2 DEF MovesOn, Stage, Pcs, Answers, Refusals
  <2>3. disk' \in Disks BY <1>1, <1>2 DEF Stage
  <2> QED BY <1>1, <2>1, <2>2, <2>3
<1>3. CASE Build(s)
  <2>1. OnAgent /\ UNCHANGED host /\ calls[s].kind = "build" /\ InFlight(s)
    BY <1>3 DEF Build, At, InFlight
  <2>2. MovesOn(s) BY <1>3 DEF MovesOn, Build, Pcs, Answers, Refusals
  <2> QED BY <1>1, <2>1, <2>2 DEF host
<1>3a. ASSUME FailRuntime(s), calls[s].kind \in Runtimes PROVE MovesOn(s)
  BY <1>3a DEF FailRuntime, Runtimes, MovesOn, Answers, Refusals
<1>4. CASE RuntimeStep(s)
  <2>1. CASE VerifyRuntime(s)
    <3>1. OnAgent /\ UNCHANGED host /\ calls[s].kind \in {"activate", "rollback", "apply"}
          /\ InFlight(s)
      BY <2>1 DEF VerifyRuntime, At, InFlight
    <3>2. MovesOn(s)
      BY <2>1, <3>1 DEF MovesOn, VerifyRuntime, Pcs, Answers, Refusals
    <3> QED BY <1>1, <3>1, <3>2 DEF host
  <2>2. CASE StopContainers(s)
    <3>1. OnAgent /\ disk' = disk /\ calls[s].kind # "none" /\ InFlight(s)
      BY <2>2 DEF StopContainers, At, Runtimes, InFlight
    <3>2. MovesOn(s)
      BY <2>2 DEF MovesOn, StopContainers, Pcs, Answers, Refusals
    <3>3. docker' \in Dockers BY <1>1, <2>2 DEF StopContainers
    <3> QED BY <1>1, <3>1, <3>2, <3>3
  <2>3. CASE StartContainers(s)
    <3>1. OnAgent /\ disk' = disk /\ calls[s].kind # "none" /\ InFlight(s)
      BY <2>3 DEF StartContainers, At, Runtimes, InFlight
    <3>2. MovesOn(s)
      BY <1>3a, <2>3 DEF MovesOn, StartContainers, At, Pcs
    <3>3. docker' \in Dockers BY <1>1, <2>3 DEF StartContainers, Target
    <3> QED BY <1>1, <3>1, <3>2, <3>3
  <2>4. CASE AwaitHealth(s)
    <3>1. OnAgent /\ disk' = disk /\ calls[s].kind # "none" /\ InFlight(s)
      BY <2>4 DEF AwaitHealth, At, Runtimes, InFlight
    <3>2. MovesOn(s)
      BY <1>3a, <2>4 DEF MovesOn, AwaitHealth, At, Answers, Refusals
    <3>3. docker' \in Dockers BY <1>1, <2>4 DEF AwaitHealth, Target
    <3> QED BY <1>1, <3>1, <3>2, <3>3
  <2> QED BY <1>4, <2>1, <2>2, <2>3, <2>4 DEF RuntimeStep
<1>5. CASE Repair(s)
  <2>1. OnAgent /\ docker' = docker /\ calls[s].kind # "none" /\ InFlight(s)
    BY <1>5 DEF Repair, At, InFlight
  <2>2. MovesOn(s) BY <1>5 DEF MovesOn, Repair, Pcs, Answers, Refusals
  <2>3. disk' \in Disks BY <1>1, <1>5 DEF Repair, Repaired
  <2> QED BY <1>1, <2>1, <2>2, <2>3
<1>6. CASE Promote(s)
  <2>1. OnAgent /\ docker' = docker /\ calls[s].kind = "promote" /\ InFlight(s)
    BY <1>6 DEF Promote, At, InFlight
  <2>2. MovesOn(s) BY <1>6 DEF MovesOn, Promote, Pcs, Answers, Refusals
  <2>3. disk' \in Disks BY <1>1, <1>6 DEF Promote
  <2> QED BY <1>1, <2>1, <2>2, <2>3
<1>7. CASE Discard(s)
  <2>1. OnAgent /\ calls[s].kind = "remove" /\ InFlight(s)
    BY <1>7 DEF Discard, At, InFlight
  <2>2. MovesOn(s) BY <1>7 DEF MovesOn, Discard, Pcs, Answers, Refusals
  <2>3. disk' \in Disks /\ docker' \in Dockers
    BY <1>1, <1>7 DEF Discard, host
  <2> QED BY <1>1, <2>1, <2>2, <2>3
<1>8. CASE StopContainers(s)
  BY <1>4, <1>8 DEF RuntimeStep
<1> QED BY <1>2, <1>3, <1>4, <1>5, <1>6, <1>7, <1>8
        DEF AgentStep, Activate, Rollback, Apply, PromoteSnapshot, StopApp, RemoveApp

-----------------------------------------------------------------------------
(* What a request of Suite Manager changes. *)

LEMMA RequestTypes ==
  ASSUME AppTypes, NEW s \in Callers, NEW kind \in DOMAIN FirstStep,
         NEW cand \in Packages, NEW inst \in Packages, Call(s, kind, cand, inst)
  PROVE  /\ calls' \in [Callers -> CallTypes] /\ overlapped' \in BOOLEAN
         /\ \A t \in Callers \ {s} : calls'[t] = calls[t]
<1>1. Request(kind, cand, inst) \in CallTypes
  <2>1. FirstStep[kind] \in Pcs /\ kind \in Kinds
    BY DEF FirstStep, Pcs, Kinds
  <2> QED BY <2>1 DEF Request, CallTypes, Pcs, Answers, Refusals
<1>2. calls' = [calls EXCEPT ![s] = Request(kind, cand, inst)] /\ calls \in [Callers -> CallTypes]
  BY DEF Call, AppTypes
<1>3. overlapped' \in BOOLEAN BY DEF Call, AppTypes, TypeOK
<1> HIDE DEF CallTypes
<1> QED BY <1>1, <1>2, <1>3

LEMMA FreeTypes ==
  ASSUME AppTypes, NEW s \in Callers, calls' = Free(s)
  PROVE  /\ calls' \in [Callers -> CallTypes] /\ calls'[s] = NoCall
         /\ \A t \in Callers \ {s} : calls'[t] = calls[t]
<1>1. calls' = [calls EXCEPT ![s] = NoCall] /\ calls \in [Callers -> CallTypes]
  BY DEF Free, AppTypes
<1> HIDE DEF CallTypes
<1> QED BY <1>1, NoCallIsACall

-----------------------------------------------------------------------------
(* Every step keeps the invariant. *)

\* The steps of the agent's handlers.
LEMMA AgentKeeps ==
  ASSUME SecretInv, NEW s \in Callers, AgentStep(s)
  PROVE  SecretInv'
<1>1. /\ OnAgent /\ MovesOn(s) /\ calls[s].kind # "none"
      /\ disk' \in [{"installed", "candidate", "displaced", "previous"} -> Packages]
      /\ docker' \in [run : Packages, route : Packages]
  BY AgentMoves DEF SecretInv
<1>2. Moved(s) BY <1>1, HandlersMove DEF SecretInv
<1>2a. PICK c \in CallTypes : calls' = [calls EXCEPT ![s] = c]
  BY <1>2 DEF Moved
<1>3. calls' \in [Callers -> CallTypes] /\ (calls["keyed"] = NoCall => calls'["keyed"] = NoCall)
  BY <1>1, <1>2a DEF SecretInv, AppTypes, NoCall, Callers
<1>4. UNCHANGED <<row, op, secretFile, agent, sm, saga, overlapped>>
  BY <1>1 DEF OnAgent, durable
<1>5. AppTypes'
  BY <1>1, <1>3, <1>4 DEF SecretInv, AppTypes, TypeOK, CallTypes
<1>6. SagaRuns' /\ SagaRecorded' /\ AddedIsNotHeld' /\ CollectedSecretsKept'
  BY <1>3, <1>4 DEF SecretInv, SagaRuns, SagaRecorded, AddedIsNotHeld, CollectedSecretsKept
<1> QED BY <1>5, <1>6 DEF SecretInv

\* The update saga, from its first record to its end.
LEMMA SagaKeeps ==
  ASSUME SecretInv, BeginUpdate \/ RecordUpdate \/ AdvanceUpdate \/ RecordPromotion \/ CommitUpdate
  PROVE  SecretInv'
<1> USE DEF SecretInv
<1>1. CASE BeginUpdate
  <2>1. PICK v \in Versions : saga' = [NoSaga EXCEPT !.kind = "update", !.cand = v]
    BY <1>1 DEF BeginUpdate
  <2>2. /\ sm' = "up" /\ sm = "up" /\ saga = NoSaga
        /\ UNCHANGED <<row, op, secretFile, disk, docker, agent, calls, overlapped>>
    BY <1>1 DEF BeginUpdate, Idle, OnSm, durable, host
  <2>3. AppTypes'
    <3>1. v \in Packages BY DEF Packages
    <3>2. saga' \in SagaTypes BY <2>1, <3>1, NoCallIsACall DEF SagaTypes
    <3> QED BY <2>2, <3>2 DEF AppTypes, TypeOK, SagaTypes
  <2>4. SagaRuns' /\ SagaRecorded' /\ AddedIsNotHeld' /\ CollectedSecretsKept'
    BY <2>1, <2>2 DEF SagaRuns, SagaRecorded, AddedIsNotHeld, CollectedSecretsKept, NoSaga
  <2> QED BY <2>3, <2>4
<1>2. CASE RecordUpdate
  <2>1. /\ sm' = "up" /\ sm = "up" /\ saga.kind = "update" /\ saga.stage = "none"
        /\ secretFile' = (secretFile \/ ~row.held)
        /\ BeginAppUpdate(saga.cand, ~row.held)
        /\ saga' = [saga EXCEPT !.stage = "recorded"]
        /\ Call("keyed", "stage", saga.cand, row.digest)
        /\ UNCHANGED <<disk, docker, agent>>
    BY <1>2 DEF RecordUpdate, OnSm, host
  <2>2. calls' \in [Callers -> CallTypes] /\ overlapped' \in BOOLEAN
    <3>1. saga.cand \in Packages /\ row.digest \in Packages
      BY DEF AppTypes, TypeOK
    <3> QED BY <2>1, <3>1, RequestTypes DEF Callers, FirstStep
  <2>3. AppTypes'
    BY <2>1, <2>2 DEF AppTypes, TypeOK, SagaTypes, CallTypes, BeginAppUpdate
  <2>4. saga.promoted = FALSE /\ saga' # NoSaga /\ saga'.stage = "recorded" /\ saga'.kind = "update"
        /\ saga'.promoted = FALSE
    BY <2>1 DEF SagaRuns, AppTypes, SagaTypes, NoSaga
  <2>5. SagaRuns' /\ SagaRecorded'
    BY <2>1, <2>4 DEF SagaRuns, SagaRecorded, BeginAppUpdate
  <2>6. AddedIsNotHeld' /\ CollectedSecretsKept'
    BY <2>1 DEF AddedIsNotHeld, CollectedSecretsKept, BeginAppUpdate, AppTypes, TypeOK
  <2> QED BY <2>3, <2>5, <2>6
<1>3. CASE AdvanceUpdate
  <2>1. PICK k \in DOMAIN Following :
          /\ Answered("keyed", k, {"ok"})
          /\ AdvanceAppUpdate(Following[k].stage)
          /\ saga' = [saga EXCEPT !.activated = (k = "activate")]
          /\ Call("keyed", Following[k].next, saga.cand, row.digest)
    BY <1>3 DEF AdvanceUpdate
  <2>2. /\ sm' = "up" /\ sm = "up" /\ saga.kind = "update"
        /\ UNCHANGED <<row, disk, docker, agent, secretFile>>
        /\ op' = [op EXCEPT !.stage = Following[k].stage]
    BY <1>3, <2>1 DEF AdvanceUpdate, OnSm, host, AdvanceAppUpdate
  <2>3. /\ Following[k].stage \in {"candidate-staged", "candidate-built", "candidate-healthy"}
        /\ Following[k].next \in DOMAIN FirstStep
    BY DEF Following, FirstStep
  <2>4. calls' \in [Callers -> CallTypes] /\ overlapped' \in BOOLEAN
    <3>1. saga.cand \in Packages /\ row.digest \in Packages
      BY DEF AppTypes, TypeOK
    <3> QED BY <2>1, <2>3, <3>1, RequestTypes DEF Callers
  <2>5. AppTypes'
    BY <2>1, <2>2, <2>3, <2>4, ZenonT(30) DEF AppTypes, TypeOK, SagaTypes, CallTypes
  <2>6. calls["keyed"] # NoCall BY <2>1 DEF Answered, NoCall
  <2>7. /\ saga.stage = "recorded" /\ ~saga.promoted
        /\ saga'.stage = "recorded" /\ saga'.kind = "update" /\ ~saga'.promoted /\ saga' # NoSaga
    BY <2>1, <2>2, <2>6 DEF SagaRuns, AppTypes, SagaTypes, NoSaga
  <2>8. SagaRuns' /\ SagaRecorded'
    BY <2>2, <2>7 DEF SagaRuns, SagaRecorded, AppTypes, TypeOK
  <2>9. AddedIsNotHeld' /\ CollectedSecretsKept'
    BY <2>2 DEF AddedIsNotHeld, CollectedSecretsKept, AppTypes, TypeOK
  <2> QED BY <2>5, <2>8, <2>9
<1>4. CASE RecordPromotion
  <2>1. /\ sm' = "up" /\ sm = "up" /\ saga.kind = "update" /\ Answered("keyed", "promote", {"ok"})
        /\ op' = [op EXCEPT !.stage = "snapshot-promoted"]
        /\ saga' = [saga EXCEPT !.promoted = TRUE] /\ calls' = Free("keyed")
        /\ UNCHANGED <<row, disk, docker, agent, secretFile, overlapped>>
    BY <1>4 DEF RecordPromotion, OnSm, host, AdvanceAppUpdate
  <2>2. calls' \in [Callers -> CallTypes] /\ calls'["keyed"] = NoCall
    BY <2>1, FreeTypes DEF Callers
  <2>3. AppTypes'
    BY <2>1, <2>2 DEF AppTypes, TypeOK, SagaTypes, CallTypes
  <2>4. calls["keyed"] # NoCall BY <2>1 DEF Answered, NoCall
  <2>5. saga.stage = "recorded" /\ saga'.stage = "recorded" /\ saga'.kind = "update"
    BY <2>1, <2>4 DEF SagaRuns, AppTypes, SagaTypes
  <2>6. SagaRuns' /\ SagaRecorded'
    BY <2>1, <2>2, <2>5 DEF SagaRuns, SagaRecorded, AppTypes, TypeOK
  <2>7. AddedIsNotHeld' /\ CollectedSecretsKept'
    BY <2>1 DEF AddedIsNotHeld, CollectedSecretsKept, AppTypes, TypeOK
  <2> QED BY <2>3, <2>6, <2>7
<1>5. CASE CommitUpdate
  <2>1. /\ sm' = "up" /\ sm = "up" /\ saga.promoted /\ saga' = NoSaga
        /\ CompleteAppUpdate(saga.cand)
        /\ UNCHANGED <<disk, docker, agent, secretFile, calls, overlapped>>
    BY <1>5 DEF CommitUpdate, OnSm, host
  <2>2. AppTypes'
    <3>1. row' = [row EXCEPT !.digest = saga.cand, !.recovery = "none", !.held = row.held \/ op.added]
      BY <2>1 DEF CompleteAppUpdate
    <3>2. (row.held \/ op.added) \in BOOLEAN /\ saga.cand \in Packages
      BY DEF AppTypes, TypeOK
    <3>3. row' \in [status : {"installed", "disabled", "absent"}, digest : Packages,
                    recovery : Pending \cup {"none", "retry-safe"}, held : BOOLEAN]
      BY <3>1, <3>2 DEF AppTypes, TypeOK
    <3>4. op' = [op EXCEPT !.status = "succeeded"]
      BY <2>1 DEF CompleteAppUpdate
    <3>5. saga' \in SagaTypes BY <2>1, NoCallIsACall
    <3> QED BY <2>1, <3>3, <3>4, <3>5 DEF AppTypes, TypeOK, SagaTypes
  <2>3. op.status = "running" BY <2>1 DEF SagaRuns, SagaRecorded
  <2>4. SagaRuns' /\ SagaRecorded'
    BY <2>1 DEF SagaRuns, SagaRecorded, NoSaga
  <2>5. AddedIsNotHeld' /\ CollectedSecretsKept'
    BY <2>1, <2>3 DEF AddedIsNotHeld, CollectedSecretsKept, CompleteAppUpdate, AppTypes, TypeOK, Pending
  <2> QED BY <2>2, <2>4, <2>5
<1> QED BY <1>1, <1>2, <1>3, <1>4, <1>5

\* A saga that fails with its record still running.
LEMMA FailingKeeps ==
  ASSUME SecretInv, OnSm, op.status = "running",
         NEW recovery \in {"none", "rollback-required", "commit-required"}, FailedUpdate(recovery)
  PROVE  SecretInv'
<1> USE DEF SecretInv
<1>1. /\ sm' = "up" /\ sm = "up" /\ UNCHANGED <<disk, docker, agent, overlapped>>
      /\ op' = [op EXCEPT !.status = "failed"] /\ row' = [row EXCEPT !.recovery = recovery]
      /\ secretFile' = (secretFile /\ ~(recovery = "none" /\ op.added))
      /\ saga' = NoSaga /\ calls' = Free("keyed")
  BY DEF OnSm, host, FailedUpdate, FailAppUpdate
<1>2. calls' \in [Callers -> CallTypes] /\ calls'["keyed"] = NoCall
  BY <1>1, FreeTypes DEF Callers
<1>3. AppTypes'
  <2>1. saga' \in SagaTypes /\ secretFile' \in BOOLEAN
    BY <1>1, NoCallIsACall
  <2> QED BY <1>1, <1>2, <2>1 DEF AppTypes, TypeOK, SagaTypes, CallTypes, Pending
<1>4. SagaRuns' /\ SagaRecorded'
  BY <1>1, <1>2 DEF SagaRuns, SagaRecorded, NoSaga
<1>5. AddedIsNotHeld' /\ CollectedSecretsKept'
  BY <1>1 DEF AddedIsNotHeld, CollectedSecretsKept, AppTypes, TypeOK, Pending
<1> QED BY <1>3, <1>4, <1>5

\* An update that fails, is refused, or is rolled back.
LEMMA FailuresKeep ==
  ASSUME SecretInv, CommitFails \/ RefuseUpdate \/ UpdateRolledBack \/ RollBackUpdate
  PROVE  SecretInv'
<1>1. ASSUME NEW k, NEW answers, k # "none", saga.kind = "update", Answered("keyed", k, answers)
      PROVE  op.status = "running"
  <2>1. calls["keyed"] # NoCall BY <1>1 DEF Answered, NoCall
  <2> QED BY <1>1, <2>1 DEF SecretInv, SagaRuns, SagaRecorded, AppTypes, SagaTypes
<1>2. CASE CommitFails
  <2>1. OnSm /\ op.status = "running" /\ FailedUpdate("commit-required")
    BY <1>2 DEF CommitFails, SecretInv, SagaRuns, SagaRecorded
  <2> QED BY <2>1, FailingKeeps
<1>3. CASE RefuseUpdate
  <2>1. OnSm /\ op.status = "running" BY <1>1, <1>3 DEF RefuseUpdate
  <2>2. FailedUpdate("rollback-required") \/ FailedUpdate("none")
    BY <1>3 DEF RefuseUpdate
  <2> QED BY <2>1, <2>2, FailingKeeps
<1>4. CASE UpdateRolledBack
  <2>1. OnSm /\ op.status = "running" /\ (FailedUpdate("none") \/ FailedUpdate("rollback-required"))
    BY <1>1, <1>4 DEF UpdateRolledBack
  <2> QED BY <2>1, FailingKeeps
<1>5. CASE RollBackUpdate
  <2> USE DEF SecretInv
  <2>1. /\ sm' = sm /\ UNCHANGED <<row, op, secretFile, saga, disk, docker, agent>>
        /\ Answered("keyed", "promote", Refusals)
        /\ Call("keyed", "rollback", saga.cand, row.digest)
    BY <1>5 DEF RollBackUpdate, OnSm, host, durable
  <2>2. calls' \in [Callers -> CallTypes] /\ overlapped' \in BOOLEAN
    <3>1. saga.cand \in Packages /\ row.digest \in Packages
      BY DEF AppTypes, TypeOK
    <3> QED BY <2>1, <3>1, RequestTypes DEF Callers, FirstStep
  <2>3. AppTypes' BY <2>1, <2>2 DEF AppTypes, TypeOK, CallTypes
  <2>4. calls["keyed"] # NoCall BY <2>1 DEF Answered, NoCall
  <2>5. SagaRuns' /\ SagaRecorded' /\ AddedIsNotHeld' /\ CollectedSecretsKept'
    BY <2>1, <2>4 DEF SagaRuns, SagaRecorded, AddedIsNotHeld, CollectedSecretsKept
  <2> QED BY <2>3, <2>5
<1> QED BY <1>2, <1>3, <1>4, <1>5

\* A record that is completed by what the disk holds, whoever finds it.
LEMMA CommittedTypes ==
  ASSUME AppTypes, AddedIsNotHeld, CollectedSecretsKept, row.recovery \in Pending,
         CommitPromoted, UNCHANGED secretFile
  PROVE  /\ row' \in [status : {"installed", "disabled", "absent"}, digest : Packages,
                      recovery : Pending \cup {"none", "retry-safe"}, held : BOOLEAN]
         /\ op' = [op EXCEPT !.status = "succeeded"] /\ overlapped' \in BOOLEAN
         /\ AddedIsNotHeld' /\ CollectedSecretsKept'
<1>1. /\ row' = [row EXCEPT !.digest = disk.installed, !.recovery = "none", !.held = row.held \/ op.added]
      /\ op' = [op EXCEPT !.status = "succeeded"]
      /\ overlapped' = (overlapped \/ InFlight("lost"))
  BY DEF CommitPromoted, CompleteAppUpdate
<1>2. (row.held \/ op.added) \in BOOLEAN /\ disk.installed \in Packages
  BY DEF AppTypes, TypeOK
<1>3. row' \in [status : {"installed", "disabled", "absent"}, digest : Packages,
                recovery : Pending \cup {"none", "retry-safe"}, held : BOOLEAN]
  BY <1>1, <1>2 DEF AppTypes, TypeOK
<1>4. overlapped' \in BOOLEAN BY <1>1 DEF AppTypes, TypeOK
<1>5. AddedIsNotHeld' /\ CollectedSecretsKept'
  BY <1>1 DEF AddedIsNotHeld, CollectedSecretsKept, AppTypes, TypeOK, Pending
<1> QED BY <1>1, <1>3, <1>4, <1>5

\* Recovery, by the owner and when Suite Manager starts.
LEMMA RecoveriesKeep ==
  ASSUME SecretInv, RecoverByCommit \/ RecoverByRollback \/ Recovered
                      \/ FailInterruptedUpdate \/ RecoverInterruptedUpdate
  PROVE  SecretInv'
<1> USE DEF SecretInv
<1>1. CASE RecoverByCommit
  <2>1. /\ sm' = "up" /\ sm = "up" /\ row.recovery \in Pending /\ CommitPromoted
        /\ saga = NoSaga /\ UNCHANGED <<secretFile, calls, saga, disk, docker, agent>>
    BY <1>1 DEF RecoverByCommit, Idle, OnSm, host
  <2>2. AppTypes'
    BY <2>1, CommittedTypes DEF AppTypes, TypeOK, CallTypes, SagaTypes
  <2>3. SagaRuns' /\ SagaRecorded'
    BY <2>1 DEF SagaRuns, SagaRecorded, NoSaga
  <2> QED BY <2>1, <2>2, <2>3, CommittedTypes
<1>2. CASE RecoverByRollback
  <2>1. /\ sm' = "up" /\ sm = "up" /\ op.status = "failed"
        /\ saga' = [NoSaga EXCEPT !.kind = "recover"] /\ Call("keyed", "rollback", op.cand, row.digest)
        /\ UNCHANGED <<row, op, secretFile, disk, docker, agent>>
    BY <1>2 DEF RecoverByRollback, Idle, OnSm, host, durable
  <2>2. calls' \in [Callers -> CallTypes] /\ overlapped' \in BOOLEAN
    <3>1. op.cand \in Packages /\ row.digest \in Packages
      BY DEF AppTypes, TypeOK
    <3> QED BY <2>1, <3>1, RequestTypes DEF Callers, FirstStep
  <2>3. AppTypes'
    <3>1. saga' \in SagaTypes BY <2>1, NoCallIsACall DEF SagaTypes
    <3> QED BY <2>1, <2>2, <3>1 DEF AppTypes, TypeOK, CallTypes, SagaTypes
  <2>4. SagaRuns' /\ SagaRecorded' /\ AddedIsNotHeld' /\ CollectedSecretsKept'
    BY <2>1 DEF SagaRuns, SagaRecorded, AddedIsNotHeld, CollectedSecretsKept, NoSaga
  <2> QED BY <2>3, <2>4
<1>3. CASE Recovered
  <2>1. /\ sm' = "up" /\ sm = "up" /\ saga.kind = "recover" /\ saga' = NoSaga /\ calls' = Free("keyed")
        /\ UNCHANGED <<op, disk, docker, agent, overlapped>>
        /\ \/ /\ row' = [row EXCEPT !.recovery = "none"]
              /\ secretFile' = (secretFile /\ ~(op.added /\ ~row.held))
           \/ UNCHANGED <<row, secretFile>>
    BY <1>3 DEF Recovered, OnSm, host, ClearAppUpdateRecovery
  <2>2. calls' \in [Callers -> CallTypes] /\ calls'["keyed"] = NoCall
    BY <2>1, FreeTypes DEF Callers
  <2>3. AppTypes'
    <3>1. saga' \in SagaTypes /\ secretFile' \in BOOLEAN
      BY <2>1, NoCallIsACall DEF AppTypes, TypeOK
    <3> QED BY <2>1, <2>2, <3>1 DEF AppTypes, TypeOK, CallTypes, SagaTypes
  <2>4. SagaRuns' /\ SagaRecorded'
    BY <2>1, <2>2 DEF SagaRuns, SagaRecorded, NoSaga
  <2>5. AddedIsNotHeld' /\ CollectedSecretsKept'
    BY <2>1 DEF AddedIsNotHeld, CollectedSecretsKept, SagaRecorded, AppTypes, TypeOK, Pending
  <2> QED BY <2>3, <2>4, <2>5
<1>4. CASE FailInterruptedUpdate
  <2>1. /\ sm = "down" /\ sm' = "recovering"
        /\ \/ /\ op.status = "running" /\ op' = [op EXCEPT !.status = "failed"]
              /\ row' = [row EXCEPT !.recovery = RecoveryStateFor(op.stage)]
           \/ UNCHANGED <<op, row>>
        /\ UNCHANGED <<secretFile, disk, docker, calls, agent, saga, overlapped>>
    BY <1>4 DEF FailInterruptedUpdate, host, FailAppUpdate, InterruptedAppUpdates
  <2>2. RecoveryStateFor(op.stage) \in {"commit-required", "rollback-required", "retry-safe"}
    BY DEF RecoveryStateFor
  <2>3. AppTypes'
    BY <2>1, <2>2 DEF AppTypes, TypeOK, CallTypes, SagaTypes, Pending
  <2>4. SagaRuns' /\ SagaRecorded'
    BY <2>1 DEF SagaRuns, SagaRecorded, NoSaga
  <2>5. AddedIsNotHeld' /\ CollectedSecretsKept'
    BY <2>1, <2>2 DEF AddedIsNotHeld, CollectedSecretsKept, AppTypes, TypeOK, Pending
  <2> QED BY <2>3, <2>4, <2>5
<1>5. CASE RecoverInterruptedUpdate
  <2>1. /\ sm = "recovering" /\ sm' = "up"
        /\ \/ row.recovery \in Pending /\ CommitPromoted
           \/ UNCHANGED <<row, op, overlapped>>
        /\ UNCHANGED <<secretFile, disk, docker, calls, agent, saga>>
    BY <1>5 DEF RecoverInterruptedUpdate, host
  <2>2. AppTypes'
    BY <2>1, CommittedTypes DEF AppTypes, TypeOK, CallTypes, SagaTypes
  <2>3. SagaRuns' /\ SagaRecorded'
    BY <2>1 DEF SagaRuns, SagaRecorded, NoSaga
  <2>4. AddedIsNotHeld' /\ CollectedSecretsKept'
    BY <2>1, CommittedTypes DEF AddedIsNotHeld, CollectedSecretsKept
  <2> QED BY <2>2, <2>3, <2>4
<1> QED BY <1>1, <1>2, <1>3, <1>4, <1>5

\* The handlers of enable, disable and uninstall, and the applies without the key.
LEMMA OthersKeep ==
  ASSUME SecretInv, BeginLifecycle \/ EndLifecycle \/ FreeApply \/ FreeApplied \/ HangUp
  PROVE  SecretInv'
<1> USE DEF SecretInv
<1>1. row.digest \in Packages /\ NoPackage \in Packages
  BY DEF AppTypes, TypeOK, Packages
<1>2. CASE BeginLifecycle
  <2>1. /\ sm' = "up" /\ sm = "up" /\ UNCHANGED <<row, op, secretFile, disk, docker, agent>>
        /\ \E kind \in {"disable", "enable", "uninstall"} : saga' = [NoSaga EXCEPT !.kind = kind]
    BY <1>2 DEF BeginLifecycle, Idle, OnSm, host, durable
  <2>2. \/ Call("keyed", "stop", NoPackage, row.digest)
        \/ Call("keyed", "apply", NoPackage, row.digest)
        \/ Call("keyed", "remove", NoPackage, row.digest)
    BY <1>2 DEF BeginLifecycle
  <2>3. calls' \in [Callers -> CallTypes] /\ overlapped' \in BOOLEAN
    BY <1>1, <2>2, RequestTypes DEF Callers, FirstStep
  <2>4. AppTypes'
    <3>1. saga' \in SagaTypes BY <2>1, NoCallIsACall DEF SagaTypes
    <3> QED BY <2>1, <2>3, <3>1 DEF AppTypes, TypeOK, CallTypes, SagaTypes
  <2>5. SagaRuns' /\ SagaRecorded' /\ AddedIsNotHeld' /\ CollectedSecretsKept'
    BY <2>1 DEF SagaRuns, SagaRecorded, AddedIsNotHeld, CollectedSecretsKept, NoSaga
  <2> QED BY <2>4, <2>5
<1>3. CASE EndLifecycle
  <2>1. /\ sm' = "up" /\ sm = "up" /\ saga' = NoSaga /\ calls' = Free("keyed")
        /\ UNCHANGED <<disk, docker, agent, overlapped>>
        /\ \/ row' = [row EXCEPT !.status = "disabled"] /\ UNCHANGED <<op, secretFile>>
           \/ row' = [row EXCEPT !.status = "installed"] /\ UNCHANGED <<op, secretFile>>
           \/ DeleteAppInstance /\ secretFile' = FALSE
           \/ UNCHANGED <<row, op, secretFile>>
    BY <1>3 DEF EndLifecycle, OnSm, host, durable, MarkAppDisabled, MarkAppEnabled
  <2>2. calls' \in [Callers -> CallTypes] /\ calls'["keyed"] = NoCall
    BY <2>1, FreeTypes DEF Callers
  <2>3. AppTypes'
    <3>1. saga' \in SagaTypes /\ secretFile' \in BOOLEAN
      BY <2>1, NoCallIsACall DEF AppTypes, TypeOK
    <3> DEFINE Rows == [status : {"installed", "disabled", "absent"}, digest : Packages,
                        recovery : Pending \cup {"none", "retry-safe"}, held : BOOLEAN]
               Ops == [status : {"none", "running", "failed", "succeeded"},
                       stage : {"none", "candidate-verified", "candidate-staged",
                                "candidate-built", "candidate-healthy", "snapshot-promoted"},
                       cand : Packages, added : BOOLEAN]
    <3>2. row \in Rows /\ op \in Ops BY DEF AppTypes, TypeOK
    <3>3. row' \in Rows /\ op' \in Ops
      <4>1. CASE DeleteAppInstance
        BY <1>1, <4>1 DEF DeleteAppInstance
      <4>2. CASE \E status \in {"disabled", "installed"} : row' = [row EXCEPT !.status = status]
                 /\ op' = op
        BY <3>2, <4>2
      <4>3. CASE UNCHANGED <<row, op>>
        BY <3>2, <4>3
      <4> QED BY <2>1, <4>1, <4>2, <4>3
    <3>4. UNCHANGED <<disk, docker, agent, overlapped>> /\ sm' = "up"
      BY <2>1
    <3> QED BY <2>2, <3>1, <3>3, <3>4 DEF AppTypes, TypeOK, CallTypes, SagaTypes
  <2>4. SagaRuns' /\ SagaRecorded'
    BY <2>1, <2>2 DEF SagaRuns, SagaRecorded, NoSaga
  <2>5. AddedIsNotHeld' /\ CollectedSecretsKept'
    BY <2>1 DEF AddedIsNotHeld, CollectedSecretsKept, DeleteAppInstance, AppTypes, TypeOK
  <2> QED BY <2>3, <2>4, <2>5
<1>4. CASE FreeApply
  <2>1. /\ sm' = "up" /\ sm = "up" /\ UNCHANGED <<row, op, secretFile, saga, disk, docker, agent>>
        /\ Call("free", "apply", NoPackage, row.digest)
    BY <1>4 DEF FreeApply, OnSm, host, durable
  <2>2. /\ calls' \in [Callers -> CallTypes] /\ overlapped' \in BOOLEAN
        /\ calls'["keyed"] = calls["keyed"]
    BY <1>1, <2>1, RequestTypes DEF Callers, FirstStep
  <2>3. AppTypes' BY <2>1, <2>2 DEF AppTypes, TypeOK, CallTypes
  <2>4. SagaRuns' /\ SagaRecorded' /\ AddedIsNotHeld' /\ CollectedSecretsKept'
    BY <2>1, <2>2 DEF SagaRuns, SagaRecorded, AddedIsNotHeld, CollectedSecretsKept
  <2> QED BY <2>3, <2>4
<1>5. CASE FreeApplied
  <2>1. /\ sm' = "up" /\ sm = "up" /\ calls' = Free("free")
        /\ UNCHANGED <<row, op, secretFile, saga, disk, docker, agent, overlapped>>
    BY <1>5 DEF FreeApplied, OnSm, host, durable
  <2>2. calls' \in [Callers -> CallTypes] /\ calls'["keyed"] = calls["keyed"]
    BY <2>1, FreeTypes DEF Callers
  <2>3. AppTypes' BY <2>1, <2>2 DEF AppTypes, TypeOK, CallTypes
  <2>4. SagaRuns' /\ SagaRecorded' /\ AddedIsNotHeld' /\ CollectedSecretsKept'
    BY <2>1, <2>2 DEF SagaRuns, SagaRecorded, AddedIsNotHeld, CollectedSecretsKept
  <2> QED BY <2>3, <2>4
<1>6. CASE HangUp
  <2> DEFINE c == [calls["keyed"] EXCEPT !.pc = "answered", !.answer = "timeout"]
  <2>1. /\ sm' = "up" /\ sm = "up" /\ InFlight("keyed")
        /\ calls' = [calls EXCEPT !["lost"] = calls["keyed"], !["keyed"] = c]
        /\ UNCHANGED <<row, op, secretFile, saga, disk, docker, agent, overlapped>>
    BY <1>6 DEF HangUp, OnSm, host, durable
  <2>2. calls["keyed"] # NoCall BY <2>1 DEF InFlight, NoCall
  <2>3. c \in CallTypes /\ calls["keyed"] \in CallTypes
    <3>1. calls["keyed"] \in CallTypes BY DEF AppTypes, Callers
    <3> QED BY <3>1 DEF CallTypes, Pcs, Answers, Refusals
  <2> HIDE DEF c
  <2>4. calls' \in [Callers -> CallTypes] BY <2>1, <2>3 DEF AppTypes
  <2>5. AppTypes' BY <2>1, <2>4 DEF AppTypes, TypeOK, CallTypes
  <2>6. SagaRuns' /\ SagaRecorded' /\ AddedIsNotHeld' /\ CollectedSecretsKept'
    BY <2>1, <2>2 DEF SagaRuns, SagaRecorded, AddedIsNotHeld, CollectedSecretsKept
  <2> QED BY <2>5, <2>6
<1> QED BY <1>2, <1>3, <1>4, <1>5, <1>6

\* Either process dies, and the agent starts again.
LEMMA CrashesKeep ==
  ASSUME SecretInv, SmCrash \/ AgentCrash \/ AgentStart \/ SweepInterruptedPromotions
  PROVE  SecretInv'
<1> USE DEF SecretInv
<1>1. CASE SmCrash
  <2>1. /\ sm' = "down" /\ saga' = NoSaga
        /\ UNCHANGED <<row, op, secretFile, disk, docker, agent, overlapped>>
    BY <1>1 DEF SmCrash, durable, host
  <2>2. PICK s \in Callers : calls' = [NoCalls EXCEPT !["lost"] = IF InFlight(s) THEN calls[s] ELSE calls["lost"]]
    BY <1>1 DEF SmCrash, Callers
  <2>3. calls' \in [Callers -> CallTypes] /\ calls'["keyed"] = NoCall
    <3> DEFINE left == IF InFlight(s) THEN calls[s] ELSE calls["lost"]
    <3>1. left \in CallTypes BY DEF AppTypes, Callers
    <3>2. calls' = [NoCalls EXCEPT !["lost"] = left] BY <2>2
    <3> HIDE DEF left, CallTypes
    <3> QED BY <3>1, <3>2, NoCallIsACall DEF NoCalls, Callers
  <2>4. AppTypes'
    BY <2>1, <2>3, NoCallIsACall DEF AppTypes, TypeOK, CallTypes, SagaTypes
  <2>5. SagaRuns' /\ SagaRecorded' /\ AddedIsNotHeld' /\ CollectedSecretsKept'
    BY <2>1, <2>3 DEF SagaRuns, SagaRecorded, AddedIsNotHeld, CollectedSecretsKept, NoSaga
  <2> QED BY <2>4, <2>5
<1>2. CASE AgentCrash
  <2>1. /\ agent' = "down" /\ UNCHANGED <<row, op, secretFile, disk, docker, sm, saga, overlapped>>
        /\ calls' = [s \in Callers |->
             IF ~InFlight(s) THEN calls[s]
             ELSE IF s = "lost" THEN NoCall
             ELSE [calls[s] EXCEPT !.pc = "answered", !.answer = "unavailable"]]
    BY <1>2 DEF AgentCrash, durable, host
  <2>2. \A s \in Callers : [calls[s] EXCEPT !.pc = "answered", !.answer = "unavailable"] \in CallTypes
    <3>1. \A s \in Callers : calls[s] \in CallTypes BY DEF AppTypes
    <3> QED BY <3>1 DEF CallTypes, Pcs, Answers, Refusals
  <2>3. calls' \in [Callers -> CallTypes]
    <3> HIDE DEF CallTypes
    <3> QED BY <2>1, <2>2, NoCallIsACall DEF AppTypes
  <2>4. calls["keyed"] = NoCall => calls'["keyed"] = NoCall
    BY <2>1 DEF InFlight, NoCall, Callers
  <2>5. AppTypes'
    <3>1. agent' = "down" /\ UNCHANGED <<row, op, secretFile, disk, docker, sm, saga, overlapped>>
      BY <2>1
    <3> QED BY <2>3, <3>1 DEF AppTypes, TypeOK, CallTypes
  <2>6. SagaRuns' /\ SagaRecorded' /\ AddedIsNotHeld' /\ CollectedSecretsKept'
    BY <2>1, <2>4 DEF SagaRuns, SagaRecorded, AddedIsNotHeld, CollectedSecretsKept
  <2> QED BY <2>5, <2>6
<1>3. CASE AgentStart \/ SweepInterruptedPromotions
  <2>1. /\ agent' \in {"up", "sweeping"} /\ disk' \in {disk, Repaired(disk)}
        /\ UNCHANGED <<row, op, secretFile, docker, calls, sm, saga, overlapped>>
    BY <1>3 DEF AgentStart, SweepInterruptedPromotions, durable, host
  <2>2. disk' \in [{"installed", "candidate", "displaced", "previous"} -> Packages]
    <3>1. /\ disk \in [{"installed", "candidate", "displaced", "previous"} -> Packages]
          /\ NoPackage \in Packages
      BY DEF AppTypes, TypeOK, Packages
    <3> QED BY <2>1, <3>1 DEF Repaired
  <2>3. AppTypes' BY <2>1, <2>2 DEF AppTypes, TypeOK, CallTypes
  <2>4. SagaRuns' /\ SagaRecorded' /\ AddedIsNotHeld' /\ CollectedSecretsKept'
    BY <2>1 DEF SagaRuns, SagaRecorded, AddedIsNotHeld, CollectedSecretsKept
  <2> QED BY <2>3, <2>4
<1> QED BY <1>1, <1>2, <1>3

LEMMA SecretInitially == Init => SecretInv
<1> SUFFICES ASSUME Init PROVE SecretInv
  OBVIOUS
<1>1. PICK v \in Versions :
        /\ row = [status |-> "installed", digest |-> v, recovery |-> "none", held |-> FALSE]
        /\ disk = [installed |-> v, candidate |-> NoPackage, displaced |-> NoPackage,
                   previous |-> NoPackage]
        /\ docker = [run |-> v, route |-> v]
  BY DEF Init
<1>2. /\ op = [status |-> "none", stage |-> "none", cand |-> NoPackage, added |-> FALSE]
      /\ secretFile = FALSE /\ calls = NoCalls /\ agent = "up" /\ sm = "up" /\ saga = NoSaga
      /\ overlapped = FALSE
  BY DEF Init
<1>3. v \in Packages /\ NoPackage \in Packages BY DEF Packages
<1>4. calls \in [Callers -> CallTypes] /\ saga \in SagaTypes /\ calls["keyed"] = NoCall
  <2> HIDE DEF CallTypes
  <2> QED BY <1>2, NoCallIsACall DEF NoCalls, Callers
<1>5. disk \in [{"installed", "candidate", "displaced", "previous"} -> Packages]
  BY <1>1, <1>3
<1>6. AppTypes
  BY <1>1, <1>2, <1>3, <1>4, <1>5 DEF AppTypes, TypeOK, CallTypes, SagaTypes
<1>7. SagaRuns /\ SagaRecorded /\ AddedIsNotHeld /\ CollectedSecretsKept
  BY <1>1, <1>2, <1>4 DEF SagaRuns, SagaRecorded, AddedIsNotHeld, CollectedSecretsKept, NoSaga
<1> QED BY <1>6, <1>7 DEF SecretInv

LEMMA SecretKept == SecretInv /\ [Next]_vars => SecretInv'
<1>1. SUFFICES ASSUME SecretInv, [Next]_vars PROVE SecretInv'
  OBVIOUS
<1>2. CASE UNCHANGED vars
  BY <1>1, <1>2 DEF vars, SecretInv, AppTypes, TypeOK, CallTypes, SagaTypes, SagaRuns, SagaRecorded,
                    AddedIsNotHeld, CollectedSecretsKept
<1>3. CASE \E s \in Callers : AgentStep(s)
  BY <1>1, <1>3, AgentKeeps
<1> QED BY <1>1, <1>2, <1>3, SagaKeeps, FailuresKeep, RecoveriesKeep, OthersKeep, CrashesKeep DEF Next, Saga

LEMMA SecretInvHolds == Spec => []SecretInv
PROOF
BY SecretInitially, SecretKept, PTL DEF Spec

-----------------------------------------------------------------------------
(* The theorems. *)

\* Every state of the app, its handlers and its record is of the declared types.
THEOREM TypeCorrect == Spec => []TypeOK
<1>1. SecretInv => TypeOK BY DEF SecretInv, AppTypes
<1> QED BY <1>1, SecretInvHolds, PTL

\* The secret an update collected is on disk while the update runs or waits
\* for its recovery, and ever after its commit: whichever process dies when,
\* whatever handler runs on unheard (app-update-service.cjs, FailedUpdate).
THEOREM CollectedSecretsAreKept == Spec => []CollectedSecretsKept
<1>1. SecretInv => CollectedSecretsKept BY DEF SecretInv
<1> QED BY <1>1, SecretInvHolds, PTL
-----------------------------------------------------------------------------
(* A recovery that is due can be performed: the inductive invariant.  What  *)
(* it says of the disk is of handlers that did not overlap.                 *)

\* The installed package, the candidate and the displaced one, by the stages of
\* an update: before it, with the candidate staged, cut in two by one rename
\* or by two, and after it.
Before == disk.installed = row.digest /\ disk.displaced = NoPackage
Ready  == Before /\ disk.candidate = op.cand
CutOff == /\ disk.installed = NoPackage /\ disk.candidate = op.cand
          /\ disk.displaced = row.digest
CutIn  == /\ disk.installed = op.cand /\ disk.candidate = NoPackage
          /\ disk.displaced = row.digest
After  == disk.installed = op.cand /\ disk.displaced = NoPackage

Due == op.status = "running" \/ row.recovery \in Pending

\* What is on record names a package.
RecordNames ==
  /\ row.status # "absent" => row.digest # NoPackage
  /\ op.status \in {"running", "failed"} => op.cand # NoPackage /\ row.status # "absent"
  /\ saga.kind # "none" => row.status # "absent"
  /\ saga.kind = "update" => saga.cand # NoPackage

\* A record that runs has its saga, or its Suite Manager died; one that waits for
\* a recovery got far enough to need it.
RecordRuns ==
  /\ op.status = "running" =>
       /\ row.recovery = "none"
       /\ sm = "down" \/ (saga.kind = "update" /\ saga.stage = "recorded")
  /\ row.recovery \in Pending =>
       /\ op.status = "failed" /\ saga.kind # "update"
       /\ op.stage \in {"candidate-built", "candidate-healthy", "snapshot-promoted"}
  /\ row.recovery = "commit-required" => op.stage = "snapshot-promoted"

\* The stage on record during each request of a saga.
StageDuring == [stage |-> "candidate-verified", build |-> "candidate-staged",
                activate |-> "candidate-built", restore |-> "candidate-built",
                promote |-> "candidate-healthy", rollback |-> "candidate-healthy"]

SagaFollows ==
  saga.kind = "update" /\ saga.stage = "recorded" =>
    /\ saga.cand = op.cand
    /\ saga.promoted => op.stage = "snapshot-promoted"
    /\ ~saga.promoted => /\ calls["keyed"].kind \in DOMAIN StageDuring
                         /\ op.stage = StageDuring[calls["keyed"].kind]

\* Handlers run in an agent that is up; what the requests nobody waits for can
\* be, and what an answer means.
CallsFit ==
  /\ \A s \in Callers : InFlight(s) =>
       agent = "up" /\ calls[s].kind # "none" /\ calls[s].answer = "none"
  /\ calls["free"].kind \in {"none", "apply"}
  /\ calls["lost"] = NoCall \/ InFlight("lost")
  /\ calls["keyed"].answer = "rollback-failed" => calls["keyed"].kind \in {"restore", "rollback"}

\* One handler at a time; a lost one is what a request hung up on left behind.
Alone ==
  /\ \A s, t \in Callers : InFlight(s) /\ InFlight(t) => s = t
  /\ InFlight("lost") =>
       \/ calls["keyed"].kind = "none" /\ ~saga.promoted
       \/ /\ calls["keyed"].kind = calls["lost"].kind /\ calls["keyed"].answer = "timeout"
          /\ calls["keyed"].kind \in {"stage", "promote", "stop", "remove"}

\* A handler that works on snapshots works on those of the record.
HandlersKnow ==
  \A s \in Callers : InFlight(s) /\ calls[s].kind \in DOMAIN StageDuring =>
    /\ calls[s].cand = op.cand /\ calls[s].inst = row.digest /\ row.status # "absent"
    /\ calls[s].kind = "stage" => op.stage = "candidate-verified"
    /\ calls[s].kind = "promote" => Due /\ op.stage = "candidate-healthy"

\* Where the handlers that rename are.
HandlersRename ==
  \A s \in Callers : InFlight(s) =>
    /\ calls[s].kind = "stage" /\ calls[s].pc = "copy" => Before
    /\ calls[s].kind = "promote" /\ calls[s].pc = "displace" => Ready
    /\ calls[s].kind = "promote" /\ calls[s].pc = "install" => CutOff
    /\ calls[s].kind = "promote" /\ calls[s].pc \in {"forget", "retain"} => CutIn

\* A displaced snapshot is a promotion's, one that runs or one that died.
Displacing == \E s \in Callers : /\ InFlight(s) /\ calls[s].kind = "promote"
                                 /\ calls[s].pc \in {"install", "forget", "retain"}
DisplacedIsPromoted ==
  disk.displaced # NoPackage =>
    /\ agent # "up" \/ Displacing
    /\ disk.installed = NoPackage \/ disk.candidate = NoPackage

\* The disk at each stage of an update that runs or waits for its recovery.
DiskFollows ==
  /\ saga.kind = "update" /\ saga.stage = "none" => Before \/ Discarded
  /\ Due => \/ Discarded
            \/ op.stage = "candidate-verified" /\ Before
            \/ op.stage \in {"candidate-staged", "candidate-built"} /\ Ready
            \/ op.stage = "candidate-healthy" /\ (Ready \/ CutOff \/ CutIn \/ After)
            \/ op.stage = "snapshot-promoted" /\ After
  /\ saga.kind = "update" =>
       /\ Answered("keyed", "stage", {"ok"}) => Ready
       /\ Answered("keyed", "promote", {"ok"}) => After

RecordInv == RecordNames /\ RecordRuns /\ SagaFollows /\ CallsFit
DiskInv == Alone /\ HandlersKnow /\ HandlersRename /\ DisplacedIsPromoted /\ DiskFollows
RecoveryInv == RecordInv /\ (~overlapped => DiskInv)

-----------------------------------------------------------------------------
(* What the agent's steps do to it. *)

\* A step of a handler, as Suite Manager and the other handlers see it.
LEMMA StepIsSeen ==
  ASSUME SecretInv, CallsFit, NEW s \in Callers, AgentStep(s)
  PROVE  /\ \A t \in Callers \ {s} : calls'[t] = calls[t]
         /\ InFlight(s)' \/ (s # "lost" /\ calls'[s].pc = "answered") =>
              /\ calls'[s].cand = calls[s].cand /\ calls'[s].inst = calls[s].inst
              /\ \/ calls'[s].kind = calls[s].kind
                 \/ calls[s].kind = "activate" /\ calls'[s].kind = "restore"
                    /\ calls'[s].pc = "stop"
         /\ s = "lost" => InFlight(s)' \/ calls'[s] = NoCall
         /\ s # "lost" => InFlight(s)' \/ calls'[s].pc = "answered"
         /\ CallsFit'
<1>1. OnAgent /\ MovesOn(s) /\ calls[s].kind # "none" /\ InFlight(s)
  BY AgentMoves DEF SecretInv
<1>2. calls[s] \in CallTypes /\ calls \in [Callers -> CallTypes] /\ agent' = agent /\ agent = "up"
      /\ calls[s].answer = "none"
  BY <1>1 DEF OnAgent, CallsFit, SecretInv, AppTypes
<1>3. /\ \A t \in Callers \ {s} : calls'[t] = calls[t]
      /\ InFlight(s)' => calls'[s].kind # "none" /\ calls'[s].answer = "none"
      /\ s # "lost" => \/ calls'[s].kind = calls[s].kind
                       \/ calls[s].kind = "activate" /\ calls'[s].kind = "restore"
      /\ s = "lost" => InFlight(s)' \/ calls'[s] = NoCall
      /\ calls'[s].answer = "rollback-failed" => calls'[s].kind \in {"restore", "rollback"}
      => CallsFit'
  BY <1>1, <1>2 DEF InFlight, CallsFit, Callers
<1>4. ASSUME NEW a \in Answers, Answer(s, a)
      PROVE  /\ \A t \in Callers \ {s} : calls'[t] = calls[t]
             /\ s = "lost" => calls'[s] = NoCall
             /\ s # "lost" => calls'[s] = [calls[s] EXCEPT !.pc = "answered", !.answer = a]
  BY <1>2, <1>4 DEF Answer
<1>5. CASE \E pc \in Pcs \ {"idle", "answered"} : Goto(s, pc)
  <2>1. PICK pc \in Pcs \ {"idle", "answered"} : Goto(s, pc)
    BY <1>5
  <2>2. /\ \A t \in Callers \ {s} : calls'[t] = calls[t]
        /\ calls'[s] = [calls[s] EXCEPT !.pc = pc]
    BY <1>2, <2>1 DEF Goto
  <2>3. /\ calls'[s].pc = pc /\ calls'[s].kind = calls[s].kind /\ calls'[s].cand = calls[s].cand
        /\ calls'[s].inst = calls[s].inst /\ calls'[s].answer = "none" /\ InFlight(s)'
    BY <1>2, <2>2 DEF CallTypes, InFlight
  <2>4. CallsFit' BY <1>1, <1>3, <2>2, <2>3 DEF InFlight
  <2> QED BY <2>2, <2>3, <2>4
<1>6. CASE \E a \in Answers : Answer(s, a)
                 /\ (a = "rollback-failed" => calls[s].kind \in {"restore", "rollback"})
  <2>1. PICK a \in Answers : Answer(s, a)
                 /\ (a = "rollback-failed" => calls[s].kind \in {"restore", "rollback"})
    BY <1>6
  <2>2. CASE s = "lost"
    <3>1. ~InFlight(s)' /\ calls'[s] = NoCall
      BY <1>4, <2>1, <2>2 DEF InFlight, NoCall
    <3> QED BY <1>3, <1>4, <2>1, <2>2, <3>1 DEF NoCall
  <2>3. CASE s # "lost"
    <3>1. /\ calls'[s].pc = "answered" /\ calls'[s].kind = calls[s].kind /\ ~InFlight(s)'
          /\ calls'[s].cand = calls[s].cand /\ calls'[s].inst = calls[s].inst
          /\ calls'[s].answer = a
      BY <1>2, <1>4, <2>1, <2>3 DEF CallTypes, InFlight
    <3>2. CallsFit' BY <1>3, <1>4, <2>1, <2>3, <3>1 DEF InFlight
    <3> QED BY <1>4, <2>1, <2>3, <3>1, <3>2
  <2> QED BY <2>2, <2>3
<1>7. CASE /\ calls[s].kind = "activate"
           /\ calls' = [calls EXCEPT ![s].kind = "restore", ![s].pc = "stop"]
  <2>1. /\ \A t \in Callers \ {s} : calls'[t] = calls[t]
        /\ calls'[s] = [calls[s] EXCEPT !.kind = "restore", !.pc = "stop"]
    BY <1>2, <1>7
  <2>2. /\ calls'[s].pc = "stop" /\ calls'[s].kind = "restore" /\ calls'[s].cand = calls[s].cand
        /\ calls'[s].inst = calls[s].inst /\ calls'[s].answer = "none" /\ InFlight(s)'
    BY <1>2, <2>1 DEF CallTypes, InFlight
  <2> QED BY <1>3, <1>7, <2>1, <2>2
<1>8. CASE UNCHANGED calls
  BY <1>1, <1>2, <1>8 DEF InFlight, CallsFit
<1> QED BY <1>1, <1>5, <1>6, <1>7, <1>8 DEF MovesOn, Answers, Refusals

\* What an answer, or the next command, is to the saga.
LEMMA AnswerIsHeard ==
  ASSUME AppTypes, NEW s \in Callers, NEW a \in Answers, Answer(s, a)
  PROVE  /\ ~InFlight(s)'
         /\ \A k \in {"stage", "promote"} : Answered("keyed", k, {"ok"})' =>
              IF s = "keyed" THEN calls[s].kind = k /\ a = "ok" ELSE Answered("keyed", k, {"ok"})
<1>1. calls[s] \in CallTypes /\ calls \in [Callers -> CallTypes]
  BY DEF AppTypes
<1>2. /\ \A t \in Callers \ {s} : calls'[t] = calls[t]
      /\ s = "lost" => calls'[s] = NoCall
      /\ s # "lost" => calls'[s] = [calls[s] EXCEPT !.pc = "answered", !.answer = a]
  BY <1>1 DEF Answer
<1>3. ~InFlight(s)'
  <2>1. NoCall.pc = "idle" BY DEF NoCall
  <2>2. s # "lost" => calls'[s].pc = "answered"
    BY <1>1, <1>2 DEF CallTypes
  <2> QED BY <1>2, <2>1, <2>2 DEF InFlight
<1>4. CASE s = "keyed"
  <2>1. calls'["keyed"].kind = calls["keyed"].kind /\ calls'["keyed"].answer = a
    BY <1>1, <1>2, <1>4 DEF CallTypes
  <2> QED BY <1>3, <1>4, <2>1 DEF Answered
<1>5. CASE s # "keyed"
  BY <1>2, <1>3, <1>5 DEF Answered, Callers
<1> QED BY <1>3, <1>4, <1>5

\* A handler that goes on has not answered.
LEMMA GoingIsNoAnswer ==
  ASSUME AppTypes, NEW s \in Callers, NEW pc \in Pcs \ {"idle", "answered"}, Goto(s, pc)
  PROVE  /\ calls'[s].kind = calls[s].kind /\ calls'[s].pc = pc
         /\ \A k \in {"stage", "promote"} :
              Answered("keyed", k, {"ok"})' => Answered("keyed", k, {"ok"})
<1>1. calls[s] \in CallTypes /\ calls \in [Callers -> CallTypes]
  BY DEF AppTypes
<1>2. /\ \A t \in Callers \ {s} : calls'[t] = calls[t]
      /\ calls'[s] = [calls[s] EXCEPT !.pc = pc]
  BY <1>1 DEF Goto
<1>3. calls'[s].kind = calls[s].kind /\ calls'[s].pc = pc
  BY <1>1, <1>2 DEF CallTypes
<1> QED BY <1>2, <1>3 DEF Answered, Callers

\* The agent's steps leave the record alone and keep the handlers fitting it.
LEMMA AgentKeepsRecord ==
  ASSUME SecretInv, RecordInv, NEW s \in Callers, AgentStep(s)
  PROVE  RecordInv'
<1> USE DEF RecordInv
<1>1. UNCHANGED <<row, op, agent, sm, saga>>
  BY AgentMoves DEF SecretInv, OnAgent, durable
<1>2. RecordNames' /\ RecordRuns' BY <1>1 DEF RecordNames, RecordRuns
<1>3. SagaFollows'
  <2>1. /\ \A t \in Callers \ {s} : calls'[t] = calls[t]
        /\ s # "lost" => \/ calls'[s].kind = calls[s].kind
                         \/ calls[s].kind = "activate" /\ calls'[s].kind = "restore"
    BY StepIsSeen
  <2>2. \/ calls'["keyed"].kind = calls["keyed"].kind
        \/ calls["keyed"].kind = "activate" /\ calls'["keyed"].kind = "restore"
    BY <2>1 DEF Callers
  <2> QED BY <1>1, <2>2 DEF SagaFollows, StageDuring
<1> QED BY <1>2, <1>3, StepIsSeen

\* The other handlers rest while one steps, and it stays what it is.
LEMMA OneHandlerSteps ==
  ASSUME SecretInv, RecordInv, DiskInv, NEW s \in Callers, AgentStep(s)
  PROVE  /\ \A t \in Callers : t # s => ~InFlight(t) /\ ~InFlight(t)'
         /\ Alone' /\ HandlersKnow'
         /\ agent' = "up" /\ agent = "up"
         /\ calls[s].kind # "promote" => disk.displaced = NoPackage
         /\ s = "free" => calls[s].kind = "apply"
         /\ s # "free" => \A k \in {"stage", "promote"} : ~Answered("keyed", k, {"ok"})
<1> USE DEF RecordInv, DiskInv
<1>1. /\ UNCHANGED <<row, op, agent, sm, saga>> /\ InFlight(s)
  BY AgentMoves DEF SecretInv, OnAgent, durable
<1>2. \A t \in Callers : t # s => ~InFlight(t) /\ ~InFlight(t)'
  BY <1>1, StepIsSeen DEF Alone, InFlight
<1>3. agent' = "up" /\ agent = "up" BY <1>1 DEF CallsFit
<1>4. Alone'
  <2>1. CASE s = "lost"
    BY <1>1, <1>2, <2>1, StepIsSeen DEF Alone, Callers
  <2>2. CASE s # "lost"
    BY <1>1, <1>2, <2>2, StepIsSeen DEF Alone, Callers
  <2> QED BY <2>1, <2>2
<1>5. HandlersKnow'
  <2>1. SUFFICES ASSUME InFlight(s)', calls'[s].kind \in DOMAIN StageDuring
                 PROVE  /\ calls'[s].cand = op.cand /\ calls'[s].inst = row.digest
                        /\ row.status # "absent"
                        /\ calls'[s].kind = "stage" => op.stage = "candidate-verified"
                        /\ calls'[s].kind = "promote" => Due /\ op.stage = "candidate-healthy"
    BY <1>1, <1>2 DEF HandlersKnow, Due
  <2> QED BY <1>1, <2>1, StepIsSeen DEF HandlersKnow, StageDuring
<1>6. calls[s].kind # "promote" => disk.displaced = NoPackage
  BY <1>1, <1>2, <1>3 DEF DisplacedIsPromoted, Displacing
<1>7. s = "free" => calls[s].kind = "apply" BY <1>1 DEF CallsFit
<1>8. s # "free" => \A k \in {"stage", "promote"} : ~Answered("keyed", k, {"ok"})
  BY <1>1 DEF Alone, Answered, InFlight, Callers
<1> QED BY <1>2, <1>3, <1>4, <1>5, <1>6, <1>7, <1>8

\* A step that leaves the directories alone, of a handler that does not move them.
LEMMA QuietStep ==
  ASSUME SecretInv, RecordInv, DiskInv, NEW s \in Callers, AgentStep(s), disk' = disk,
         calls[s].kind \notin {"stage", "promote"}
  PROVE  DiskInv'
<1> USE DEF RecordInv, DiskInv
<1>1. UNCHANGED <<row, op, agent, sm, saga>> /\ InFlight(s)
  BY AgentMoves DEF SecretInv, OnAgent, durable
<1>2. calls'[s].kind \notin {"stage", "promote"} /\ \A t \in Callers \ {s} : calls'[t] = calls[t]
  <2>1. NoCall.kind = "none" BY DEF NoCall
  <2> QED BY <2>1, StepIsSeen
<1>3. HandlersRename' BY <1>2, OneHandlerSteps DEF HandlersRename
<1>4. DisplacedIsPromoted' BY OneHandlerSteps DEF DisplacedIsPromoted
<1>5. DiskFollows'
  <2>1. \A k \in {"stage", "promote"} :
          Answered("keyed", k, {"ok"})' => Answered("keyed", k, {"ok"})
    BY <1>2 DEF Answered, Callers
  <2> QED BY <1>1, <2>1 DEF DiskFollows, Due, Before, Ready, CutOff, CutIn, After, Discarded
<1> QED BY <1>3, <1>4, <1>5, OneHandlerSteps

\* The copy of a candidate beside the installed package.
LEMMA StageStep ==
  ASSUME SecretInv, RecordInv, DiskInv, NEW s \in Callers, Stage(s)
  PROVE  DiskInv'
<1> USE DEF RecordInv, DiskInv
<1>1. AgentStep(s) /\ calls[s].kind = "stage"
  BY DEF AgentStep, Stage, At
<1>2. UNCHANGED <<row, op, agent, sm, saga>> /\ InFlight(s)
  BY <1>1, AgentMoves DEF SecretInv, OnAgent, durable
<1>3. /\ calls[s].cand = op.cand /\ calls[s].inst = row.digest /\ row.digest # NoPackage
      /\ op.stage = "candidate-verified" /\ disk.displaced = NoPackage
  BY <1>1, <1>2, OneHandlerSteps DEF HandlersKnow, StageDuring, RecordNames
<1>4. calls \in [Callers -> CallTypes] /\ calls[s] \in CallTypes
      /\ disk \in [{"installed", "candidate", "displaced", "previous"} -> Packages]
  BY DEF SecretInv, AppTypes, TypeOK
<1>5. /\ \A t \in Callers : t # s => ~InFlight(t) /\ ~InFlight(t)'
      /\ Alone' /\ HandlersKnow' /\ \A t \in Callers \ {s} : calls'[t] = calls[t]
  BY <1>1, OneHandlerSteps, StepIsSeen
<1>6. s # "free" /\ \A k \in {"stage", "promote"} : ~Answered("keyed", k, {"ok"})
  BY <1>1, OneHandlerSteps
<1>7. SUFFICES /\ InFlight(s)' => calls'[s].kind = "stage" /\ Before'
               /\ Answered("keyed", "promote", {"ok"})' => FALSE
               /\ Answered("keyed", "stage", {"ok"})' => Ready'
               /\ disk' = disk \/ (Before /\ Before')
  <2>1. HandlersRename' BY <1>5, <1>7 DEF HandlersRename
  <2>2. DisplacedIsPromoted'
    BY <1>2, <1>3, <1>7 DEF DisplacedIsPromoted, Before
  <2>3. DiskFollows'
    BY <1>2, <1>3, <1>7 DEF DiskFollows, Due, Before, Ready, After, CutOff, CutIn, Discarded
  <2> QED BY <1>5, <2>1, <2>2, <2>3
<1>8. CASE disk' = disk /\ \E a \in {"changed", "error"} : Answer(s, a)
  BY <1>4, <1>6, <1>8, AnswerIsHeard DEF SecretInv, Answers, Refusals
<1>9. CASE Before /\ disk' = [disk EXCEPT !.candidate = NoPackage] /\ Goto(s, "copy")
  <2>1. Before' BY <1>2, <1>4, <1>9 DEF Before
  <2> QED BY <1>1, <1>4, <1>6, <1>9, <2>1, GoingIsNoAnswer DEF SecretInv, Pcs
<1>10. CASE Before /\ disk' = [disk EXCEPT !.candidate = op.cand] /\ Answer(s, "ok")
  <2>1. Before' /\ Ready' BY <1>2, <1>4, <1>10 DEF Before, Ready
  <2> QED BY <1>1, <1>4, <1>6, <1>10, <2>1, AnswerIsHeard DEF SecretInv, Answers
<1> QED BY <1>1, <1>2, <1>3, <1>8, <1>9, <1>10 DEF Stage, HandlersRename, Before, At

\* The two renames of a promotion, and what follows them.
LEMMA PromoteStep ==
  ASSUME SecretInv, RecordInv, DiskInv, NEW s \in Callers, PromoteSnapshot(s)
  PROVE  DiskInv'
<1> USE DEF RecordInv, DiskInv
<1>1. AgentStep(s) /\ calls[s].kind = "promote"
  BY DEF AgentStep, PromoteSnapshot
<1>2. UNCHANGED <<row, op, agent, sm, saga>> /\ InFlight(s)
  BY <1>1, AgentMoves DEF SecretInv, OnAgent, durable
<1>3. /\ calls[s].cand = op.cand /\ calls[s].inst = row.digest /\ row.digest # NoPackage
      /\ op.cand # NoPackage /\ op.stage = "candidate-healthy" /\ Due
      /\ ~(saga.kind = "update" /\ saga.stage = "none")
  <2>1. /\ calls[s].cand = op.cand /\ calls[s].inst = row.digest /\ row.status # "absent"
        /\ op.stage = "candidate-healthy" /\ Due
    BY <1>1, <1>2 DEF HandlersKnow, StageDuring
  <2>2. op.status \in {"running", "failed"} BY <2>1 DEF Due, RecordRuns
  <2>3. ~(saga.kind = "update" /\ saga.stage = "none")
    BY <2>1 DEF Due, RecordRuns, SecretInv, SagaRuns, NoSaga
  <2> QED BY <2>1, <2>2, <2>3 DEF RecordNames
<1>4. /\ calls \in [Callers -> CallTypes] /\ calls[s] \in CallTypes
      /\ disk \in [{"installed", "candidate", "displaced", "previous"} -> Packages]
      /\ op.cand \in Packages /\ row.digest \in Packages
  BY DEF SecretInv, AppTypes, TypeOK
<1>5. /\ \A t \in Callers : t # s => ~InFlight(t) /\ ~InFlight(t)'
      /\ Alone' /\ HandlersKnow' /\ \A t \in Callers \ {s} : calls'[t] = calls[t]
  BY <1>1, OneHandlerSteps, StepIsSeen
<1>6. s # "free" /\ (\A k \in {"stage", "promote"} : ~Answered("keyed", k, {"ok"}))
      /\ agent = "up"
  BY <1>1, OneHandlerSteps
<1>7. SUFFICES \/ /\ ~InFlight(s)' \/ (calls'[s].kind = "promote" /\ calls'[s].pc \in {"repair", "verify"})
                  /\ disk' = disk /\ disk.displaced = NoPackage
                  /\ \A k \in {"stage", "promote"} : ~Answered("keyed", k, {"ok"})'
               \/ /\ ~InFlight(s)' \/ (calls'[s].kind = "promote" /\ calls'[s].pc = "displace")
                  /\ Ready'
                  /\ \A k \in {"stage", "promote"} : ~Answered("keyed", k, {"ok"})'
               \/ /\ InFlight(s)' /\ calls'[s].kind = "promote"
                  /\ \/ calls'[s].pc = "install" /\ CutOff'
                     \/ calls'[s].pc \in {"forget", "retain"} /\ CutIn'
                  /\ \A k \in {"stage", "promote"} : ~Answered("keyed", k, {"ok"})'
               \/ /\ ~InFlight(s)' /\ After' /\ ~Answered("keyed", "stage", {"ok"})'
  <2>1. HandlersRename' BY <1>5, <1>7 DEF HandlersRename
  <2>2. DisplacedIsPromoted'
    BY <1>7 DEF DisplacedIsPromoted, Displacing, Before, Ready, CutOff, CutIn, After
  <2>3. DiskFollows'
    <3>1. CASE disk' = disk /\ \A k \in {"stage", "promote"} : ~Answered("keyed", k, {"ok"})'
      BY <1>2, <1>3, <3>1 DEF DiskFollows, Due, Before, Ready, After, CutOff, CutIn, Discarded
    <3>2. CASE (Ready' \/ CutOff' \/ CutIn') /\ \A k \in {"stage", "promote"} : ~Answered("keyed", k, {"ok"})'
      BY <1>2, <1>3, <3>2 DEF DiskFollows
    <3>3. CASE After' /\ ~Answered("keyed", "stage", {"ok"})'
      BY <1>2, <1>3, <3>3 DEF DiskFollows
    <3> QED BY <1>7, <3>1, <3>2, <3>3
  <2> QED BY <1>5, <2>1, <2>2, <2>3
<1>8. ASSUME calls[s].pc \in {"repair", "verify", "displace"} PROVE disk.displaced = NoPackage
  BY <1>1, <1>2, <1>5, <1>6, <1>8 DEF DisplacedIsPromoted, Displacing
<1>9. CASE Repair(s)
  <2>1. disk.displaced = NoPackage /\ disk' = disk
    BY <1>8, <1>9 DEF Repair, At, Repaired
  <2>2. Goto(s, "verify") BY <1>9, <2>1 DEF Repair
  <2> QED BY <1>1, <1>4, <1>6, <2>1, <2>2, GoingIsNoAnswer DEF SecretInv, Pcs
<1>10. CASE Promote(s)
  <2>1. CASE calls[s].pc = "verify"
    <3>1. disk' = disk /\ disk.displaced = NoPackage
      BY <1>8, <1>10, <2>1 DEF Promote, At
    <3>2. CASE VerifiedPair(calls[s]) /\ Goto(s, "displace")
      <4>1. Ready'
        BY <1>2, <1>3, <3>1, <3>2 DEF VerifiedPair, Ready, Before
      <4> QED BY <1>1, <1>4, <1>6, <3>2, <4>1, GoingIsNoAnswer DEF SecretInv, Pcs
    <3>3. CASE Answer(s, "changed")
      BY <1>4, <1>6, <3>1, <3>3, AnswerIsHeard DEF SecretInv, Answers, Refusals
    <3> QED BY <1>10, <2>1, <3>2, <3>3 DEF Promote, At
  <2>2. CASE calls[s].pc = "displace"
    <3>1. Ready BY <1>1, <1>2, <2>2 DEF HandlersRename
    <3>2. disk' = [disk EXCEPT !.displaced = disk.installed, !.installed = NoPackage]
          /\ Goto(s, "install")
      BY <1>3, <1>10, <2>2, <3>1 DEF Promote, At, Ready, Before, Missing
    <3>3. CutOff' BY <1>2, <1>4, <3>1, <3>2 DEF CutOff, Ready, Before
    <3>4. calls'[s].kind = "promote" /\ calls'[s].pc = "install" /\ InFlight(s)'
      BY <1>1, <3>2, GoingIsNoAnswer DEF SecretInv, Pcs, InFlight
    <3> QED BY <1>6, <3>2, <3>3, <3>4, GoingIsNoAnswer DEF SecretInv, Pcs
  <2>3. CASE calls[s].pc = "install"
    <3>1. CutOff BY <1>1, <1>2, <2>3 DEF HandlersRename
    <3>2. CASE disk' = [disk EXCEPT !.installed = disk.candidate, !.candidate = NoPackage]
               /\ Goto(s, "forget")
      <4>1. CutIn' BY <1>2, <1>4, <3>1, <3>2 DEF CutOff, CutIn
      <4>2. calls'[s].kind = "promote" /\ calls'[s].pc = "forget" /\ InFlight(s)'
        BY <1>1, <3>2, GoingIsNoAnswer DEF SecretInv, Pcs, InFlight
      <4> QED BY <1>6, <3>2, <4>1, <4>2, GoingIsNoAnswer DEF SecretInv, Pcs
    <3>3. CASE disk' = [disk EXCEPT !.installed = disk.displaced, !.displaced = NoPackage]
               /\ Answer(s, "error")
      <4>1. Ready' BY <1>2, <1>4, <3>1, <3>3 DEF CutOff, Ready, Before
      <4> QED BY <1>6, <3>3, <4>1, AnswerIsHeard DEF SecretInv, Answers, Refusals
    <3> QED BY <1>10, <2>3, <3>2, <3>3 DEF Promote, At
  <2>4. CASE calls[s].pc = "forget"
    <3>1. CutIn BY <1>1, <1>2, <2>4 DEF HandlersRename
    <3>2. disk' = [disk EXCEPT !.previous = NoPackage] /\ Goto(s, "retain")
      BY <1>10, <2>4 DEF Promote, At
    <3>3. CutIn' BY <1>2, <1>4, <3>1, <3>2 DEF CutIn
    <3>4. calls'[s].kind = "promote" /\ calls'[s].pc = "retain" /\ InFlight(s)'
      BY <1>1, <3>2, GoingIsNoAnswer DEF SecretInv, Pcs, InFlight
    <3> QED BY <1>6, <3>2, <3>3, <3>4, GoingIsNoAnswer DEF SecretInv, Pcs
  <2>5. CASE calls[s].pc = "retain"
    <3>1. CutIn BY <1>1, <1>2, <2>5 DEF HandlersRename
    <3>2. PICK kept \in {disk.displaced, NoPackage} :
            disk' = [disk EXCEPT !.previous = kept, !.displaced = NoPackage]
      BY <1>3, <1>10, <2>5, <3>1 DEF Promote, At, CutIn, Missing
    <3>3. Answer(s, "ok")
      BY <1>3, <1>10, <2>5, <3>1 DEF Promote, At, CutIn, Missing
    <3>4. After' BY <1>2, <1>4, <3>1, <3>2 DEF CutIn, After
    <3> QED BY <1>1, <1>6, <3>3, <3>4, AnswerIsHeard DEF SecretInv, Answers
  <2> QED BY <1>10, <2>1, <2>2, <2>3, <2>4, <2>5 DEF Promote, At
<1> QED BY <1>9, <1>10 DEF PromoteSnapshot

\* Whatever step a handler takes, the disk is as the stage on record allows.
LEMMA AgentKeepsDisk ==
  ASSUME SecretInv, RecordInv, DiskInv, NEW s \in Callers, AgentStep(s)
  PROVE  DiskInv'
<1>1. CASE Discard(s)
  <2> USE DEF RecordInv, DiskInv
  <2>1. calls[s].kind = "remove" /\ UNCHANGED <<row, op, agent, sm, saga>>
        /\ calls'[s].kind \in {"remove", "none"}
    <3>1. NoCall.kind = "none" BY DEF NoCall
    <3> QED BY <1>1, <3>1, AgentMoves, StepIsSeen DEF Discard, At, SecretInv, OnAgent, durable
  <2>2. CASE disk' = disk
    BY <2>1, <2>2, QuietStep
  <2>3. CASE disk' = [d \in DOMAIN disk |-> NoPackage]
    <3>1. DOMAIN disk = {"installed", "candidate", "displaced", "previous"}
      BY DEF SecretInv, AppTypes, TypeOK
    <3>2. Discarded' /\ disk'.displaced = NoPackage
      BY <2>3, <3>1 DEF Discarded
    <3>3. \A k \in {"stage", "promote"} : ~Answered("keyed", k, {"ok"})'
      BY <2>1, OneHandlerSteps, StepIsSeen DEF Answered, Callers
    <3>4. HandlersRename' /\ DisplacedIsPromoted' /\ DiskFollows'
      BY <2>1, <3>2, <3>3, OneHandlerSteps DEF HandlersRename, DisplacedIsPromoted, DiskFollows
    <3> QED BY <3>4, OneHandlerSteps
  <2> QED BY <1>1, <2>2, <2>3 DEF Discard, host
<1>2. CASE Repair(s) /\ calls[s].kind = "rollback"
  <2>1. disk.displaced = NoPackage BY <1>2, OneHandlerSteps
  <2>2. disk' = disk BY <1>2, <2>1 DEF Repair, Repaired
  <2> QED BY <1>2, <2>2, QuietStep
<1>3. CASE Build(s) \/ StopContainers(s) \/ (RuntimeStep(s) /\ calls[s].kind \notin {"stage", "promote"})
  <2>1. disk' = disk /\ calls[s].kind \notin {"stage", "promote"}
    BY <1>3 DEF Build, RuntimeStep, VerifyRuntime, StopContainers, StartContainers, AwaitHealth, At,
                Runtimes, host
  <2> QED BY <2>1, QuietStep
<1> QED BY <1>1, <1>2, <1>3, StageStep, PromoteStep
        DEF AgentStep, Activate, Rollback, Apply, StopApp, RemoveApp

-----------------------------------------------------------------------------
(* What Suite Manager's steps do to it. *)

\* A request, and a request that is over.
LEMMA CallFits ==
  ASSUME SecretInv, CallsFit, NEW s \in {"keyed", "free"}, NEW kind \in DOMAIN FirstStep,
         NEW cand \in Packages, NEW inst \in Packages, Call(s, kind, cand, inst),
         agent' = agent, s = "free" => kind = "apply"
  PROVE  /\ CallsFit' /\ \A t \in Callers \ {s} : calls'[t] = calls[t]
         /\ calls'[s].kind = kind /\ calls'[s].cand = cand /\ calls'[s].inst = inst
         /\ InFlight(s)' => calls'[s].pc = FirstStep[kind]
         /\ calls'[s].answer \in {"none", "unavailable"}
<1>1. calls' = [calls EXCEPT ![s] = Request(kind, cand, inst)] /\ calls \in [Callers -> CallTypes]
  BY DEF Call, SecretInv, AppTypes
<1>2. calls'[s] = Request(kind, cand, inst) /\ \A t \in Callers \ {s} : calls'[t] = calls[t]
  <2> HIDE DEF CallTypes
  <2> QED BY <1>1 DEF Callers
<1>3. /\ calls'[s].kind = kind /\ calls'[s].cand = cand /\ calls'[s].inst = inst
      /\ calls'[s].answer \in {"none", "unavailable"}
      /\ calls'[s].pc = IF agent = "up" THEN FirstStep[kind] ELSE "answered"
      /\ calls'[s].answer = IF agent = "up" THEN "none" ELSE "unavailable"
  BY <1>2 DEF Request
<1>4. InFlight(s)' => agent = "up" /\ calls'[s].pc = FirstStep[kind]
  BY <1>3 DEF InFlight
<1>5. kind # "none" BY DEF FirstStep
<1>6. CallsFit'
  BY <1>2, <1>3, <1>4, <1>5 DEF CallsFit, InFlight, Callers
<1> QED BY <1>2, <1>3, <1>4, <1>6

\* A request that is over leaves the others as they were.
LEMMA FreeFits ==
  ASSUME SecretInv, CallsFit, NEW s \in {"keyed", "free"}, calls' = Free(s), agent' = agent
  PROVE  /\ CallsFit' /\ \A t \in Callers \ {s} : calls'[t] = calls[t]
         /\ calls'[s] = NoCall /\ ~InFlight(s)' /\ calls'[s].kind = "none"
         /\ calls'[s].answer = "none"
<1>1. /\ calls'[s] = NoCall /\ \A t \in Callers \ {s} : calls'[t] = calls[t]
  BY FreeTypes DEF SecretInv, Callers
<1>2. calls'[s].kind = "none" /\ calls'[s].answer = "none" /\ ~InFlight(s)'
  BY <1>1 DEF NoCall, InFlight
<1>3. CallsFit' BY <1>1, <1>2 DEF CallsFit, InFlight, Callers
<1> QED BY <1>1, <1>2, <1>3

\* A request made while no other handler is at work.
LEMMA CallIsAlone ==
  ASSUME SecretInv, CallsFit, DiskInv, NEW s \in {"keyed", "free"}, NEW kind \in DOMAIN FirstStep,
         NEW cand \in Packages, NEW inst \in Packages, Call(s, kind, cand, inst),
         UNCHANGED <<disk, agent>>, s = "free" => kind = "apply",
         InFlight(s) => calls[s].kind # "promote", ~overlapped'
  PROVE  /\ \A t \in Callers : t # s => ~InFlight(t) /\ ~InFlight(t)'
         /\ Alone' /\ HandlersRename' /\ DisplacedIsPromoted'
         /\ agent = "up" => disk.displaced = NoPackage
<1>1. \A t \in Callers \ {s} : ~InFlight(t) BY DEF Call
<1>2. \A t \in Callers : t # s => ~InFlight(t) /\ ~InFlight(t)'
  BY <1>1, CallFits DEF InFlight
<1>3. Alone' BY <1>2 DEF Alone, Callers
<1>4. HandlersRename'
  <2>1. InFlight(s)' => /\ ~(calls'[s].kind = "stage" /\ calls'[s].pc = "copy")
                        /\ ~(calls'[s].kind = "promote" /\ calls'[s].pc # "repair")
    BY CallFits DEF FirstStep
  <2> QED BY <1>2, <2>1 DEF HandlersRename
<1>5. ~Displacing BY <1>1 DEF Displacing, Callers
<1>6. DisplacedIsPromoted' BY <1>5 DEF DiskInv, DisplacedIsPromoted
<1>7. agent = "up" => disk.displaced = NoPackage
  BY <1>5 DEF DiskInv, DisplacedIsPromoted
<1> QED BY <1>2, <1>3, <1>4, <1>6, <1>7

\* A handler that displaces goes on while Suite Manager changes its record.
LEMMA DisplacedStays ==
  ASSUME DisplacedIsPromoted, UNCHANGED <<disk, agent>>,
         \A t \in Callers : InFlight(t) /\ calls[t].kind = "promote" => calls'[t] = calls[t]
  PROVE  DisplacedIsPromoted'
<1>1. Displacing => Displacing' BY DEF Displacing, InFlight
<1> QED BY <1>1 DEF DisplacedIsPromoted

\* A saga begins with the installed package in place and no other displaced.
LEMMA BeginUpdateRecovers ==
  ASSUME SecretInv, RecoveryInv, BeginUpdate
  PROVE  RecoveryInv'
<1> USE DEF RecoveryInv, RecordInv
<1>1. PICK v \in Versions : saga' = [NoSaga EXCEPT !.kind = "update", !.cand = v]
  BY DEF BeginUpdate
<1>2. /\ sm' = "up" /\ saga = NoSaga /\ sm = "up" /\ agent = "up"
      /\ row.status = "installed" /\ row.recovery \notin Pending /\ disk.installed = row.digest
      /\ UNCHANGED <<row, op, disk, agent, calls, overlapped>>
  BY DEF BeginUpdate, Idle, OnSm, durable, host
<1>3. saga'.kind = "update" /\ saga'.cand = v /\ saga'.stage = "none" /\ ~saga'.promoted /\ v # NoPackage
  BY <1>1, VersionsAssumption DEF NoSaga, NoPackage
<1>4. op.status # "running" /\ ~Due BY <1>2 DEF RecordRuns, Due, NoSaga
<1>5. RecordNames' /\ RecordRuns' /\ SagaFollows'
  BY <1>2, <1>3, <1>4 DEF RecordNames, RecordRuns, SagaFollows
<1>6. CallsFit' BY <1>2 DEF CallsFit, InFlight
<1>7. ASSUME ~overlapped PROVE DiskInv'
  <2> USE <1>7 DEF DiskInv
  <2>1. Alone' /\ HandlersKnow' /\ HandlersRename'
    BY <1>2, <1>3 DEF Alone, HandlersKnow, HandlersRename, InFlight, Due, Before, Ready, CutOff, CutIn
  <2>2. DisplacedIsPromoted' BY <1>2, DisplacedStays
  <2>3. disk.displaced = NoPackage
    <3>1. ~Displacing BY <1>4 DEF Displacing, HandlersKnow, StageDuring
    <3> QED BY <1>2, <3>1 DEF DisplacedIsPromoted
  <2>4. calls["keyed"] = NoCall BY <1>2 DEF SecretInv, SagaRuns
  <2>5. DiskFollows'
    BY <1>2, <1>3, <1>4, <2>3, <2>4 DEF DiskFollows, Due, Before, Answered, NoCall
  <2> QED BY <2>1, <2>2, <2>5
<1> QED BY <1>2, <1>5, <1>6, <1>7

\* The record begins with the saga, at the stage its first request is made in.
LEMMA RecordUpdateRecovers ==
  ASSUME SecretInv, RecoveryInv, RecordUpdate
  PROVE  RecoveryInv'
<1> USE DEF RecoveryInv, RecordInv
<1>1. /\ sm' = "up" /\ saga.kind = "update" /\ saga.stage = "none" /\ op.status # "running"
      /\ op' = [status |-> "running", stage |-> "candidate-verified", cand |-> saga.cand,
                added |-> ~row.held]
      /\ row' = [row EXCEPT !.recovery = "none"]
      /\ saga' = [saga EXCEPT !.stage = "recorded"]
      /\ Call("keyed", "stage", saga.cand, row.digest)
      /\ UNCHANGED <<disk, agent>>
  BY DEF RecordUpdate, OnSm, host, BeginAppUpdate
<1>2. saga.cand \in Packages /\ row.digest \in Packages /\ "stage" \in DOMAIN FirstStep
  BY DEF SecretInv, AppTypes, TypeOK, FirstStep
<1>3. /\ saga'.kind = "update" /\ saga'.cand = saga.cand /\ saga'.stage = "recorded" /\ ~saga'.promoted
      /\ calls["keyed"] = NoCall
  BY <1>1 DEF SecretInv, AppTypes, SagaTypes, SagaRuns
<1>4. /\ row'.digest = row.digest /\ row'.status = row.status /\ row'.recovery = "none"
      /\ op'.status = "running" /\ op'.stage = "candidate-verified" /\ op'.cand = saga.cand
  BY <1>1 DEF SecretInv, AppTypes, TypeOK
<1>5. /\ CallsFit' /\ calls'["keyed"].kind = "stage" /\ calls'["keyed"].cand = saga.cand
      /\ calls'["keyed"].inst = row.digest /\ calls'["keyed"].answer \in {"none", "unavailable"}
  BY <1>1, <1>2, CallFits
<1>6. RecordNames' /\ RecordRuns'
  BY <1>1, <1>3, <1>4 DEF RecordNames, RecordRuns, Pending
<1>7. SagaFollows' BY <1>3, <1>4, <1>5 DEF SagaFollows, StageDuring
<1>8. ASSUME ~overlapped' PROVE DiskInv'
  <2>1. DiskInv BY <1>1, <1>8 DEF Call
  <2>2. ~(InFlight("keyed") /\ calls["keyed"].kind = "promote")
    BY <1>3 DEF NoCall
  <2>3. /\ \A t \in Callers : t # "keyed" => ~InFlight(t)'
        /\ Alone' /\ HandlersRename' /\ DisplacedIsPromoted'
    BY <1>1, <1>2, <1>8, <2>1, <2>2, CallIsAlone
  <2>4. HandlersKnow'
    BY <1>3, <1>4, <1>5, <1>6, <2>3 DEF HandlersKnow, Due, RecordNames
  <2>5. DiskFollows'
    BY <1>1, <1>3, <1>4, <1>5, <2>1 DEF DiskInv, DiskFollows, Due, Before, Discarded, Answered
  <2> QED BY <2>3, <2>4, <2>5 DEF DiskInv
<1> QED BY <1>5, <1>6, <1>7, <1>8

\* The stage on record moves on with the answer of the request before.
LEMMA AdvanceUpdateRecovers ==
  ASSUME SecretInv, RecoveryInv, AdvanceUpdate
  PROVE  RecoveryInv'
<1> USE DEF RecoveryInv, RecordInv
<1>1. PICK k \in DOMAIN Following :
        /\ Answered("keyed", k, {"ok"})
        /\ AdvanceAppUpdate(Following[k].stage)
        /\ saga' = [saga EXCEPT !.activated = (k = "activate")]
        /\ Call("keyed", Following[k].next, saga.cand, row.digest)
  BY DEF AdvanceUpdate
<1> DEFINE stage == Following[k].stage
           next == Following[k].next
<1>2. /\ sm' = "up" /\ saga.kind = "update" /\ op' = [op EXCEPT !.stage = stage]
      /\ UNCHANGED <<row, disk, agent>>
  BY <1>1 DEF AdvanceUpdate, OnSm, host, AdvanceAppUpdate
<1>3. /\ calls["keyed"].kind = k /\ calls["keyed"] # NoCall /\ ~InFlight("keyed")
  BY <1>1 DEF Answered, NoCall, InFlight
<1>4. /\ saga.stage = "recorded" /\ ~saga.promoted /\ op.status = "running" /\ saga.cand = op.cand
      /\ op.stage = StageDuring[k]
  BY <1>2, <1>3 DEF SecretInv, SagaRuns, SagaRecorded, SagaFollows, AppTypes, SagaTypes
<1>5. /\ k = "stage" /\ stage = "candidate-staged" /\ next = "build" /\ op.stage = "candidate-verified"
      \/ /\ k = "build" /\ stage = "candidate-built" /\ next = "activate" /\ op.stage = "candidate-staged"
      \/ /\ k = "activate" /\ stage = "candidate-healthy" /\ next = "promote" /\ op.stage = "candidate-built"
  BY <1>4 DEF Following, StageDuring
<1>6. saga.cand \in Packages /\ row.digest \in Packages /\ next \in DOMAIN FirstStep
  BY <1>5 DEF SecretInv, AppTypes, TypeOK, FirstStep
<1>7. /\ saga'.kind = "update" /\ saga'.cand = saga.cand /\ saga'.stage = "recorded" /\ ~saga'.promoted
      /\ op'.status = "running" /\ op'.stage = stage /\ op'.cand = op.cand
  BY <1>1, <1>2, <1>4 DEF SecretInv, AppTypes, SagaTypes, TypeOK
<1> HIDE DEF stage, next
<1>8. Call("keyed", next, saga.cand, row.digest) BY <1>1 DEF next
<1>9. /\ CallsFit' /\ calls'["keyed"].kind = next /\ calls'["keyed"].cand = saga.cand
      /\ calls'["keyed"].inst = row.digest /\ calls'["keyed"].answer \in {"none", "unavailable"}
  BY <1>2, <1>6, <1>8, CallFits
<1>10. row.recovery = "none" /\ RecordNames' /\ RecordRuns'
  BY <1>2, <1>4, <1>7 DEF RecordNames, RecordRuns, Pending
<1>11. SagaFollows'
  BY <1>4, <1>5, <1>7, <1>9 DEF SagaFollows, StageDuring
<1>12. ASSUME ~overlapped' PROVE DiskInv'
  <2>1. DiskInv BY <1>8, <1>12 DEF Call
  <2>2. /\ \A t \in Callers : t # "keyed" => ~InFlight(t)'
        /\ Alone' /\ HandlersRename' /\ DisplacedIsPromoted'
    BY <1>2, <1>3, <1>6, <1>8, <1>12, <2>1, CallIsAlone
  <2>3. HandlersKnow'
    BY <1>2, <1>4, <1>5, <1>7, <1>9, <2>2 DEF HandlersKnow, Due, RecordNames
  <2>4. Ready \/ Discarded
    BY <1>1, <1>2, <1>4, <1>5, <2>1 DEF DiskInv, DiskFollows, Due
  <2>5. DiskFollows'
    BY <1>2, <1>5, <1>7, <1>9, <2>4 DEF DiskFollows, Ready, Before, Discarded, Answered
  <2> QED BY <2>2, <2>3, <2>5 DEF DiskInv
<1> QED BY <1>9, <1>10, <1>11, <1>12

\* A promotion is recorded once the agent answered that it is done.
LEMMA RecordPromotionRecovers ==
  ASSUME SecretInv, RecoveryInv, RecordPromotion
  PROVE  RecoveryInv'
<1> USE DEF RecoveryInv, RecordInv
<1>1. /\ sm' = "up" /\ saga.kind = "update" /\ Answered("keyed", "promote", {"ok"})
      /\ op' = [op EXCEPT !.stage = "snapshot-promoted"]
      /\ saga' = [saga EXCEPT !.promoted = TRUE] /\ calls' = Free("keyed")
      /\ UNCHANGED <<row, disk, agent, overlapped>>
  BY DEF RecordPromotion, OnSm, host, AdvanceAppUpdate
<1>2. calls["keyed"] # NoCall /\ ~InFlight("keyed")
  BY <1>1 DEF Answered, NoCall, InFlight
<1>3. saga.stage = "recorded" /\ op.status = "running" /\ saga.cand = op.cand
  BY <1>1, <1>2 DEF SecretInv, SagaRuns, SagaRecorded, SagaFollows, AppTypes, SagaTypes
<1>4. /\ saga'.kind = "update" /\ saga'.cand = saga.cand /\ saga'.stage = "recorded" /\ saga'.promoted
      /\ op'.status = "running" /\ op'.stage = "snapshot-promoted" /\ op'.cand = op.cand
  BY <1>1, <1>3 DEF SecretInv, AppTypes, SagaTypes, TypeOK
<1>5. /\ CallsFit' /\ \A t \in Callers \ {"keyed"} : calls'[t] = calls[t]
      /\ ~InFlight("keyed")' /\ calls'["keyed"].kind = "none"
  BY <1>1, FreeFits
<1>6. RecordNames' /\ RecordRuns' /\ SagaFollows'
  BY <1>1, <1>3, <1>4 DEF RecordNames, RecordRuns, SagaFollows, Pending
<1>7. ASSUME ~overlapped PROVE DiskInv'
  <2> USE <1>7 DEF DiskInv
  <2>1. ~InFlight("lost") /\ ~InFlight("lost")'
    BY <1>1, <1>5 DEF Alone, Answered, InFlight, Callers
  <2>2. \A t \in Callers : InFlight(t)' => t = "free" /\ calls'[t] = calls[t] /\ calls[t].kind \in {"none", "apply"}
    BY <1>5, <2>1 DEF Callers, CallsFit
  <2>3. Alone' /\ HandlersKnow' /\ HandlersRename'
    BY <2>1, <2>2 DEF Alone, HandlersKnow, HandlersRename, StageDuring
  <2>4. DisplacedIsPromoted' BY <1>1, <1>2, <1>5, DisplacedStays
  <2>5. After BY <1>1 DEF DiskFollows
  <2>6. DiskFollows'
    BY <1>1, <1>4, <1>5, <2>5 DEF DiskFollows, After, Answered
  <2> QED BY <2>3, <2>4, <2>6
<1> QED BY <1>1, <1>5, <1>6, <1>7

\* A commit ends the operation: nothing is due any more.
LEMMA CommitUpdateRecovers ==
  ASSUME SecretInv, RecoveryInv, CommitUpdate
  PROVE  RecoveryInv'
<1> USE DEF RecoveryInv, RecordInv
<1>1. /\ sm' = "up" /\ saga.promoted /\ saga' = NoSaga
      /\ row' = [row EXCEPT !.digest = saga.cand, !.recovery = "none", !.held = @ \/ op.added]
      /\ op' = [op EXCEPT !.status = "succeeded"]
      /\ UNCHANGED <<disk, agent, calls, overlapped>>
  BY DEF CommitUpdate, OnSm, host, CompleteAppUpdate
<1>2. saga.kind = "update" /\ saga.stage = "recorded" /\ calls["keyed"] = NoCall
  BY <1>1 DEF SecretInv, SagaRuns
<1>3. /\ row'.digest = saga.cand /\ row'.recovery = "none" /\ row'.status = row.status
      /\ op'.status = "succeeded" /\ saga'.kind = "none"
  BY <1>1 DEF SecretInv, AppTypes, TypeOK, NoSaga
<1>4. RecordNames' /\ RecordRuns' /\ SagaFollows'
  BY <1>2, <1>3 DEF RecordNames, RecordRuns, SagaFollows, Pending
<1>5. CallsFit' BY <1>1 DEF CallsFit, InFlight
<1>6. ASSUME ~overlapped PROVE DiskInv'
  <2> USE <1>6 DEF DiskInv
  <2>1. ~InFlight("lost") /\ ~InFlight("keyed")
    BY <1>1, <1>2 DEF Alone, NoCall, InFlight, Callers
  <2>2. \A t \in Callers : InFlight(t)' => InFlight(t) /\ t = "free" /\ calls'[t].kind \in {"none", "apply"}
    BY <1>1, <2>1 DEF Callers, CallsFit, InFlight
  <2>3. Alone' /\ HandlersKnow' /\ HandlersRename'
    BY <2>2 DEF Alone, HandlersKnow, HandlersRename, StageDuring, Callers
  <2>4. DisplacedIsPromoted' BY <1>1, DisplacedStays
  <2>5. DiskFollows' BY <1>3 DEF DiskFollows, Due, Pending
  <2> QED BY <2>3, <2>4, <2>5
<1> QED BY <1>1, <1>4, <1>5, <1>6

\* An update that fails: what it leaves due is what the stage on record needs, and
\* no promotion of it is still at work.
LEMMA FailingRecovers ==
  ASSUME SecretInv, RecoveryInv, OnSm, saga.kind = "update", op.status = "running",
         NEW recovery \in {"none", "rollback-required", "commit-required"}, FailedUpdate(recovery),
         recovery = "commit-required" => op.stage = "snapshot-promoted",
         recovery = "rollback-required" => op.stage \in {"candidate-built", "candidate-healthy"},
         ~InFlight("keyed"),
         ~overlapped => ~(InFlight("lost") /\ calls["lost"].kind = "promote")
  PROVE  RecoveryInv'
<1> USE DEF RecoveryInv, RecordInv
<1>1. /\ sm' = "up" /\ UNCHANGED <<disk, agent, overlapped>>
      /\ op' = [op EXCEPT !.status = "failed"] /\ row' = [row EXCEPT !.recovery = recovery]
      /\ saga' = NoSaga /\ calls' = Free("keyed")
  BY DEF OnSm, host, FailedUpdate, FailAppUpdate
<1>2. /\ row'.digest = row.digest /\ row'.status = row.status /\ row'.recovery = recovery
      /\ op'.status = "failed" /\ op'.stage = op.stage /\ op'.cand = op.cand
      /\ saga'.kind = "none" /\ ~saga'.promoted
  BY <1>1 DEF SecretInv, AppTypes, TypeOK, NoSaga
<1>3. /\ CallsFit' /\ \A t \in Callers \ {"keyed"} : calls'[t] = calls[t]
      /\ ~InFlight("keyed")' /\ calls'["keyed"].kind = "none"
  BY <1>1, FreeFits
<1>4. RecordNames' /\ RecordRuns' /\ SagaFollows'
  BY <1>2 DEF RecordNames, RecordRuns, SagaFollows, Pending
<1>5. ASSUME ~overlapped PROVE DiskInv'
  <2> USE <1>5 DEF DiskInv
  <2>1. \A t \in Callers : InFlight(t)' => /\ InFlight(t) /\ calls'[t] = calls[t]
                                           /\ calls[t].kind # "promote"
    BY <1>3 DEF Callers, CallsFit, InFlight
  <2>2. Alone' BY <1>2, <1>3, <2>1 DEF Alone
  <2>3. HandlersKnow' /\ HandlersRename'
    BY <1>1, <1>2, <2>1 DEF HandlersKnow, HandlersRename, Before
  <2>4. DisplacedIsPromoted' BY <1>1, <1>3, DisplacedStays
  <2>5. DiskFollows'
    BY <1>1, <1>2 DEF DiskFollows, Due, Pending, Before, Ready, CutOff, CutIn, After, Discarded
  <2> QED BY <2>2, <2>3, <2>4, <2>5
<1> QED BY <1>1, <1>3, <1>4, <1>5

\* A failure leaves a recovery due only from a stage that needs one.
LEMMA FailuresRecover ==
  ASSUME SecretInv, RecoveryInv, CommitFails \/ RefuseUpdate \/ UpdateRolledBack \/ RollBackUpdate
  PROVE  RecoveryInv'
<1>1. ASSUME NEW k, NEW answers, k # "none", saga.kind = "update", Answered("keyed", k, answers)
      PROVE  /\ op.status = "running" /\ ~InFlight("keyed") /\ calls["keyed"].kind = k
             /\ k \in DOMAIN StageDuring /\ op.stage = StageDuring[k] /\ ~saga.promoted
             /\ saga.stage = "recorded" /\ saga.cand = op.cand
             /\ k # "promote" /\ ~overlapped => ~(InFlight("lost") /\ calls["lost"].kind = "promote")
  <2>1. calls["keyed"] # NoCall /\ calls["keyed"].kind = k /\ ~InFlight("keyed")
    BY <1>1 DEF Answered, NoCall, InFlight
  <2>2. saga.stage = "recorded" /\ ~saga.promoted /\ op.status = "running"
    BY <1>1, <2>1 DEF SecretInv, SagaRuns, SagaRecorded, AppTypes, SagaTypes
  <2>3. k # "promote" /\ ~overlapped => ~(InFlight("lost") /\ calls["lost"].kind = "promote")
    BY <1>1, <2>1 DEF RecoveryInv, DiskInv, Alone
  <2> QED BY <1>1, <2>1, <2>2, <2>3 DEF RecoveryInv, RecordInv, SagaFollows
<1>2. CASE CommitFails
  <2>1. /\ OnSm /\ saga.promoted /\ FailedUpdate("commit-required")
    BY <1>2 DEF CommitFails
  <2>2. /\ saga.kind = "update" /\ saga.stage = "recorded" /\ calls["keyed"] = NoCall
        /\ op.status = "running"
    BY <2>1 DEF SecretInv, SagaRuns, SagaRecorded
  <2>3. op.stage = "snapshot-promoted" /\ ~InFlight("keyed")
    BY <2>1, <2>2 DEF RecoveryInv, RecordInv, SagaFollows, InFlight, NoCall
  <2>4. ~overlapped => ~InFlight("lost")
    BY <2>1, <2>2 DEF RecoveryInv, DiskInv, Alone, NoCall
  <2> QED BY <2>1, <2>2, <2>3, <2>4, FailingRecovers
<1>3. CASE RefuseUpdate
  <2>1. PICK k \in {"stage", "build", "activate", "restore"} : Answered("keyed", k, Refusals)
    BY <1>3 DEF RefuseUpdate
  <2>2. OnSm /\ saga.kind = "update" BY <1>3 DEF RefuseUpdate
  <2>3. CASE calls["keyed"].answer = "rollback-failed"
    <3>1. k = "restore" /\ FailedUpdate("rollback-required")
      BY <1>3, <2>1, <2>3 DEF RefuseUpdate, Answered, RecoveryInv, RecordInv, CallsFit
    <3> QED BY <1>1, <2>1, <2>2, <3>1, FailingRecovers DEF StageDuring
  <2>4. CASE calls["keyed"].answer # "rollback-failed"
    <3>1. FailedUpdate("none") BY <1>3, <2>4 DEF RefuseUpdate
    <3> QED BY <1>1, <2>1, <2>2, <3>1, FailingRecovers
  <2> QED BY <2>3, <2>4
<1>4. CASE UpdateRolledBack
  <2>1. PICK answers \in {{"ok"}, Refusals} : Answered("keyed", "rollback", answers)
    BY <1>4 DEF UpdateRolledBack
  <2>2. OnSm /\ saga.kind = "update" /\ (FailedUpdate("none") \/ FailedUpdate("rollback-required"))
    BY <1>4 DEF UpdateRolledBack
  <2> QED BY <1>1, <2>1, <2>2, FailingRecovers DEF StageDuring
<1>5. CASE RollBackUpdate
  <2> USE DEF RecoveryInv, RecordInv
  <2>1. /\ sm' = sm /\ UNCHANGED <<row, op, saga, disk, agent>>
        /\ Answered("keyed", "promote", Refusals) /\ saga.activated
        /\ Call("keyed", "rollback", saga.cand, row.digest)
    BY <1>5 DEF RollBackUpdate, OnSm, host, durable
  <2>2. saga.kind = "update" BY <2>1 DEF SecretInv, SagaRuns
  <2>3. /\ op.status = "running" /\ ~InFlight("keyed") /\ op.stage = "candidate-healthy"
        /\ saga.stage = "recorded" /\ saga.cand = op.cand /\ ~saga.promoted
    BY <1>1, <2>1, <2>2 DEF StageDuring
  <2>4. saga.cand \in Packages /\ row.digest \in Packages /\ "rollback" \in DOMAIN FirstStep
    BY DEF SecretInv, AppTypes, TypeOK, FirstStep
  <2>5. /\ CallsFit' /\ calls'["keyed"].kind = "rollback" /\ calls'["keyed"].cand = saga.cand
        /\ calls'["keyed"].inst = row.digest
    BY <2>1, <2>4, CallFits
  <2>6. RecordNames' /\ RecordRuns' /\ SagaFollows'
    BY <2>1, <2>3, <2>5 DEF RecordNames, RecordRuns, SagaFollows, StageDuring
  <2>7. ASSUME ~overlapped' PROVE DiskInv'
    <3>1. DiskInv BY <2>1, <2>7 DEF Call
    <3>2. /\ \A t \in Callers : t # "keyed" => ~InFlight(t)'
          /\ Alone' /\ HandlersRename' /\ DisplacedIsPromoted'
      BY <2>1, <2>3, <2>4, <2>7, <3>1, CallIsAlone
    <3>3. HandlersKnow'
      BY <2>1, <2>3, <2>5, <3>2 DEF HandlersKnow, RecordNames
    <3>4. DiskFollows'
      BY <2>1, <2>3, <2>5, <3>1
         DEF DiskInv, DiskFollows, Answered, Due, Before, Ready, CutOff, CutIn, After, Discarded
    <3> QED BY <3>2, <3>3, <3>4 DEF DiskInv
  <2> QED BY <2>5, <2>6, <2>7
<1> QED BY <1>2, <1>3, <1>4, <1>5

\* A record completed by what the disk holds: nothing is due any more, and a
\* handler still at work is seen to overlap.
LEMMA CommitRecovers ==
  ASSUME SecretInv, RecoveryInv, row.recovery \in Pending, Promoted, CommitPromoted,
         saga = NoSaga, sm # "down", sm' = "up", UNCHANGED <<disk, agent, calls, saga>>
  PROVE  RecoveryInv'
<1> USE DEF RecoveryInv, RecordInv
<1>1. /\ row' = [row EXCEPT !.digest = disk.installed, !.recovery = "none", !.held = @ \/ op.added]
      /\ op' = [op EXCEPT !.status = "succeeded"]
      /\ overlapped' = (overlapped \/ InFlight("lost"))
      /\ op.status = "failed" /\ disk.installed = op.cand
  BY DEF CommitPromoted, CompleteAppUpdate, Promoted
<1>2. /\ row'.digest = op.cand /\ row'.recovery = "none" /\ row'.status = row.status
      /\ op'.status = "succeeded" /\ saga'.kind = "none" /\ calls["keyed"] = NoCall
  BY <1>1 DEF SecretInv, AppTypes, TypeOK, NoSaga, SagaRuns
<1>3. RecordNames' /\ RecordRuns' /\ SagaFollows'
  BY <1>1, <1>2 DEF RecordNames, RecordRuns, SagaFollows, Pending
<1>4. CallsFit' BY DEF CallsFit, InFlight
<1>5. ASSUME ~overlapped' PROVE DiskInv'
  <2>1. DiskInv /\ ~InFlight("lost") /\ ~InFlight("keyed")
    <3>1. ~overlapped /\ ~InFlight("lost") BY <1>1, <1>5
    <3>2. ~InFlight("keyed") BY <1>2 DEF NoCall, InFlight
    <3> QED BY <3>1, <3>2
  <2> USE <2>1 DEF DiskInv
  <2>2. \A t \in Callers : InFlight(t)' => InFlight(t) /\ t = "free" /\ calls'[t].kind \in {"none", "apply"}
    BY DEF Callers, CallsFit, InFlight
  <2>3. Alone' /\ HandlersKnow' /\ HandlersRename'
    BY <2>2 DEF Alone, HandlersKnow, HandlersRename, StageDuring, Callers
  <2>4. DisplacedIsPromoted' BY DisplacedStays
  <2>5. DiskFollows' BY <1>2 DEF DiskFollows, Due, Pending
  <2> QED BY <2>3, <2>4, <2>5
<1> QED BY <1>3, <1>4, <1>5

\* What the owner and the start of Suite Manager do about an interrupted update.
LEMMA RecoveriesRecover ==
  ASSUME SecretInv, RecoveryInv, RecoverByCommit \/ RecoverByRollback \/ Recovered
                                   \/ FailInterruptedUpdate \/ RecoverInterruptedUpdate
  PROVE  RecoveryInv'
<1> USE DEF RecordInv
<1>1. CASE RecoverByCommit
  <2>1. /\ sm = "up" /\ sm' = "up" /\ saga = NoSaga /\ row.recovery \in Pending /\ Promoted
        /\ CommitPromoted /\ UNCHANGED <<disk, agent, calls, saga>>
    BY <1>1 DEF RecoverByCommit, Idle, OnSm, host
  <2> QED BY <2>1, CommitRecovers
<1>2. CASE RecoverByRollback
  <2> USE DEF RecoveryInv
  <2>1. /\ sm' = sm /\ UNCHANGED <<row, op, disk, agent>> /\ saga = NoSaga
        /\ row.recovery \in Pending /\ op.status = "failed"
        /\ saga' = [NoSaga EXCEPT !.kind = "recover"]
        /\ Call("keyed", "rollback", op.cand, row.digest)
    BY <1>2 DEF RecoverByRollback, Idle, OnSm, host, durable
  <2>2. /\ saga'.kind = "recover" /\ ~InFlight("keyed")
    BY <2>1 DEF NoSaga, SecretInv, SagaRuns, InFlight, NoCall
  <2>3. op.cand \in Packages /\ row.digest \in Packages /\ "rollback" \in DOMAIN FirstStep
    BY DEF SecretInv, AppTypes, TypeOK, FirstStep
  <2>4. /\ CallsFit' /\ calls'["keyed"].kind = "rollback" /\ calls'["keyed"].cand = op.cand
        /\ calls'["keyed"].inst = row.digest
    BY <2>1, <2>3, CallFits
  <2>5. RecordNames' /\ RecordRuns' /\ SagaFollows'
    BY <2>1, <2>2 DEF RecordNames, RecordRuns, SagaFollows
  <2>6. ASSUME ~overlapped' PROVE DiskInv'
    <3>1. DiskInv BY <2>1, <2>6 DEF Call
    <3>2. /\ \A t \in Callers : t # "keyed" => ~InFlight(t)'
          /\ Alone' /\ HandlersRename' /\ DisplacedIsPromoted'
      BY <2>1, <2>2, <2>3, <2>6, <3>1, CallIsAlone
    <3>3. HandlersKnow'
      BY <2>1, <2>4, <3>2 DEF HandlersKnow, RecordNames
    <3>4. DiskFollows'
      BY <2>1, <2>2, <3>1
         DEF DiskInv, DiskFollows, Due, Before, Ready, CutOff, CutIn, After, Discarded
    <3> QED BY <3>2, <3>3, <3>4 DEF DiskInv
  <2> QED BY <2>4, <2>5, <2>6
<1>3. CASE Recovered
  <2> USE DEF RecoveryInv
  <2>1. /\ sm' = sm /\ saga.kind = "recover" /\ saga' = NoSaga /\ calls' = Free("keyed")
        /\ UNCHANGED <<op, disk, agent, overlapped>>
        /\ row' = [row EXCEPT !.recovery = "none"] \/ row' = row
        /\ \E answers \in {{"ok"}, Refusals} : Answered("keyed", "rollback", answers)
    BY <1>3 DEF Recovered, OnSm, host, ClearAppUpdateRecovery
  <2>2. /\ row'.digest = row.digest /\ row'.status = row.status
        /\ row'.recovery \in {"none", row.recovery} /\ saga'.kind = "none" /\ ~saga'.promoted
        /\ op.status = "failed" /\ calls["keyed"].kind = "rollback" /\ ~InFlight("keyed")
    BY <2>1 DEF SecretInv, AppTypes, TypeOK, NoSaga, SagaRecorded, Answered, InFlight
  <2>3. /\ CallsFit' /\ \A t \in Callers \ {"keyed"} : calls'[t] = calls[t]
        /\ ~InFlight("keyed")' /\ calls'["keyed"].kind = "none"
    BY <2>1, FreeFits
  <2>4. RecordNames' /\ RecordRuns' /\ SagaFollows'
    BY <2>1, <2>2 DEF RecordNames, RecordRuns, SagaFollows, Pending
  <2>5. ASSUME ~overlapped PROVE DiskInv'
    <3> USE <2>5 DEF DiskInv
    <3>1. ~InFlight("lost") BY <2>2 DEF Alone
    <3>2. \A t \in Callers : InFlight(t)' => InFlight(t) /\ t = "free" /\ calls'[t].kind \in {"none", "apply"}
      BY <2>3, <3>1 DEF Callers, CallsFit, InFlight
    <3>3. Alone' /\ HandlersKnow' /\ HandlersRename'
      BY <3>2 DEF Alone, HandlersKnow, HandlersRename, StageDuring, Callers
    <3>4. DisplacedIsPromoted' BY <2>1, <2>2, <2>3, DisplacedStays
    <3>5. DiskFollows'
      BY <2>1, <2>2
         DEF DiskFollows, Due, Pending, Before, Ready, CutOff, CutIn, After, Discarded
    <3> QED BY <3>3, <3>4, <3>5
  <2> QED BY <2>1, <2>3, <2>4, <2>5
<1>4. CASE FailInterruptedUpdate
  <2> USE DEF RecoveryInv
  <2>1. /\ sm = "down" /\ sm' = "recovering" /\ saga = NoSaga /\ saga.kind = "none"
        /\ UNCHANGED <<disk, calls, agent, saga, overlapped>>
    BY <1>4 DEF FailInterruptedUpdate, host, SecretInv, SagaRuns, NoSaga
  <2>2. CASE op.status = "running"
    <3>1. /\ op' = [op EXCEPT !.status = "failed"]
          /\ row' = [row EXCEPT !.recovery = RecoveryStateFor(op.stage)]
      BY <1>4, <2>2 DEF FailInterruptedUpdate, FailAppUpdate, InterruptedAppUpdates, RecordNames
    <3>2. /\ row'.digest = row.digest /\ row'.status = row.status
          /\ row'.recovery = RecoveryStateFor(op.stage)
          /\ op'.status = "failed" /\ op'.stage = op.stage /\ op'.cand = op.cand
      BY <3>1 DEF SecretInv, AppTypes, TypeOK
    <3>3. RecordNames' /\ RecordRuns' /\ SagaFollows'
      BY <2>1, <2>2, <3>2 DEF RecordNames, RecordRuns, SagaFollows, RecoveryStateFor, Pending
    <3>4. CallsFit' BY <2>1 DEF CallsFit, InFlight
    <3>5. ASSUME ~overlapped PROVE DiskInv'
      <4> USE <3>5 DEF DiskInv
      <4>1. op.stage = "candidate-healthy" => Due'
        BY <3>2 DEF Due, RecoveryStateFor, Pending
      <4>2. Alone' /\ HandlersKnow' /\ HandlersRename'
        BY <2>1, <3>2, <4>1 DEF Alone, HandlersKnow, HandlersRename, InFlight, Before, Ready, CutOff, CutIn
      <4>3. DisplacedIsPromoted' BY <2>1, DisplacedStays
      <4>4. DiskFollows'
        BY <2>1, <2>2, <3>2 DEF DiskFollows, Due, Before, Ready, CutOff, CutIn, After, Discarded
      <4> QED BY <4>2, <4>3, <4>4
    <3> QED BY <2>1, <3>3, <3>4, <3>5
  <2>3. CASE op.status # "running"
    <3>1. UNCHANGED <<row, op>>
      BY <1>4, <2>3 DEF FailInterruptedUpdate, InterruptedAppUpdates
    <3> QED BY <2>1, <2>3, <3>1
            DEF RecordNames, RecordRuns, SagaFollows, CallsFit, DiskInv, Alone, HandlersKnow,
                HandlersRename, DisplacedIsPromoted, Displacing, DiskFollows, Answered, InFlight,
                Due, Before, Ready, CutOff, CutIn, After, Discarded
  <2> QED BY <2>2, <2>3
<1>5. CASE RecoverInterruptedUpdate
  <2>1. /\ sm = "recovering" /\ sm' = "up" /\ saga = NoSaga /\ saga.kind = "none"
        /\ UNCHANGED <<disk, calls, agent, saga>>
    BY <1>5 DEF RecoverInterruptedUpdate, host, SecretInv, SagaRuns, NoSaga
  <2>2. CASE row.recovery \in Pending /\ Promoted
    BY <1>5, <2>1, <2>2, CommitRecovers DEF RecoverInterruptedUpdate
  <2>3. CASE ~(row.recovery \in Pending /\ Promoted)
    <3>1. UNCHANGED <<row, op, overlapped>> /\ op.status # "running"
      BY <1>5, <2>1, <2>3 DEF RecoverInterruptedUpdate, RecoveryInv, RecordRuns
    <3> QED BY <2>1, <3>1
            DEF RecoveryInv, RecordNames, RecordRuns, SagaFollows, CallsFit, DiskInv, Alone,
                HandlersKnow, HandlersRename, DisplacedIsPromoted, Displacing, DiskFollows,
                Answered, InFlight, Due, Before, Ready, CutOff, CutIn, After, Discarded
  <2> QED BY <2>2, <2>3
<1> QED BY <1>1, <1>2, <1>3, <1>4, <1>5

\* Enabling, disabling, removing and applying rename nothing.
LEMMA LifecycleRecovers ==
  ASSUME SecretInv, RecoveryInv, BeginLifecycle \/ EndLifecycle \/ FreeApply \/ FreeApplied
  PROVE  RecoveryInv'
<1> USE DEF RecoveryInv, RecordInv
<1>1. row.digest \in Packages /\ NoPackage \in Packages
  BY DEF SecretInv, AppTypes, TypeOK, Packages
<1>2. CASE BeginLifecycle
  <2>1. /\ sm' = sm /\ sm = "up" /\ saga = NoSaga /\ UNCHANGED <<row, op, disk, agent>>
        /\ row.status # "absent"
        /\ \E kind \in {"disable", "enable", "uninstall"} : saga' = [NoSaga EXCEPT !.kind = kind]
    BY <1>2 DEF BeginLifecycle, Idle, OnSm, host, durable
  <2>2. PICK kind \in {"stop", "apply", "remove"} : Call("keyed", kind, NoPackage, row.digest)
    BY <1>2 DEF BeginLifecycle
  <2>3. /\ saga'.kind \notin {"none", "update"} /\ saga.kind = "none" /\ ~InFlight("keyed")
        /\ kind \in DOMAIN FirstStep
    BY <2>1 DEF NoSaga, SecretInv, SagaRuns, InFlight, NoCall, FirstStep
  <2>4. /\ CallsFit' /\ calls'["keyed"].kind = kind
    BY <1>1, <2>1, <2>2, <2>3, CallFits
  <2>5. RecordNames' /\ RecordRuns' /\ SagaFollows'
    BY <2>1, <2>3 DEF RecordNames, RecordRuns, SagaFollows
  <2>6. ASSUME ~overlapped' PROVE DiskInv'
    <3>1. DiskInv BY <2>2, <2>6 DEF Call
    <3>2. /\ \A t \in Callers : t # "keyed" => ~InFlight(t)'
          /\ Alone' /\ HandlersRename' /\ DisplacedIsPromoted'
      BY <1>1, <2>1, <2>2, <2>3, <2>6, <3>1, CallIsAlone
    <3>3. HandlersKnow' BY <2>4, <3>2 DEF HandlersKnow, StageDuring
    <3>4. DiskFollows'
      BY <2>1, <2>3, <3>1
         DEF DiskInv, DiskFollows, Due, Before, Ready, CutOff, CutIn, After, Discarded
    <3> QED BY <3>2, <3>3, <3>4 DEF DiskInv
  <2> QED BY <2>4, <2>5, <2>6
<1>3. CASE EndLifecycle
  <2>1. /\ sm' = sm /\ saga' = NoSaga /\ calls' = Free("keyed")
        /\ saga.kind \in {"disable", "enable", "uninstall"}
        /\ UNCHANGED <<disk, agent, overlapped>>
        /\ \/ row' = [row EXCEPT !.status = "disabled"] /\ op' = op /\ calls["keyed"].answer = "ok"
           \/ row' = [row EXCEPT !.status = "installed"] /\ op' = op /\ calls["keyed"].answer = "ok"
           \/ DeleteAppInstance /\ Answered("keyed", "remove", {"ok"})
           \/ calls["keyed"].answer \in Refusals /\ UNCHANGED <<row, op>>
    BY <1>3 DEF EndLifecycle, OnSm, host, durable, MarkAppDisabled, MarkAppEnabled, Answered
  <2>2. ~InFlight("keyed")
    BY <2>1 DEF CallsFit, Answered, InFlight, Refusals, Callers
  <2>3. /\ CallsFit' /\ \A t \in Callers \ {"keyed"} : calls'[t] = calls[t]
        /\ ~InFlight("keyed")' /\ calls'["keyed"].kind = "none"
    BY <2>1, FreeFits
  <2>4. saga'.kind = "none" /\ ~saga'.promoted BY <2>1 DEF NoSaga
  <2>5. CASE DeleteAppInstance /\ Answered("keyed", "remove", {"ok"})
    <3>1. /\ row'.status = "absent" /\ row'.recovery = "none" /\ op'.status = "none"
      BY <2>5 DEF DeleteAppInstance
    <3>2. RecordNames' /\ RecordRuns' /\ SagaFollows'
      BY <2>4, <3>1 DEF RecordNames, RecordRuns, SagaFollows, Pending
    <3>3. ASSUME ~overlapped PROVE DiskInv'
      <4> USE <3>3 DEF DiskInv
      <4>1. ~InFlight("lost") BY <2>5 DEF Alone, Answered
      <4>2. \A t \in Callers : InFlight(t)' => InFlight(t) /\ t = "free" /\ calls'[t].kind \in {"none", "apply"}
        BY <2>3, <4>1 DEF Callers, CallsFit, InFlight
      <4>3. Alone' /\ HandlersKnow' /\ HandlersRename'
        BY <4>2 DEF Alone, HandlersKnow, HandlersRename, StageDuring, Callers
      <4>4. DisplacedIsPromoted' BY <2>1, <2>2, <2>3, DisplacedStays
      <4>5. DiskFollows' BY <2>4, <3>1 DEF DiskFollows, Due, Pending
      <4> QED BY <4>3, <4>4, <4>5
    <3> QED BY <2>1, <2>3, <3>2, <3>3
  <2>6. CASE ~(DeleteAppInstance /\ Answered("keyed", "remove", {"ok"}))
    <3>1. /\ op' = op /\ row'.digest = row.digest /\ row'.recovery = row.recovery
          /\ row.status # "absent" /\ row'.status # "absent"
      BY <2>1, <2>6 DEF SecretInv, AppTypes, TypeOK, RecordNames
    <3>2. RecordNames' /\ RecordRuns' /\ SagaFollows'
      BY <2>1, <2>4, <3>1 DEF RecordNames, RecordRuns, SagaFollows
    <3>3. ASSUME ~overlapped PROVE DiskInv'
      <4> USE <3>3 DEF DiskInv
      <4>1. \A t \in Callers : InFlight(t)' => InFlight(t) /\ calls'[t] = calls[t]
        BY <2>3 DEF Callers, InFlight
      <4>2. Alone' BY <2>3, <2>4, <4>1 DEF Alone
      <4>3. HandlersKnow' /\ HandlersRename'
        BY <2>1, <3>1, <4>1 DEF HandlersKnow, HandlersRename, Due, Before, Ready, CutOff, CutIn
      <4>4. DisplacedIsPromoted' BY <2>1, <2>2, <2>3, DisplacedStays
      <4>5. DiskFollows'
        BY <2>1, <2>4, <3>1
           DEF DiskFollows, Due, Before, Ready, CutOff, CutIn, After, Discarded
      <4> QED BY <4>2, <4>3, <4>4, <4>5
    <3> QED BY <2>1, <2>3, <3>2, <3>3
  <2> QED BY <2>5, <2>6
<1>4. CASE FreeApply
  <2>1. /\ sm' = sm /\ UNCHANGED <<row, op, saga, disk, agent>>
        /\ Call("free", "apply", NoPackage, row.digest)
    BY <1>4 DEF FreeApply, OnSm, host, durable
  <2>2. "apply" \in DOMAIN FirstStep /\ calls["free"].kind # "promote"
    BY DEF FirstStep, CallsFit
  <2>3. /\ CallsFit' /\ calls'["free"].kind = "apply" /\ calls'["keyed"] = calls["keyed"]
    BY <1>1, <2>1, <2>2, CallFits DEF Callers
  <2>4. RecordNames' /\ RecordRuns' /\ SagaFollows'
    BY <2>1, <2>3 DEF RecordNames, RecordRuns, SagaFollows
  <2>5. ASSUME ~overlapped' PROVE DiskInv'
    <3>1. DiskInv BY <2>1, <2>5 DEF Call
    <3>2. /\ \A t \in Callers : t # "free" => ~InFlight(t)'
          /\ Alone' /\ HandlersRename' /\ DisplacedIsPromoted'
      BY <1>1, <2>1, <2>2, <2>5, <3>1, CallIsAlone
    <3>3. HandlersKnow' BY <2>3, <3>2 DEF HandlersKnow, StageDuring
    <3>4. DiskFollows'
      BY <2>1, <2>3, <3>1
         DEF DiskInv, DiskFollows, Answered, Due, Before, Ready, CutOff, CutIn, After, Discarded
    <3> QED BY <3>2, <3>3, <3>4 DEF DiskInv
  <2> QED BY <2>3, <2>4, <2>5
<1>5. CASE FreeApplied
  <2>1. /\ sm' = sm /\ UNCHANGED <<row, op, saga, disk, agent, overlapped>>
        /\ calls["free"].pc = "answered" /\ calls' = Free("free")
    BY <1>5 DEF FreeApplied, OnSm, host, durable
  <2>2. /\ CallsFit' /\ \A t \in Callers \ {"free"} : calls'[t] = calls[t] /\ ~InFlight("free")'
    BY <2>1, FreeFits
  <2>3. calls'["keyed"] = calls["keyed"] /\ calls'["lost"] = calls["lost"] /\ ~InFlight("free")
    BY <2>1, <2>2 DEF Callers, InFlight
  <2>4. RecordNames' /\ RecordRuns' /\ SagaFollows'
    BY <2>1, <2>3 DEF RecordNames, RecordRuns, SagaFollows
  <2>5. ASSUME ~overlapped PROVE DiskInv'
    <3> USE <2>5 DEF DiskInv
    <3>1. \A t \in Callers : InFlight(t)' => InFlight(t) /\ calls'[t] = calls[t]
      BY <2>2 DEF Callers, InFlight
    <3>2. Alone' BY <2>1, <2>3, <3>1 DEF Alone, Callers
    <3>3. HandlersKnow' /\ HandlersRename'
      BY <2>1, <3>1 DEF HandlersKnow, HandlersRename, Due, Before, Ready, CutOff, CutIn
    <3>4. DisplacedIsPromoted' BY <2>1, <2>2, <2>3, DisplacedStays
    <3>5. DiskFollows'
      BY <2>1, <2>3
         DEF DiskFollows, Answered, Due, Before, Ready, CutOff, CutIn, After, Discarded
    <3> QED BY <3>2, <3>3, <3>4, <3>5
  <2> QED BY <2>1, <2>2, <2>4, <2>5
<1> QED BY <1>2, <1>3, <1>4, <1>5

\* A request given up, or outlived: the handler is the same one, by another name.
LEMMA LostGoesOn ==
  ASSUME DiskInv, UNCHANGED <<row, op, disk, agent>>,
         NEW s \in {"keyed", "free", "lost"},
         \A t \in Callers : InFlight(t) => t = s,
         calls'["lost"] = calls[s], \A t \in Callers : InFlight(t)' => t = "lost"
  PROVE  HandlersKnow' /\ HandlersRename' /\ DisplacedIsPromoted'
<1>1. s \in Callers /\ (InFlight("lost")' => InFlight(s))
  BY DEF Callers, InFlight
<1>2. HandlersKnow' /\ HandlersRename'
  BY <1>1 DEF DiskInv, HandlersKnow, HandlersRename, Due, Before, Ready, CutOff, CutIn
<1>3. Displacing => Displacing'
  BY <1>1 DEF Displacing, InFlight, Callers
<1> QED BY <1>2, <1>3 DEF DiskInv, DisplacedIsPromoted

\* A request hung up on becomes the lost one, at the step it was in.
LEMMA HangUpRecovers ==
  ASSUME SecretInv, RecoveryInv, HangUp
  PROVE  RecoveryInv'
<1> USE DEF RecoveryInv, RecordInv
<1>1. /\ sm' = sm /\ UNCHANGED <<row, op, disk, agent, saga, overlapped>>
      /\ InFlight("keyed") /\ ~InFlight("lost")
      /\ calls["keyed"].kind \in {"stage", "promote", "stop", "remove"}
      /\ calls' = [calls EXCEPT !["lost"] = calls["keyed"],
           !["keyed"] = [@ EXCEPT !.pc = "answered", !.answer = "timeout"]]
  BY DEF HangUp, OnSm, host, durable
<1>2. calls \in [Callers -> CallTypes] /\ calls["keyed"] \in CallTypes
  BY DEF SecretInv, AppTypes, Callers
<1>3. /\ calls'["lost"] = calls["keyed"] /\ calls'["free"] = calls["free"]
      /\ calls'["keyed"] = [calls["keyed"] EXCEPT !.pc = "answered", !.answer = "timeout"]
  <2> HIDE DEF CallTypes
  <2> QED BY <1>1, <1>2 DEF Callers
<1>4. /\ calls'["keyed"].kind = calls["keyed"].kind /\ calls'["keyed"].answer = "timeout"
      /\ calls'["keyed"].pc = "answered"
  BY <1>2, <1>3 DEF CallTypes
<1>5. InFlight("lost")' /\ ~InFlight("keyed")' /\ (InFlight("free")' => InFlight("free"))
  BY <1>1, <1>3, <1>4 DEF InFlight
<1>6. CallsFit' BY <1>1, <1>3, <1>4, <1>5 DEF CallsFit, Callers
<1>7. RecordNames' /\ RecordRuns' /\ SagaFollows'
  BY <1>1, <1>4 DEF RecordNames, RecordRuns, SagaFollows
<1>8. ASSUME ~overlapped PROVE DiskInv'
  <2> USE <1>8
  <2>1. \A t \in Callers : InFlight(t) => t = "keyed"
    BY <1>1 DEF DiskInv, Alone, Callers
  <2>2. \A t \in Callers : InFlight(t)' => t = "lost"
    BY <1>5, <2>1 DEF Callers
  <2>3. HandlersKnow' /\ HandlersRename' /\ DisplacedIsPromoted'
    BY <1>1, <1>3, <2>1, <2>2, LostGoesOn
  <2>4. Alone' BY <1>1, <1>3, <1>4, <2>2 DEF Alone
  <2>5. DiskFollows'
    BY <1>1, <1>4
       DEF DiskInv, DiskFollows, Answered, Due, Before, Ready, CutOff, CutIn, After, Discarded
  <2> QED BY <2>3, <2>4, <2>5 DEF DiskInv
<1> QED BY <1>1, <1>6, <1>7, <1>8

\* Either process may die at any step: the disk is what it had come to.
LEMMA CrashesRecover ==
  ASSUME SecretInv, RecoveryInv, SmCrash \/ AgentCrash \/ AgentStart
  PROVE  RecoveryInv'
<1> USE DEF RecoveryInv, RecordInv
<1>1. CASE SmCrash
  <2>1. /\ sm' = "down" /\ saga' = NoSaga /\ UNCHANGED <<row, op, disk, agent, overlapped>>
    BY <1>1 DEF SmCrash, durable, host
  <2>2. PICK s \in {"keyed", "free"} :
          /\ \A t \in Callers \ {s} : ~InFlight(t) \/ (t = "lost" /\ ~InFlight(s))
          /\ calls' = [NoCalls EXCEPT !["lost"] = IF InFlight(s) THEN calls[s] ELSE calls["lost"]]
    BY <1>1 DEF SmCrash
  <2>3. PICK u \in {"keyed", "free", "lost"} :
          /\ \A t \in Callers : InFlight(t) => t = u
          /\ calls'["lost"] = calls[u] /\ u = IF InFlight(s) THEN s ELSE "lost"
    BY <2>2 DEF NoCalls, Callers
  <2>4. calls'["keyed"] = NoCall /\ calls'["free"] = NoCall
    BY <2>2 DEF NoCalls, Callers
  <2>5. /\ calls'["keyed"].kind = "none" /\ calls'["free"].kind = "none" /\ calls'["keyed"].answer = "none"
        /\ ~InFlight("keyed")' /\ ~InFlight("free")'
    BY <2>4 DEF NoCall, InFlight
  <2>6. \A t \in Callers : InFlight(t)' => t = "lost"
    BY <2>5 DEF Callers
  <2>7. saga'.kind = "none" /\ ~saga'.promoted BY <2>1 DEF NoSaga
  <2>8. CallsFit'
    <3>1. calls'["lost"] = NoCall \/ InFlight("lost")'
      BY <2>3 DEF CallsFit, InFlight
    <3>2. InFlight("lost")' => agent = "up" /\ calls'["lost"].kind # "none" /\ calls'["lost"].answer = "none"
      BY <2>3 DEF CallsFit, InFlight, Callers
    <3> QED BY <2>1, <2>5, <2>6, <3>1, <3>2 DEF CallsFit
  <2>9. RecordNames' /\ RecordRuns' /\ SagaFollows'
    BY <2>1, <2>7 DEF RecordNames, RecordRuns, SagaFollows
  <2>10. ASSUME ~overlapped PROVE DiskInv'
    <3>1. HandlersKnow' /\ HandlersRename' /\ DisplacedIsPromoted'
      BY <2>1, <2>3, <2>6, <2>10, LostGoesOn
    <3>2. Alone' BY <2>5, <2>6, <2>7 DEF Alone
    <3>3. DiskFollows'
      BY <2>1, <2>7, <2>10
         DEF DiskInv, DiskFollows, Due, Before, Ready, CutOff, CutIn, After, Discarded
    <3> QED BY <3>1, <3>2, <3>3 DEF DiskInv
  <2> QED BY <2>1, <2>8, <2>9, <2>10
<1>2. CASE AgentCrash
  <2>1. /\ agent' = "down" /\ UNCHANGED <<row, op, disk, sm, saga, overlapped>>
        /\ calls' = [s \in Callers |->
             IF ~InFlight(s) THEN calls[s]
             ELSE IF s = "lost" THEN NoCall
             ELSE [calls[s] EXCEPT !.pc = "answered", !.answer = "unavailable"]]
    BY <1>2 DEF AgentCrash, durable, host
  <2>2. \A s \in Callers : calls[s] \in CallTypes
    BY DEF SecretInv, AppTypes
  <2>3. /\ \A s \in Callers : ~InFlight(s) => calls'[s] = calls[s]
        /\ InFlight("lost") => calls'["lost"] = NoCall
        /\ \A s \in {"keyed", "free"} : InFlight(s) =>
             calls'[s] = [calls[s] EXCEPT !.pc = "answered", !.answer = "unavailable"]
    BY <2>1 DEF Callers
  <2>4. /\ calls'["keyed"].kind = calls["keyed"].kind /\ calls'["free"].kind = calls["free"].kind
        /\ InFlight("keyed") => calls'["keyed"].pc = "answered" /\ calls'["keyed"].answer = "unavailable"
        /\ InFlight("free") => calls'["free"].pc = "answered"
    BY <2>2, <2>3 DEF CallTypes, Callers
  <2>5. \A s \in Callers : ~InFlight(s)'
    <3>1. \A s \in Callers : ~InFlight(s) => ~InFlight(s)'
      BY <2>3 DEF InFlight
    <3>2. (InFlight("keyed") => ~InFlight("keyed")') /\ (InFlight("free") => ~InFlight("free")')
      BY <2>4 DEF InFlight
    <3>3. InFlight("lost") => ~InFlight("lost")'
      BY <2>3 DEF InFlight, NoCall
    <3> QED BY <3>1, <3>2, <3>3 DEF Callers
  <2>6. CallsFit' BY <2>3, <2>4, <2>5 DEF CallsFit, Callers
  <2>7. RecordNames' /\ RecordRuns' /\ SagaFollows'
    BY <2>1, <2>4 DEF RecordNames, RecordRuns, SagaFollows
  <2>8. ASSUME ~overlapped PROVE DiskInv'
    <3>1. Alone' /\ HandlersKnow' /\ HandlersRename'
      BY <2>5 DEF Alone, HandlersKnow, HandlersRename, Callers
    <3>2. DisplacedIsPromoted'
      BY <2>1, <2>8 DEF DiskInv, DisplacedIsPromoted
    <3>3. \A k \in {"stage", "promote"} :
            Answered("keyed", k, {"ok"})' => Answered("keyed", k, {"ok"})
      BY <2>3, <2>4 DEF Answered, Callers
    <3>4. DiskFollows'
      BY <2>1, <2>8, <3>3
         DEF DiskInv, DiskFollows, Due, Before, Ready, CutOff, CutIn, After, Discarded
    <3> QED BY <3>1, <3>2, <3>4 DEF DiskInv
  <2> QED BY <2>1, <2>6, <2>7, <2>8
<1>3. CASE AgentStart
  <2>1. /\ agent = "down" /\ agent' = "sweeping"
        /\ UNCHANGED <<row, op, disk, calls, sm, saga, overlapped>>
    BY <1>3 DEF AgentStart, durable, host
  <2> QED BY <2>1
          DEF RecordNames, RecordRuns, SagaFollows, CallsFit, DiskInv, Alone, HandlersKnow,
              HandlersRename, DisplacedIsPromoted, DiskFollows, Answered, InFlight, Due, Before,
              Ready, CutOff, CutIn, After, Discarded
<1> QED BY <1>1, <1>2, <1>3

\* The sweep undoes one rename of a promotion at a time, each leaving a state the
\* record knows.
LEMMA SweepRecovers ==
  ASSUME SecretInv, RecoveryInv, SweepInterruptedPromotions
  PROVE  RecoveryInv'
<1> USE DEF RecoveryInv, RecordInv
<1>1. /\ agent = "sweeping" /\ disk' = Repaired(disk)
      /\ agent' = IF disk' = disk THEN "up" ELSE "sweeping"
      /\ UNCHANGED <<row, op, calls, sm, saga, overlapped>>
  BY DEF SweepInterruptedPromotions, durable
<1>2. \A s \in Callers : ~InFlight(s) /\ ~InFlight(s)'
  BY <1>1 DEF CallsFit, InFlight
<1>3. RecordNames' /\ RecordRuns' /\ SagaFollows' /\ CallsFit'
  <2>1. RecordNames' /\ RecordRuns' /\ SagaFollows'
    BY <1>1 DEF RecordNames, RecordRuns, SagaFollows
  <2>2. CallsFit' BY <1>1, <1>2 DEF CallsFit, Callers
  <2> QED BY <2>1, <2>2
<1>4. ASSUME ~overlapped PROVE DiskInv'
  <2> USE <1>4 DEF DiskInv
  <2>1. disk \in [{"installed", "candidate", "displaced", "previous"} -> Packages]
    BY DEF SecretInv, AppTypes, TypeOK
  <2>2. Alone' /\ HandlersKnow' /\ HandlersRename'
    BY <1>2 DEF Alone, HandlersKnow, HandlersRename, Callers
  <2>3. CASE disk.displaced = NoPackage
    <3>1. disk' = disk BY <1>1, <2>3 DEF Repaired
    <3>2. DisplacedIsPromoted' BY <2>3, <3>1 DEF DisplacedIsPromoted
    <3>3. DiskFollows'
      BY <1>1, <3>1
         DEF DiskFollows, Answered, Due, Before, Ready, CutOff, CutIn, After, Discarded
    <3> QED BY <2>2, <3>2, <3>3
  <2>4. CASE disk.displaced # NoPackage /\ disk.installed # NoPackage
    <3>1. disk' = [disk EXCEPT !.candidate = disk.installed, !.installed = NoPackage]
          /\ disk.candidate = NoPackage
      BY <1>1, <2>4 DEF Repaired, DisplacedIsPromoted
    <3>2. /\ disk'.candidate = disk.installed /\ disk'.installed = NoPackage
          /\ disk'.displaced = disk.displaced /\ agent' = "sweeping"
      BY <1>1, <2>1, <2>4, <3>1
    <3>3. DisplacedIsPromoted' BY <3>2 DEF DisplacedIsPromoted
    <3>4. ~(Before \/ Ready \/ CutOff \/ After \/ Discarded)
      BY <2>1, <2>4 DEF Before, Ready, CutOff, After, Discarded
    <3>5. CutIn => CutOff' BY <1>1, <3>2 DEF CutIn, CutOff
    <3>6. DiskFollows'
      BY <1>1, <3>4, <3>5 DEF DiskFollows, Answered, Due
    <3> QED BY <2>2, <3>3, <3>6
  <2>5. CASE disk.displaced # NoPackage /\ disk.installed = NoPackage
    <3>1. disk' = [disk EXCEPT !.installed = disk.displaced, !.displaced = NoPackage]
      BY <1>1, <2>5 DEF Repaired
    <3>2. /\ disk'.candidate = disk.candidate /\ disk'.installed = disk.displaced
          /\ disk'.displaced = NoPackage
      BY <2>1, <3>1
    <3>3. DisplacedIsPromoted' BY <3>2 DEF DisplacedIsPromoted
    <3>4. ~(Before \/ Ready \/ After \/ Discarded) /\ (Due => ~CutIn)
      BY <2>1, <2>5 DEF Before, Ready, After, Discarded, CutIn, Due, RecordRuns, RecordNames
    <3>5. CutOff => Ready' BY <1>1, <3>2 DEF CutOff, Ready, Before
    <3>6. DiskFollows'
      BY <1>1, <3>4, <3>5 DEF DiskFollows, Answered, Due
    <3> QED BY <2>2, <3>3, <3>6
  <2> QED BY <2>3, <2>4, <2>5
<1> QED BY <1>1, <1>3, <1>4

\* It holds of an app that is installed and idle.
LEMMA RecoveryInitially == Init => RecoveryInv
<1> SUFFICES ASSUME Init PROVE RecoveryInv
  OBVIOUS
<1>1. PICK v \in Versions :
        /\ row = [status |-> "installed", digest |-> v, recovery |-> "none", held |-> FALSE]
        /\ disk = [installed |-> v, candidate |-> NoPackage, displaced |-> NoPackage,
                   previous |-> NoPackage]
  BY DEF Init
<1>2. /\ op = [status |-> "none", stage |-> "none", cand |-> NoPackage, added |-> FALSE]
      /\ calls = NoCalls /\ agent = "up" /\ saga = NoSaga
  BY DEF Init
<1>3. v # NoPackage /\ ~Due /\ saga.kind = "none" /\ op.status = "none" /\ row.recovery = "none"
      /\ disk.displaced = NoPackage
  BY <1>1, <1>2, VersionsAssumption DEF NoPackage, Due, NoSaga, Pending
<1>4. \A s \in Callers : calls[s] = NoCall /\ ~InFlight(s)
  BY <1>2 DEF NoCalls, NoCall, InFlight
<1>5. RecordInv
  BY <1>1, <1>2, <1>3, <1>4 DEF RecordInv, RecordNames, RecordRuns, SagaFollows, CallsFit, Pending, Callers, NoCall
<1>6. DiskInv
  BY <1>3, <1>4 DEF DiskInv, Alone, HandlersKnow, HandlersRename, DisplacedIsPromoted, DiskFollows, Callers
<1> QED BY <1>5, <1>6 DEF RecoveryInv

\* Every step keeps it.
LEMMA RecoveryKept == SecretInv /\ RecoveryInv /\ [Next]_vars => RecoveryInv'
<1>1. SUFFICES ASSUME SecretInv, RecoveryInv, [Next]_vars PROVE RecoveryInv'
  OBVIOUS
<1>2. CASE UNCHANGED vars
  BY <1>1, <1>2
     DEF vars, RecoveryInv, RecordInv, RecordNames, RecordRuns, SagaFollows, CallsFit, DiskInv, Alone,
         HandlersKnow, HandlersRename, DisplacedIsPromoted, Displacing, DiskFollows, Answered,
         InFlight, Due, Before, Ready, CutOff, CutIn, After, Discarded
<1>3. ASSUME NEW s \in Callers, AgentStep(s) PROVE RecoveryInv'
  <2>1. overlapped' = overlapped
    BY <1>1, <1>3, AgentMoves DEF SecretInv, OnAgent
  <2> QED BY <1>1, <1>3, <2>1, AgentKeepsRecord, AgentKeepsDisk DEF RecoveryInv
<1> QED BY <1>1, <1>2, <1>3, BeginUpdateRecovers, RecordUpdateRecovers, AdvanceUpdateRecovers,
           RecordPromotionRecovers, CommitUpdateRecovers, FailuresRecover, RecoveriesRecover,
           LifecycleRecovers, HangUpRecovers, CrashesRecover, SweepRecovers DEF Next, Saga

\* A recovery that is due can be performed: the promoted candidate is there to be
\* committed, or both packages are that a rollback verifies, whichever process died
\* at which step, of handlers that did not overlap (app-update-service.cjs, apps
\* agent's promotion and its sweep).
THEOREM RecoveryStaysPossible == Spec => []RecoveryIsPossible
<1>1. SecretInv /\ RecoveryInv => RecoveryIsPossible
  <2> SUFFICES ASSUME SecretInv, RecoveryInv, AtRest, ~overlapped, row.recovery \in Pending,
                      ~Discarded
               PROVE  /\ op.status = "failed"
                      /\ \/ disk.installed = op.cand
                         \/ row.recovery = "rollback-required" /\ disk.installed = row.digest
                               /\ disk.candidate = op.cand
    BY DEF RecoveryIsPossible
  <2>1. /\ op.status = "failed" /\ row.status # "absent" /\ row.digest # NoPackage
        /\ row.recovery = "commit-required" => op.stage = "snapshot-promoted"
        /\ op.stage \in {"candidate-built", "candidate-healthy", "snapshot-promoted"}
    BY DEF RecoveryInv, RecordInv, RecordRuns, RecordNames
  <2>2. disk.displaced = NoPackage
    <3>1. ~Displacing BY DEF AtRest, Displacing, InFlight, NoCall
    <3> QED BY <3>1 DEF AtRest, RecoveryInv, DiskInv, DisplacedIsPromoted
  <2>3. ~CutOff /\ ~CutIn BY <2>1, <2>2 DEF CutOff, CutIn
  <2>4. (Ready /\ op.stage # "snapshot-promoted") \/ After
    BY <2>1, <2>3 DEF RecoveryInv, DiskInv, DiskFollows, Due
  <2> QED BY <2>1, <2>4 DEF Ready, Before, After, Pending
<1>2. Spec => []RecoveryInv
  <2>1. Spec => []SecretInv BY SecretInvHolds
  <2> QED BY <2>1, RecoveryInitially, RecoveryKept, PTL DEF Spec
<1> QED BY <1>1, <1>2, SecretInvHolds, PTL

-----------------------------------------------------------------------------
(* What serves is on record: the inductive invariant, of handlers that did  *)
(* not overlap, of an agent that did not die, and of applies under the key. *)

Undying == ~overlapped /\ spent.agentCrash = 0
Quiet   == Undying /\ spent.free = 0

SpentTypes ==
  spent \in [{"update", "smCrash", "agentCrash", "hangUp", "free", "life"} -> Nat]

NobodyElse == agent = "up" /\ calls["free"] = NoCall

\* The containers of this package run, or none do.
Serves(package) == docker.run \in {NoPackage, package}

\* What a handler at work knows of the containers.
HandlerServes(s) ==
  /\ calls[s].kind \in Runtimes =>
       /\ calls[s].inst = row.digest
       /\ calls[s].pc \in {"stop", "start", "health"} => disk.installed = row.digest
       /\ calls[s].pc = "health" => Serves(Target(calls[s]))
  /\ calls[s].kind = "activate" =>
       /\ Due /\ op.stage = "candidate-built"
       /\ calls[s].pc = "verify" => Serves(row.digest)
  /\ calls[s].kind = "promote" => Serves(op.cand)
  /\ calls[s].pc = "discard" => Serves(NoPackage)

HandlersServe == \A s \in Callers : InFlight(s) => HandlerServes(s)

\* What an answer means for the containers.
AnswersServe ==
  /\ Answered("keyed", "activate", {"ok"}) => Serves(op.cand)
  /\ \A kind \in {"activate", "restore"} :
       Answered("keyed", kind, Refusals \ {"rollback-failed"}) => Serves(row.digest)
  /\ Answered("keyed", "rollback", {"ok"}) => Serves(row.digest)
  /\ Answered("keyed", "remove", {"ok"}) => Serves(NoPackage)

\* The candidate's containers run only once it was built and only until the update
\* is over; with its package installed, no other's do.
RunFollows ==
  /\ \/ Serves(row.digest)
     \/ Due /\ Serves(op.cand)
            /\ op.stage \in {"candidate-built", "candidate-healthy", "snapshot-promoted"}
  /\ Due /\ disk.installed = op.cand => Serves(op.cand)

RunInv == NobodyElse /\ HandlersServe /\ AnswersServe /\ RunFollows

\* Once the promotion is recorded the disk has it, until the update is over.
PromotedInv == saga.promoted /\ ~overlapped => After

-----------------------------------------------------------------------------
(* What the agent's steps do to it. *)

\* A step of the one handler at work: what is left to show of it.
LEMMA StepServes ==
  ASSUME SecretInv, RecoveryInv, ~overlapped, RunInv, NEW s \in Callers, AgentStep(s)
  PROVE  /\ s # "free" /\ InFlight(s) /\ HandlerServes(s) /\ DiskInv /\ CallsFit
         /\ UNCHANGED <<row, op, agent, sm, saga, overlapped>>
         /\ calls[s] \in CallTypes /\ calls \in [Callers -> CallTypes]
         /\ docker \in [run : Packages, route : Packages]
         /\ /\ InFlight(s)' => HandlerServes(s)'
            /\ s = "keyed" => AnswersServe'
            /\ RunFollows'
            => RunInv'
<1>1. OnAgent /\ InFlight(s) BY AgentMoves DEF SecretInv
<1>2. UNCHANGED <<row, op, agent, sm, saga, overlapped>>
  BY <1>1 DEF OnAgent, durable
<1>3. calls[s] \in CallTypes /\ calls \in [Callers -> CallTypes] /\ docker \in [run : Packages, route : Packages]
  BY DEF SecretInv, AppTypes, TypeOK
<1>4. s # "free" BY <1>1 DEF RunInv, NobodyElse, NoCall, InFlight
<1>5. DiskInv /\ CallsFit BY DEF RecoveryInv, RecordInv
<1>6. \A t \in Callers \ {s} : calls'[t] = calls[t] /\ ~InFlight(t)
  BY <1>1, <1>5, StepIsSeen DEF DiskInv, Alone
<1>7. NobodyElse' BY <1>2, <1>4, <1>6 DEF RunInv, NobodyElse, Callers
<1>8. (InFlight(s)' => HandlerServes(s)') => HandlersServe'
  BY <1>6 DEF HandlersServe, InFlight
<1>9. s # "keyed" => AnswersServe'
  <2>1. s # "keyed" => InFlight("lost") BY <1>1, <1>4 DEF Callers
  <2>2. InFlight("lost") =>
          \/ calls["keyed"].kind = "none"
          \/ /\ calls["keyed"].answer = "timeout"
             /\ calls["keyed"].kind \in {"stage", "promote", "stop", "remove"}
    BY <1>5 DEF DiskInv, Alone
  <2>3. s # "keyed" => calls'["keyed"] = calls["keyed"]
    BY <1>6 DEF Callers
  <2> QED BY <2>1, <2>2, <2>3 DEF AnswersServe, Answered
<1>10. HandlerServes(s) BY <1>1 DEF RunInv, HandlersServe
<1> QED BY <1>1, <1>2, <1>3, <1>4, <1>5, <1>7, <1>8, <1>9, <1>10 DEF RunInv

\* What a handler becomes that goes on, or answers.
LEMMA GoesOn ==
  ASSUME calls \in [Callers -> CallTypes], NEW s \in Callers, NEW pc \in Pcs \ {"idle", "answered"},
         Goto(s, pc)
  PROVE  /\ calls'[s].kind = calls[s].kind /\ calls'[s].cand = calls[s].cand
         /\ calls'[s].inst = calls[s].inst /\ calls'[s].pc = pc /\ InFlight(s)'
         /\ s = "keyed" => \A kind, answers : ~Answered("keyed", kind, answers)'
<1>1. calls[s] \in CallTypes OBVIOUS
<1>2. calls'[s] = [calls[s] EXCEPT !.pc = pc] BY DEF Goto
<1>3. /\ calls'[s].kind = calls[s].kind /\ calls'[s].cand = calls[s].cand
      /\ calls'[s].inst = calls[s].inst /\ calls'[s].pc = pc
  BY <1>1, <1>2 DEF CallTypes
<1> QED BY <1>3 DEF InFlight, Answered

\* A handler that answers is no longer at work.
LEMMA AnswersIt ==
  ASSUME calls \in [Callers -> CallTypes], NEW s \in Callers, NEW a \in Answers, Answer(s, a)
  PROVE  /\ ~InFlight(s)'
         /\ s = "keyed" => \A kind, answers : Answered("keyed", kind, answers)' =>
              calls["keyed"].kind = kind /\ a \in answers
<1>1. calls[s] \in CallTypes OBVIOUS
<1>2. CASE s = "lost"
  <2>1. calls'[s] = NoCall BY <1>2 DEF Answer
  <2> QED BY <1>2, <2>1 DEF InFlight, NoCall
<1>3. CASE s # "lost"
  <2>1. calls'[s] = [calls[s] EXCEPT !.pc = "answered", !.answer = a]
    BY <1>3 DEF Answer
  <2>2. calls'[s].pc = "answered" /\ calls'[s].kind = calls[s].kind /\ calls'[s].answer = a
    BY <1>1, <2>1 DEF CallTypes
  <2> QED BY <1>3, <2>2 DEF InFlight, Answered
<1> QED BY <1>2, <1>3

\* A runtime that fails: an activation goes on to restore, the others answer.
LEMMA FailingServes ==
  ASSUME SecretInv, RecoveryInv, ~overlapped, RunInv, NEW s \in Callers, AgentStep(s),
         calls[s].kind \in Runtimes, calls[s].pc \in {"start", "health"}, FailRuntime(s),
         UNCHANGED <<disk, docker>>
  PROVE  RunInv'
<1>1. RunFollows' BY StepServes DEF RunInv, RunFollows, Due, Serves
<1>2. CASE calls[s].kind = "activate"
  <2>1. calls'[s] = [calls[s] EXCEPT !.kind = "restore", !.pc = "stop"]
    BY <1>2, StepServes DEF FailRuntime
  <2>2. calls'[s].kind = "restore" /\ calls'[s].pc = "stop" /\ calls'[s].inst = calls[s].inst
    BY <2>1, StepServes DEF CallTypes
  <2>3. HandlerServes(s)' BY <2>2, StepServes DEF HandlerServes
  <2>4. s = "keyed" => AnswersServe' BY <2>2 DEF AnswersServe, Answered
  <2> QED BY <1>1, <2>3, <2>4, StepServes
<1>3. CASE calls[s].kind # "activate"
  <2>1. PICK a \in {"error", "rollback-failed"} :
          Answer(s, a) /\ (calls[s].kind = "restore" => a = "rollback-failed")
    BY <1>3 DEF FailRuntime
  <2>2. a \in Answers BY DEF Answers, Refusals
  <2>3. ~InFlight(s)' /\ (s = "keyed" => AnswersServe')
    BY <1>3, <2>1, <2>2, AnswersIt, StepServes DEF AnswersServe
  <2> QED BY <1>1, <2>3, StepServes
<1> QED BY <1>2, <1>3

\* A handler swaps containers for those of the package it was called with.
LEMMA RuntimeServes ==
  ASSUME SecretInv, RecoveryInv, ~overlapped, RunInv, NEW s \in Callers, AgentStep(s), RuntimeStep(s)
  PROVE  RunInv'
<1>1. CASE VerifyRuntime(s)
  <2>1. UNCHANGED <<disk, docker>> /\ calls[s].kind \in {"activate", "rollback", "apply"}
        /\ calls[s].pc = "verify"
    BY <1>1 DEF VerifyRuntime, At, host
  <2>2. RunFollows'
    BY <2>1, StepServes DEF RunInv, RunFollows, Due, Serves
  <2>3. CASE Goto(s, "stop") /\ disk.installed = calls[s].inst
    <3>1. HandlerServes(s)' /\ (s = "keyed" => AnswersServe')
      BY <2>1, <2>3, GoesOn, StepServes DEF HandlerServes, AnswersServe, Pcs, Runtimes, Due
    <3> QED BY <2>2, <3>1, StepServes
  <2>4. CASE \E a \in {"changed", "error", "rollback-failed"} : Answer(s, a)
    <3>1. PICK a \in {"changed", "error", "rollback-failed"} : Answer(s, a)
      BY <2>4
    <3>2. a \in Answers BY DEF Answers, Refusals
    <3>3. calls[s].kind = "activate" => Serves(row.digest)'
      BY <2>1, StepServes DEF HandlerServes, Serves
    <3>4. ~InFlight(s)' /\ (s = "keyed" => AnswersServe')
      BY <2>1, <3>1, <3>2, <3>3, AnswersIt, StepServes DEF AnswersServe
    <3> QED BY <2>2, <3>4, StepServes
  <2> QED BY <1>1, <2>1, <2>3, <2>4 DEF VerifyRuntime, VerifiedPair
<1>2. CASE StopContainers(s)
  <2>1. docker'.run = NoPackage /\ disk' = disk
    BY <1>2, StepServes DEF StopContainers
  <2>2. \A p : Serves(p)' BY <2>1 DEF Serves
  <2>3. RunFollows' /\ AnswersServe'
    BY <2>2 DEF RunFollows, AnswersServe
  <2>4. calls[s].pc = "stop" BY <1>2 DEF StopContainers, At
  <2>5. CASE \E pc \in {"start", "discard"} : Goto(s, pc)
    <3>1. PICK pc \in {"start", "discard"} : Goto(s, pc)
      BY <2>5
    <3>2. HandlerServes(s)'
      BY <2>1, <2>2, <2>4, <3>1, GoesOn, StepServes DEF HandlerServes, Pcs, Due
    <3> QED BY <2>3, <3>2, StepServes
  <2>6. CASE Answer(s, "ok")
    <3>1. ~InFlight(s)' BY <2>6, AnswersIt, StepServes DEF Answers
    <3> QED BY <2>3, <3>1, StepServes
  <2> QED BY <1>2, <2>5, <2>6 DEF StopContainers
<1>3. CASE StartContainers(s)
  <2>1. disk' = disk /\ calls[s].kind \in Runtimes /\ calls[s].pc = "start"
    BY <1>3 DEF StartContainers, At
  <2>2. CASE FailRuntime(s) /\ UNCHANGED docker
    BY <2>1, <2>2, FailingServes
  <2>3. CASE docker' = [docker EXCEPT !.run = Target(calls[s])] /\ Goto(s, "health")
    <3>1. docker'.run = Target(calls[s]) BY <2>3, StepServes
    <3>2. Target(calls[s]) = IF calls[s].kind = "activate" THEN op.cand ELSE row.digest
      BY <2>1, StepServes DEF Target, HandlerServes, DiskInv, HandlersKnow, StageDuring
    <3>3. disk.installed = row.digest
      BY <2>1, StepServes DEF HandlerServes
    <3>4. RunFollows'
      BY <2>1, <3>1, <3>2, <3>3, StepServes DEF RunFollows, Serves, HandlerServes, Due
    <3>5. Target(calls'[s]) = Target(calls[s])
      BY <2>3, GoesOn, StepServes DEF Target, Pcs
    <3>6. HandlerServes(s)' /\ (s = "keyed" => AnswersServe')
      BY <2>1, <2>3, <3>1, <3>5, GoesOn, StepServes
         DEF HandlerServes, AnswersServe, Pcs, Due, Serves, Runtimes
    <3> QED BY <3>4, <3>6, StepServes
  <2> QED BY <1>3, <2>2, <2>3 DEF StartContainers
<1>4. CASE AwaitHealth(s)
  <2>1. disk' = disk /\ calls[s].kind \in Runtimes /\ calls[s].pc = "health"
    BY <1>4 DEF AwaitHealth, At
  <2>2. CASE FailRuntime(s) /\ UNCHANGED docker
    BY <2>1, <2>2, FailingServes
  <2>3. CASE \E a \in {"activation-failed", "ok"} :
               /\ Answer(s, a) /\ docker'.run = docker.run
               /\ calls[s].kind = "restore" <=> a = "activation-failed"
    <3>1. PICK a \in {"activation-failed", "ok"} :
               /\ Answer(s, a) /\ docker'.run = docker.run
               /\ calls[s].kind = "restore" <=> a = "activation-failed"
      BY <2>3
    <3>2. a \in Answers BY DEF Answers, Refusals
    <3>3. Serves(IF calls[s].kind = "activate" THEN op.cand ELSE row.digest)
      BY <2>1, StepServes DEF Target, HandlerServes, DiskInv, HandlersKnow, StageDuring
    <3>4. RunFollows'
      BY <2>1, <3>1, StepServes DEF RunInv, RunFollows, Due, Serves
    <3>5. ~InFlight(s)' BY <3>1, <3>2, AnswersIt, StepServes
    <3>6. s = "keyed" => AnswersServe'
      BY <2>1, <3>1, <3>2, <3>3, AnswersIt, StepServes DEF AnswersServe, Serves, Runtimes, Refusals
    <3> QED BY <3>4, <3>5, <3>6, StepServes
  <2>4. docker' = docker \/ docker' = [docker EXCEPT !.route = Target(calls[s])] => docker'.run = docker.run
    BY StepServes
  <2> QED BY <1>4, <2>2, <2>3, <2>4 DEF AwaitHealth
<1> QED BY <1>1, <1>2, <1>3, <1>4 DEF RuntimeStep

\* A handler that leaves the containers and the installed package.
LEMMA ContainersStay ==
  ASSUME SecretInv, RecoveryInv, ~overlapped, RunInv, NEW s \in Callers, AgentStep(s),
         calls[s].kind \in {"stage", "build", "promote", "rollback"},
         calls[s].kind = "rollback" => calls[s].pc = "repair",
         UNCHANGED docker, disk'.installed = disk.installed,
         \/ \E pc \in {"copy", "verify", "displace", "retain"} : Goto(s, pc)
         \/ \E a \in Answers : Answer(s, a) /\ calls[s].kind # "rollback"
         \/ UNCHANGED calls
  PROVE  RunInv'
<1>1. RunFollows' BY StepServes DEF RunInv, RunFollows, Due, Serves
<1>2. CASE \E pc \in {"copy", "verify", "displace", "retain"} : Goto(s, pc)
  <2>1. PICK pc \in {"copy", "verify", "displace", "retain"} : Goto(s, pc)
    BY <1>2
  <2>2. HandlerServes(s)' /\ (s = "keyed" => AnswersServe')
    BY <2>1, GoesOn, StepServes DEF HandlerServes, AnswersServe, Pcs, Runtimes, Serves
  <2> QED BY <1>1, <2>2, StepServes
<1>3. CASE \E a \in Answers : Answer(s, a) /\ calls[s].kind # "rollback"
  <2>1. PICK a \in Answers : Answer(s, a)
    BY <1>3
  <2>2. ~InFlight(s)' /\ (s = "keyed" => AnswersServe')
    BY <1>3, <2>1, AnswersIt, StepServes DEF AnswersServe
  <2> QED BY <1>1, <2>2, StepServes
<1>4. CASE UNCHANGED calls
  <2>1. HandlerServes(s)' /\ (s = "keyed" => AnswersServe')
    BY <1>4, StepServes DEF RunInv, HandlerServes, AnswersServe, Answered, Serves, Due
  <2> QED BY <1>1, <2>1, StepServes
<1> QED BY <1>2, <1>3, <1>4

\* A promotion: with the candidate installed, its containers are the ones that run.
LEMMA PromotionServes ==
  ASSUME SecretInv, RecoveryInv, ~overlapped, RunInv, NEW s \in Callers, AgentStep(s),
         calls[s].kind = "promote", UNCHANGED docker,
         \/ Goto(s, "install") \/ Goto(s, "forget") \/ Answer(s, "error")
  PROVE  RunInv'
<1>1. Serves(op.cand) BY StepServes DEF HandlerServes
<1>2. RunFollows'
  BY <1>1, StepServes DEF RunInv, RunFollows, Due, Serves
<1>3. CASE \E pc \in {"install", "forget"} : Goto(s, pc)
  <2>1. PICK pc \in {"install", "forget"} : Goto(s, pc)
    BY <1>3
  <2>2. HandlerServes(s)' /\ (s = "keyed" => AnswersServe')
    BY <1>1, <2>1, GoesOn, StepServes DEF HandlerServes, AnswersServe, Pcs, Runtimes, Serves
  <2> QED BY <1>2, <2>2, StepServes
<1>4. CASE Answer(s, "error")
  <2>1. ~InFlight(s)' /\ (s = "keyed" => AnswersServe')
    BY <1>4, AnswersIt, StepServes DEF AnswersServe, Answers, Refusals
  <2> QED BY <1>2, <2>1, StepServes
<1> QED BY <1>3, <1>4

\* Whatever step a handler takes, what serves stays on record.
LEMMA AgentServes ==
  ASSUME SecretInv, RecoveryInv, ~overlapped, RunInv, NEW s \in Callers, AgentStep(s)
  PROVE  RunInv'
<1>1. DOMAIN disk = {"installed", "candidate", "displaced", "previous"}
      /\ disk \in [{"installed", "candidate", "displaced", "previous"} -> Packages]
  BY DEF SecretInv, AppTypes, TypeOK
<1>2. CASE Stage(s) \/ Build(s)
  <2>1. calls[s].kind \in {"stage", "build"} /\ docker' = docker /\ disk'.installed = disk.installed
    BY <1>1, <1>2 DEF Stage, Build, At, host
  <2>2. Goto(s, "copy") \/ \E a \in Answers : Answer(s, a)
    BY <1>2 DEF Stage, Build, Answers, Refusals
  <2> QED BY <2>1, <2>2, ContainersStay
<1>3. CASE Repair(s)
  <2>1. calls[s].kind \in {"promote", "rollback"} /\ calls[s].pc = "repair" /\ docker' = docker
    BY <1>3 DEF Repair, At
  <2>2. disk.displaced = NoPackage
    <3>1. ~Displacing BY <2>1, StepServes DEF Displacing, DiskInv, Alone
    <3> QED BY <3>1, StepServes DEF DiskInv, DisplacedIsPromoted, RunInv, NobodyElse
  <2>3. disk' = disk /\ Goto(s, "verify")
    BY <1>3, <2>2 DEF Repair, Repaired
  <2> QED BY <2>1, <2>3, ContainersStay
<1>4. CASE Promote(s)
  <2>1. calls[s].kind = "promote" /\ docker' = docker
    BY <1>4 DEF Promote, At
  <2>2. CASE Goto(s, "install") \/ Goto(s, "forget") \/ Answer(s, "error")
    BY <2>1, <2>2, PromotionServes
  <2>3. CASE /\ disk'.installed = disk.installed
             /\ Goto(s, "displace") \/ Goto(s, "retain") \/ Answer(s, "changed") \/ Answer(s, "ok")
    <3>1. \/ \E pc \in {"copy", "verify", "displace", "retain"} : Goto(s, pc)
          \/ \E a \in Answers : Answer(s, a)
      BY <2>3 DEF Answers, Refusals
    <3> QED BY <2>1, <2>3, <3>1, ContainersStay
  <2> QED BY <1>1, <1>4, <2>2, <2>3 DEF Promote
<1>5. CASE Discard(s)
  <2>1. calls[s].kind = "remove" /\ calls[s].pc = "discard" /\ docker'.run = docker.run
        /\ \E a \in {"ok", "error"} : Answer(s, a)
    BY <1>5, StepServes DEF Discard, At, host
  <2>2. docker'.run = NoPackage
    BY <2>1, StepServes DEF HandlerServes, Serves
  <2>3. RunFollows' /\ AnswersServe'
    BY <2>2 DEF RunFollows, AnswersServe, Serves
  <2>4. ~InFlight(s)'
    BY <2>1, AnswersIt, StepServes DEF Answers, Refusals
  <2> QED BY <2>3, <2>4, StepServes
<1>6. CASE StopContainers(s)
  BY <1>6, RuntimeServes DEF RuntimeStep
<1> QED BY <1>2, <1>3, <1>4, <1>5, <1>6, RuntimeServes
        DEF AgentStep, Activate, Rollback, Apply, PromoteSnapshot, StopApp, RemoveApp

-----------------------------------------------------------------------------
(* What Suite Manager's steps do to it. *)

\* A request that nothing else is at work beside.
LEMMA CallServes ==
  ASSUME SecretInv, RecoveryInv, RunInv, NEW kind \in DOMAIN FirstStep, NEW cand \in Packages,
         NEW inst \in Packages, Call("keyed", kind, cand, inst), agent' = agent, ~overlapped'
  PROVE  /\ ~overlapped /\ NobodyElse' /\ AnswersServe'
         /\ calls'["keyed"].kind = kind /\ calls'["keyed"].cand = cand
         /\ calls'["keyed"].inst = inst /\ calls'["keyed"].pc = FirstStep[kind]
         /\ HandlerServes("keyed")' => HandlersServe'
<1>1. ~overlapped /\ \A t \in Callers \ {"keyed"} : ~InFlight(t)
  BY DEF Call
<1>2. CallsFit /\ agent = "up" /\ calls["free"] = NoCall
  BY DEF RecoveryInv, RecordInv, RunInv, NobodyElse
<1>3. calls'["keyed"] = Request(kind, cand, inst) /\ \A t \in Callers \ {"keyed"} : calls'[t] = calls[t]
  <2>1. calls' = [calls EXCEPT !["keyed"] = Request(kind, cand, inst)] /\ calls \in [Callers -> CallTypes]
    BY DEF Call, SecretInv, AppTypes
  <2> HIDE DEF CallTypes
  <2> QED BY <2>1 DEF Callers
<1>4. /\ calls'["keyed"].kind = kind /\ calls'["keyed"].cand = cand
      /\ calls'["keyed"].inst = inst /\ calls'["keyed"].pc = FirstStep[kind]
  BY <1>2, <1>3 DEF Request
<1>5. FirstStep[kind] # "answered" BY DEF FirstStep
<1>6. AnswersServe' BY <1>4, <1>5 DEF AnswersServe, Answered
<1>7. NobodyElse' BY <1>2, <1>3 DEF NobodyElse, Callers
<1>8. HandlerServes("keyed")' => HandlersServe'
  BY <1>1, <1>3 DEF HandlersServe, InFlight
<1> QED BY <1>1, <1>4, <1>6, <1>7, <1>8

\* A request that is over: what a lost handler knows is left to show.
LEMMA FreedServes ==
  ASSUME SecretInv, RecoveryInv, RunInv, calls' = Free("keyed"), agent' = agent
  PROVE  /\ NobodyElse' /\ AnswersServe' /\ calls'["lost"] = calls["lost"]
         /\ (InFlight("lost") => HandlerServes("lost")') => HandlersServe'
<1>1. CallsFit /\ agent = "up" /\ calls["free"] = NoCall
  BY DEF RecoveryInv, RecordInv, RunInv, NobodyElse
<1>2. /\ \A t \in Callers \ {"keyed"} : calls'[t] = calls[t]
      /\ ~InFlight("keyed")' /\ calls'["keyed"].kind = "none"
  BY <1>1, FreeFits
<1>3. AnswersServe' BY <1>2 DEF AnswersServe, Answered
<1>4. NobodyElse' /\ calls'["lost"] = calls["lost"]
  BY <1>1, <1>2 DEF NobodyElse, Callers
<1>5. ~InFlight("free")' BY <1>4 DEF NobodyElse, InFlight, NoCall
<1>6. (InFlight("lost") => HandlerServes("lost")') => HandlersServe'
  BY <1>2, <1>4, <1>5 DEF HandlersServe, InFlight, Callers
<1> QED BY <1>3, <1>4, <1>6

\* What no handler does, and no containers show.
LEMMA OthersServe ==
  ASSUME RunInv, UNCHANGED <<row, op, disk, docker, calls, agent>>
  PROVE  RunInv'
PROOF
BY DEF RunInv, NobodyElse, HandlersServe, HandlerServes, AnswersServe, RunFollows, Answered, InFlight,
       Serves, Due

\* The update, as far as it goes: each request needs what the answer before it meant.
LEMMA UpdateServes ==
  ASSUME SecretInv, RecoveryInv, RunInv, RecordUpdate \/ AdvanceUpdate \/ RecordPromotion,
         ~overlapped'
  PROVE  RunInv'
<1> USE DEF RecoveryInv, RecordInv
<1>1. CASE RecordUpdate
  <2>1. /\ saga.kind = "update" /\ saga.stage = "none" /\ op.status # "running"
        /\ op' = [status |-> "running", stage |-> "candidate-verified", cand |-> saga.cand,
                  added |-> ~row.held]
        /\ row' = [row EXCEPT !.recovery = "none"]
        /\ Call("keyed", "stage", saga.cand, row.digest)
        /\ UNCHANGED <<disk, docker, agent>>
    BY <1>1 DEF RecordUpdate, OnSm, host, BeginAppUpdate
  <2>2. saga.cand \in Packages /\ row.digest \in Packages /\ "stage" \in DOMAIN FirstStep
    BY DEF SecretInv, AppTypes, TypeOK, FirstStep
  <2>3. /\ row'.digest = row.digest /\ op'.cand = saga.cand /\ op'.status = "running"
        /\ op'.stage = "candidate-verified" /\ ~Due /\ saga.cand # NoPackage
    BY <2>1 DEF SecretInv, AppTypes, TypeOK, RecordRuns, RecordNames, Due
  <2>4. /\ ~overlapped /\ NobodyElse' /\ AnswersServe' /\ calls'["keyed"].kind = "stage"
        /\ calls'["keyed"].pc = "verify"
        /\ HandlerServes("keyed")' => HandlersServe'
    BY <2>1, <2>2, CallServes DEF FirstStep
  <2>5. HandlerServes("keyed")' BY <2>4 DEF HandlerServes, Runtimes
  <2>6. Serves(row.digest) BY <2>3 DEF RunInv, RunFollows
  <2>7. disk.installed \in {row.digest, NoPackage}
    <3>1. DOMAIN disk = {"installed", "candidate", "displaced", "previous"}
      BY DEF SecretInv, AppTypes, TypeOK
    <3> QED BY <2>1, <2>4, <3>1 DEF DiskInv, DiskFollows, Before, Discarded
  <2>8. RunFollows' BY <2>1, <2>3, <2>6, <2>7 DEF RunFollows, Serves
  <2> QED BY <2>4, <2>5, <2>8 DEF RunInv
<1>2. CASE AdvanceUpdate
  <2>1. PICK k \in DOMAIN Following :
          /\ Answered("keyed", k, {"ok"})
          /\ AdvanceAppUpdate(Following[k].stage)
          /\ Call("keyed", Following[k].next, saga.cand, row.digest)
    BY <1>2 DEF AdvanceUpdate
  <2> DEFINE stage == Following[k].stage
             next == Following[k].next
  <2>2. /\ saga.kind = "update" /\ op' = [op EXCEPT !.stage = stage]
        /\ UNCHANGED <<row, disk, docker, agent>>
    BY <1>2, <2>1 DEF AdvanceUpdate, OnSm, host, AdvanceAppUpdate
  <2>3. calls["keyed"].kind = k /\ calls["keyed"] # NoCall
    BY <2>1 DEF Answered, NoCall
  <2>4. /\ saga.stage = "recorded" /\ ~saga.promoted /\ op.status = "running" /\ saga.cand = op.cand
        /\ op.stage = StageDuring[k]
    BY <2>2, <2>3 DEF SecretInv, SagaRuns, SagaRecorded, SagaFollows, AppTypes, SagaTypes
  <2>5. /\ k = "stage" /\ stage = "candidate-staged" /\ next = "build" /\ op.stage = "candidate-verified"
        \/ /\ k = "build" /\ stage = "candidate-built" /\ next = "activate" /\ op.stage = "candidate-staged"
        \/ /\ k = "activate" /\ stage = "candidate-healthy" /\ next = "promote" /\ op.stage = "candidate-built"
    BY <2>4 DEF Following, StageDuring
  <2>6. saga.cand \in Packages /\ row.digest \in Packages /\ next \in DOMAIN FirstStep
    BY <2>5 DEF SecretInv, AppTypes, TypeOK, FirstStep
  <2>7. op'.status = "running" /\ op'.stage = stage /\ op'.cand = op.cand /\ Due /\ Due'
    BY <2>2, <2>4 DEF SecretInv, AppTypes, TypeOK, Due
  <2> HIDE DEF stage, next
  <2>8. Call("keyed", next, saga.cand, row.digest) BY <2>1 DEF next
  <2>9. /\ NobodyElse' /\ AnswersServe' /\ calls'["keyed"].kind = next
        /\ calls'["keyed"].inst = row.digest /\ calls'["keyed"].pc = FirstStep[next]
        /\ HandlerServes("keyed")' => HandlersServe'
    BY <2>2, <2>6, <2>8, CallServes
  <2>10. /\ k \in {"stage", "build"} => Serves(row.digest)
         /\ k = "activate" => Serves(op.cand)
    BY <2>1, <2>5 DEF RunInv, RunFollows, AnswersServe
  <2>11. HandlerServes("keyed")'
    BY <2>2, <2>5, <2>7, <2>9, <2>10 DEF HandlerServes, Runtimes, FirstStep, Serves
  <2>12. RunFollows'
    BY <2>2, <2>5, <2>7, <2>10 DEF RunInv, RunFollows, Serves
  <2> QED BY <2>9, <2>11, <2>12 DEF RunInv
<1>3. CASE RecordPromotion
  <2>1. /\ Answered("keyed", "promote", {"ok"}) /\ op' = [op EXCEPT !.stage = "snapshot-promoted"]
        /\ calls' = Free("keyed") /\ UNCHANGED <<row, disk, docker, agent, overlapped>>
    BY <1>3 DEF RecordPromotion, OnSm, host, AdvanceAppUpdate
  <2>2. op'.stage = "snapshot-promoted" /\ op'.cand = op.cand /\ op'.status = op.status
    BY <2>1 DEF SecretInv, AppTypes, TypeOK
  <2>3. ~InFlight("lost") BY <2>1 DEF DiskInv, Alone, Answered
  <2>4. NobodyElse' /\ AnswersServe' /\ HandlersServe'
    BY <2>1, <2>3, FreedServes
  <2>5. RunFollows' BY <2>1, <2>2 DEF RunInv, RunFollows, Serves, Due
  <2> QED BY <2>4, <2>5 DEF RunInv
<1> QED BY <1>1, <1>2, <1>3

\* An operation that is over with the candidate's package on record.
LEMMA CommittedServes ==
  ASSUME SecretInv, RecoveryInv, RunInv, ~InFlight("lost"), calls["keyed"] = NoCall,
         Due, disk.installed = op.cand, row'.digest = op.cand, ~Due',
         UNCHANGED <<disk, docker, calls, agent>>
  PROVE  RunInv'
<1>1. \A t \in Callers : ~InFlight(t)
  BY DEF RunInv, NobodyElse, Callers, InFlight, NoCall
<1>2. NobodyElse' /\ HandlersServe'
  BY <1>1 DEF RunInv, NobodyElse, HandlersServe, InFlight
<1>3. AnswersServe' BY DEF AnswersServe, Answered, NoCall
<1>4. RunFollows' BY DEF RunInv, RunFollows, Serves
<1> QED BY <1>2, <1>3, <1>4 DEF RunInv

\* An update that fails: nothing is due any more only when what serves is on record.
LEMMA FailedServes ==
  ASSUME SecretInv, RecoveryInv, RunInv, ~overlapped, OnSm, op.status = "running",
         NEW recovery \in {"none", "rollback-required", "commit-required"}, FailedUpdate(recovery),
         recovery = "none" => Serves(row.digest),
         InFlight("lost") => calls["lost"].kind = "stage"
  PROVE  RunInv'
<1>1. /\ UNCHANGED <<disk, docker, agent>> /\ calls' = Free("keyed")
      /\ op' = [op EXCEPT !.status = "failed"] /\ row' = [row EXCEPT !.recovery = recovery]
  BY DEF OnSm, host, FailedUpdate, FailAppUpdate
<1>2. /\ row'.digest = row.digest /\ row'.recovery = recovery /\ op'.status = "failed"
      /\ op'.stage = op.stage /\ op'.cand = op.cand
  BY <1>1 DEF SecretInv, AppTypes, TypeOK
<1>3. InFlight("lost") => HandlerServes("lost")'
  <2>1. InFlight("lost") => HandlerServes("lost") /\ calls'["lost"] = calls["lost"]
    BY <1>1, FreedServes DEF RunInv, HandlersServe, Callers
  <2> QED BY <1>1, <2>1 DEF HandlerServes, Runtimes, Serves
<1>4. NobodyElse' /\ AnswersServe' /\ HandlersServe'
  BY <1>1, <1>3, FreedServes
<1>5. RunFollows'
  BY <1>1, <1>2 DEF RunInv, RunFollows, Serves, Due, Pending
<1> QED BY <1>4, <1>5 DEF RunInv

\* The ends of an update.
LEMMA EndsServe ==
  ASSUME SecretInv, RecoveryInv, RunInv, PromotedInv, ~overlapped, ~overlapped',
         CommitUpdate \/ CommitFails \/ RefuseUpdate \/ RollBackUpdate \/ UpdateRolledBack
  PROVE  RunInv'
<1> USE DEF RecoveryInv, RecordInv
<1>1. saga.promoted => /\ saga.kind = "update" /\ saga.stage = "recorded" /\ op.status = "running"
                       /\ calls["keyed"] = NoCall /\ ~InFlight("lost") /\ saga.cand = op.cand
  <2>1. saga.promoted => /\ saga.kind = "update" /\ saga.stage = "recorded" /\ op.status = "running"
                         /\ calls["keyed"] = NoCall
    BY DEF SecretInv, SagaRuns, SagaRecorded
  <2>2. saga.promoted => ~InFlight("lost")
    BY <2>1 DEF DiskInv, Alone, NoCall
  <2> QED BY <2>1, <2>2 DEF SagaFollows
<1>2. ASSUME NEW k, NEW answers, k # "none", saga.kind = "update", Answered("keyed", k, answers)
      PROVE  /\ op.status = "running" /\ k \in DOMAIN StageDuring /\ op.stage = StageDuring[k]
             /\ saga.cand = op.cand
             /\ k \notin {"stage", "promote"} => ~InFlight("lost")
             /\ k = "stage" => (InFlight("lost") => calls["lost"].kind = "stage")
  <2>1. calls["keyed"] # NoCall /\ calls["keyed"].kind = k
    BY <1>2 DEF Answered, NoCall
  <2>2. saga.stage = "recorded" /\ ~saga.promoted /\ op.status = "running"
    BY <1>2, <2>1 DEF SecretInv, SagaRuns, SagaRecorded, AppTypes, SagaTypes
  <2>3. k \in DOMAIN StageDuring /\ op.stage = StageDuring[k] /\ saga.cand = op.cand
    BY <1>2, <2>1, <2>2 DEF SagaFollows
  <2>4. /\ k \notin {"stage", "promote"} => ~InFlight("lost")
        /\ k = "stage" => (InFlight("lost") => calls["lost"].kind = "stage")
    BY <1>2, <2>1, <2>3 DEF DiskInv, Alone, StageDuring
  <2> QED BY <2>2, <2>3, <2>4
<1>3. CASE CommitUpdate
  <2>1. /\ saga.promoted /\ UNCHANGED <<disk, docker, calls, agent>>
        /\ row' = [row EXCEPT !.digest = saga.cand, !.recovery = "none", !.held = @ \/ op.added]
        /\ op' = [op EXCEPT !.status = "succeeded"]
    BY <1>3 DEF CommitUpdate, OnSm, host, CompleteAppUpdate
  <2>2. row'.digest = op.cand /\ row'.recovery = "none" /\ op'.status = "succeeded"
    BY <1>1, <2>1 DEF SecretInv, AppTypes, TypeOK
  <2>3. Due /\ ~Due' /\ disk.installed = op.cand
    BY <1>1, <2>1, <2>2 DEF Due, Pending, PromotedInv, After
  <2> QED BY <1>1, <2>1, <2>2, <2>3, CommittedServes
<1>4. CASE CommitFails
  BY <1>1, <1>4, FailedServes DEF CommitFails
<1>5. CASE RefuseUpdate
  <2>1. PICK k \in {"stage", "build", "activate", "restore"} : Answered("keyed", k, Refusals)
    BY <1>5 DEF RefuseUpdate
  <2>2. OnSm /\ saga.kind = "update" BY <1>5 DEF RefuseUpdate
  <2>3. /\ op.status = "running" /\ op.stage = StageDuring[k]
        /\ InFlight("lost") => calls["lost"].kind = "stage"
    BY <1>2, <2>1, <2>2
  <2>4. CASE calls["keyed"].answer = "rollback-failed"
    <3>1. FailedUpdate("rollback-required")
      BY <1>5, <2>4 DEF RefuseUpdate
    <3> QED BY <2>2, <2>3, <3>1, FailedServes
  <2>5. CASE calls["keyed"].answer # "rollback-failed"
    <3>1. FailedUpdate("none") BY <1>5, <2>5 DEF RefuseUpdate
    <3>2. Serves(row.digest)
      BY <2>1, <2>3, <2>5 DEF RunInv, RunFollows, AnswersServe, Answered, StageDuring
    <3> QED BY <2>2, <2>3, <3>1, <3>2, FailedServes
  <2> QED BY <2>4, <2>5
<1>6. CASE RollBackUpdate
  <2>1. /\ UNCHANGED <<row, op, disk, docker, agent>>
        /\ Answered("keyed", "promote", Refusals) /\ saga.activated
        /\ Call("keyed", "rollback", saga.cand, row.digest)
    BY <1>6 DEF RollBackUpdate, OnSm, host, durable
  <2>2. saga.cand \in Packages /\ row.digest \in Packages /\ "rollback" \in DOMAIN FirstStep
    BY DEF SecretInv, AppTypes, TypeOK, FirstStep
  <2>3. /\ NobodyElse' /\ AnswersServe' /\ calls'["keyed"].kind = "rollback"
        /\ calls'["keyed"].inst = row.digest /\ calls'["keyed"].pc = "repair"
        /\ HandlerServes("keyed")' => HandlersServe'
    BY <2>1, <2>2, CallServes DEF FirstStep
  <2>4. HandlersServe' BY <2>1, <2>3 DEF HandlerServes
  <2>5. RunFollows' BY <2>1 DEF RunInv, RunFollows, Serves, Due
  <2> QED BY <2>3, <2>4, <2>5 DEF RunInv
<1>7. CASE UpdateRolledBack
  <2>1. OnSm /\ saga.kind = "update" BY <1>7 DEF UpdateRolledBack
  <2>2. CASE Answered("keyed", "rollback", {"ok"}) /\ FailedUpdate("none")
    BY <1>2, <2>1, <2>2, FailedServes DEF RunInv, AnswersServe
  <2>3. CASE Answered("keyed", "rollback", Refusals) /\ FailedUpdate("rollback-required")
    BY <1>2, <2>1, <2>3, FailedServes
  <2> QED BY <1>7, <2>2, <2>3 DEF UpdateRolledBack
<1> QED BY <1>3, <1>4, <1>5, <1>6, <1>7

\* What the owner and the start of Suite Manager do about an interrupted update.
LEMMA RecoveriesServe ==
  ASSUME SecretInv, RecoveryInv, RunInv, ~overlapped, ~overlapped',
         RecoverByCommit \/ RecoverByRollback \/ Recovered
           \/ FailInterruptedUpdate \/ RecoverInterruptedUpdate
  PROVE  RunInv'
<1> USE DEF RecoveryInv, RecordInv
<1>1. ASSUME saga = NoSaga, row.recovery \in Pending, Promoted, CommitPromoted,
             UNCHANGED <<disk, docker, calls, agent>>
      PROVE  RunInv'
  <2>1. /\ row' = [row EXCEPT !.digest = disk.installed, !.recovery = "none", !.held = @ \/ op.added]
        /\ op' = [op EXCEPT !.status = "succeeded"]
        /\ ~InFlight("lost") /\ disk.installed = op.cand
    BY <1>1 DEF CommitPromoted, CompleteAppUpdate, Promoted
  <2>2. /\ row'.digest = op.cand /\ row'.recovery = "none" /\ op'.status = "succeeded"
        /\ calls["keyed"] = NoCall
    BY <1>1, <2>1 DEF SecretInv, AppTypes, TypeOK, SagaRuns
  <2>3. Due /\ ~Due' BY <1>1, <2>2 DEF Due, Pending
  <2> QED BY <1>1, <2>1, <2>2, <2>3, CommittedServes
<1>2. CASE RecoverByCommit
  BY <1>1, <1>2 DEF RecoverByCommit, Idle, OnSm, host
<1>3. CASE RecoverByRollback
  <2>1. /\ UNCHANGED <<row, op, disk, docker, agent>> /\ Call("keyed", "rollback", op.cand, row.digest)
    BY <1>3 DEF RecoverByRollback, OnSm, host, durable
  <2>2. op.cand \in Packages /\ row.digest \in Packages /\ "rollback" \in DOMAIN FirstStep
    BY DEF SecretInv, AppTypes, TypeOK, FirstStep
  <2>3. /\ NobodyElse' /\ AnswersServe' /\ calls'["keyed"].kind = "rollback"
        /\ calls'["keyed"].inst = row.digest /\ calls'["keyed"].pc = "repair"
        /\ HandlerServes("keyed")' => HandlersServe'
    BY <2>1, <2>2, CallServes DEF FirstStep
  <2>4. HandlersServe' BY <2>1, <2>3 DEF HandlerServes
  <2>5. RunFollows' BY <2>1 DEF RunInv, RunFollows, Serves, Due
  <2> QED BY <2>3, <2>4, <2>5 DEF RunInv
<1>4. CASE Recovered
  <2>1. /\ saga.kind = "recover" /\ calls' = Free("keyed") /\ UNCHANGED <<op, disk, docker, agent>>
        /\ \/ Answered("keyed", "rollback", {"ok"}) /\ row' = [row EXCEPT !.recovery = "none"]
           \/ Answered("keyed", "rollback", Refusals) /\ row' = row
    BY <1>4 DEF Recovered, OnSm, host, ClearAppUpdateRecovery
  <2>2. row'.digest = row.digest /\ op.status = "failed" /\ calls["keyed"].kind = "rollback"
    BY <2>1 DEF SecretInv, AppTypes, TypeOK, SagaRecorded, Answered
  <2>3. ~InFlight("lost") BY <2>2 DEF DiskInv, Alone
  <2>4. NobodyElse' /\ AnswersServe' /\ HandlersServe'
    BY <2>1, <2>3, FreedServes
  <2>5. row' = row \/ (Serves(row.digest) /\ ~Due')
    BY <2>1, <2>2 DEF RunInv, AnswersServe, Due, Pending, SecretInv, AppTypes, TypeOK
  <2>6. RunFollows'
    BY <2>1, <2>2, <2>5 DEF RunInv, RunFollows, Serves, Due
  <2> QED BY <2>4, <2>6 DEF RunInv
<1>5. CASE FailInterruptedUpdate
  <2>1. UNCHANGED <<disk, docker, calls, agent>>
    BY <1>5 DEF FailInterruptedUpdate, host
  <2>2. CASE op.status = "running"
    <3>1. /\ op' = [op EXCEPT !.status = "failed"]
          /\ row' = [row EXCEPT !.recovery = RecoveryStateFor(op.stage)]
      BY <1>5, <2>2 DEF FailInterruptedUpdate, FailAppUpdate, InterruptedAppUpdates, RecordNames
    <3>2. /\ row'.digest = row.digest /\ row'.recovery = RecoveryStateFor(op.stage)
          /\ op'.status = "failed" /\ op'.stage = op.stage /\ op'.cand = op.cand
      BY <3>1 DEF SecretInv, AppTypes, TypeOK
    <3>3. /\ Due /\ op.stage \in {"candidate-built", "candidate-healthy", "snapshot-promoted"} => Due'
      BY <2>2, <3>2 DEF Due, RecoveryStateFor, Pending
    <3>4. HandlersServe'
      BY <2>1, <3>2, <3>3 DEF RunInv, HandlersServe, HandlerServes, InFlight, Serves
    <3>5. RunFollows'
      BY <2>1, <2>2, <3>2, <3>3 DEF RunInv, RunFollows, Serves, Due
    <3>6. NobodyElse' /\ AnswersServe'
      BY <2>1, <3>2 DEF RunInv, NobodyElse, AnswersServe, Answered, Serves
    <3> QED BY <3>4, <3>5, <3>6 DEF RunInv
  <2>3. CASE op.status # "running"
    <3>1. UNCHANGED <<row, op>>
      BY <1>5, <2>3 DEF FailInterruptedUpdate, InterruptedAppUpdates
    <3> QED BY <2>1, <3>1, OthersServe
  <2> QED BY <2>2, <2>3
<1>6. CASE RecoverInterruptedUpdate
  <2>1. UNCHANGED <<disk, docker, calls, agent>> /\ saga = NoSaga
    BY <1>6 DEF RecoverInterruptedUpdate, host, SecretInv, SagaRuns
  <2>2. CASE row.recovery \in Pending /\ Promoted
    BY <1>1, <1>6, <2>1, <2>2 DEF RecoverInterruptedUpdate
  <2>3. CASE ~(row.recovery \in Pending /\ Promoted)
    BY <1>6, <2>1, <2>3, OthersServe DEF RecoverInterruptedUpdate
  <2> QED BY <2>2, <2>3
<1> QED BY <1>2, <1>3, <1>4, <1>5, <1>6

\* Starting, stopping and removing the app, under its key.
LEMMA LifecycleServes ==
  ASSUME SecretInv, RecoveryInv, RunInv, ~overlapped, ~overlapped', BeginLifecycle \/ EndLifecycle
  PROVE  RunInv'
<1> USE DEF RecoveryInv, RecordInv
<1>1. CASE BeginLifecycle
  <2>1. UNCHANGED <<row, op, disk, docker, agent>>
    BY <1>1 DEF BeginLifecycle, OnSm, host, durable
  <2>2. PICK kind \in {"stop", "apply", "remove"} : Call("keyed", kind, NoPackage, row.digest)
    BY <1>1 DEF BeginLifecycle
  <2>3. NoPackage \in Packages /\ row.digest \in Packages /\ kind \in DOMAIN FirstStep
    BY DEF SecretInv, AppTypes, TypeOK, FirstStep, Packages
  <2>4. /\ NobodyElse' /\ AnswersServe' /\ calls'["keyed"].kind = kind
        /\ calls'["keyed"].inst = row.digest /\ calls'["keyed"].pc = FirstStep[kind]
        /\ HandlerServes("keyed")' => HandlersServe'
    BY <2>1, <2>2, <2>3, CallServes
  <2>5. HandlerServes("keyed")'
    BY <2>1, <2>4 DEF HandlerServes, FirstStep, Runtimes
  <2>6. RunFollows' BY <2>1 DEF RunInv, RunFollows, Serves, Due
  <2> QED BY <2>4, <2>5, <2>6 DEF RunInv
<1>2. CASE EndLifecycle
  <2>1. calls' = Free("keyed") /\ UNCHANGED <<disk, docker, agent>>
    BY <1>2 DEF EndLifecycle, OnSm, host
  <2>2. CASE UNCHANGED <<row, op>>
    <3>1. InFlight("lost") => HandlerServes("lost")'
      <4>1. InFlight("lost") => HandlerServes("lost") /\ calls'["lost"] = calls["lost"]
        BY <2>1, FreedServes DEF RunInv, HandlersServe, Callers
      <4> QED BY <2>1, <2>2, <4>1 DEF HandlerServes, Serves, Due
    <3>2. RunFollows' BY <2>1, <2>2 DEF RunInv, RunFollows, Serves, Due
    <3> QED BY <2>1, <3>1, <3>2, FreedServes DEF RunInv
  <2>3. CASE \E kind \in {"stop", "apply", "remove"} : Answered("keyed", kind, {"ok"})
                 /\ (kind # "remove" => MarkAppDisabled \/ MarkAppEnabled)
                 /\ (kind = "remove" => DeleteAppInstance)
    <3>1. PICK kind \in {"stop", "apply", "remove"} : Answered("keyed", kind, {"ok"})
                 /\ (kind # "remove" => MarkAppDisabled \/ MarkAppEnabled)
                 /\ (kind = "remove" => DeleteAppInstance)
      BY <2>3
    <3>2. ~InFlight("lost") BY <3>1 DEF DiskInv, Alone, Answered
    <3>3. NobodyElse' /\ AnswersServe' /\ HandlersServe'
      BY <2>1, <3>2, FreedServes
    <3>4. CASE kind # "remove"
      <4>1. row'.digest = row.digest /\ row'.recovery = row.recovery /\ op' = op
        BY <3>1, <3>4 DEF MarkAppDisabled, MarkAppEnabled, SecretInv, AppTypes, TypeOK
      <4>2. RunFollows'
        BY <2>1, <4>1 DEF RunInv, RunFollows, Serves, Due
      <4> QED BY <3>3, <4>2 DEF RunInv
    <3>5. CASE kind = "remove"
      <4>1. docker.run = NoPackage
        BY <3>1, <3>5 DEF RunInv, AnswersServe, Serves
      <4>2. RunFollows' BY <2>1, <4>1 DEF RunFollows, Serves
      <4> QED BY <3>3, <4>2 DEF RunInv
    <3> QED BY <3>4, <3>5
  <2> QED BY <1>2, <2>2, <2>3 DEF EndLifecycle, durable
<1> QED BY <1>1, <1>2

\* A handler that Suite Manager hung up on, or that outlived it, is the lost one now.
LEMMA LeftServes ==
  ASSUME SecretInv, RecoveryInv, RunInv, ~overlapped, HangUp \/ SmCrash
  PROVE  RunInv'
<1>1. UNCHANGED <<row, op, disk, docker, agent>> /\ calls \in [Callers -> CallTypes]
      /\ agent = "up" /\ calls["free"] = NoCall /\ ~InFlight("free")
  BY DEF HangUp, SmCrash, OnSm, host, durable, SecretInv, AppTypes, RunInv, NobodyElse, InFlight, NoCall
<1>2. RunFollows' BY <1>1 DEF RunInv, RunFollows, Serves, Due
<1>3. CASE HangUp
  <2>1. /\ InFlight("keyed") /\ ~InFlight("lost")
        /\ calls["keyed"].kind \in {"stage", "promote", "stop", "remove"}
        /\ calls' = [calls EXCEPT !["lost"] = calls["keyed"],
                       !["keyed"] = [@ EXCEPT !.pc = "answered", !.answer = "timeout"]]
    BY <1>3 DEF HangUp
  <2>2. /\ calls'["lost"] = calls["keyed"] /\ calls'["free"] = calls["free"]
        /\ calls'["keyed"] = [calls["keyed"] EXCEPT !.pc = "answered", !.answer = "timeout"]
    <3> HIDE DEF CallTypes
    <3> QED BY <1>1, <2>1 DEF Callers
  <2>3. /\ calls'["keyed"].kind = calls["keyed"].kind /\ calls'["keyed"].pc = "answered"
        /\ calls'["keyed"].answer = "timeout"
    BY <1>1, <2>2 DEF CallTypes, Callers
  <2>4. HandlerServes("lost")'
    <3>1. HandlerServes("keyed")
      BY <2>1 DEF RunInv, HandlersServe, Callers
    <3> QED BY <1>1, <2>2, <3>1 DEF HandlerServes, Serves, Due
  <2>5. ~InFlight("keyed")' /\ ~InFlight("free")'
    BY <1>1, <2>2, <2>3 DEF InFlight
  <2>6. HandlersServe' BY <2>4, <2>5 DEF HandlersServe, Callers
  <2>7. NobodyElse' /\ AnswersServe'
    BY <1>1, <2>1, <2>2, <2>3 DEF NobodyElse, AnswersServe, Answered
  <2> QED BY <1>2, <2>6, <2>7 DEF RunInv
<1>4. CASE SmCrash
  <2>1. PICK s \in Callers :
          calls' = [NoCalls EXCEPT !["lost"] = IF InFlight(s) THEN calls[s] ELSE calls["lost"]]
    BY <1>4 DEF SmCrash, Callers
  <2>2. /\ calls'["keyed"] = NoCall /\ calls'["free"] = NoCall
        /\ calls'["lost"] = IF InFlight(s) THEN calls[s] ELSE calls["lost"]
    BY <2>1 DEF NoCalls, Callers
  <2>3. ~InFlight("keyed")' /\ ~InFlight("free")'
    BY <2>2 DEF InFlight, NoCall
  <2>4. InFlight("lost")' => HandlerServes("lost")'
    <3>1. InFlight("lost")' => \E t \in Callers : InFlight(t) /\ calls'["lost"] = calls[t]
      BY <2>2 DEF InFlight, Callers
    <3>2. \A t \in Callers : InFlight(t) => HandlerServes(t)
      BY DEF RunInv, HandlersServe
    <3> QED BY <1>1, <3>1, <3>2 DEF HandlerServes, Serves, Due
  <2>5. HandlersServe' BY <2>3, <2>4 DEF HandlersServe, Callers
  <2>6. NobodyElse' /\ AnswersServe'
    BY <1>1, <2>2 DEF NobodyElse, AnswersServe, Answered, NoCall
  <2> QED BY <1>2, <2>5, <2>6 DEF RunInv
<1> QED BY <1>3, <1>4

-----------------------------------------------------------------------------
(* Every step keeps it. *)

\* Nothing that happened is forgotten, so a history that is quiet has been all along.
LEMMA HistoryLasts ==
  ASSUME SecretInv, SpentTypes, [Next]_vars
  PROVE  /\ SpentTypes' /\ (overlapped => overlapped')
         /\ Undying' => Undying /\ ~AgentCrash
         /\ Quiet' => Quiet /\ ~AgentCrash /\ ~FreeApply
<1> DEFINE Bounds == {"update", "smCrash", "agentCrash", "hangUp", "free", "life"}
<1>1. ASSUME NEW bound \in Bounds, Spend(bound)
      PROVE  /\ SpentTypes' /\ spent'[bound] # 0
             /\ spent'["agentCrash"] = 0 => spent["agentCrash"] = 0
             /\ spent'["free"] = 0 => spent["free"] = 0
  <2>1. spent' = [spent EXCEPT ![bound] = @ + 1] /\ spent \in [Bounds -> Nat]
    BY <1>1 DEF Spend, SpentTypes
  <2>2. spent' \in [Bounds -> Nat] /\ spent'[bound] = spent[bound] + 1
        /\ \A b \in Bounds \ {bound} : spent'[b] = spent[b]
    BY <2>1
  <2>3. /\ "agentCrash" \in Bounds /\ "free" \in Bounds /\ spent[bound] \in Nat
    BY <2>1
  <2> HIDE DEF Bounds
  <2> QED BY <2>2, <2>3 DEF SpentTypes, Bounds
<1>2. CASE BeginUpdate \/ BeginLifecycle \/ FreeApply \/ HangUp \/ SmCrash \/ AgentCrash
  <2>1. overlapped => overlapped'
    BY <1>2 DEF BeginUpdate, BeginLifecycle, FreeApply, HangUp, SmCrash, AgentCrash, Call
  <2>2. PICK bound \in Bounds : Spend(bound)
    BY <1>2 DEF BeginUpdate, BeginLifecycle, FreeApply, HangUp, SmCrash, AgentCrash
  <2>3. AgentCrash => Spend("agentCrash") BY DEF AgentCrash
  <2>4. FreeApply => Spend("free") BY DEF FreeApply
  <2>5. (AgentCrash => ~Undying') /\ (FreeApply => ~Quiet')
    BY <1>1, <2>3, <2>4 DEF Undying, Quiet
  <2> QED BY <1>1, <2>1, <2>2, <2>5 DEF Undying, Quiet
<1>3. CASE ~(BeginUpdate \/ BeginLifecycle \/ FreeApply \/ HangUp \/ SmCrash \/ AgentCrash)
  <2>1. \A s \in Callers : AgentStep(s) => spent' = spent /\ overlapped' = overlapped
    BY AgentMoves DEF SecretInv, OnAgent
  <2>2. CASE UNCHANGED vars
    BY <1>3, <2>2 DEF vars, Undying, Quiet, SpentTypes
  <2>3. CASE RecordUpdate \/ AdvanceUpdate \/ RollBackUpdate \/ RecoverByRollback
    <3>1. spent' = spent /\ (overlapped => overlapped')
      BY <2>3 DEF RecordUpdate, AdvanceUpdate, RollBackUpdate, RecoverByRollback, Call
    <3> QED BY <1>3, <3>1 DEF Undying, Quiet, SpentTypes
  <2>4. CASE RecoverByCommit \/ RecoverInterruptedUpdate
    <3>1. spent' = spent /\ (overlapped => overlapped')
      BY <2>4 DEF RecoverByCommit, RecoverInterruptedUpdate, CommitPromoted
    <3> QED BY <1>3, <3>1 DEF Undying, Quiet, SpentTypes
  <2>5. CASE \/ RecordPromotion \/ CommitUpdate \/ CommitFails \/ RefuseUpdate \/ UpdateRolledBack
             \/ Recovered \/ EndLifecycle \/ FreeApplied \/ FailInterruptedUpdate \/ AgentStart
             \/ SweepInterruptedPromotions \/ \E s \in Callers : AgentStep(s)
    <3>1. spent' = spent /\ overlapped' = overlapped
      BY <2>1, <2>5
         DEF RecordPromotion, CommitUpdate, CommitFails, RefuseUpdate, UpdateRolledBack, FailedUpdate,
             Recovered, EndLifecycle, FreeApplied, FailInterruptedUpdate, AgentStart,
             SweepInterruptedPromotions
    <3> QED BY <1>3, <3>1 DEF Undying, Quiet, SpentTypes
  <2> QED BY <1>3, <2>2, <2>3, <2>4, <2>5 DEF Next, Saga
<1> QED BY <1>2, <1>3

\* Once its promotion is recorded, nothing at work moves a snapshot of the saga.
LEMMA PromotedInitially == Init => PromotedInv
PROOF
BY DEF Init, NoSaga, PromotedInv

\* No step takes it away again.
LEMMA PromotedKept ==
  ASSUME SecretInv, RecoveryInv, SpentTypes, PromotedInv, [Next]_vars
  PROVE  PromotedInv'
<1> USE DEF RecoveryInv, RecordInv
<1>1. SUFFICES ASSUME saga'.promoted, ~overlapped' PROVE After'
  BY DEF PromotedInv
<1>2. ~overlapped BY <1>1, HistoryLasts
<1>3. CASE UNCHANGED <<saga, disk, op>>
  BY <1>1, <1>2, <1>3 DEF PromotedInv, After
<1>4. CASE \/ saga' = NoSaga
           \/ \E k : saga' = [NoSaga EXCEPT !.kind = k]
           \/ \E k, c : saga' = [NoSaga EXCEPT !.kind = k, !.cand = c]
  <2>1. CASE saga' = NoSaga
    BY <1>1, <2>1 DEF NoSaga
  <2>2. CASE \E k : saga' = [NoSaga EXCEPT !.kind = k]
    BY <1>1, <2>2 DEF NoSaga
  <2>3. CASE \E k, c : saga' = [NoSaga EXCEPT !.kind = k, !.cand = c]
    BY <1>1, <2>3 DEF NoSaga
  <2> QED BY <1>4, <2>1, <2>2, <2>3
<1>5. CASE RecordPromotion
  <2>1. Answered("keyed", "promote", {"ok"}) /\ op' = [op EXCEPT !.stage = "snapshot-promoted"]
        /\ saga.kind = "update" /\ disk' = disk
    BY <1>5 DEF RecordPromotion, OnSm, host, AdvanceAppUpdate
  <2>2. op'.cand = op.cand BY <2>1 DEF SecretInv, AppTypes, TypeOK
  <2> QED BY <1>2, <2>1, <2>2 DEF DiskInv, DiskFollows, After
<1>6. CASE RecordUpdate \/ AdvanceUpdate \/ RollBackUpdate
  <2>1. calls["keyed"] # NoCall \/ saga.stage = "none"
    BY <1>6 DEF RecordUpdate, AdvanceUpdate, RollBackUpdate, Answered, NoCall
  <2>2. ~saga.promoted BY <2>1 DEF SecretInv, SagaRuns, SagaFollows
  <2>3. saga'.promoted = saga.promoted
    BY <1>6 DEF RecordUpdate, AdvanceUpdate, RollBackUpdate, SecretInv, AppTypes, SagaTypes
  <2> QED BY <1>1, <2>2, <2>3
<1>7. CASE \E s \in Callers : AgentStep(s)
  <2>1. PICK s \in Callers : AgentStep(s)
    BY <1>7
  <2>2. InFlight(s) /\ UNCHANGED <<op, saga>>
    BY <2>1, AgentMoves DEF SecretInv, OnAgent, durable
  <2>3. s = "free"
    BY <1>1, <1>2, <2>2 DEF SecretInv, SagaRuns, DiskInv, Alone, NoCall, InFlight, Callers
  <2>4. calls[s].kind = "apply" BY <2>2, <2>3 DEF CallsFit
  <2>5. disk' = disk
    BY <2>1, <2>4
       DEF AgentStep, Stage, Build, Activate, PromoteSnapshot, Rollback, Apply, StopApp, RemoveApp,
           RuntimeStep, VerifyRuntime, StopContainers, StartContainers, AwaitHealth, At, host
  <2> QED BY <1>3, <2>2, <2>5
<1>8. CASE SweepInterruptedPromotions
  <2>1. disk' = Repaired(disk) /\ UNCHANGED <<op, saga>>
    BY <1>8 DEF SweepInterruptedPromotions, durable
  <2>2. disk.displaced = NoPackage
    BY <1>1, <1>2, <2>1 DEF PromotedInv, After
  <2> QED BY <1>3, <2>1, <2>2 DEF Repaired
<1>9. CASE BeginUpdate \/ BeginLifecycle \/ RecoverByRollback
  BY <1>4, <1>9 DEF BeginUpdate, BeginLifecycle, RecoverByRollback
<1>10. CASE CommitUpdate \/ CommitFails \/ RefuseUpdate \/ UpdateRolledBack \/ Recovered \/ EndLifecycle \/ SmCrash
  BY <1>4, <1>10 DEF CommitUpdate, CommitFails, RefuseUpdate, UpdateRolledBack, FailedUpdate, Recovered,
                     EndLifecycle, SmCrash
<1>11. CASE RecoverByCommit \/ FailInterruptedUpdate \/ RecoverInterruptedUpdate
  BY <1>4, <1>11 DEF RecoverByCommit, FailInterruptedUpdate, RecoverInterruptedUpdate, Idle, SecretInv, SagaRuns
<1>12. CASE UNCHANGED vars \/ FreeApplied \/ FreeApply \/ HangUp \/ AgentCrash \/ AgentStart
  BY <1>3, <1>12 DEF vars, FreeApplied, FreeApply, HangUp, AgentCrash, AgentStart, OnSm, durable, host
<1> QED BY <1>5, <1>6, <1>7, <1>8, <1>9, <1>10, <1>11, <1>12 DEF Next, Saga

\* All of it, of a history that is quiet.
ServesInv == SpentTypes /\ PromotedInv /\ (Quiet => RunInv)

\* It holds of an app that is installed and idle.
LEMMA ServesInitially == Init => ServesInv
<1> SUFFICES ASSUME Init PROVE ServesInv
  OBVIOUS
<1>1. SpentTypes /\ PromotedInv
  <2>1. spent = [update |-> 0, smCrash |-> 0, agentCrash |-> 0, hangUp |-> 0, free |-> 0, life |-> 0]
    BY DEF Init
  <2> QED BY <2>1, PromotedInitially DEF SpentTypes
<1>2. PICK v \in Versions :
        /\ row = [status |-> "installed", digest |-> v, recovery |-> "none", held |-> FALSE]
        /\ docker = [run |-> v, route |-> v]
  BY DEF Init
<1>3. /\ op = [status |-> "none", stage |-> "none", cand |-> NoPackage, added |-> FALSE]
      /\ calls = NoCalls /\ agent = "up"
  BY DEF Init
<1>4. \A s \in Callers : calls[s] = NoCall /\ ~InFlight(s)
  BY <1>3 DEF NoCalls, NoCall, InFlight
<1>5. NobodyElse /\ HandlersServe /\ AnswersServe
  BY <1>3, <1>4 DEF NobodyElse, HandlersServe, AnswersServe, Answered, NoCall, Callers
<1>6. RunFollows BY <1>2, <1>3 DEF RunFollows, Serves, Due, Pending
<1> QED BY <1>1, <1>5, <1>6 DEF ServesInv, RunInv

\* Every step keeps it.
LEMMA ServesKept == SecretInv /\ RecoveryInv /\ ServesInv /\ [Next]_vars => ServesInv'
<1>1. SUFFICES ASSUME SecretInv, RecoveryInv, ServesInv, [Next]_vars PROVE ServesInv'
  OBVIOUS
<1>2. SpentTypes' /\ PromotedInv'
  BY <1>1, HistoryLasts, PromotedKept DEF ServesInv
<1>3. ASSUME Quiet' PROVE RunInv'
  <2>1. PromotedInv /\ RunInv /\ ~overlapped /\ ~overlapped' /\ ~AgentCrash /\ ~FreeApply
    BY <1>1, <1>3, HistoryLasts DEF ServesInv, Undying, Quiet
  <2>2. CASE UNCHANGED vars \/ BeginUpdate
    BY <2>1, <2>2, OthersServe DEF vars, BeginUpdate, OnSm, durable, host
  <2>3. ~AgentStart /\ ~SweepInterruptedPromotions /\ ~FreeApplied
    BY <2>1 DEF RunInv, NobodyElse, NoCall, AgentStart, SweepInterruptedPromotions, FreeApplied
  <2>4. CASE \E s \in Callers : AgentStep(s)
    BY <1>1, <2>1, <2>4, AgentServes
  <2>5. CASE RecordUpdate \/ AdvanceUpdate \/ RecordPromotion
    BY <1>1, <2>1, <2>5, UpdateServes
  <2>6. CASE CommitUpdate \/ CommitFails \/ RefuseUpdate \/ RollBackUpdate \/ UpdateRolledBack
    BY <1>1, <2>1, <2>6, EndsServe
  <2>7. CASE RecoverByCommit \/ RecoverByRollback \/ Recovered \/ FailInterruptedUpdate
               \/ RecoverInterruptedUpdate
    BY <1>1, <2>1, <2>7, RecoveriesServe
  <2>8. CASE BeginLifecycle \/ EndLifecycle
    BY <1>1, <2>1, <2>8, LifecycleServes
  <2>9. CASE HangUp \/ SmCrash
    BY <1>1, <2>1, <2>9, LeftServes
  <2> QED BY <1>1, <2>1, <2>2, <2>3, <2>4, <2>5, <2>6, <2>7, <2>8, <2>9 DEF Next, Saga
<1> QED BY <1>2, <1>3 DEF ServesInv

\* So it holds of every behaviour.
LEMMA ServesInvHolds == Spec => [](SecretInv /\ RecoveryInv /\ ServesInv)
PROOF
BY SecretInitially, SecretKept, RecoveryInitially, RecoveryKept, ServesInitially, ServesKept, PTL DEF Spec

\* The containers that serve at rest are of the package on record, or none are, unless
\* a recovery is due: of handlers that did not overlap, applies under the key and an
\* agent that did not die (app-update-service.cjs, apps agent's activation and rollback).
THEOREM OnlyTheRecordedServes == Spec => []ServedIsRecorded
<1>1. SecretInv /\ RecoveryInv /\ ServesInv => ServedIsRecorded
  <2> SUFFICES ASSUME SecretInv, RecoveryInv, ServesInv, AtRest, ~overlapped, spent.agentCrash = 0,
                      spent.free = 0, row.recovery \notin Pending
               PROVE  docker.run \in {NoPackage, row.digest}
    BY DEF ServedIsRecorded
  <2>1. RunFollows BY DEF ServesInv, Undying, Quiet, RunInv
  <2>2. ~Due
    BY DEF AtRest, Idle, NoSaga, RecoveryInv, RecordInv, RecordRuns, Due
  <2> QED BY <2>1, <2>2 DEF RunFollows, Serves
<1> QED BY <1>1, ServesInvHolds, PTL

\* A step changes the package on record only to the one the disk holds.
LEMMA CommitReadsTheDisk ==
  ASSUME SecretInv, RecoveryInv, ServesInv, [Next]_vars
  PROVE  CommitFollowsTheDisk
<1>1. SUFFICES ASSUME row'.digest \notin {row.digest, NoPackage}, ~overlapped
               PROVE  disk.installed = row'.digest
  BY DEF CommitFollowsTheDisk
<1>2. row \in [status : {"installed", "disabled", "absent"}, digest : Packages,
              recovery : Pending \cup {"none", "retry-safe"}, held : BOOLEAN]
  BY DEF SecretInv, AppTypes, TypeOK
<1>3. row' # row /\ \A recovery : row' # [row EXCEPT !.recovery = recovery]
  BY <1>1, <1>2
<1>4. \A status : row' # [row EXCEPT !.status = status] BY <1>1, <1>2
<1>5. ~DeleteAppInstance BY <1>1 DEF DeleteAppInstance
<1>6. \A s \in Callers : ~AgentStep(s)
  BY <1>3, AgentMoves DEF SecretInv, OnAgent, durable
<1>7. CASE CommitUpdate
  <2>1. saga.promoted /\ row' = [row EXCEPT !.digest = saga.cand, !.recovery = "none", !.held = @ \/ op.added]
    BY <1>7 DEF CommitUpdate, CompleteAppUpdate
  <2>2. row'.digest = saga.cand /\ saga.cand = op.cand
    BY <1>2, <2>1 DEF SecretInv, SagaRuns, RecoveryInv, RecordInv, SagaFollows
  <2> QED BY <1>1, <2>1, <2>2 DEF ServesInv, PromotedInv, After
<1>8. CASE CommitPromoted
  BY <1>2, <1>8 DEF CommitPromoted, CompleteAppUpdate
<1>9. ~CommitUpdate /\ ~CommitPromoted => FALSE
  BY <1>3, <1>4, <1>5, <1>6
     DEF Next, vars, durable, Saga, BeginUpdate, RecordUpdate, BeginAppUpdate, AdvanceUpdate, AdvanceAppUpdate,
         RecordPromotion, CommitFails, FailedUpdate, FailAppUpdate, RefuseUpdate, RollBackUpdate,
         UpdateRolledBack, Recovered, ClearAppUpdateRecovery, EndLifecycle, MarkAppDisabled,
         MarkAppEnabled, FreeApplied, RecoverByCommit, RecoverByRollback, BeginLifecycle, FreeApply,
         HangUp, SmCrash, FailInterruptedUpdate, RecoverInterruptedUpdate, AgentCrash, AgentStart,
         SweepInterruptedPromotions
<1> QED BY <1>7, <1>8, <1>9

\* The package on record changes only to the one the disk holds at that moment, of
\* handlers that did not overlap: a commit never runs ahead of the promotion it records
\* (completeAppUpdate, commitPromotedPackageUpdate).
THEOREM NoCommitRunsAhead == Spec => CommitsFollowTheDisk
<1>1. SecretInv /\ RecoveryInv /\ ServesInv /\ [Next]_vars => [CommitFollowsTheDisk]_vars
  BY CommitReadsTheDisk
<1> QED BY <1>1, ServesInvHolds, PTL DEF Spec, CommitsFollowTheDisk

-----------------------------------------------------------------------------
(* What is on offer. *)

\* A table of official packages lists each under its own id, or has none of it.
ListsItsOwn(table) ==
  \A id \in OfficialIds : table[id] = Absent \/ (table[id] \in OfficialPackages /\ table[id].id = id)

\* What is published, checked out and cached of the official packages.
TablesAreNamed ==
  /\ published = [ref \in Refs |-> published[ref]]
  /\ \A ref \in Refs : /\ published[ref] = [id \in OfficialIds |-> published[ref][id]]
                       /\ ListsItsOwn(published[ref])
  /\ mos = [version |-> mos.version, ref |-> mos.ref, checkout |-> mos.checkout, lacks |-> mos.lacks]
  /\ mos.ref \in Refs
  /\ mos.checkout = [id \in OfficialIds |-> mos.checkout[id]] /\ ListsItsOwn(mos.checkout)
  /\ catalog.ref \in Refs \cup {"none"} /\ ListsItsOwn(catalog.packages)
  /\ repository = [slot \in Slots |-> repository[slot]]
  /\ \A slot \in Slots : repository[slot] \in ExternalPackages \cup {Absent}

\* The packages that may run under an id.
PackagesOf(i) == {p \in IF i.external THEN ExternalPackages ELSE OfficialPackages : p.id = i.id}

\* A preview of an external app's update asks for all the access its candidate has over
\* the package the preview was made for.
PreviewAsksForAll(i) ==
  LET token == confirmed[i].token
  IN  (i.external /\ confirmed[i] # NoPreview) =>
        RequestedPermissions(i, token.candidate) \ RequestedPermissions(i, token.installed)
        \subseteq confirmed[i].asks

OfferInv ==
  /\ apps = [i \in Ids |-> apps[i]]
  /\ confirmed = [i \in Ids |-> confirmed[i]]
  /\ consented = [i \in Ids |-> consented[i]]
  /\ TablesAreNamed
  /\ \A i \in Ids : PreviewAsksForAll(i)
  /\ links \subseteq Links /\ downgrades \in Nat
  /\ \A i \in Ids : apps[i] \in {Absent} \cup PackagesOf(i)
  /\ AddressesAreDistinct /\ AccessIsConsented
  /\ \A i \in Ids : (Installed(i) /\ ~i.external) => ReviewAccepted(apps[i])

-----------------------------------------------------------------------------
(* What is installed and updated. *)

\* An id says whether its app is external; an official one is that of a package.
LEMMA IdsAreTold ==
  ASSUME NEW i \in Ids
  PROVE  i.external \in BOOLEAN /\ (~i.external => i.id \in OfficialIds)
<1>1. CASE i \in {InstalledId(FALSE, id) : id \in OfficialIds}
  <2>1. PICK id \in OfficialIds : i = [external |-> FALSE, id |-> id]
    BY <1>1 DEF InstalledId
  <2>2. i.external = FALSE /\ i.id = id BY <2>1
  <2> QED BY <2>2
<1>2. CASE i \in {InstalledId(TRUE, p.id) : p \in ExternalPackages}
  <2>1. PICK p \in ExternalPackages : i = [external |-> TRUE, id |-> p.id]
    BY <1>2 DEF InstalledId
  <2>2. i.external = TRUE BY <2>1
  <2> QED BY <2>2
<1> QED BY <1>1, <1>2 DEF Ids

\* A package selected from the added repository has the id it is installed under.
LEMMA SelectedIsNamed ==
  ASSUME TablesAreNamed, NEW i \in Ids, i.external, NEW e \in Selected(i)
  PROVE  e.package \in PackagesOf(i)
<1>1. e \in ListPackages /\ e.id = i BY DEF Selected
<1>2. PICK slot \in Published(repository) : e = ReadPackage(slot)
  BY <1>1 DEF ListPackages
<1>3. e.package = repository[slot] /\ i = InstalledId(TRUE, repository[slot].id)
  BY <1>1, <1>2 DEF ReadPackage
<1>4. i.id = repository[slot].id BY <1>3 DEF InstalledId
<1>5. repository[slot] \in ExternalPackages
  BY <1>2 DEF Published, Slots, TablesAreNamed
<1> QED BY <1>3, <1>4, <1>5 DEF PackagesOf

\* So does an update's candidate, wherever it comes from.
LEMMA CandidateIsNamed ==
  ASSUME TablesAreNamed, NEW i \in Ids, NEW c \in Candidates(i)
  PROVE  c.package \in {Absent} \cup PackagesOf(i)
<1>1. CASE i.external
  <2>1. PICK e \in Selected(i) : c = [package |-> e.package, met |-> FALSE]
    BY <1>1 DEF Candidates
  <2> QED BY <1>1, <2>1, SelectedIsNamed
<1>2. CASE ~i.external
  <2>1. i.id \in OfficialIds BY <1>2, IdsAreTold
  <2>2. c = OfficialCandidate(i) BY <1>2 DEF Candidates
  <2>3. c.package \in {Absent, mos.checkout[i.id], catalog.packages[i.id]}
    BY <2>2 DEF OfficialCandidate, CheckoutCandidate, InCatalog
  <2> QED BY <1>2, <2>1, <2>3 DEF TablesAreNamed, ListsItsOwn, PackagesOf
<1> QED BY <1>1, <1>2

\* One app's package changes to one of its id: the owner saw the access it asks for if it is
\* external, it answers where no other app does, and its review is of its bytes if it is official.
LEMMA OneAppChanges ==
  ASSUME OfferInv, NEW i \in Ids, NEW p, NEW agreed, NEW preview,
         apps' = [apps EXCEPT ![i] = p], consented' = [consented EXCEPT ![i] = agreed],
         confirmed' = [confirmed EXCEPT ![i] = preview],
         preview \in {confirmed[i], NoPreview},
         UNCHANGED links, downgrades' \in Nat, TablesAreNamed',
         p # Absent =>
           /\ p \in PackagesOf(i)
           /\ i.external => RequestedPermissions(i, p) \subseteq agreed
           /\ i.external => RouteHostsAvailable(i, p)
           /\ ~i.external => ReviewAccepted(p)
  PROVE  OfferInv'
<1>1. /\ apps' = [j \in Ids |-> apps'[j]] /\ confirmed' = [j \in Ids |-> confirmed'[j]]
      /\ consented' = [j \in Ids |-> consented'[j]]
  BY DEF OfferInv
<1>2. apps'[i] = p /\ consented'[i] = agreed /\ confirmed'[i] = preview
  BY DEF OfferInv
<1>3. \A j \in Ids \ {i} : /\ apps'[j] = apps[j] /\ consented'[j] = consented[j]
                           /\ confirmed'[j] = confirmed[j]
  BY DEF OfferInv
<1>4. \A j \in Ids : (PreviewAsksForAll(j))'
  <2>1. \A j \in Ids : confirmed'[j] = confirmed[j] \/ confirmed'[j] = NoPreview
    BY <1>2, <1>3
  <2> QED BY <2>1 DEF PreviewAsksForAll, OfferInv, RequestedPermissions, EffectiveHost
<1>5. \A j \in Ids : apps'[j] \in {Absent} \cup PackagesOf(j)
  BY <1>2, <1>3 DEF OfferInv
<1>6. AccessIsConsented'
  BY <1>2, <1>3 DEF AccessIsConsented, Installed, OfferInv, RequestedPermissions, EffectiveHost
<1>7. \A j \in Ids : (Installed(j)' /\ ~j.external) => ReviewAccepted(apps'[j])
  BY <1>2, <1>3 DEF Installed, OfferInv
<1>8. AddressesAreDistinct'
  <2> SUFFICES ASSUME NEW j \in Ids, NEW k \in Ids, apps'[j] # Absent,
                      apps'[k] # Absent, j # k, j.external
               PROVE  EffectiveHost(j, apps'[j]) # EffectiveHost(k, apps'[k])
    BY DEF AddressesAreDistinct, Installed, EffectiveHost
  <2>1. CASE j # i /\ k # i
    BY <1>3, <2>1 DEF OfferInv, AddressesAreDistinct, Installed
  <2>2. CASE j = i
    <3>1. EffectiveHost(k, apps[k]) \in ServedByOthers(i)
      BY <1>3, <2>2 DEF ServedByOthers, Installed
    <3> QED BY <1>2, <1>3, <2>2, <3>1 DEF RouteHostsAvailable
  <2>3. CASE k = i /\ k.external
    <3>1. EffectiveHost(j, apps[j]) \in ServedByOthers(i)
      BY <1>3, <2>3 DEF ServedByOthers, Installed
    <3> QED BY <1>2, <1>3, <2>3, <3>1 DEF RouteHostsAvailable
  <2>4. CASE ~k.external
    BY <2>4 DEF EffectiveHost
  <2> QED BY <2>1, <2>2, <2>3, <2>4
<1> QED BY <1>1, <1>4, <1>5, <1>6, <1>7, <1>8 DEF OfferInv, PackagesOf, ReviewAccepted, Reviewed, ReviewBinds

-----------------------------------------------------------------------------
(* Every step keeps the offers' invariant. *)

\* Nothing of an app changes, and the tables stay named.
LEMMA NoAppChanges ==
  ASSUME OfferInv, UNCHANGED <<apps, confirmed, consented, downgrades>>, links' \subseteq Links,
         TablesAreNamed'
  PROVE  OfferInv'
BY DEF OfferInv, PreviewAsksForAll, AddressesAreDistinct, AccessIsConsented, PackagesOf,
       Installed, ReviewAccepted, Reviewed, ReviewBinds, RequestedPermissions,
       EffectiveHost

\* What is published, read and updated of MOS keeps the tables named.
LEMMA TablesStayNamed ==
  ASSUME TablesAreNamed,
         \/ \E ref \in Refs, p \in OfficialPackages : Publish(ref, p) \/ MosUpdate(ref, p)
         \/ \E slot \in Slots, p \in ExternalPackages \cup {Absent} : Push(slot, p)
         \/ RefreshCatalog \/ \E what \in Lacking : HostGains(what)
         \/ UNCHANGED <<published, mos, catalog, repository>>
  PROVE  TablesAreNamed'
<1>1. CASE UNCHANGED <<published, mos, catalog, repository>>
  BY <1>1 DEF TablesAreNamed, ListsItsOwn
<1>2. CASE RefreshCatalog
  BY <1>2 DEF RefreshCatalog, TablesAreNamed, ListsItsOwn
<1>3. ASSUME NEW what \in Lacking, HostGains(what) PROVE TablesAreNamed'
  <2>1. mos' = [version |-> mos.version, ref |-> mos.ref, checkout |-> mos.checkout, lacks |-> mos.lacks \ {what}]
    BY <1>3 DEF HostGains, TablesAreNamed
  <2>2. UNCHANGED <<published, catalog, repository>>
    BY <1>3 DEF HostGains
  <2> QED BY <2>1, <2>2 DEF TablesAreNamed, ListsItsOwn
<1>4. ASSUME NEW table, NEW p \in OfficialPackages,
             table = [id \in OfficialIds |-> table[id]], ListsItsOwn(table)
      PROVE  /\ [table EXCEPT ![p.id] = p] = [id \in OfficialIds |-> [table EXCEPT ![p.id] = p][id]]
             /\ ListsItsOwn([table EXCEPT ![p.id] = p])
  BY <1>4 DEF ListsItsOwn
<1>5. ASSUME NEW ref \in Refs, NEW p \in OfficialPackages, Publish(ref, p) PROVE TablesAreNamed'
  <2>1. /\ published' = [published EXCEPT ![ref] = [published[ref] EXCEPT ![p.id] = p]] 
        /\ UNCHANGED <<mos, catalog, repository>>
    BY <1>5 DEF Publish
  <2>2. /\ published' = [r \in Refs |-> published'[r]]
        /\ \A r \in Refs : published'[r] = published[r] \/ published'[r] = [published[ref] EXCEPT ![p.id] = p]
    BY <2>1 DEF TablesAreNamed
  <2> DEFINE table == published[ref]
             next == [table EXCEPT ![p.id] = p]
  <2>3. table = [id \in OfficialIds |-> table[id]] /\ ListsItsOwn(table)
    BY DEF TablesAreNamed
  <2>4. next = [id \in OfficialIds |-> next[id]] /\ ListsItsOwn(next)
    <3> HIDE DEF table
    <3> QED BY <1>4, <2>3
  <2>5. \A r \in Refs : /\ published'[r] = [id \in OfficialIds |-> published'[r][id]]
                        /\ ListsItsOwn(published'[r])
    <3>1. \A r \in Refs : published'[r] = published[r] \/ published'[r] = next
      BY <2>2
    <3> HIDE DEF next
    <3> QED BY <2>4, <3>1 DEF TablesAreNamed
  <2>6. \A r \in Refs : ListsItsOwn(published'[r]) => ListsItsOwn(published[r])'
    BY DEF ListsItsOwn
  <2>7. ListsItsOwn(mos.checkout)' /\ ListsItsOwn(catalog.packages)'
    BY <2>1 DEF TablesAreNamed, ListsItsOwn
  <2> HIDE DEF next, table
  <2> QED BY <2>1, <2>2, <2>5, <2>6, <2>7 DEF TablesAreNamed
<1>6. ASSUME NEW ref \in Refs, NEW p \in OfficialPackages, MosUpdate(ref, p) PROVE TablesAreNamed'
  <2> DEFINE table == mos.checkout
             next == [table EXCEPT ![p.id] = p]
  <2>1. mos'.checkout = next /\ mos'.ref = ref
        /\ mos' = [version |-> mos'.version, ref |-> ref, checkout |-> next, lacks |-> mos'.lacks]
    BY <1>6 DEF MosUpdate
  <2>2. mos'.checkout = [id \in OfficialIds |-> mos'.checkout[id]] /\ ListsItsOwn(mos'.checkout)
    <3>1. table = [id \in OfficialIds |-> table[id]] /\ ListsItsOwn(table)
      BY DEF TablesAreNamed
    <3>2. next = [id \in OfficialIds |-> next[id]] /\ ListsItsOwn(next)
      <4> HIDE DEF table
      <4> QED BY <1>4, <3>1
    <3> QED BY <2>1, <3>2
  <2>3. UNCHANGED <<published, catalog, repository>>
    BY <1>6 DEF MosUpdate
  <2> QED BY <2>1, <2>2, <2>3 DEF TablesAreNamed, ListsItsOwn
<1>7. ASSUME NEW slot \in Slots, NEW p \in ExternalPackages \cup {Absent}, Push(slot, p) PROVE TablesAreNamed'
  <2>1. repository' = [repository EXCEPT ![slot] = p] /\ UNCHANGED <<published, mos, catalog>>
    BY <1>7 DEF Push
  <2> QED BY <2>1, ZenonT(30) DEF TablesAreNamed, ListsItsOwn
<1> QED BY <1>1, <1>2, <1>3, <1>5, <1>6, <1>7

\* A step of an app's own.
LEMMA AppStepKeeps ==
  ASSUME OfferInv, NEW i \in Ids,
         \/ InstallPackage(i) \/ InstallExternalPackage(i) \/ PreparePackageUpdate(i)
         \/ StagePackageUpdate(i) \/ StageDowngrade(i) \/ Uninstall(i)
  PROVE  OfferInv'
<1>1. TablesAreNamed'
  <2>1. UNCHANGED <<published, mos, catalog, repository>>
    BY DEF InstallPackage, InstallExternalPackage, PreparePackageUpdate, StagePackageUpdate,
           StageDowngrade, Uninstall, InstalledAs, UpdateApplied
  <2> QED BY <2>1, TablesStayNamed DEF OfferInv
<1>2. [confirmed EXCEPT ![i] = confirmed[i]] = confirmed /\ downgrades \in Nat
  BY DEF OfferInv
<1>3. UNCHANGED links /\ downgrades' \in Nat
  BY <1>2 DEF InstallPackage, InstallExternalPackage, PreparePackageUpdate, StagePackageUpdate,
              StageDowngrade, Uninstall, InstalledAs, UpdateApplied
<1>4. ASSUME NEW p, InstalledAs(i, p), UNCHANGED confirmed, p \in {Absent} \cup PackagesOf(i),
             i.external => RouteHostsAvailable(i, p), ~i.external => ReviewAccepted(p)
      PROVE  OfferInv'
  <2>1. /\ apps' = [apps EXCEPT ![i] = p] /\ consented' = [consented EXCEPT ![i] = RequestedPermissions(i, p)]
        /\ confirmed' = [confirmed EXCEPT ![i] = confirmed[i]]
    BY <1>2, <1>4 DEF InstalledAs
  <2> QED BY <1>1, <1>3, <1>4, <2>1, OneAppChanges
<1>5. CASE InstallPackage(i)
  <2> DEFINE p == mos.checkout[i.id]
  <2>1. InstalledAs(i, p) /\ UNCHANGED confirmed /\ ~i.external /\ ReviewAccepted(p)
    BY <1>5 DEF InstallPackage
  <2>2. p \in {Absent} \cup PackagesOf(i)
    BY <2>1, IdsAreTold DEF OfferInv, TablesAreNamed, ListsItsOwn, PackagesOf
  <2> QED BY <1>4, <2>1, <2>2
<1>6. CASE InstallExternalPackage(i)
  <2>1. PICK e \in Selected(i) : RouteHostsAvailable(i, e.package) /\ InstalledAs(i, e.package)
    BY <1>6 DEF InstallExternalPackage
  <2>2. i.external /\ UNCHANGED confirmed
    BY <1>6 DEF InstallExternalPackage
  <2>3. e.package \in PackagesOf(i)
    BY <2>2, SelectedIsNamed DEF OfferInv
  <2> QED BY <1>4, <2>1, <2>2, <2>3
<1>7. CASE PreparePackageUpdate(i)
  <2>1. PICK c \in Candidates(i) :
          confirmed' = [confirmed EXCEPT ![i] = [token |-> Token(i, c.package), asks |-> Asks(i, c.package)]]
    BY <1>7 DEF PreparePackageUpdate
  <2>2. UNCHANGED <<apps, consented, links, downgrades>>
    BY <1>7 DEF PreparePackageUpdate
  <2>3. PreviewAsksForAll(i)'
    <3>1. /\ confirmed'[i].token.installed = apps[i] /\ confirmed'[i].token.candidate = c.package
          /\ confirmed'[i].asks = Asks(i, c.package)
      BY <2>1 DEF OfferInv, Token, Digest
    <3>2. i.external => AddedPermissions(i, c.package) \subseteq Asks(i, c.package)
      BY DEF Asks
    <3> QED BY <3>1, <3>2 DEF PreviewAsksForAll, AddedPermissions, RequestedPermissions, EffectiveHost
  <2>4. \A j \in Ids \ {i} : PreviewAsksForAll(j)'
    <3>1. \A j \in Ids \ {i} : confirmed'[j] = confirmed[j]
      BY <2>1 DEF OfferInv
    <3> QED BY <3>1 DEF OfferInv, PreviewAsksForAll, RequestedPermissions, EffectiveHost
  <2>5. confirmed' = [j \in Ids |-> confirmed'[j]] BY <2>1 DEF OfferInv
  <2> QED BY <1>1, <2>2, <2>3, <2>4, <2>5
        DEF OfferInv, AddressesAreDistinct, AccessIsConsented, PackagesOf, Installed,
            ReviewAccepted, Reviewed, ReviewBinds, RequestedPermissions, EffectiveHost
<1>8. CASE StagePackageUpdate(i) \/ StageDowngrade(i)
  <2>1. PICK c \in Candidates(i) : Updatable(i, c) /\ UpdateApplied(i, c.package)
    BY <1>8 DEF StagePackageUpdate, StageDowngrade
  <2> DEFINE agreed == RequestedPermissions(i, apps[i]) \cup confirmed[i].asks
  <2>2. /\ apps' = [apps EXCEPT ![i] = c.package] /\ confirmed' = [confirmed EXCEPT ![i] = NoPreview]
        /\ consented' = [consented EXCEPT ![i] = agreed]
    BY <2>1 DEF UpdateApplied
  <2>3. i.external => RequestedPermissions(i, c.package) \subseteq agreed
    <3>1. /\ confirmed[i] # NoPreview /\ confirmed[i].token.installed = apps[i]
          /\ confirmed[i].token.candidate = c.package
      BY <2>1 DEF Updatable, Token, Digest
    <3>2. PreviewAsksForAll(i) BY DEF OfferInv
    <3> QED BY <3>1, <3>2 DEF PreviewAsksForAll
  <2>4. /\ i.external => RouteHostsAvailable(i, c.package)
        /\ ~i.external => ReviewAccepted(c.package)
    BY <2>1 DEF Updatable
  <2>5. c.package \in {Absent} \cup PackagesOf(i)
    BY CandidateIsNamed DEF OfferInv
  <2> HIDE DEF agreed
  <2> QED BY <1>1, <1>3, <2>2, <2>3, <2>4, <2>5, OneAppChanges
<1>9. CASE Uninstall(i)
  <2>1. /\ apps' = [apps EXCEPT ![i] = Absent] /\ confirmed' = [confirmed EXCEPT ![i] = NoPreview]
        /\ consented' = [consented EXCEPT ![i] = {}]
    BY <1>9 DEF Uninstall
  <2> QED BY <1>1, <1>3, <2>1, OneAppChanges
<1> QED BY <1>5, <1>6, <1>7, <1>8, <1>9

LEMMA OfferKept ==
  ASSUME OfferInv, OfferNext
  PROVE  OfferInv'
<1>1. CASE \E ref \in Refs, p \in OfficialPackages : Publish(ref, p) \/ MosUpdate(ref, p)
  <2>1. UNCHANGED <<apps, confirmed, consented, links, downgrades>>
    BY <1>1 DEF Publish, MosUpdate
  <2> QED BY <1>1, <2>1, TablesStayNamed, NoAppChanges DEF OfferInv
<1>2. CASE \/ \E slot \in Slots, p \in ExternalPackages \cup {Absent} : Push(slot, p)
           \/ RefreshCatalog \/ \E what \in Lacking : HostGains(what)
  <2>1. UNCHANGED <<apps, confirmed, consented, links, downgrades>>
    BY <1>2 DEF RefreshCatalog, HostGains, Push
  <2> QED BY <1>2, <2>1, TablesStayNamed, NoAppChanges DEF OfferInv
<1>3. CASE RefreshSource \/ \E subdomain \in Links : AddLink(subdomain)
  <2>1. /\ UNCHANGED <<apps, confirmed, consented, downgrades, published, mos, catalog, repository>>
        /\ links' \subseteq Links
    BY <1>3 DEF RefreshSource, AddLink, OfferInv
  <2> QED BY <2>1, TablesStayNamed, NoAppChanges DEF OfferInv
<1>4. CASE \E i \in Ids :
             \/ InstallPackage(i) \/ InstallExternalPackage(i) \/ PreparePackageUpdate(i)
             \/ StagePackageUpdate(i) \/ StageDowngrade(i) \/ Uninstall(i)
  BY <1>4, AppStepKeeps
<1> QED BY <1>1, <1>2, <1>3, <1>4 DEF OfferNext

LEMMA OfferBegins ==
  ASSUME OfferInit
  PROVE  OfferInv
<1>1. PICK p \in [OfficialIds -> OfficialPackages] :
        /\ \A id \in OfficialIds : p[id].id = id /\ p[id].sound /\ p[id].min <= 1
        /\ published = [ref \in Refs |-> p]
        /\ mos = [version |-> 1, ref |-> "main", checkout |-> p, lacks |-> Lacking]
  BY DEF OfferInit
<1>2. TablesAreNamed
  BY <1>1 DEF OfferInit, TablesAreNamed, ListsItsOwn, NoCatalog, Refs
<1>3. /\ apps = [i \in Ids |-> Absent] /\ confirmed = [i \in Ids |-> NoPreview]
      /\ consented = [i \in Ids |-> {}] /\ links \subseteq Links /\ downgrades \in Nat
  BY DEF OfferInit
<1> QED BY <1>2, <1>3 DEF OfferInv, PreviewAsksForAll, AddressesAreDistinct, AccessIsConsented,
                          PackagesOf, Installed

-----------------------------------------------------------------------------
(* What the invariant says of the offers. *)

\* The Apps page offers what an update takes, by what the two are computed from.
LEMMA OfferIsTaken == OfferIsTheCandidate
<1> SUFFICES ASSUME NEW card \in AppsPage, ~card.id.external, NEW p \in card.offers
             PROVE  \E c \in Candidates(card.id) :
                      c.package = p /\ (OfficialOffer(card.id).takes => (c.met \/ mos.version >= p.min))
  BY DEF OfferIsTheCandidate
<1> DEFINE i == card.id
           c == OfficialCandidate(i)
<1>1. card.offers = {OfficialOffer(i).package} \ {Absent}
  <2>1. PICK j \in Ids :
          card = [id |-> j, status |-> "installed", installs |-> TRUE,
                  offers |-> IF j.external THEN ExternalOffer(j)
                             ELSE {OfficialOffer(j).package} \ {Absent}]
    <3>1. card \in {[id |-> j, status |-> "installed", installs |-> TRUE,
                     offers |-> IF j.external THEN ExternalOffer(j)
                                ELSE {OfficialOffer(j).package} \ {Absent}] :
                     j \in {j \in Ids : Installed(j)}}
      <4> DEFINE others == {[id |-> InstalledId(FALSE, id), status |-> "not-installed",
                             installs |-> mos.checkout[id].sound, offers |-> {}] :
                             id \in {id \in OfficialIds : ~Installed(InstalledId(FALSE, id))}}
                 listed == {[id |-> entry.id, status |-> "external", installs |-> entry.errors = {}, offers |-> {}] :
                             entry \in {entry \in cards : ~Installed(entry.id)}}
      <4>1. ASSUME NEW other \in others PROVE other.offers = {}
        <5>1. PICK id \in OfficialIds :
                other = [id |-> InstalledId(FALSE, id), status |-> "not-installed",
                         installs |-> mos.checkout[id].sound, offers |-> {}]
          BY Zenon
        <5> QED BY <5>1
      <4>2. ASSUME NEW other \in listed PROVE other.offers = {}
        <5>1. PICK entry \in cards, installs \in BOOLEAN :
                other = [id |-> entry.id, status |-> "external", installs |-> installs, offers |-> {}]
          <6>1. PICK entry \in cards :
                  other = [id |-> entry.id, status |-> "external", installs |-> entry.errors = {}, offers |-> {}]
            BY Zenon
          <6>2. (entry.errors = {}) \in BOOLEAN OBVIOUS
          <6> QED BY <6>1, <6>2, Zenon
        <5> QED BY <5>1
      <4>3. p \in card.offers OBVIOUS
      <4> QED BY <4>1, <4>2, <4>3, Zenon DEF AppsPage
    <3> QED BY <3>1
  <2>2. i = j /\ card.offers = IF j.external THEN ExternalOffer(j)
                              ELSE {OfficialOffer(j).package} \ {Absent}
    BY <2>1
  <2> QED BY <2>2
<1>2. p = OfficialOffer(i).package /\ p # Absent BY <1>1
<1>3. c.package = p /\ (OfficialOffer(i).takes => c.met)
  BY <1>2 DEF OfficialOffer, OfficialCandidate
<1>4. c \in Candidates(i) BY <1>2, <1>3 DEF Candidates
<1> QED BY <1>3, <1>4

LEMMA ReviewIsShownOfThePackage ==
  ASSUME OfferInv
  PROVE  ReviewIsOfThePackage
BY IdsAreTold DEF OfferInv, ReviewIsOfThePackage, PrivacyShown, ReviewAccepted, ReviewBinds

\* The offers' invariant holds from the first state on.
LEMMA OfferInvHolds == OfferSpec => []OfferInv
<1>1. OfferInv /\ [OfferNext]_offerVars => OfferInv'
  <2>1. ASSUME OfferInv, UNCHANGED offerVars PROVE OfferInv'
    <3>1. UNCHANGED <<apps, confirmed, consented, downgrades, links, published, mos, catalog, repository>>
      BY <2>1 DEF offerVars
    <3> QED BY <2>1, <3>1, TablesStayNamed, NoAppChanges DEF OfferInv
  <2> QED BY <2>1, OfferKept
<1> QED BY <1>1, OfferBegins, PTL DEF OfferSpec

\* Whatever is published, refreshed, previewed, installed and updated in whatever order: no external
\* app answers at another installed app's address, it has only the access the owner was asked for, an
\* installed id is the app it was, a review shown is of the package that runs, and the update the Apps
\* page offers is the one an update takes (official-catalog-service.cjs, app-update-service.cjs,
\* app-package-service.cjs).
THEOREM OffersStaySound == OfferSpec => []OffersAreSound
<1>1. OfferInv => OffersAreSound
  BY OfferIsTaken, ReviewIsShownOfThePackage DEF OffersAreSound, OfferInv, IdentityIsKept, Installed, PackagesOf
<1> QED BY <1>1, OfferInvHolds, PTL

\* An app runs a package of its own source, an official one the project's and an external one the
\* added repository's (app-package-service.cjs selectPackage, checkoutUpdateCandidate).
THEOREM OfferTypeCorrect == OfferSpec => []OfferTypeOK
<1>1. OfferInv => OfferTypeOK
  BY DEF OfferInv, TablesAreNamed, OfferTypeOK, PackagesOf
<1> QED BY <1>1, OfferInvHolds, PTL

\* Ranks are the order of the versions: what a package's place among the releases means.
RanksAreTheOrder ==
  \A packages \in {OfficialPackages, ExternalPackages} : \A p, q \in packages :
    /\ p.rank \in Nat
    /\ (p.id = q.id /\ CompareSemver(p.version, q.version) > 0) => p.rank >= q.rank

\* A step that is not the owner's decision for an older package leaves every installed app at its
\* version or brings a later one, however its source was rewritten between the preview and the
\* update (app-update-service.cjs stageUpdate).
THEOREM NeverGoesBackAStep == RanksAreTheOrder => (OfferSpec => NeverGoesBack)
<1> SUFFICES ASSUME RanksAreTheOrder PROVE OfferSpec => NeverGoesBack
  OBVIOUS
<1>1. OfferInv /\ [OfferNext]_offerVars => [GoesNotBack]_offerVars
  <2> SUFFICES ASSUME OfferInv, OfferNext, NEW i \in Ids, Installed(i), apps'[i] # Absent, downgrades' = downgrades
               PROVE  apps'[i].rank >= apps[i].rank
    BY DEF GoesNotBack
  <2>1. apps[i] \in PackagesOf(i) /\ apps[i].rank \in Nat
    <3>1. apps[i] \in PackagesOf(i) BY DEF OfferInv, Installed
    <3> QED BY <3>1 DEF PackagesOf, RanksAreTheOrder
  <2>2. CASE apps'[i] = apps[i]
    BY <2>1, <2>2
  <2>3. ASSUME NEW j \in Ids, StagePackageUpdate(j) PROVE apps'[i].rank >= apps[i].rank
    <3>1. PICK c \in Candidates(j) : /\ CompareSemver(c.package.version, apps[j].version) > 0
                                     /\ UpdateApplied(j, c.package)
      BY <2>3 DEF StagePackageUpdate
    <3>2. apps' = [apps EXCEPT ![j] = c.package]
      BY <3>1 DEF UpdateApplied
    <3>3. CASE i = j
      <4>1. apps'[i] = c.package /\ c.package \in PackagesOf(i)
        BY <3>2, <3>3, CandidateIsNamed DEF OfferInv
      <4>2. c.package.id = apps[i].id /\ c.package.rank >= apps[i].rank
        BY <2>1, <3>1, <3>3, <4>1 DEF PackagesOf, RanksAreTheOrder
      <4> QED BY <4>1, <4>2
    <3> QED BY <2>2, <3>2, <3>3 DEF OfferInv
  <2>4. ASSUME NEW j \in Ids, NEW p, apps' = [apps EXCEPT ![j] = p], ~Installed(j) \/ p = Absent
        PROVE  apps'[i].rank >= apps[i].rank
    BY <2>2, <2>4 DEF OfferInv, Installed
  <2>5. ASSUME NEW j \in Ids, InstallPackage(j) \/ InstallExternalPackage(j) \/ Uninstall(j)
        PROVE  apps'[i].rank >= apps[i].rank
    BY <2>4, <2>5 DEF InstallPackage, InstallExternalPackage, Uninstall, InstalledAs
  <2>6. ASSUME NEW j \in Ids, StageDowngrade(j) PROVE FALSE
    BY <2>6 DEF StageDowngrade, OfferInv
  <2>7. CASE UNCHANGED apps
    BY <2>2, <2>7
  <2> QED BY <2>3, <2>5, <2>6, <2>7
          DEF OfferNext, Publish, MosUpdate, Push, RefreshCatalog, RefreshSource, HostGains, PreparePackageUpdate, AddLink
<1> QED BY <1>1, OfferInvHolds, PTL DEF OfferSpec, NeverGoesBack

-----------------------------------------------------------------------------
(* The settings of an app. *)

\* A set of numbers has a least one.
LEMMA LeastExists ==
  ASSUME NEW S, S \subseteq Nat, S # {}
  PROVE  \E x \in S : \A y \in S : x <= y
<1> DEFINE Less == {pair \in Nat \X Nat : pair[1] < pair[2]}
<1>1. IsWellFoundedOn(Less, Nat)
  BY NatLessThanWellFounded, Zenon DEF OpToRel
<1>2. PICK x \in S : \A y \in S : ~ (<<y, x>> \in Less)
  <2> HIDE DEF Less
  <2> QED BY <1>1, WFMin
<1>3. ASSUME NEW y \in S PROVE x <= y
  <2>1. x \in Nat /\ y \in Nat /\ ~ (y < x) BY <1>2
  <2> QED BY <2>1
<1> QED BY <1>3

\* Every value a row or a variable may hold.
FirstValue(v, n) == v \o n
FirstValues == UNION {{FirstValue(v, n) : n \in Names} : v \in Values}
Vals == Values \cup {""} \cup FirstValues

\* A tab's rows are a sequence of rows with a value each.
RowFields == {"name", "secret", "touched", "held", "value"}
TabFields == {"open", "rows", "saved", "errors", "sending", "request", "answer", "env", "notice",
              "unsure"}
IsRow(r) == r = [f \in RowFields |-> r[f]] /\ r.value \in Vals
RowList(list) ==
  /\ Len(list) \in Nat /\ list = [i \in 1 .. Len(list) |-> list[i]]
  /\ \A i \in 1 .. Len(list) : IsRow(list[i])
IsTab(tab) == tab = [f \in TabFields |-> tab[f]] /\ RowList(tab.rows)

\* A request carries the rows of its tab, and an answer the set the server had then.
RequestIsTheRows(tab) ==
  /\ tab.sending # "no" => tab.open
  /\ tab.sending = "sent" => tab.request = [i \in DOMAIN tab.rows |-> Entry(tab.rows[i])]
  /\ tab.sending = "served" /\ tab.answer # "refused" =>
       IsFiniteSet(tab.env) /\ \A e \in tab.env : e.value \in Vals

\* Every hidden value the rows were seeded with has its row, if its name was let alone.
HiddenHasRow(tab, names) ==
  tab.open =>
    \A n \in HiddenIn(tab.saved) \ names :
      \E i \in 1 .. Len(tab.rows) : tab.rows[i].name = n /\ Held(tab.rows[i])

\* And a row of a name the owner let alone is as it was seeded: a hidden value is held in it.
AloneIsHeld(tab, names) ==
  /\ HiddenHasRow(tab, names)
  /\ \A i \in 1 .. Len(tab.rows) :
       tab.rows[i].name \notin names \cup {""} /\ tab.rows[i].secret => Held(tab.rows[i])

\* What a tab calls saved is what the server holds, as far as its answers tell.
SavedIsStored(tab, entries) ==
  /\ tab.open /\ ~tab.unsure /\ ~(tab.sending = "served" /\ tab.answer = "applied") =>
       tab.saved = SubmittedRows(RowsFrom(entries))
  /\ tab.sending = "served" /\ tab.answer # "refused" => tab.env = entries

StoredIsASet ==
  /\ IsFiniteSet(stored) /\ SetIsValid
  /\ \A e \in stored : e.value \in Vals

TabsAreSound ==
  /\ tabs = [t \in Tabs |-> tabs[t]] /\ acted = [t \in Tabs |-> acted[t]]
  /\ \A t \in Tabs : IsTab(tabs[t]) /\ RequestIsTheRows(tabs[t]) /\ AloneIsHeld(tabs[t], acted[t])

\* Nobody else saves behind the back of the only tab.
OnlyTab == \A t, u \in Tabs : t = u
OneTabKnows ==
  OnlyTab => \A t \in Tabs : SavedIsStored(tabs[t], stored)

SettingsInv == StoredIsASet /\ TabsAreSound /\ OneTabKnows

------------------------------------------------------------------------------
(* Rows. *)

LEMMA ListedProps ==
  ASSUME NEW list, RowList(list)
  PROVE  /\ Len(list) \in Nat /\ DOMAIN list = 1 .. Len(list)
         /\ list \in Seq({list[i] : i \in 1 .. Len(list)})
<1> DEFINE S == {list[i] : i \in 1 .. Len(list)}
<1>1. Len(list) \in Nat /\ list = [i \in 1 .. Len(list) |-> list[i]]
  BY DEF RowList
<1>2. list \in [1 .. Len(list) -> S]
  <2>1. \A i \in 1 .. Len(list) : list[i] \in S OBVIOUS
  <2> HIDE DEF S
  <2> QED BY <1>1, <2>1
<1> HIDE DEF S
<1>3. list \in Seq(S) BY <1>1, <1>2, SeqDef
<1> QED BY <1>1, <1>3 DEF S

LEMMA MakesAList ==
  ASSUME NEW S, NEW list \in Seq(S), \A i \in 1 .. Len(list) : IsRow(list[i])
  PROVE  RowList(list)
BY LenProperties DEF RowList

LEMMA AppendListed ==
  ASSUME NEW list, RowList(list), NEW r, IsRow(r)
  PROVE  LET more == Append(list, r)
         IN /\ RowList(more) /\ Len(more) = Len(list) + 1 /\ more[Len(list) + 1] = r
            /\ \A i \in 1 .. Len(list) : more[i] = list[i]
<1> DEFINE S == {list[i] : i \in 1 .. Len(list)} \cup {r}
           more == Append(list, r)
<1>1. list \in Seq(S) /\ r \in S /\ Len(list) \in Nat
  <2>1. list \in Seq({list[i] : i \in 1 .. Len(list)}) /\ Len(list) \in Nat
    BY ListedProps
  <2>2. {list[i] : i \in 1 .. Len(list)} \subseteq S OBVIOUS
  <2> QED BY <2>1, <2>2, SeqMonotonic
<1> HIDE DEF S
<1>2. /\ more \in Seq(S) /\ Len(more) = Len(list) + 1 /\ more[Len(list) + 1] = r
      /\ \A i \in 1 .. Len(list) : more[i] = list[i]
  BY <1>1, AppendProperties
<1> HIDE DEF more
<1>3. \A i \in 1 .. Len(more) : IsRow(more[i])
  <2> SUFFICES ASSUME NEW i \in 1 .. Len(more) PROVE IsRow(more[i])
    OBVIOUS
  <2>1. CASE i = Len(list) + 1
    BY <2>1, <1>2
  <2>2. CASE i # Len(list) + 1
    <3>1. i \in 1 .. Len(list) BY <2>2, <1>1, <1>2
    <3> QED BY <3>1, <1>2 DEF RowList
  <2> QED BY <2>1, <2>2
<1>4. RowList(more) BY <1>2, <1>3, MakesAList
<1> QED BY <1>2, <1>4 DEF more

LEMMA ReplaceListed ==
  ASSUME NEW list, RowList(list), NEW i \in 1 .. Len(list), NEW r, IsRow(r)
  PROVE  LET other == [list EXCEPT ![i] = r]
         IN /\ RowList(other) /\ Len(other) = Len(list) /\ other[i] = r
            /\ \A j \in 1 .. Len(list) : j # i => other[j] = list[j]
<1> DEFINE S == {list[j] : j \in 1 .. Len(list)} \cup {r}
           other == [list EXCEPT ![i] = r]
<1>1. list \in Seq(S) /\ r \in S /\ Len(list) \in Nat
  <2>1. list \in Seq({list[j] : j \in 1 .. Len(list)}) /\ Len(list) \in Nat
    BY ListedProps
  <2>2. {list[j] : j \in 1 .. Len(list)} \subseteq S OBVIOUS
  <2> QED BY <2>1, <2>2, SeqMonotonic
<1> HIDE DEF S
<1>2. /\ other \in Seq(S) /\ Len(other) = Len(list)
      /\ \A j \in 1 .. Len(list) : other[j] = IF j = i THEN r ELSE list[j]
  BY <1>1, ExceptSeq
<1> HIDE DEF other
<1>3. RowList(other) BY <1>2, MakesAList DEF RowList
<1> QED BY <1>2, <1>3 DEF other

LEMMA RemoveListed ==
  ASSUME NEW list, RowList(list), NEW i \in 1 .. Len(list)
  PROVE  LET less == RemoveAt(list, i)
         IN /\ RowList(less)
            /\ \A k \in 1 .. Len(less) : \E j \in 1 .. Len(list) : less[k] = list[j]
            /\ \A j \in 1 .. Len(list) : j # i => \E k \in 1 .. Len(less) : less[k] = list[j]
<1> DEFINE S == {list[j] : j \in 1 .. Len(list)}
           n == Len(list)
           front == SubSeq(list, 1, i - 1)
           back == SubSeq(list, i + 1, n)
           less == RemoveAt(list, i)
<1>1. list \in Seq(S) /\ n \in Nat /\ i \in Int BY ListedProps
<1>2. \A j \in 1 .. n : list[j] \in S OBVIOUS
<1>3. /\ front \in Seq(S) /\ Len(front) = i - 1
      /\ \A k \in 1 .. i - 1 : front[k] = list[k]
  <2>1. \A j \in 1 .. (i - 1) : list[j] \in S BY <1>1, <1>2
  <2>2. i - 1 \in Int /\ 1 \in Int BY <1>1
  <2> HIDE DEF S
  <2>3. /\ front \in Seq(S) /\ Len(front) = IF 1 <= i - 1 THEN (i - 1) - 1 + 1 ELSE 0
        /\ \A k \in 1 .. (i - 1) - 1 + 1 : front[k] = list[1 + k - 1]
    BY <2>1, <2>2, SubSeqProperties
  <2> QED BY <2>3, <1>1
<1>4. /\ back \in Seq(S) /\ Len(back) = n - i
      /\ \A k \in 1 .. n - i : back[k] = list[i + k]
  <2>1. \A j \in (i + 1) .. n : list[j] \in S BY <1>1, <1>2
  <2>2. i + 1 \in Int /\ n \in Int BY <1>1
  <2> HIDE DEF S
  <2>3. /\ back \in Seq(S) /\ Len(back) = IF i + 1 <= n THEN n - (i + 1) + 1 ELSE 0
        /\ \A k \in 1 .. n - (i + 1) + 1 : back[k] = list[(i + 1) + k - 1]
    BY <2>1, <2>2, SubSeqProperties
  <2> QED BY <2>3, <1>1
<1> HIDE DEF S, front, back
<1>5. /\ less \in Seq(S) /\ Len(less) = n - 1
      /\ \A k \in 1 .. n - 1 : less[k] = IF k <= i - 1 THEN front[k] ELSE back[k - (i - 1)]
  <2>1. less = front \o back BY DEF RemoveAt, front, back
  <2>2. /\ front \o back \in Seq(S) /\ Len(front \o back) = Len(front) + Len(back)
        /\ \A k \in 1 .. Len(front) + Len(back) :
             (front \o back)[k] = IF k <= Len(front) THEN front[k] ELSE back[k - Len(front)]
    BY <1>3, <1>4, ConcatProperties
  <2> QED BY <2>1, <2>2, <1>1, <1>3, <1>4, SMTT(30)
<1> HIDE DEF less
<1>6. \A k \in 1 .. n - 1 : less[k] = IF k < i THEN list[k] ELSE list[k + 1]
  <2> SUFFICES ASSUME NEW k \in 1 .. n - 1
               PROVE  less[k] = IF k < i THEN list[k] ELSE list[k + 1]
    OBVIOUS
  <2>1. CASE k < i
    BY <2>1, <1>1, <1>3, <1>5
  <2>2. CASE ~(k < i)
    <3>1. k - (i - 1) \in 1 .. n - i /\ ~(k <= i - 1) /\ i + (k - (i - 1)) = k + 1
      BY <2>2, <1>1
    <3> QED BY <2>2, <3>1, <1>4, <1>5
  <2> QED BY <2>1, <2>2
<1>7. \A k \in 1 .. Len(less) : \E j \in 1 .. n : less[k] = list[j]
  BY <1>1, <1>5, <1>6
<1>8. \A j \in 1 .. n : j # i => \E k \in 1 .. Len(less) : less[k] = list[j]
  <2> SUFFICES ASSUME NEW j \in 1 .. n, j # i PROVE \E k \in 1 .. Len(less) : less[k] = list[j]
    OBVIOUS
  <2>1. CASE j < i
    BY <2>1, <1>1, <1>5, <1>6
  <2>2. CASE j > i
    <3>1. j - 1 \in 1 .. n - 1 /\ ~(j - 1 < i) /\ (j - 1) + 1 = j
      BY <2>2, <1>1
    <3> QED BY <3>1, <1>5, <1>6
  <2> QED BY <2>1, <2>2, <1>1
<1>9. RowList(less) BY <1>5, <1>7, MakesAList DEF RowList
<1> QED BY <1>7, <1>8, <1>9 DEF less

\* How a variable is shown when the rows are seeded.
Seen(e) == [name |-> e.name, secret |-> e.secret, touched |-> TRUE,
            held |-> IF e.secret THEN Hash(e.value) ELSE NoHash,
            value |-> IF e.secret THEN "" ELSE e.value]

LEMMA MakesARow ==
  ASSUME NEW n, NEW s, NEW touched, NEW h, NEW v \in Vals
  PROVE  LET r == [name |-> n, secret |-> s, touched |-> touched, held |-> h, value |-> v]
         IN IsRow(r) /\ r.name = n /\ r.secret = s /\ r.touched = touched /\ r.held = h /\ r.value = v
BY DEF IsRow, RowFields

LEMMA SeenIsRow ==
  ASSUME NEW e, e.value \in Vals
  PROVE  /\ IsRow(Seen(e)) /\ Seen(e).name = e.name /\ Seen(e).secret = e.secret
         /\ Seen(e).held = (IF e.secret THEN Hash(e.value) ELSE NoHash)
         /\ Seen(e).value = (IF e.secret THEN "" ELSE e.value)
<1>1. PICK h, v, touched : /\ h = (IF e.secret THEN Hash(e.value) ELSE NoHash)
                           /\ v = (IF e.secret THEN "" ELSE e.value)
                           /\ touched = TRUE
  OBVIOUS
<1>2. v \in Vals
  <2>1. v = "" \/ v = e.value BY <1>1, Zenon
  <2>2. "" \in Vals BY DEF Vals
  <2> QED BY <2>1, <2>2, Zenon
<1>3. Seen(e) = [name |-> e.name, secret |-> e.secret, touched |-> touched, held |-> h, value |-> v]
  BY <1>1, Zenon DEF Seen
<1>4. /\ IsRow(Seen(e)) /\ Seen(e).name = e.name /\ Seen(e).secret = e.secret
      /\ Seen(e).held = h /\ Seen(e).value = v
  <2>1. LET r == [name |-> e.name, secret |-> e.secret, touched |-> touched, held |-> h, value |-> v]
        IN IsRow(r) /\ r.name = e.name /\ r.secret = e.secret /\ r.held = h /\ r.value = v
    BY ONLY <1>2, MakesARow
  <2> QED BY ONLY <1>3, <2>1
<1> QED BY <1>1, <1>4, Zenon

LEMMA SetAsSequence ==
  ASSUME NEW S, IsFiniteSet(S)
  PROVE  SetToSeq(S) \in Seq(S) /\ \A x \in S : \E i \in 1 .. Len(SetToSeq(S)) : SetToSeq(S)[i] = x
<1> DEFINE n == Cardinality(S)
           f == SetToSeq(S)
<1>1. n \in Nat /\ ExistsBijection(1 .. n, S) BY FS_CardinalityType
<1>2. \E g \in [1 .. n -> S] : IsInjective(g)
  BY <1>1 DEF ExistsBijection, Bijection, Injection
<1>3. f \in [1 .. n -> S] /\ IsInjective(f) BY <1>2 DEF SetToSeq
<1>4. IsFiniteSet(1 .. n) /\ Cardinality(1 .. n) = n
  BY <1>1, FS_Interval
<1> HIDE DEF f
<1>5. f \in Injection(1 .. n, S) BY <1>3 DEF Injection
<1>6. f \in Surjection(1 .. n, S)
  <2> HIDE DEF n
  <2>1. Cardinality(1 .. n) = Cardinality(S) BY <1>4 DEF n
  <2> QED BY <1>5, <2>1, FS_Injection
<1>7. f \in Seq(S) /\ Len(f) = n BY <1>1, <1>3, SeqDef
<1> QED BY <1>6, <1>7 DEF Surjection, f

LEMMA SeededRows ==
  ASSUME NEW S, IsFiniteSet(S), \A e \in S : e.value \in Vals
  PROVE  LET rows == RowsFrom(S)
         IN /\ RowList(rows)
            /\ \A i \in 1 .. Len(rows) : \E e \in S : rows[i] = Seen(e)
            /\ \A e \in S : \E i \in 1 .. Len(rows) : rows[i] = Seen(e)
<1> DEFINE T == {Seen(e) : e \in S}
           rows == RowsFrom(S)
<1>1. IsFiniteSet(T)
  <2>1. [e \in S |-> Seen(e)] \in Surjection(S, T) BY DEF Surjection
  <2> HIDE DEF T
  <2> QED BY <2>1, FS_Surjection
<1>2. rows = SetToSeq(T) BY DEF RowsFrom, Seen
<1> HIDE DEF rows
<1>3. rows \in Seq(T) /\ \A x \in T : \E i \in 1 .. Len(rows) : rows[i] = x
  <2> HIDE DEF T
  <2> QED BY <1>1, <1>2, SetAsSequence
<1>4. \A i \in 1 .. Len(rows) : \E e \in S : rows[i] = Seen(e)
  <2>1. \A i \in 1 .. Len(rows) : rows[i] \in T
    <3> HIDE DEF T
    <3> QED BY <1>3, ElementOfSeq
  <2> QED BY <2>1
<1>5. \A e \in S : \E i \in 1 .. Len(rows) : rows[i] = Seen(e) BY <1>3
<1>6. RowList(rows)
  <2>1. \A i \in 1 .. Len(rows) : IsRow(rows[i]) BY <1>4, SeenIsRow
  <2> HIDE DEF T
  <2> QED BY <1>3, <2>1, MakesAList
<1> QED BY <1>4, <1>5, <1>6 DEF rows

LEMMA SameSubmittedSameShown ==
  ASSUME NEW x, NEW y, SubmittedRows(x) = SubmittedRows(y)
  PROVE  Shown(x) = Shown(y)
<1>1. DOMAIN x = DOMAIN y
  <2>1. DOMAIN SubmittedRows(x) = DOMAIN x /\ DOMAIN SubmittedRows(y) = DOMAIN y
    BY DEF SubmittedRows
  <2> QED BY <2>1
<1>2. ASSUME NEW i \in DOMAIN x
      PROVE  x[i].name = y[i].name /\ x[i].secret = y[i].secret /\ x[i].value = y[i].value
  <2>1. SubmittedRows(x)[i] = <<x[i].name, x[i].secret, x[i].value>>
        /\ SubmittedRows(y)[i] = <<y[i].name, y[i].secret, y[i].value>>
    BY <1>1 DEF SubmittedRows
  <2>2. <<x[i].name, x[i].secret, x[i].value>> = <<y[i].name, y[i].secret, y[i].value>>
    BY <2>1
  <2> QED BY <2>2
<1> DEFINE Plainly(r) == [name |-> r.name, secret |-> r.secret, value |-> r.value]
<1>3. Shown(x) = {Plainly(x[i]) : i \in DOMAIN x} /\ Shown(y) = {Plainly(y[i]) : i \in DOMAIN y}
  BY DEF Shown, Range
<1>4. \A i \in DOMAIN x : Plainly(x[i]) = Plainly(y[i]) BY <1>2
<1> HIDE DEF Plainly
<1> QED BY <1>1, <1>3, <1>4

------------------------------------------------------------------------------
(* A step of one tab. *)

LEMMA TabMoves ==
  ASSUME SettingsInv, NEW t \in Tabs, NEW tab, NEW names,
         tabs' = [tabs EXCEPT ![t] = tab], acted' = [acted EXCEPT ![t] = names], UNCHANGED stored,
         IsTab(tab), RequestIsTheRows(tab), AloneIsHeld(tab, names),
         OnlyTab => SavedIsStored(tab, stored)
  PROVE  SettingsInv'
<1>1. StoredIsASet' BY DEF SettingsInv, StoredIsASet, SetIsValid
<1>2. /\ tabs' = [u \in Tabs |-> IF u = t THEN tab ELSE tabs[u]]
      /\ acted' = [u \in Tabs |-> IF u = t THEN names ELSE acted[u]]
  BY DEF SettingsInv, TabsAreSound
<1>3. TabsAreSound'
  <2>1. ASSUME NEW u \in Tabs
        PROVE  IsTab(tabs'[u]) /\ RequestIsTheRows(tabs'[u]) /\ AloneIsHeld(tabs'[u], acted'[u])
    <3>1. CASE u = t
      BY <3>1, <1>2
    <3>2. CASE u # t
      <4>1. tabs'[u] = tabs[u] /\ acted'[u] = acted[u] BY <3>2, <1>2
      <4> QED BY <4>1 DEF SettingsInv, TabsAreSound
    <3> QED BY <3>1, <3>2
  <2>2. tabs' = [u \in Tabs |-> tabs'[u]] /\ acted' = [u \in Tabs |-> acted'[u]]
    BY <1>2
  <2> QED BY <2>1, <2>2 DEF TabsAreSound
<1>4. OneTabKnows'
  <2> SUFFICES ASSUME OnlyTab, NEW u \in Tabs
               PROVE  SavedIsStored(tabs'[u], stored')
    BY DEF OneTabKnows, OnlyTab
  <2>1. u = t BY DEF OnlyTab
  <2>2. tabs'[u] = tab /\ acted'[u] = names BY <2>1, <1>2
  <2> QED BY <2>2
<1> QED BY <1>1, <1>3, <1>4 DEF SettingsInv

\* A tab as the invariant has it.
LEMMA TabIsSound ==
  ASSUME SettingsInv, NEW t \in Tabs
  PROVE  /\ IsTab(tabs[t]) /\ RequestIsTheRows(tabs[t]) /\ AloneIsHeld(tabs[t], acted[t])
         /\ RowList(tabs[t].rows) /\ DOMAIN tabs[t].rows = 1 .. Len(tabs[t].rows)
         /\ OnlyTab => SavedIsStored(tabs[t], stored)
         /\ acted = [acted EXCEPT ![t] = acted[t]]
<1>1. /\ IsTab(tabs[t]) /\ RequestIsTheRows(tabs[t]) /\ AloneIsHeld(tabs[t], acted[t])
      /\ acted = [u \in Tabs |-> acted[u]]
  BY DEF SettingsInv, TabsAreSound
<1>2. RowList(tabs[t].rows) BY <1>1 DEF IsTab
<1>3. DOMAIN tabs[t].rows = 1 .. Len(tabs[t].rows) BY <1>2, ListedProps
<1>4. OnlyTab => SavedIsStored(tabs[t], stored)
  BY DEF SettingsInv, OneTabKnows
<1>5. acted = [acted EXCEPT ![t] = acted[t]] BY <1>1
<1> QED BY <1>1, <1>2, <1>3, <1>4, <1>5

\* An edit touches rows of the names it counts as touched, and leaves the others where they are.
LEMMA EditKeeps ==
  ASSUME SettingsInv, NEW t \in Tabs, NEW rows, NEW errors, NEW names,
         Editable(t), Edited(t, rows, errors, names), RowList(rows),
         \A i \in 1 .. Len(rows) :
           rows[i].name \in names \cup {""} \/ \E j \in 1 .. Len(tabs[t].rows) : rows[i] = tabs[t].rows[j],
         \A j \in 1 .. Len(tabs[t].rows) :
           tabs[t].rows[j].name \notin names => \E i \in 1 .. Len(rows) : rows[i] = tabs[t].rows[j]
  PROVE  SettingsInv'
<1> DEFINE old == tabs[t]
           tab == [old EXCEPT !.rows = rows, !.errors = errors]
<1>1. /\ IsTab(old) /\ RequestIsTheRows(old) /\ AloneIsHeld(old, acted[t])
      /\ OnlyTab => SavedIsStored(old, stored)
  BY TabIsSound
<1>2. old.sending = "no" /\ old.open BY DEF Editable
<1>3. /\ tabs' = [tabs EXCEPT ![t] = tab] /\ acted' = [acted EXCEPT ![t] = acted[t] \cup names]
      /\ UNCHANGED stored
  BY DEF Edited
<1> HIDE DEF old
<1>4. old = [f \in TabFields |-> old[f]] BY <1>1 DEF IsTab
<1>5. /\ tab = [f \in TabFields |-> tab[f]]
      /\ tab.open = old.open /\ tab.rows = rows /\ tab.saved = old.saved /\ tab.sending = old.sending
      /\ tab.answer = old.answer /\ tab.env = old.env /\ tab.unsure = old.unsure
  BY ONLY <1>4 DEF TabFields
<1> HIDE DEF tab
<1>6. IsTab(tab) BY <1>5 DEF IsTab
<1>7. RequestIsTheRows(tab) BY <1>2, <1>5 DEF RequestIsTheRows
<1>8. AloneIsHeld(tab, acted[t] \cup names)
  <2>2. ASSUME NEW n \in HiddenIn(old.saved), n \notin acted[t] \cup names
        PROVE  \E i \in 1 .. Len(rows) : rows[i].name = n /\ Held(rows[i])
    <3>1. PICK j \in 1 .. Len(old.rows) : old.rows[j].name = n /\ Held(old.rows[j])
      BY <1>1, <1>2, <2>2 DEF AloneIsHeld, HiddenHasRow
    <3>2. PICK i \in 1 .. Len(rows) : rows[i] = old.rows[j]
      BY <3>1, <2>2 DEF old
    <3> QED BY <3>1, <3>2
  <2>3. HiddenHasRow(tab, acted[t] \cup names)
    BY <2>2, <1>5 DEF HiddenHasRow
  <2> SUFFICES ASSUME NEW i \in 1 .. Len(rows), rows[i].name \notin (acted[t] \cup names) \cup {""},
                      rows[i].secret
               PROVE  Held(rows[i])
    BY <1>5, <2>3 DEF AloneIsHeld
  <2>1. PICK j \in 1 .. Len(old.rows) : rows[i] = old.rows[j]
    BY DEF old
  <2> QED BY <2>1, <1>1 DEF AloneIsHeld
<1>9. OnlyTab => SavedIsStored(tab, stored)
  BY <1>1, <1>5 DEF SavedIsStored
<1> QED BY <1>3, <1>6, <1>7, <1>8, <1>9, TabMoves

LEMMA RowEdits ==
  ASSUME SettingsInv, NEW t \in Tabs, NEW i \in DOMAIN tabs[t].rows, NEW r, IsRow(r),
         NEW errors, NEW names, Editable(t), Edited(t, [tabs[t].rows EXCEPT ![i] = r], errors, names),
         tabs[t].rows[i].name \in names, r.name \in names
  PROVE  SettingsInv'
<1> DEFINE old == tabs[t].rows
           rows == [old EXCEPT ![i] = r]
<1>1. RowList(old) /\ i \in 1 .. Len(old) BY TabIsSound
<1> HIDE DEF old
<1>2. /\ RowList(rows) /\ Len(rows) = Len(old) /\ rows[i] = r
      /\ \A j \in 1 .. Len(old) : j # i => rows[j] = old[j]
  BY <1>1, ReplaceListed
<1> HIDE DEF rows
<1>3. \A j \in 1 .. Len(rows) : rows[j].name \in names \cup {""} \/ \E k \in 1 .. Len(old) : rows[j] = old[k]
  BY <1>2
<1>4. \A j \in 1 .. Len(old) : old[j].name \notin names => \E k \in 1 .. Len(rows) : rows[k] = old[j]
  BY <1>2 DEF old
<1>5. Edited(t, rows, errors, names) BY DEF rows, old
<1> HIDE DEF Edited
<1> QED
  <2>1. /\ \A j \in 1 .. Len(rows) :
             rows[j].name \in names \cup {""} \/ \E k \in 1 .. Len(tabs[t].rows) : rows[j] = tabs[t].rows[k]
        /\ \A j \in 1 .. Len(tabs[t].rows) :
             tabs[t].rows[j].name \notin names => \E k \in 1 .. Len(rows) : rows[k] = tabs[t].rows[j]
    BY <1>3, <1>4 DEF old
  <2> QED BY <1>2, <1>5, <2>1, EditKeeps

------------------------------------------------------------------------------
(* The edits. *)

LEMMA EditNameKeeps ==
  ASSUME SettingsInv, NEW t \in Tabs, NEW i \in DOMAIN tabs[t].rows, NEW name, EditName(t, i, name)
  PROVE  SettingsInv'
<1> DEFINE old == tabs[t].rows
<1>1. RowList(old) /\ i \in 1 .. Len(old) /\ old = [j \in 1 .. Len(old) |-> old[j]] /\ IsRow(old[i])
  BY TabIsSound DEF RowList
<1>2. PICK s : s = IF old[i].touched THEN old[i].secret ELSE name \in Secretive
  OBVIOUS
<1> DEFINE r == [old[i] EXCEPT !.name = name, !.secret = s]
<1>3. IsRow(r) /\ r.name = name
  <2> HIDE DEF old
  <2> QED BY <1>1 DEF IsRow, RowFields
<1>4. [old EXCEPT ![i].name = name, ![i].secret = IF old[i].touched THEN @ ELSE name \in Secretive]
        = [old EXCEPT ![i] = r]
  <2> HIDE DEF old
  <2>1. [old EXCEPT ![i].name = name] = [old EXCEPT ![i] = [old[i] EXCEPT !.name = name]]
    OBVIOUS
  <2>2. ([old EXCEPT ![i].name = name])[i].secret = old[i].secret
    BY <1>1 DEF IsRow, RowFields
  <2>3. [old EXCEPT ![i].name = name, ![i].secret = IF old[i].touched THEN @ ELSE name \in Secretive]
          = [[old EXCEPT ![i].name = name] EXCEPT ![i].secret = s]
    BY <2>2, <1>2, Zenon
  <2>4. [[old EXCEPT ![i].name = name] EXCEPT ![i].secret = s] = [old EXCEPT ![i] = r]
    BY <1>1 DEF IsRow, RowFields
  <2> QED BY <2>3, <2>4
<1>5. Edited(t, [old EXCEPT ![i] = r], tabs[t].errors \ {i}, {old[i].name, name}) /\ Editable(t)
  BY <1>4 DEF EditName
<1>6. old[i].name \in {old[i].name, name} /\ r.name \in {old[i].name, name}
  BY <1>3
<1> HIDE DEF r, Edited
<1> QED BY <1>3, <1>5, <1>6, RowEdits

LEMMA EditValueKeeps ==
  ASSUME SettingsInv, NEW t \in Tabs, NEW i \in DOMAIN tabs[t].rows, NEW value \in Values,
         EditValue(t, i, value)
  PROVE  SettingsInv'
<1> DEFINE old == tabs[t].rows
           r == [old[i] EXCEPT !.value = value]
<1>1. RowList(old) /\ i \in 1 .. Len(old) /\ old = [j \in 1 .. Len(old) |-> old[j]] /\ IsRow(old[i])
  BY TabIsSound DEF RowList
<1>2. value \in Vals BY DEF Vals
<1>3. IsRow(r) /\ r.name = old[i].name
  <2> HIDE DEF old
  <2> QED BY <1>1, <1>2 DEF IsRow, RowFields
<1>4. Edited(t, [old EXCEPT ![i] = r], tabs[t].errors \ {i}, {old[i].name}) /\ Editable(t)
  BY DEF EditValue
<1> QED BY <1>3, <1>4, RowEdits

LEMMA ToggleSecretKeeps ==
  ASSUME SettingsInv, NEW t \in Tabs, NEW i \in DOMAIN tabs[t].rows, ToggleSecret(t, i)
  PROVE  SettingsInv'
<1> DEFINE old == tabs[t].rows
<1>1. RowList(old) /\ i \in 1 .. Len(old) /\ old = [j \in 1 .. Len(old) |-> old[j]] /\ IsRow(old[i])
  BY TabIsSound DEF RowList
<1>2. PICK s, on : s = ~old[i].secret /\ on = TRUE
  OBVIOUS
<1> DEFINE r == [old[i] EXCEPT !.secret = s, !.touched = on]
<1>3. IsRow(r) /\ r.name = old[i].name
  <2> HIDE DEF old
  <2> QED BY <1>1 DEF IsRow, RowFields
<1>4. [old EXCEPT ![i].secret = ~@, ![i].touched = TRUE] = [old EXCEPT ![i] = r]
  <2> HIDE DEF old
  <2>1. [old EXCEPT ![i].secret = ~@, ![i].touched = TRUE] = [[old EXCEPT ![i].secret = s] EXCEPT ![i].touched = on]
    BY <1>2, Zenon
  <2>2. [[old EXCEPT ![i].secret = s] EXCEPT ![i].touched = on] = [old EXCEPT ![i] = r]
    BY <1>1 DEF IsRow, RowFields
  <2> QED BY <2>1, <2>2
<1>5. Edited(t, [old EXCEPT ![i] = r], tabs[t].errors \ {i}, {old[i].name}) /\ Editable(t)
  BY <1>4 DEF ToggleSecret
<1> QED BY <1>3, <1>5, RowEdits

LEMMA ReplaceKeeps ==
  ASSUME SettingsInv, NEW t \in Tabs, NEW i \in DOMAIN tabs[t].rows, Replace(t, i)
  PROVE  SettingsInv'
<1> DEFINE old == tabs[t].rows
           r == [old[i] EXCEPT !.held = NoHash]
<1>1. RowList(old) /\ i \in 1 .. Len(old) /\ old = [j \in 1 .. Len(old) |-> old[j]] /\ IsRow(old[i])
  BY TabIsSound DEF RowList
<1>2. IsRow(r) /\ r.name = old[i].name
  <2> HIDE DEF old
  <2> QED BY <1>1 DEF IsRow, RowFields
<1>3. Edited(t, [old EXCEPT ![i] = r], tabs[t].errors \ {i}, {old[i].name}) /\ Editable(t)
  BY DEF Replace
<1> QED BY <1>2, <1>3, RowEdits

LEMMA RemoveRowKeeps ==
  ASSUME SettingsInv, NEW t \in Tabs, NEW i \in DOMAIN tabs[t].rows, RemoveRow(t, i)
  PROVE  SettingsInv'
<1> DEFINE old == tabs[t].rows
           rows == RemoveAt(old, i)
<1>1. RowList(old) /\ i \in 1 .. Len(old) BY TabIsSound
<1>2. /\ RowList(rows)
      /\ \A k \in 1 .. Len(rows) : \E j \in 1 .. Len(old) : rows[k] = old[j]
      /\ \A j \in 1 .. Len(old) : j # i => \E k \in 1 .. Len(rows) : rows[k] = old[j]
  <2> HIDE DEF old
  <2> QED BY <1>1, RemoveListed
<1>3. Edited(t, rows, tabs[t].errors, {old[i].name}) /\ Editable(t)
  BY DEF RemoveRow
<1> HIDE DEF rows, Edited
<1>4. \A j \in 1 .. Len(old) : old[j].name \notin {old[i].name} => \E k \in 1 .. Len(rows) : rows[k] = old[j]
  BY <1>2
<1> QED BY <1>2, <1>3, <1>4, EditKeeps

LEMMA BeforeTheLast == \A n \in Nat : \A i \in 1 .. n + 1 : i # n + 1 => i \in 1 .. n
OBVIOUS

LEMMA NotTheLast == \A n \in Nat : \A i \in 1 .. n : i \in 1 .. n + 1
OBVIOUS

\* A row that was not there, of a name the edit counts as touched or of none.
LEMMA RowArrives ==
  ASSUME SettingsInv, NEW t \in Tabs, NEW r, IsRow(r), NEW errors, NEW names, Editable(t),
         Edited(t, Append(tabs[t].rows, r), errors, names), r.name \in names \cup {""}
  PROVE  SettingsInv'
<1> DEFINE old == tabs[t].rows
           rows == Append(old, r)
<1>1. RowList(old) /\ Len(old) \in Nat BY TabIsSound, ListedProps
<1>2. /\ RowList(rows) /\ Len(rows) = Len(old) + 1 /\ rows[Len(old) + 1] = r
      /\ \A i \in 1 .. Len(old) : rows[i] = old[i]
  <2> HIDE DEF old
  <2> QED BY <1>1, AppendListed
<1>3. Edited(t, rows, errors, names) OBVIOUS
<1> HIDE DEF rows, old, Edited
<1>6. PICK n \in Nat : n = Len(old) /\ Len(rows) = n + 1
  BY <1>1, <1>2
<1>4. ASSUME NEW i \in 1 .. Len(rows)
      PROVE  rows[i].name \in names \cup {""} \/ \E j \in 1 .. Len(old) : rows[i] = old[j]
  <2>1. CASE i = Len(old) + 1
    BY <2>1, <1>2
  <2>2. CASE i # Len(old) + 1
    <3>1. i \in 1 .. n /\ n = Len(old) BY <2>2, <1>6, BeforeTheLast, Zenon
    <3> QED BY <3>1, <1>2
  <2> QED BY <2>1, <2>2
<1>5. \A j \in 1 .. Len(old) : old[j].name \notin names => \E i \in 1 .. Len(rows) : rows[i] = old[j]
  <2>1. \A j \in 1 .. n : j \in 1 .. n + 1 /\ rows[j] = old[j]
    BY <1>2, <1>6, NotTheLast, Zenon
  <2> QED BY <2>1, <1>6
<1> QED
  <2>1. /\ \A i \in 1 .. Len(rows) :
             rows[i].name \in names \cup {""} \/ \E j \in 1 .. Len(tabs[t].rows) : rows[i] = tabs[t].rows[j]
        /\ \A j \in 1 .. Len(tabs[t].rows) :
             tabs[t].rows[j].name \notin names => \E i \in 1 .. Len(rows) : rows[i] = tabs[t].rows[j]
    BY <1>4, <1>5 DEF old
  <2> QED BY <1>2, <1>3, <2>1, EditKeeps

LEMMA AddRowKeeps ==
  ASSUME SettingsInv, NEW t \in Tabs, AddRow(t)
  PROVE  SettingsInv'
<1>1. PICK s, touched : s = FALSE /\ touched = FALSE
  OBVIOUS
<1> DEFINE r == [name |-> "", secret |-> s, touched |-> touched, held |-> NoHash, value |-> ""]
<1>2. "" \in Vals BY DEF Vals
<1>3. IsRow(r) /\ r.name = "" BY <1>2, MakesARow
<1>4. Edited(t, Append(tabs[t].rows, r), tabs[t].errors, {}) /\ Editable(t)
  BY <1>1, Zenon DEF AddRow
<1> HIDE DEF r, Edited
<1> QED BY <1>3, <1>4, RowArrives

LEMMA ApplyPasteKeeps ==
  ASSUME SettingsInv, NEW t \in Tabs, NEW name, NEW value \in Values, ApplyPaste(t, name, value)
  PROVE  SettingsInv'
<1> DEFINE old == tabs[t].rows
           same == {i \in DOMAIN old : old[i].name = name}
<1>1. /\ RowList(old) /\ DOMAIN old = 1 .. Len(old) /\ old = [j \in 1 .. Len(old) |-> old[j]]
      /\ \A i \in 1 .. Len(old) : IsRow(old[i])
  BY TabIsSound DEF RowList
<1>2. value \in Vals BY DEF Vals
<1>3. Edited(t, Pasted(old, name, value), {}, {name}) /\ Editable(t)
  BY DEF ApplyPaste
<1> HIDE DEF Edited
<1>4. CASE same = {}
  <2>1. PICK s, touched : s = (name \in Secretive) /\ touched = FALSE
    OBVIOUS
  <2> DEFINE r == [name |-> name, secret |-> s, touched |-> touched, held |-> NoHash, value |-> value]
  <2>2. Pasted(old, name, value) = Append(old, r)
    BY <1>4, <2>1, Zenon DEF Pasted
  <2>3. IsRow(r) /\ r.name = name BY <1>2, MakesARow
  <2> HIDE DEF r
  <2> QED BY <1>3, <2>2, <2>3, RowArrives
<1>5. CASE same # {}
  <2> DEFINE first == CHOOSE m \in same : \A k \in same : m <= k
             r == [old[first] EXCEPT !.held = NoHash, !.value = value]
  <2>1. first \in same
    <3>1. same \subseteq Nat /\ same # {} BY <1>1, <1>5
    <3>2. \E m \in same : \A k \in same : m <= k
      <4> HIDE DEF same
      <4> QED BY <3>1, LeastExists
    <3> HIDE DEF same
    <3> QED BY <3>2
  <2>2. first \in 1 .. Len(old) /\ old[first].name = name BY <1>1, <2>1
  <2>3. Pasted(old, name, value) = [old EXCEPT ![first].held = NoHash, ![first].value = value]
    BY <1>5 DEF Pasted
  <2> HIDE DEF first, old
  <2>4. [old EXCEPT ![first].held = NoHash, ![first].value = value] = [old EXCEPT ![first] = r]
    BY <1>1, <2>2 DEF IsRow, RowFields
  <2>5. IsRow(r) /\ r.name = name
    BY <1>1, <1>2, <2>2 DEF IsRow, RowFields
  <2> HIDE DEF r
  <2>6. Edited(t, [tabs[t].rows EXCEPT ![first] = r], {}, {name}) /\ first \in DOMAIN tabs[t].rows
        /\ tabs[t].rows[first].name = name
    BY <1>1, <1>3, <2>2, <2>3, <2>4 DEF old
  <2> QED BY <1>3, <2>5, <2>6, RowEdits
<1> QED BY <1>4, <1>5

------------------------------------------------------------------------------
(* The dialog and its saves. *)

\* A fingerprint is never what stands for none.
FingerprintsShow == \A v \in Vals : Hash(v) # NoHash

LEMMA SeededTab ==
  ASSUME FingerprintsShow, NEW S, IsFiniteSet(S), \A e \in S : e.value \in Vals, NEW tab, IsTab(tab)
  PROVE  LET new == Seeded(tab, S)
         IN /\ IsTab(new) /\ AloneIsHeld(new, {})
            /\ new.saved = SubmittedRows(RowsFrom(S))
            /\ \A f \in TabFields \ {"rows", "saved"} : new[f] = tab[f]
<1> DEFINE rows == RowsFrom(S)
           saved == SubmittedRows(rows)
           new == Seeded(tab, S)
<1>1. /\ RowList(rows)
      /\ \A i \in 1 .. Len(rows) : \E e \in S : rows[i] = Seen(e)
      /\ \A e \in S : \E i \in 1 .. Len(rows) : rows[i] = Seen(e)
  BY SeededRows
<1>2. new = [tab EXCEPT !.rows = rows, !.saved = saved] BY DEF Seeded
<1> HIDE DEF saved, rows, new
<1>3. /\ new = [f \in TabFields |-> new[f]] /\ new.rows = rows /\ new.saved = saved
      /\ \A f \in TabFields \ {"rows", "saved"} : new[f] = tab[f]
  <2>1. tab = [f \in TabFields |-> tab[f]] BY DEF IsTab
  <2> QED BY ONLY <1>2, <2>1 DEF TabFields
<1>4. \A e \in S : e.secret => Held(Seen(e)) /\ Seen(e).name = e.name
  <2> SUFFICES ASSUME NEW e \in S, e.secret PROVE Held(Seen(e)) /\ Seen(e).name = e.name
    OBVIOUS
  <2>1. /\ Seen(e).name = e.name /\ Seen(e).secret = e.secret
        /\ Seen(e).held = Hash(e.value) /\ Seen(e).value = ""
    BY SeenIsRow, Zenon
  <2>2. Hash(e.value) # NoHash BY DEF FingerprintsShow
  <2> QED BY <2>1, <2>2, Zenon DEF Held
<1>5. ASSUME NEW i \in 1 .. Len(rows), rows[i].secret PROVE Held(rows[i])
  <2>1. PICK e \in S : rows[i] = Seen(e) BY <1>1
  <2>2. Seen(e).secret = e.secret BY SeenIsRow
  <2>3. e.secret BY <1>5, <2>1, <2>2
  <2> QED BY <1>4, <2>1, <2>3
<1>8. ASSUME NEW n \in HiddenIn(saved)
      PROVE  \E i \in 1 .. Len(rows) : rows[i].name = n /\ rows[i].secret
  <2>1. DOMAIN rows = 1 .. Len(rows) BY <1>1, ListedProps
  <2>2. saved = [i \in DOMAIN rows |-> <<rows[i].name, rows[i].secret, rows[i].value>>]
    BY DEF saved, SubmittedRows
  <2>3. \A i \in 1 .. Len(rows) : saved[i][1] = rows[i].name /\ saved[i][2] = rows[i].secret
    BY <2>1, <2>2
  <2>4. DOMAIN saved = 1 .. Len(rows) BY <2>1, <2>2
  <2> QED BY <2>3, <2>4 DEF HiddenIn
<1>6. AloneIsHeld(new, {})
  BY <1>3, <1>5, <1>8 DEF AloneIsHeld, HiddenHasRow
<1>7. IsTab(new) BY <1>1, <1>3 DEF IsTab
<1> QED BY <1>3, <1>6, <1>7 DEF new, saved, rows

LEMMA NoRows == Len(<<>>) = 0 /\ 1 .. 0 = {}
OBVIOUS

LEMMA ClosedTab ==
  IsTab(Closed) /\ ~Closed.open /\ Closed.sending = "no" /\ Closed.rows = <<>> /\ ~Closed.unsure
<1>1. RowList(<<>>)
  <2>1. Len(<<>>) = 0 /\ <<>> = [i \in 1 .. 0 |-> <<>>[i]] /\ 1 .. 0 = {}
    OBVIOUS
  <2> QED BY <2>1 DEF RowList
<1>2. Closed.rows = <<>> /\ Closed.sending = "no" BY DEF Closed
<1>3. Closed = [f \in TabFields |-> Closed[f]] BY DEF Closed, TabFields
<1>4. ~Closed.open /\ ~Closed.unsure BY DEF Closed
<1> QED BY <1>1, <1>2, <1>3, <1>4 DEF IsTab

LEMMA CloseKeeps ==
  ASSUME SettingsInv, NEW t \in Tabs, Close(t)
  PROVE  SettingsInv'
<1>1. /\ IsTab(Closed) /\ RequestIsTheRows(Closed) /\ AloneIsHeld(Closed, {})
      /\ SavedIsStored(Closed, stored)
  <2> QED BY NoRows, ClosedTab DEF RequestIsTheRows, AloneIsHeld, HiddenHasRow, SavedIsStored
<1>2. tabs' = [tabs EXCEPT ![t] = Closed] /\ acted' = [acted EXCEPT ![t] = {}] /\ UNCHANGED stored
  BY DEF Close
<1> QED BY <1>1, <1>2, TabMoves

LEMMA OpenDialogKeeps ==
  ASSUME SettingsInv, FingerprintsShow, NEW t \in Tabs, OpenDialog(t)
  PROVE  SettingsInv'
<1>1. PICK on : on = TRUE
  OBVIOUS
<1> DEFINE blank == [Closed EXCEPT !.open = on]
           tab == Seeded(blank, stored)
<1>2. IsTab(blank) /\ blank.open = on /\ blank.sending = "no" /\ blank.unsure = Closed.unsure
  <2>1. Closed = [f \in TabFields |-> Closed[f]] /\ Closed.sending = "no" /\ RowList(Closed.rows)
    BY ClosedTab DEF IsTab
  <2>2. /\ blank = [f \in TabFields |-> blank[f]] /\ blank.open = on /\ blank.sending = "no"
        /\ blank.unsure = Closed.unsure /\ blank.rows = Closed.rows
    BY ONLY <2>1 DEF TabFields
  <2> QED BY <2>1, <2>2 DEF IsTab
<1>3. tabs' = [tabs EXCEPT ![t] = tab] /\ acted' = [acted EXCEPT ![t] = {}] /\ UNCHANGED stored
  BY <1>1, Zenon DEF OpenDialog
<1> HIDE DEF blank
<1>4. /\ IsTab(tab) /\ AloneIsHeld(tab, {})
      /\ tab.saved = SubmittedRows(RowsFrom(stored))
      /\ \A f \in TabFields \ {"rows", "saved"} : tab[f] = blank[f]
  BY <1>2, SeededTab DEF SettingsInv, StoredIsASet
<1> HIDE DEF tab
<1>5. tab.open = on /\ tab.sending = "no" BY <1>2, <1>4 DEF TabFields
<1>6. RequestIsTheRows(tab) BY <1>1, <1>5 DEF RequestIsTheRows
<1>7. SavedIsStored(tab, stored) BY <1>4, <1>5 DEF SavedIsStored
<1> QED BY <1>3, <1>4, <1>6, <1>7, TabMoves

LEMMA SaveKeeps ==
  ASSUME SettingsInv, NEW t \in Tabs, Save(t)
  PROVE  SettingsInv'
<1> DEFINE old == tabs[t]
           request == [i \in DOMAIN old.rows |-> Entry(old.rows[i])]
           tab == [old EXCEPT !.sending = "sent", !.errors = {}, !.notice = "none", !.request = request]
<1>1. /\ IsTab(old) /\ AloneIsHeld(old, acted[t]) /\ acted = [acted EXCEPT ![t] = acted[t]]
      /\ OnlyTab => SavedIsStored(old, stored)
  BY TabIsSound
<1>2. old.sending = "no" /\ old.open BY DEF Save
<1>3. tabs' = [tabs EXCEPT ![t] = tab] /\ acted' = [acted EXCEPT ![t] = acted[t]] /\ UNCHANGED stored
  BY <1>1 DEF Save
<1> HIDE DEF old, request
<1>4. /\ tab = [f \in TabFields |-> tab[f]] /\ tab.sending = "sent" /\ tab.request = request
      /\ tab.open = old.open /\ tab.rows = old.rows /\ tab.saved = old.saved /\ tab.unsure = old.unsure
  <2>1. old = [f \in TabFields |-> old[f]] BY <1>1 DEF IsTab
  <2> QED BY ONLY <2>1 DEF TabFields
<1> HIDE DEF tab
<1>5. IsTab(tab) /\ AloneIsHeld(tab, acted[t])
  BY <1>1, <1>4 DEF IsTab, AloneIsHeld, HiddenHasRow
<1>6. RequestIsTheRows(tab) BY <1>2, <1>4 DEF RequestIsTheRows, request
<1>7. OnlyTab => SavedIsStored(tab, stored)
  BY <1>1, <1>2, <1>4 DEF SavedIsStored
<1> QED BY <1>3, <1>5, <1>6, <1>7, TabMoves

LEMMA LoseAnswerKeeps ==
  ASSUME SettingsInv, NEW t \in Tabs, LoseAnswer(t)
  PROVE  SettingsInv'
<1>1. PICK w : w = (tabs[t].answer = "applied" \/ tabs[t].unsure)
  OBVIOUS
<1> DEFINE old == tabs[t]
           tab == [old EXCEPT !.sending = "no", !.notice = "error", !.request = <<>>,
                              !.answer = "none", !.env = {}, !.unsure = w]
<1>2. /\ IsTab(old) /\ AloneIsHeld(old, acted[t]) /\ acted = [acted EXCEPT ![t] = acted[t]]
      /\ OnlyTab => SavedIsStored(old, stored)
  BY TabIsSound
<1>3. tabs' = [tabs EXCEPT ![t] = tab] /\ acted' = [acted EXCEPT ![t] = acted[t]] /\ UNCHANGED stored
  <2>1. acted' = acted /\ stored' = stored BY DEF LoseAnswer
  <2>2. tabs' = [tabs EXCEPT ![t].sending = "no", ![t].notice = "error", ![t].request = <<>>,
                             ![t].answer = "none", ![t].env = {},
                             ![t].unsure = (tabs[t].answer = "applied" \/ @)]
    BY DEF LoseAnswer
  <2> QED BY <1>1, <1>2, <2>1, <2>2
<1> HIDE DEF old
<1>4. /\ tab = [f \in TabFields |-> tab[f]] /\ tab.sending = "no" /\ tab.unsure = w
      /\ tab.open = old.open /\ tab.rows = old.rows /\ tab.saved = old.saved
  <2>1. old = [f \in TabFields |-> old[f]] BY <1>2 DEF IsTab
  <2> QED BY ONLY <2>1 DEF TabFields
<1> HIDE DEF tab
<1>5. IsTab(tab) /\ AloneIsHeld(tab, acted[t])
  BY <1>2, <1>4 DEF IsTab, AloneIsHeld, HiddenHasRow
<1>6. RequestIsTheRows(tab) BY <1>4 DEF RequestIsTheRows
<1>7. OnlyTab => SavedIsStored(tab, stored)
  <2>2. ~w => ~old.unsure /\ old.answer # "applied"
    BY <1>1, Zenon DEF old
  <2>3. OnlyTab => SavedIsStored(tab, stored)
    BY <1>2, <1>4, <2>2 DEF SavedIsStored
  <2> QED BY <2>3
<1> QED BY <1>3, <1>5, <1>6, <1>7, TabMoves

\* A refused answer marks rows; any other one brings the rows the server holds.
LEMMA AnswerKeeps ==
  ASSUME SettingsInv, FingerprintsShow, NEW t \in Tabs, AnswerArrives(t)
  PROVE  SettingsInv'
<1> DEFINE old == tabs[t]
           told == [old EXCEPT !.sending = "no", !.notice = old.answer, !.request = <<>>,
                               !.answer = "none", !.env = {}]
<1>1. /\ IsTab(old) /\ RequestIsTheRows(old) /\ AloneIsHeld(old, acted[t])
      /\ acted = [acted EXCEPT ![t] = acted[t]]
      /\ OnlyTab => SavedIsStored(old, stored)
  BY TabIsSound
<1>2. old.sending = "served" /\ UNCHANGED stored BY DEF AnswerArrives
<1>3. CASE old.answer = "refused"
  <2>1. PICK marked : marked = Refused(old.request)
    OBVIOUS
  <2> DEFINE tab == [told EXCEPT !.errors = marked]
  <2>2. tabs' = [tabs EXCEPT ![t] = tab] /\ acted' = [acted EXCEPT ![t] = acted[t]]
    BY <1>1, <1>3, <2>1 DEF AnswerArrives
  <2> HIDE DEF old
  <2>3. /\ tab = [f \in TabFields |-> tab[f]] /\ tab.sending = "no" /\ tab.unsure = old.unsure
        /\ tab.open = old.open /\ tab.rows = old.rows /\ tab.saved = old.saved
    <3>1. old = [f \in TabFields |-> old[f]] BY <1>1 DEF IsTab
    <3>2. /\ told = [f \in TabFields |-> told[f]] /\ told.sending = "no" /\ told.unsure = old.unsure
          /\ told.open = old.open /\ told.rows = old.rows /\ told.saved = old.saved
      BY ONLY <3>1 DEF TabFields
    <3> HIDE DEF told
    <3> QED BY ONLY <3>2 DEF TabFields
  <2> HIDE DEF tab, told
  <2>4. IsTab(tab) /\ AloneIsHeld(tab, acted[t])
    <3>1. IsTab(tab) BY <1>1, <2>3 DEF IsTab
    <3>2. HiddenHasRow(tab, acted[t])
      <4>1. HiddenHasRow(old, acted[t]) BY <1>1 DEF AloneIsHeld
      <4> QED BY ONLY <4>1, <2>3 DEF HiddenHasRow
    <3>3. \A i \in 1 .. Len(tab.rows) :
            tab.rows[i].name \notin acted[t] \cup {""} /\ tab.rows[i].secret => Held(tab.rows[i])
      <4>1. \A i \in 1 .. Len(old.rows) :
              old.rows[i].name \notin acted[t] \cup {""} /\ old.rows[i].secret => Held(old.rows[i])
        BY <1>1 DEF AloneIsHeld
      <4> QED BY ONLY <4>1, <2>3
    <3> QED BY <3>1, <3>2, <3>3 DEF AloneIsHeld
  <2>5. RequestIsTheRows(tab) BY <2>3 DEF RequestIsTheRows
  <2>6. OnlyTab => SavedIsStored(tab, stored)
    BY <1>1, <1>3, <2>3 DEF SavedIsStored
  <2> QED BY <1>2, <2>2, <2>4, <2>5, <2>6, TabMoves
<1>4. CASE old.answer # "refused"
  <2>1. PICK sure : sure = FALSE
    OBVIOUS
  <2> DEFINE env == old.env
             new == Seeded(told, env)
             tab == [new EXCEPT !.unsure = sure]
  <2>2. tabs' = [tabs EXCEPT ![t] = tab] /\ acted' = [acted EXCEPT ![t] = {}]
    BY <1>4, <2>1, Zenon DEF AnswerArrives
  <2>3. IsFiniteSet(env) /\ (\A e \in env : e.value \in Vals) /\ (OnlyTab => env = stored)
    BY <1>1, <1>2, <1>4 DEF RequestIsTheRows, SavedIsStored
  <2> HIDE DEF old, env
  <2>4. IsTab(told) /\ told.sending = "no" /\ told.open = old.open
    <3>1. old = [f \in TabFields |-> old[f]] /\ RowList(old.rows)
      BY <1>1 DEF IsTab
    <3>2. /\ told = [f \in TabFields |-> told[f]] /\ told.sending = "no"
          /\ told.open = old.open /\ told.rows = old.rows
      BY ONLY <3>1 DEF TabFields
    <3> QED BY <3>1, <3>2 DEF IsTab
  <2> HIDE DEF told
  <2>5. /\ IsTab(new) /\ AloneIsHeld(new, {})
        /\ new.saved = SubmittedRows(RowsFrom(env))
        /\ \A f \in TabFields \ {"rows", "saved"} : new[f] = told[f]
    BY <2>3, <2>4, SeededTab
  <2> HIDE DEF new
  <2>6. new.sending = "no" /\ new.open = old.open
    BY <2>4, <2>5 DEF TabFields
  <2>7. /\ tab = [f \in TabFields |-> tab[f]] /\ tab.sending = "no" /\ tab.unsure = sure
        /\ tab.open = old.open /\ tab.rows = new.rows /\ tab.saved = new.saved
    <3>1. new = [f \in TabFields |-> new[f]] BY <2>5 DEF IsTab
    <3> QED BY ONLY <3>1, <2>6 DEF TabFields
  <2> HIDE DEF tab
  <2>8. IsTab(tab) /\ AloneIsHeld(tab, {})
    <3>1. IsTab(tab) BY <2>5, <2>7 DEF IsTab
    <3>2. new.open = old.open BY <2>6
    <3>3. AloneIsHeld(tab, {})
      BY <2>5, <2>7, <3>2 DEF AloneIsHeld, HiddenHasRow
    <3> QED BY <3>1, <3>3
  <2>9. RequestIsTheRows(tab) BY <2>7 DEF RequestIsTheRows
  <2>10. OnlyTab => SavedIsStored(tab, stored)
    BY <2>3, <2>5, <2>7 DEF SavedIsStored
  <2> QED BY <1>2, <2>2, <2>8, <2>9, <2>10, TabMoves
<1> QED BY <1>3, <1>4

\* A list's places are finitely many.
LEMMA UpToIsFinite == \A n \in Nat : IsFiniteSet(1 .. n)
BY FS_Interval

LEMMA TakesItsPlace ==
  \A n \in Nat : \A i, k \in 1 .. n :
    (k < i => k \in 1 .. (i - 1)) /\ (i < k => i \in 1 .. (k - 1)) /\ (~(k < i) /\ ~(i < k) => k = i)
OBVIOUS

LEMMA ReplacingIs ==
  ASSUME NEW rows, RowList(rows), NEW entries, entries = [i \in DOMAIN rows |-> Entry(rows[i])]
  PROVE  Replacing(entries) = {Kept(Entry(rows[i])) : i \in 1 .. Len(rows)}
<1>1. DOMAIN rows = 1 .. Len(rows) BY ListedProps
<1>2. DOMAIN entries = 1 .. Len(rows) /\ \A i \in 1 .. Len(rows) : entries[i] = Entry(rows[i])
  BY <1>1
<1> QED BY <1>2 DEF Replacing, Range

\* What the server keeps of a request it takes, entry by entry.
LEMMA KeptEntries ==
  ASSUME SettingsInv, NEW rows, RowList(rows), NEW entries,
         entries = [i \in DOMAIN rows |-> Entry(rows[i])], Refused(entries) = {}
  PROVE  \A i \in 1 .. Len(rows) :
           /\ rows[i].name \notin Managed \cup {""}
           /\ \A k \in 1 .. Len(rows) : rows[k].name = rows[i].name => k = i
           /\ Kept(Entry(rows[i])).name = rows[i].name
           /\ Held(rows[i]) => Kept(Entry(rows[i])) \in stored /\ Kept(Entry(rows[i])).secret
           /\ ~Held(rows[i]) => /\ Kept(Entry(rows[i])).secret = rows[i].secret
                                /\ Kept(Entry(rows[i])).value = rows[i].value
<1> DEFINE n == Len(rows)
<1>1. DOMAIN rows = 1 .. n /\ n \in Nat BY ListedProps
<1>2. /\ DOMAIN entries = 1 .. n /\ \A i \in 1 .. n : entries[i] = Entry(rows[i])
  BY <1>1
<1> HIDE DEF n
<1>4. \A i \in 1 .. n : Entry(rows[i]).name = rows[i].name /\ (Entry(rows[i]).has <=> ~Held(rows[i]))
  BY DEF Entry
<1>5. ASSUME NEW i \in 1 .. n
      PROVE  /\ rows[i].name # "" /\ rows[i].name \notin Managed
             /\ \A k \in 1 .. (i - 1) : rows[k].name # rows[i].name
             /\ Held(rows[i]) => StoredSecret(rows[i].name) # {}
  <2>1. \A k \in 1 .. (i - 1) : k \in 1 .. n BY <1>1
  <2>2. /\ entries[i].name # "" /\ entries[i].name \notin Managed
        /\ ~ \E k \in 1 .. (i - 1) : entries[k].name = entries[i].name
        /\ ~ (~entries[i].has /\ StoredSecret(entries[i].name) = {})
    BY <1>2 DEF Refused
  <2> QED BY <1>2, <1>4, <2>1, <2>2
<1>6. ASSUME NEW i \in 1 .. n, NEW k \in 1 .. n, rows[k].name = rows[i].name
      PROVE  k = i
  <2>1. ~(k < i) BY <1>1, <1>5, <1>6, TakesItsPlace, Zenon
  <2>2. ~(i < k) BY <1>1, <1>5, <1>6, TakesItsPlace, Zenon
  <2> QED BY <2>1, <2>2, <1>1, TakesItsPlace, Zenon
<1>7. ASSUME NEW i \in 1 .. n
      PROVE  /\ Kept(Entry(rows[i])).name = rows[i].name
             /\ Held(rows[i]) => Kept(Entry(rows[i])) \in stored /\ Kept(Entry(rows[i])).secret
             /\ ~Held(rows[i]) => /\ Kept(Entry(rows[i])).secret = rows[i].secret
                                  /\ Kept(Entry(rows[i])).value = rows[i].value
  <2>1. CASE Held(rows[i])
    <3>1. Kept(Entry(rows[i])) = CHOOSE e \in StoredSecret(rows[i].name) : TRUE
      BY <1>4, <2>1 DEF Kept
    <3>2. Kept(Entry(rows[i])) \in StoredSecret(rows[i].name)
      BY <1>5, <2>1, <3>1
    <3> QED BY <2>1, <3>2 DEF StoredSecret
  <2>2. CASE ~Held(rows[i])
    <3>1. Kept(Entry(rows[i])) = [name |-> rows[i].name, secret |-> rows[i].secret, value |-> rows[i].value]
      BY <2>2 DEF Kept, Entry
    <3> QED BY <2>2, <3>1
  <2> QED BY <2>1, <2>2
<1> QED BY <1>5, <1>6, <1>7 DEF n

\* The request of old is answered, with the set the server had when it was served.
ServedWith(old, tab, answer, env) ==
  /\ tab = [old EXCEPT !.sending = "served", !.answer = answer, !.env = env]
  /\ answer # "refused" => IsFiniteSet(env) /\ \A e \in env : e.value \in Vals

LEMMA ServedTab ==
  ASSUME NEW old, NEW names, NEW tab, NEW answer, NEW env, ServedWith(old, tab, answer, env),
         IsTab(old), AloneIsHeld(old, names), old.open
  PROVE  /\ IsTab(tab) /\ RequestIsTheRows(tab) /\ AloneIsHeld(tab, names)
         /\ tab.open /\ tab.rows = old.rows /\ tab.saved = old.saved /\ tab.unsure = old.unsure
         /\ tab.sending = "served" /\ tab.answer = answer /\ tab.env = env
<1>1. old = [f \in TabFields |-> old[f]] /\ RowList(old.rows)
  BY DEF IsTab
<1>2. tab = [old EXCEPT !.sending = "served", !.answer = answer, !.env = env]
  BY DEF ServedWith
<1>3. /\ tab = [f \in TabFields |-> tab[f]] /\ tab.sending = "served" /\ tab.answer = answer
      /\ tab.open = old.open /\ tab.rows = old.rows /\ tab.saved = old.saved
      /\ tab.unsure = old.unsure /\ tab.env = env
  BY ONLY <1>1, <1>2 DEF TabFields
<1>4. IsTab(tab) /\ AloneIsHeld(tab, names)
  BY <1>1, <1>3 DEF IsTab, AloneIsHeld, HiddenHasRow
<1>5. RequestIsTheRows(tab) BY <1>3 DEF RequestIsTheRows, ServedWith
<1> QED BY <1>3, <1>4, <1>5

LEMMA ServeKeeps ==
  ASSUME SettingsInv, NEW t \in Tabs, Serve(t)
  PROVE  SettingsInv'
<1> DEFINE old == tabs[t]
<1>1. /\ IsTab(old) /\ RequestIsTheRows(old) /\ AloneIsHeld(old, acted[t])
      /\ acted = [acted EXCEPT ![t] = acted[t]]
      /\ OnlyTab => SavedIsStored(old, stored)
  BY TabIsSound
<1>2. old.sending = "sent" /\ old.open /\ acted' = acted
  BY <1>1 DEF Serve, RequestIsTheRows
<1>4. ASSUME NEW answer \in {"refused", "rolled-back"}, NEW env, answer = "rolled-back" => env = stored,
             UNCHANGED stored,
             tabs' = [tabs EXCEPT ![t] = [old EXCEPT !.sending = "served", !.answer = answer, !.env = env]]
      PROVE  SettingsInv'
  <2> DEFINE tab == [old EXCEPT !.sending = "served", !.answer = answer, !.env = env]
  <2>1. answer # "refused" => IsFiniteSet(env) /\ \A e \in env : e.value \in Vals
    BY <1>4 DEF SettingsInv, StoredIsASet
  <2>3. tabs' = [tabs EXCEPT ![t] = tab] /\ ServedWith(old, tab, answer, env)
    BY <1>4, <2>1 DEF ServedWith
  <2> HIDE DEF tab, old
  <2>2. /\ IsTab(tab) /\ RequestIsTheRows(tab) /\ AloneIsHeld(tab, acted[t])
        /\ tab.open /\ tab.rows = old.rows /\ tab.saved = old.saved /\ tab.unsure = old.unsure
        /\ tab.sending = "served" /\ tab.answer = answer /\ tab.env = env
    BY <1>1, <1>2, <2>3, ServedTab
  <2>4. OnlyTab => SavedIsStored(tab, stored)
    BY <1>1, <1>2, <1>4, <2>2 DEF SavedIsStored
  <2>5. acted' = [acted EXCEPT ![t] = acted[t]] BY <1>1, <1>2
  <2> QED BY <1>4, <2>2, <2>3, <2>4, <2>5, TabMoves
<1>5. CASE tabs' = [tabs EXCEPT ![t].sending = "served", ![t].answer = "refused"] /\ UNCHANGED stored
  <2>1. [old EXCEPT !.sending = "served", !.answer = "refused"]
          = [old EXCEPT !.sending = "served", !.answer = "refused", !.env = old.env]
    <3>1. old = [f \in TabFields |-> old[f]] BY <1>1 DEF IsTab
    <3> HIDE DEF old
    <3> QED BY ONLY <3>1 DEF TabFields
  <2>2. tabs' = [tabs EXCEPT ![t] = [old EXCEPT !.sending = "served", !.answer = "refused"]]
    BY <1>5
  <2> HIDE DEF old
  <2> QED BY <1>4, <1>5, <2>1, <2>2
<1>6. CASE /\ UNCHANGED stored
           /\ tabs' = [tabs EXCEPT ![t].sending = "served", ![t].answer = "rolled-back", ![t].env = stored]
  <2>1. tabs' = [tabs EXCEPT ![t] = [old EXCEPT !.sending = "served", !.answer = "rolled-back", !.env = stored]]
    BY <1>6
  <2> HIDE DEF old
  <2> QED BY <1>4, <1>6, <2>1
<1>7. CASE /\ Refused(old.request) = {} /\ stored' = Replacing(old.request)
           /\ tabs' = [tabs EXCEPT ![t].sending = "served", ![t].answer = "applied",
                                   ![t].env = Replacing(old.request)]
  <2> DEFINE rows == old.rows
             K(i) == Kept(Entry(rows[i]))
             tab == [old EXCEPT !.sending = "served", !.answer = "applied", !.env = stored']
  <2>1. RowList(rows) /\ Len(rows) \in Nat /\ old.request = [i \in DOMAIN rows |-> Entry(rows[i])]
    BY <1>1, <1>2, ListedProps DEF IsTab, RequestIsTheRows
  <2>2. \A e : e \in stored' <=> \E i \in 1 .. Len(rows) : e = K(i)
    <3>1. Replacing(old.request) = {Kept(Entry(rows[i])) : i \in 1 .. Len(rows)}
      BY <2>1, ReplacingIs
    <3> QED BY <1>7, <3>1
  <2>3. \A i \in 1 .. Len(rows) :
          /\ rows[i].name \notin Managed \cup {""}
          /\ \A k \in 1 .. Len(rows) : rows[k].name = rows[i].name => k = i
          /\ K(i).name = rows[i].name
          /\ Held(rows[i]) => K(i) \in stored /\ K(i).secret
          /\ ~Held(rows[i]) => K(i).secret = rows[i].secret /\ K(i).value = rows[i].value
    BY <1>7, <2>1, KeptEntries
  <2>4. tabs' = [tabs EXCEPT ![t] = tab] BY <1>7
  <2> HIDE DEF K, rows
  <2>5. \A e \in stored' : e.value \in Vals
    <3> SUFFICES ASSUME NEW i \in 1 .. Len(rows) PROVE K(i).value \in Vals
      BY <2>2
    <3>1. rows[i].value \in Vals BY <2>1 DEF RowList, IsRow
    <3> QED BY <2>3, <3>1 DEF SettingsInv, StoredIsASet
  <2>6. IsFiniteSet(stored')
    <3>1. IsFiniteSet(1 .. Len(rows))
      <4>1. Len(rows) \in Nat BY <2>1
      <4> QED BY <4>1, UpToIsFinite
    <3>2. [i \in 1 .. Len(rows) |-> K(i)] \in Surjection(1 .. Len(rows), stored')
      BY <2>2 DEF Surjection
    <3> QED BY <3>1, <3>2, FS_Surjection
  <2>7. SetIsValid'
    <3> SUFFICES ASSUME NEW e \in stored'
                 PROVE  e.name \notin Managed \cup {""} /\ \A f \in stored' : f.name = e.name => f = e
      BY DEF SetIsValid
    <3>1. PICK i \in 1 .. Len(rows) : e = K(i) BY <2>2
    <3>2. ASSUME NEW f \in stored', f.name = e.name PROVE f = e
      <4>1. PICK k \in 1 .. Len(rows) : f = K(k) BY <2>2
      <4>2. rows[k].name = rows[i].name BY <2>3, <3>1, <3>2, <4>1
      <4> QED BY <2>3, <3>1, <4>1, <4>2
    <3> QED BY <2>3, <3>1, <3>2
  <2>8. StoredIsASet' BY <2>5, <2>6, <2>7 DEF StoredIsASet
  <2>15. ServedWith(old, tab, "applied", stored')
    BY <2>5, <2>6 DEF ServedWith
  <2> HIDE DEF tab, old
  <2>9. /\ IsTab(tab) /\ RequestIsTheRows(tab) /\ AloneIsHeld(tab, acted[t])
        /\ tab.open /\ tab.rows = rows
        /\ tab.sending = "served" /\ tab.answer = "applied" /\ tab.env = stored'
    BY <1>1, <1>2, <2>15, ServedTab DEF rows
  <2>11. SavedIsStored(tab, stored') BY <2>9 DEF SavedIsStored
  <2>12. tabs' = [u \in Tabs |-> IF u = t THEN tab ELSE tabs[u]]
    BY <2>4 DEF SettingsInv, TabsAreSound
  <2>13. TabsAreSound'
    <3>1. ASSUME NEW u \in Tabs
          PROVE  IsTab(tabs'[u]) /\ RequestIsTheRows(tabs'[u]) /\ AloneIsHeld(tabs'[u], acted'[u])
      <4>1. CASE u = t
        BY <4>1, <1>2, <2>9, <2>12
      <4>2. CASE u # t
        <5>1. tabs'[u] = tabs[u] /\ acted'[u] = acted[u] BY <4>2, <1>2, <2>12
        <5> QED BY <5>1 DEF SettingsInv, TabsAreSound
      <4> QED BY <4>1, <4>2
    <3>2. tabs' = [u \in Tabs |-> tabs'[u]] /\ acted' = [u \in Tabs |-> acted'[u]]
      BY <1>2, <2>12 DEF SettingsInv, TabsAreSound
    <3> QED BY <3>1, <3>2 DEF TabsAreSound
  <2>14. OneTabKnows'
    <3> SUFFICES ASSUME OnlyTab, NEW u \in Tabs
                 PROVE  SavedIsStored(tabs'[u], stored')
      BY DEF OneTabKnows, OnlyTab
    <3>1. u = t BY DEF OnlyTab
    <3>2. tabs'[u] = tab /\ acted'[u] = acted[t] BY <3>1, <1>2, <2>12
    <3> QED BY <2>11, <3>2
  <2> QED BY <2>8, <2>13, <2>14 DEF SettingsInv
<1> QED BY <1>5, <1>6, <1>7 DEF Serve

LEMMA SettingsStart ==
  ASSUME SettingsInit, IsFiniteSet(Names)
  PROVE  SettingsInv
<1>1. PICK some \in SUBSET (Names \ (Managed \cup {""})), v \in Values \ {""} :
        stored = {[name |-> n, secret |-> n \in Secretive, value |-> v \o n] : n \in some}
  BY DEF SettingsInit
<1> DEFINE Var(n) == [name |-> n, secret |-> n \in Secretive, value |-> v \o n]
<1>2. stored = {Var(n) : n \in some} /\ \A n \in some : Var(n).name = n /\ Var(n).value = v \o n
  BY <1>1
<1>3. ASSUME NEW n \in some PROVE v \o n \in FirstValues
  <2>1. v \in Values /\ n \in Names OBVIOUS
  <2>2. FirstValue(v, n) \in FirstValues
    <3> DEFINE those == {FirstValue(v, m) : m \in Names}
    <3>1. FirstValue(v, n) \in those BY <2>1
    <3>2. those \in {{FirstValue(w, m) : m \in Names} : w \in Values}
      BY <2>1, Zenon
    <3> HIDE DEF those
    <3> QED BY <3>1, <3>2, Zenon DEF FirstValues
  <2> QED BY <2>2, Zenon DEF FirstValue
<1> HIDE DEF Var
<1>4. StoredIsASet
  <2>1. IsFiniteSet(some) BY FS_Subset
  <2>2. [n \in some |-> Var(n)] \in Surjection(some, stored)
    BY <1>2 DEF Surjection
  <2>3. IsFiniteSet(stored) BY <2>1, <2>2, FS_Surjection
  <2>4. \A e \in stored : e.value \in Vals
    <3> SUFFICES ASSUME NEW n \in some PROVE Var(n).value \in Vals
      BY <1>2
    <3>1. Var(n).value \in FirstValues BY <1>2, <1>3, Zenon
    <3> QED BY <3>1, Zenon DEF Vals
  <2>5. SetIsValid
    <3> SUFFICES ASSUME NEW e \in stored
                 PROVE  e.name \notin Managed \cup {""} /\ \A f \in stored : f.name = e.name => f = e
      BY DEF SetIsValid
    <3>1. PICK n \in some : e = Var(n)
      BY <1>2
    <3>2. ASSUME NEW f \in stored, f.name = e.name PROVE f = e
      <4>1. PICK m \in some : f = Var(m)
        BY <1>2
      <4> QED BY <1>2, <3>1, <3>2, <4>1
    <3> QED BY <1>2, <3>1, <3>2
  <2> QED BY <2>3, <2>4, <2>5 DEF StoredIsASet
<1>5. tabs = [t \in Tabs |-> Closed] /\ acted = [t \in Tabs |-> {}]
  BY DEF SettingsInit
<1>6. /\ IsTab(Closed) /\ RequestIsTheRows(Closed) /\ AloneIsHeld(Closed, {})
      /\ SavedIsStored(Closed, stored)
  <2> QED BY NoRows, ClosedTab DEF RequestIsTheRows, AloneIsHeld, HiddenHasRow, SavedIsStored
<1> QED BY <1>4, <1>5, <1>6 DEF SettingsInv, TabsAreSound, OneTabKnows

LEMMA OneElement ==
  ASSUME NEW S, IsFiniteSet(S), Cardinality(S) = 1
  PROVE  \A x, y \in S : x = y
<1>1. PICK x : S = {x}
  BY FS_Singleton
<1> QED BY <1>1

LEMMA SettingsStep ==
  ASSUME SettingsInv, FingerprintsShow, [SettingsNext]_settingsVars
  PROVE  SettingsInv'
<1>1. CASE UNCHANGED settingsVars
  BY <1>1 DEF settingsVars, SettingsInv, StoredIsASet, SetIsValid, TabsAreSound, OneTabKnows, OnlyTab
<1>2. ASSUME NEW t \in Tabs, \E i \in DOMAIN tabs[t].rows, name \in Names : EditName(t, i, name)
      PROVE  SettingsInv'
  BY <1>2, EditNameKeeps
<1>3. ASSUME NEW t \in Tabs, \E i \in DOMAIN tabs[t].rows, value \in Values : EditValue(t, i, value)
      PROVE  SettingsInv'
  BY <1>3, EditValueKeeps
<1>4. ASSUME NEW t \in Tabs, NEW i \in DOMAIN tabs[t].rows,
             ToggleSecret(t, i) \/ Replace(t, i) \/ RemoveRow(t, i)
      PROVE  SettingsInv'
  BY <1>4, ToggleSecretKeeps, ReplaceKeeps, RemoveRowKeeps
<1>5. ASSUME NEW t \in Tabs, AddRow(t) PROVE SettingsInv'
  BY <1>5, AddRowKeeps
<1>6. ASSUME NEW t \in Tabs, \E name \in Names, value \in Values : ApplyPaste(t, name, value)
      PROVE  SettingsInv'
  BY <1>6, ApplyPasteKeeps
<1>7. ASSUME NEW t \in Tabs, OpenDialog(t) \/ Close(t) PROVE SettingsInv'
  BY <1>7, OpenDialogKeeps, CloseKeeps
<1>8. ASSUME NEW t \in Tabs, Save(t) PROVE SettingsInv'
  BY <1>8, SaveKeeps
<1>9. ASSUME NEW t \in Tabs, Serve(t) PROVE SettingsInv'
  BY <1>9, ServeKeeps
<1>10. ASSUME NEW t \in Tabs, AnswerArrives(t) PROVE SettingsInv'
  BY <1>10, AnswerKeeps
<1>11. ASSUME NEW t \in Tabs, LoseAnswer(t) PROVE SettingsInv'
  BY <1>11, LoseAnswerKeeps
<1> QED BY <1>1, <1>2, <1>3, <1>4, <1>5, <1>6, <1>7, <1>8, <1>9, <1>10, <1>11 DEF SettingsNext

\* Save is off in the only tab only while its rows show what the server holds, and the set the
\* server holds names each variable once and none of those MOS sets, however edits, pastes,
\* saves, refusals, roll-backs and lost answers follow each other (AppConfigDialog.tsx unsaved,
\* app-package-service.cjs validateOwnerEnvSubmission).
THEOREM SettingsStaySound ==
  ASSUME FingerprintsShow, IsFiniteSet(Names), IsFiniteSet(Tabs)
  PROVE  SettingsSpec => []SettingsAreSound
<1>1. SettingsInv => SettingsAreSound
  <2> SUFFICES ASSUME SettingsInv PROVE OffMeansStored /\ SetIsValid
    BY DEF SettingsAreSound
  <2>1. SetIsValid BY DEF SettingsInv, StoredIsASet
  <2>2. ASSUME NEW t \in Tabs, tabs[t].open, tabs[t].sending = "no", ~Unsaved(tabs[t]),
               Cardinality(Tabs) = 1, ~tabs[t].unsure
        PROVE  Shown(RowsFrom(stored)) = Shown(tabs[t].rows)
    <3>1. OnlyTab BY <2>2, OneElement DEF OnlyTab
    <3>2. SavedIsStored(tabs[t], stored) BY <3>1, TabIsSound
    <3>3. SubmittedRows(tabs[t].rows) = SubmittedRows(RowsFrom(stored))
      BY <2>2, <3>2 DEF SavedIsStored, Unsaved
    <3> QED BY <3>3, SameSubmittedSameShown
  <2>3. OffMeansStored BY <2>2 DEF OffMeansStored
  <2> QED BY <2>1, <2>3
<1>2. SettingsInit => SettingsInv BY SettingsStart
<1>3. SettingsInv /\ [SettingsNext]_settingsVars => SettingsInv'
  BY SettingsStep
<1> QED BY <1>1, <1>2, <1>3, PTL DEF SettingsSpec

\* A save never drops or replaces a hidden value its dialog showed and whose name the owner let
\* alone there, however many tabs are open and save one after another
\* (AppConfigDialog.tsx save, app-package-service.cjs savePackageEnvironment).
THEOREM HiddenValuesStay ==
  ASSUME FingerprintsShow, IsFiniteSet(Names)
  PROVE  SettingsSpec => SecretsAreKept
<1>1. SettingsInv /\ [SettingsNext]_settingsVars => KeepsSecrets
  <2> SUFFICES ASSUME SettingsInv, [SettingsNext]_settingsVars, NEW e \in stored, e \notin stored', e.secret
               PROVE  \E t \in Tabs : /\ tabs[t].sending = "sent" /\ tabs'[t].sending = "served"
                                      /\ e.name \in HiddenIn(tabs[t].saved) => e.name \in acted[t]
    BY DEF KeepsSecrets
  <2>1. PICK t \in Tabs : Serve(t)
    <3>1. stored' # stored OBVIOUS
    <3>2. ~ UNCHANGED settingsVars BY <3>1 DEF settingsVars
    <3>3. PICK t \in Tabs :
            \/ OpenDialog(t) \/ AddRow(t) \/ Save(t) \/ Serve(t) \/ AnswerArrives(t) \/ LoseAnswer(t) \/ Close(t)
            \/ \E i, name : EditName(t, i, name) \/ EditValue(t, i, name)
            \/ \E i : ToggleSecret(t, i) \/ Replace(t, i) \/ RemoveRow(t, i)
            \/ \E name, value : ApplyPaste(t, name, value)
      BY <3>2 DEF SettingsNext
    <3>4. /\ \A i, name : ~EditName(t, i, name) /\ ~EditValue(t, i, name)
          /\ \A i : ~ToggleSecret(t, i) /\ ~Replace(t, i) /\ ~RemoveRow(t, i)
          /\ \A name, value : ~ApplyPaste(t, name, value)
          /\ ~AddRow(t)
      BY <3>1 DEF EditName, EditValue, ToggleSecret, Replace, RemoveRow, AddRow, ApplyPaste, Edited
    <3>5. ~OpenDialog(t) /\ ~Save(t) /\ ~AnswerArrives(t) /\ ~LoseAnswer(t) /\ ~Close(t)
      BY <3>1 DEF OpenDialog, Save, AnswerArrives, LoseAnswer, Close
    <3> QED BY <3>3, <3>4, <3>5
  <2> DEFINE rows == tabs[t].rows
             request == tabs[t].request
  <2>2. tabs[t].sending = "sent" /\ tabs'[t].sending = "served"
    <3>1. tabs[t].sending = "sent" BY <2>1 DEF Serve
    <3>2. tabs = [u \in Tabs |-> tabs[u]] /\ tabs[t] = [f \in TabFields |-> tabs[t][f]]
      BY TabIsSound DEF SettingsInv, TabsAreSound, IsTab
    <3>3. tabs'[t].sending = "served" BY <2>1, <3>2 DEF Serve, TabFields
    <3> QED BY <3>1, <3>3
  <2>3. Refused(request) = {} /\ stored' = Replacing(request)
    BY <2>1 DEF Serve
  <2>4. /\ RowList(rows) /\ request = [i \in DOMAIN rows |-> Entry(rows[i])] /\ tabs[t].open
    BY <2>2, TabIsSound DEF RequestIsTheRows
  <2> SUFFICES ASSUME e.name \in HiddenIn(tabs[t].saved), e.name \notin acted[t] PROVE FALSE
    BY <2>2
  <2>6. PICK i \in 1 .. Len(rows) : rows[i].name = e.name /\ Held(rows[i])
    BY <2>4, TabIsSound DEF AloneIsHeld, HiddenHasRow
  <2>7. /\ Kept(Entry(rows[i])) \in stored /\ Kept(Entry(rows[i])).name = e.name
    <3> HIDE DEF rows, request
    <3> QED BY <2>3, <2>4, <2>6, KeptEntries
  <2>8. Kept(Entry(rows[i])) = e
    BY <2>7 DEF SettingsInv, StoredIsASet, SetIsValid
  <2>9. Replacing(request) = {Kept(Entry(rows[k])) : k \in 1 .. Len(rows)}
    <3> HIDE DEF rows, request
    <3> QED BY <2>4, ReplacingIs
  <2> QED BY <2>3, <2>8, <2>9
<1>2. SettingsInit => SettingsInv BY SettingsStart
<1>3. SettingsInv /\ [SettingsNext]_settingsVars => SettingsInv'
  BY SettingsStep
<1>4. SettingsInv /\ [SettingsNext]_settingsVars => [KeepsSecrets]_settingsVars
  BY <1>1
<1> QED BY <1>2, <1>3, <1>4, PTL DEF SettingsSpec, SecretsAreKept
=============================================================================
