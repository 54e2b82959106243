----------------------------- MODULE AppUpdates -----------------------------
(***************************************************************************)
(* One installed app, from the two sides that change it: Suite Manager's   *)
(* update saga and lifecycle handlers, which decide the order of steps and *)
(* keep the durable record, and the root app agent, which swaps            *)
(* containers, routes and snapshot directories.  The two are separate      *)
(* processes: either dies alone, and a handler of the agent runs on when   *)
(* the request that started it is gone.                                    *)
(***************************************************************************)
EXTENDS Naturals

CONSTANTS
  Versions,         \* package versions, each its own digest (positive numbers)
  MaxUpdates,       \* bound: update operations begun
  MaxSmCrashes,     \* bound: Suite Manager crashes
  MaxAgentCrashes,  \* bound: agent crashes
  MaxHangUps,       \* bound: agent calls Suite Manager stops waiting for
  MaxFreeApplies,   \* bound: applies made without the app's key
  MaxLifecycle,     \* bound: disable, enable, restart and uninstall requests
  MaxEvents         \* bound: all of these together

NoPackage == 0      \* an absent directory, container or route

ASSUME VersionsAssumption == Versions \subseteq Nat \ {0} /\ Versions # {}

VARIABLES
  row,        \* the app's row in Suite Manager's database
  op,         \* its latest update operation, durable too
  secretFile, \* the file of the secret an update collected
  disk,       \* the instance's package directories
  docker,     \* the version whose containers run, the version routed to
  calls,      \* the agent's handlers in flight, by the request that made them
  agent,      \* "up", "down" or "sweeping"
  sm,         \* "up", "down" or "recovering"
  saga,       \* the handler that holds the app's operation key
  free,       \* a handler that applies the runtime without the key
  overlapped, \* history: two agent handlers, or a lost one and Suite Manager,
              \* have worked on the app at once
  spent       \* how much of each bound is used

durable == <<row, op, secretFile>>
host    == <<disk, docker>>
vars    == <<row, op, secretFile, disk, docker, calls, agent, sm, saga, free,
             overlapped, spent>>

Packages == Versions \cup {NoPackage}
Pending  == {"rollback-required", "commit-required"}
Callers  == {"keyed", "free", "lost"}
NoCall   == [kind |-> "none", pc |-> "idle", cand |-> NoPackage,
             inst |-> NoPackage, answer |-> "none"]
NoCalls  == [s \in Callers |-> NoCall]
NoSaga   == [kind |-> "none", cand |-> NoPackage, activated |-> FALSE,
             promoted |-> FALSE, stage |-> "none"]

TypeOK ==
  /\ row \in [status : {"installed", "disabled", "absent"}, digest : Packages,
              recovery : Pending \cup {"none", "retry-safe"}, held : BOOLEAN]
  /\ op \in [status : {"none", "running", "failed", "succeeded"},
             stage : {"none", "candidate-verified", "candidate-staged",
                      "candidate-built", "candidate-healthy", "snapshot-promoted"},
             cand : Packages, added : BOOLEAN]
  /\ secretFile \in BOOLEAN
  /\ disk \in [{"installed", "candidate", "displaced", "previous"} -> Packages]
  /\ docker \in [run : Packages, route : Packages]
  /\ agent \in {"up", "down", "sweeping"}
  /\ sm \in {"up", "down", "recovering"}
  /\ \A s \in Callers : calls[s].cand \in Packages /\ calls[s].inst \in Packages
  /\ saga.cand \in Packages
  /\ overlapped \in BOOLEAN

Init ==
  \E v \in Versions :
    /\ row = [status |-> "installed", digest |-> v, recovery |-> "none", held |-> FALSE]
    /\ op = [status |-> "none", stage |-> "none", cand |-> NoPackage, added |-> FALSE]
    /\ secretFile = FALSE
    /\ disk = [installed |-> v, candidate |-> NoPackage, displaced |-> NoPackage,
               previous |-> NoPackage]
    /\ docker = [run |-> v, route |-> v]
    /\ calls = NoCalls
    /\ agent = "up" /\ sm = "up" /\ saga = NoSaga /\ free = "idle"
    /\ overlapped = FALSE
    /\ spent = [update |-> 0, smCrash |-> 0, agentCrash |-> 0, hangUp |-> 0,
                free |-> 0, life |-> 0]

Spend(bound) ==
  /\ spent.update + spent.smCrash + spent.agentCrash + spent.hangUp + spent.free + spent.life
       < MaxEvents
  /\ spent' = [spent EXCEPT ![bound] = @ + 1]

(***************************************************************************)
(* The transactions of the store.                                          *)
(***************************************************************************)
BeginAppUpdate(cand, added) ==
  /\ op' = [status |-> "running", stage |-> "candidate-verified", cand |-> cand,
            added |-> added]
  /\ row' = [row EXCEPT !.recovery = "none"]

AdvanceAppUpdate(stage) == op' = [op EXCEPT !.stage = stage] /\ UNCHANGED row

FailAppUpdate(recovery) ==
  op' = [op EXCEPT !.status = "failed"] /\ row' = [row EXCEPT !.recovery = recovery]

InterruptedAppUpdatesStaged == \* mutant: an update that staged nothing is not seen
  op.status = "running" /\ row.status # "absent" /\ op.stage # "candidate-verified"

InterruptedAppUpdates == op.status = "running" /\ row.status # "absent"

CompleteAppUpdate(digest) ==
  /\ row' = [row EXCEPT !.digest = digest, !.recovery = "none", !.held = @ \/ op.added]
  /\ op' = [op EXCEPT !.status = "succeeded"]

ClearAppUpdateRecovery == row' = [row EXCEPT !.recovery = "none"]
MarkAppDisabled == row' = [row EXCEPT !.status = "disabled"] /\ UNCHANGED op
MarkAppEnabledAsRunning == \* mutant: a status no check of the service knows
  row' = [row EXCEPT !.status = "running"] /\ UNCHANGED op
MarkAppEnabled == row' = [row EXCEPT !.status = "installed"] /\ UNCHANGED op

\* The operations of the instance go with it, by a cascading foreign key.
DeleteAppInstance ==
  /\ row' = [status |-> "absent", digest |-> NoPackage, recovery |-> "none", held |-> FALSE]
  /\ op' = [status |-> "none", stage |-> "none", cand |-> NoPackage, added |-> FALSE]

(***************************************************************************)
(* Calls to the agent.                                                     *)
(***************************************************************************)
FirstStep == [stage |-> "verify", build |-> "verify", activate |-> "verify",
              promote |-> "repair", rollback |-> "repair", apply |-> "verify",
              stop |-> "stop", remove |-> "stop"]

InFlight(s) == calls[s].pc \notin {"idle", "answered"}

\* A request the agent takes, or one that finds nobody on the socket.
Request(kind, cand, inst) ==
  [kind |-> kind, cand |-> cand, inst |-> inst,
   pc |-> IF agent = "up" THEN FirstStep[kind] ELSE "answered",
   answer |-> IF agent = "up" THEN "none" ELSE "unavailable"]

Call(s, kind, cand, inst) ==
  /\ calls' = [calls EXCEPT ![s] = Request(kind, cand, inst)]
  /\ overlapped' = (overlapped \/ \E t \in Callers \ {s} : InFlight(t))

Answered(s, kind, answers) ==
  calls[s].kind = kind /\ calls[s].pc = "answered" /\ calls[s].answer \in answers

Refusals == {"changed", "error", "activation-failed", "rollback-failed",
             "unavailable", "timeout"}

(***************************************************************************)
(* The agent's handlers, one file-system or docker command at a time.      *)
(***************************************************************************)
At(s, kinds, pc) == agent = "up" /\ calls[s].kind \in kinds /\ calls[s].pc = pc
Goto(s, pc) == calls' = [calls EXCEPT ![s].pc = pc]
Answer(s, a) ==
  calls' = [calls EXCEPT ![s] = IF s = "lost" THEN NoCall
                                ELSE [@ EXCEPT !.pc = "answered", !.answer = a]]

OnAgent == UNCHANGED <<durable, agent, sm, saga, free, overlapped, spent>>

VerifiedPair(c) == disk.installed = c.inst /\ disk.candidate = c.cand

Stage(s) ==
  /\ OnAgent /\ UNCHANGED docker
  /\ \/ /\ At(s, {"stage"}, "verify") /\ disk.installed = calls[s].inst
        /\ disk' = [disk EXCEPT !.candidate = NoPackage] /\ Goto(s, "copy")
     \/ /\ At(s, {"stage"}, "verify") /\ disk.installed # calls[s].inst
        /\ Answer(s, "changed") /\ UNCHANGED disk
     \/ /\ At(s, {"stage"}, "copy")
        /\ disk' = [disk EXCEPT !.candidate = calls[s].cand] /\ Answer(s, "ok")
     \/ /\ At(s, {"stage"}, "copy") /\ Answer(s, "error") /\ UNCHANGED disk

Build(s) ==
  /\ OnAgent /\ UNCHANGED host /\ At(s, {"build"}, "verify")
  /\ \E a \in (IF VerifiedPair(calls[s]) THEN {"ok", "error"} ELSE {"changed"}) : Answer(s, a)

\* What a runtime swap checks before it touches a container.
VerifyRuntime(s) ==
  /\ OnAgent /\ UNCHANGED host /\ At(s, {"activate", "rollback", "apply"}, "verify")
  /\ IF \/ calls[s].kind = "apply" /\ disk.installed = calls[s].inst
        \/ calls[s].kind # "apply" /\ VerifiedPair(calls[s])
     THEN Goto(s, "stop")
     ELSE Answer(s, [activate |-> "changed", apply |-> "error",
                     rollback |-> "rollback-failed"][calls[s].kind])

\* Failing once the old containers are gone: an activation restarts the
\* installed version, everything else only reports.
FailRuntime(s) ==
  IF calls[s].kind = "activate"
  THEN calls' = [calls EXCEPT ![s].kind = "restore", ![s].pc = "stop"]
  ELSE Answer(s, IF calls[s].kind = "apply" THEN "error" ELSE "rollback-failed")

Runtimes == {"activate", "restore", "rollback", "apply"}
Target(c) == IF c.kind = "activate" THEN c.cand ELSE c.inst

StopContainers(s) ==
  /\ OnAgent /\ UNCHANGED disk /\ At(s, Runtimes \cup {"stop", "remove"}, "stop")
  /\ docker' = [docker EXCEPT !.run = NoPackage]
  /\ CASE calls[s].kind = "stop" -> Answer(s, "ok")
       [] calls[s].kind = "remove" -> Goto(s, "discard")
       [] OTHER -> Goto(s, "start")

\* docker run refuses a name another handler has taken meanwhile.
StartContainers(s) ==
  /\ OnAgent /\ UNCHANGED disk /\ At(s, Runtimes, "start")
  /\ \/ /\ docker.run = NoPackage
        /\ docker' = [docker EXCEPT !.run = Target(calls[s])] /\ Goto(s, "health")
     \/ FailRuntime(s) /\ UNCHANGED docker

\* The health wait asks the loopback port, whoever answers on it; the route
\* follows, and a failed reload puts the previous routes back.
AwaitHealth(s) ==
  /\ OnAgent /\ UNCHANGED disk /\ At(s, Runtimes, "health")
  /\ \/ /\ docker.run # NoPackage
        /\ IF calls[s].kind = "restore"
           THEN Answer(s, "activation-failed") /\ UNCHANGED docker
           ELSE Answer(s, "ok") /\ docker' = [docker EXCEPT !.route = Target(calls[s])]
     \/ FailRuntime(s) /\ UNCHANGED docker

\* One rename of the repair of a promotion a crash cut in two.
Repaired(d) ==
  IF d.displaced = NoPackage \/ (d.installed # NoPackage /\ d.candidate # NoPackage) THEN d
  ELSE IF d.installed # NoPackage
       THEN [d EXCEPT !.candidate = d.installed, !.installed = NoPackage]
       ELSE [d EXCEPT !.installed = d.displaced, !.displaced = NoPackage]

Repair(s) ==
  /\ OnAgent /\ UNCHANGED docker /\ At(s, {"promote", "rollback"}, "repair")
  /\ disk' = Repaired(disk)
  /\ IF disk' = disk THEN Goto(s, "verify") ELSE UNCHANGED calls

Missing(pc) == IF pc = "displace" THEN disk.installed ELSE disk.displaced

Promote(s) ==
  /\ OnAgent /\ UNCHANGED docker
  /\ \/ /\ At(s, {"promote"}, "verify") /\ UNCHANGED disk
        /\ IF VerifiedPair(calls[s]) THEN Goto(s, "displace") ELSE Answer(s, "changed")
     \/ /\ At(s, {"promote"}, "displace")
        /\ disk.installed # NoPackage
        /\ disk' = [disk EXCEPT !.displaced = disk.installed, !.installed = NoPackage]
        /\ Goto(s, "install")
     \/ /\ At(s, {"promote"}, "install") /\ disk.candidate # NoPackage
        /\ disk' = [disk EXCEPT !.installed = disk.candidate, !.candidate = NoPackage]
        /\ Goto(s, "forget")
     \/ /\ At(s, {"promote"}, "install")
        /\ disk' = [disk EXCEPT !.installed = disk.displaced, !.displaced = NoPackage]
        /\ Answer(s, "error")
     \/ /\ At(s, {"promote"}, "forget")
        /\ disk' = [disk EXCEPT !.previous = NoPackage] /\ Goto(s, "retain")
     \/ /\ At(s, {"promote"}, "retain")
        /\ \E kept \in {disk.displaced, NoPackage} :
             disk' = [disk EXCEPT !.previous = kept, !.displaced = NoPackage]
        /\ Answer(s, "ok")
     \/ /\ At(s, {"promote"}, "displace") \/ At(s, {"promote"}, "retain")
        /\ Missing(calls[s].pc) = NoPackage \* another handler renamed it first
        /\ Answer(s, "error") /\ UNCHANGED disk

\* An uninstall: a volume docker will not remove fails it half way, before the
\* route and the snapshot go.
Discard(s) ==
  /\ OnAgent /\ At(s, {"remove"}, "discard")
  /\ \/ /\ docker' = [docker EXCEPT !.route = NoPackage]
        /\ disk' = [d \in DOMAIN disk |-> NoPackage] /\ Answer(s, "ok")
     \/ Answer(s, "error") /\ UNCHANGED host

\* The handlers, each the steps above in its own order.
RuntimeStep(s) ==
  VerifyRuntime(s) \/ StopContainers(s) \/ StartContainers(s) \/ AwaitHealth(s)
Activate(s) == calls[s].kind \in {"activate", "restore"} /\ RuntimeStep(s)
Rollback(s) == calls[s].kind = "rollback" /\ (Repair(s) \/ RuntimeStep(s))
Apply(s)    == calls[s].kind = "apply" /\ RuntimeStep(s)
PromoteSnapshot(s) == calls[s].kind = "promote" /\ (Repair(s) \/ Promote(s))
StopApp(s)  == calls[s].kind = "stop" /\ StopContainers(s)
RemoveApp(s) == calls[s].kind = "remove" /\ (StopContainers(s) \/ Discard(s))

AgentStep(s) ==
  \/ Stage(s) \/ Build(s) \/ Activate(s) \/ PromoteSnapshot(s) \/ Rollback(s)
  \/ Apply(s) \/ StopApp(s) \/ RemoveApp(s)

\* The agent dies with its handlers; the containers stay up.  It repairs a
\* promotion cut in two before it listens again.
AgentCrash ==
  /\ agent # "down" /\ spent.agentCrash < MaxAgentCrashes /\ Spend("agentCrash")
  /\ agent' = "down"
  /\ calls' = [s \in Callers |->
       IF ~InFlight(s) THEN calls[s]
       ELSE IF s = "lost" THEN NoCall
       ELSE [calls[s] EXCEPT !.pc = "answered", !.answer = "unavailable"]]
  /\ UNCHANGED <<durable, host, sm, saga, free, overlapped>>

AgentStart ==
  /\ agent = "down" /\ agent' = "sweeping"
  /\ UNCHANGED <<durable, host, calls, sm, saga, free, overlapped, spent>>

SweepInterruptedPromotions ==
  /\ agent = "sweeping"
  /\ disk' = Repaired(disk)
  /\ agent' = IF disk' = disk THEN "up" ELSE "sweeping"
  /\ UNCHANGED <<durable, docker, calls, sm, saga, free, overlapped, spent>>

(***************************************************************************)
(* The update saga, held under the app's operation key throughout.         *)
(***************************************************************************)
OnSm == sm = "up" /\ UNCHANGED <<host, agent, sm>>
Free(s) == [calls EXCEPT ![s] = NoCall]
Idle == sm = "up" /\ saga = NoSaga

BeginUpdate ==
  /\ Idle /\ OnSm /\ agent = "up" /\ spent.update < MaxUpdates /\ Spend("update")
  /\ row.status = "installed" /\ row.recovery \notin Pending
  /\ disk.installed = row.digest
  /\ \E v \in Versions \ {row.digest} :
       saga' = [NoSaga EXCEPT !.kind = "update", !.cand = v]
  /\ UNCHANGED <<durable, calls, free, overlapped>>

\* The collected secret reaches its file before the operation's record.
RecordUpdate ==
  /\ OnSm /\ saga.kind = "update" /\ saga.stage = "none" /\ op.status # "running"
  /\ secretFile' = (secretFile \/ ~row.held)
  /\ BeginAppUpdate(saga.cand, ~row.held)
  /\ saga' = [saga EXCEPT !.stage = "recorded"]
  /\ Call("keyed", "stage", saga.cand, row.digest)
  /\ UNCHANGED <<free, spent>>

Following == [stage |-> [stage |-> "candidate-staged", next |-> "build"],
              build |-> [stage |-> "candidate-built", next |-> "activate"],
              activate |-> [stage |-> "candidate-healthy", next |-> "promote"]]

AdvanceUpdate ==
  /\ OnSm /\ saga.kind = "update"
  /\ \E k \in DOMAIN Following :
       /\ Answered("keyed", k, {"ok"})
       /\ AdvanceAppUpdate(Following[k].stage)
       /\ saga' = [saga EXCEPT !.activated = (k = "activate")]
       /\ Call("keyed", Following[k].next, saga.cand, row.digest)
  /\ UNCHANGED <<secretFile, free, spent>>

RecordPromotion ==
  /\ OnSm /\ saga.kind = "update" /\ Answered("keyed", "promote", {"ok"})
  /\ AdvanceAppUpdate("snapshot-promoted")
  /\ saga' = [saga EXCEPT !.promoted = TRUE]
  /\ calls' = Free("keyed")
  /\ UNCHANGED <<secretFile, free, overlapped, spent>>

CommitUpdate ==
  /\ OnSm /\ saga.promoted
  /\ CompleteAppUpdate(saga.cand) /\ saga' = NoSaga
  /\ UNCHANGED <<secretFile, calls, free, overlapped, spent>>

FailedUpdateForgetful(recovery) == \* mutant: discards what it collected, always
  /\ FailAppUpdate(recovery) /\ secretFile' = (secretFile /\ ~op.added)
  /\ saga' = NoSaga /\ calls' = Free("keyed") /\ UNCHANGED overlapped

\* The end of a failed saga: the collected secrets go only when nothing can
\* need them.
FailedUpdate(recovery) ==
  /\ FailAppUpdate(recovery)
  /\ secretFile' = (secretFile /\ ~(recovery = "none" /\ op.added))
  /\ saga' = NoSaga /\ calls' = Free("keyed") /\ UNCHANGED overlapped

\* The database refuses the commit of a promoted candidate.
CommitFails ==
  /\ OnSm /\ saga.promoted /\ FailedUpdate("commit-required")
  /\ UNCHANGED <<free, spent>>

RefuseUpdate ==
  /\ OnSm /\ saga.kind = "update"
  /\ \E k \in {"stage", "build", "activate", "restore"} : Answered("keyed", k, Refusals)
  /\ FailedUpdate(IF calls["keyed"].answer = "rollback-failed" THEN "rollback-required"
                  ELSE "none")
  /\ UNCHANGED <<free, spent>>

RollBackUpdate ==
  /\ OnSm /\ saga.activated /\ Answered("keyed", "promote", Refusals)
  /\ Call("keyed", "rollback", saga.cand, row.digest)
  /\ UNCHANGED <<durable, saga, free, spent>>

UpdateRolledBack ==
  /\ OnSm /\ saga.kind = "update"
  /\ \/ Answered("keyed", "rollback", {"ok"}) /\ FailedUpdate("none")
     \/ Answered("keyed", "rollback", Refusals) /\ FailedUpdate("rollback-required")
  /\ UNCHANGED <<free, spent>>

(***************************************************************************)
(* Recovery: by the owner, and unattended when Suite Manager starts.       *)
(***************************************************************************)
Promoted == op.status = "failed" /\ disk.installed = op.cand

\* commitPromotedPackageUpdate: bookkeeping only, re-proved against the disk.
CommitPromoted ==
  /\ CompleteAppUpdate(disk.installed)
  /\ overlapped' = (overlapped \/ InFlight("lost"))

RecoverByCommit ==
  /\ Idle /\ OnSm /\ row.recovery \in Pending /\ Promoted /\ CommitPromoted
  /\ UNCHANGED <<secretFile, calls, saga, free, spent>>

RecoverByRollback ==
  /\ Idle /\ OnSm /\ row.recovery \in Pending /\ op.status = "failed" /\ ~Promoted
  /\ disk.installed = row.digest
  /\ saga' = [NoSaga EXCEPT !.kind = "recover"]
  /\ Call("keyed", "rollback", op.cand, row.digest)
  /\ UNCHANGED <<durable, free, spent>>

Recovered ==
  /\ OnSm /\ saga.kind = "recover" /\ saga' = NoSaga /\ calls' = Free("keyed")
  /\ \/ /\ Answered("keyed", "rollback", {"ok"})
        /\ ClearAppUpdateRecovery
        /\ secretFile' = (secretFile /\ ~(op.added /\ ~row.held))
     \/ Answered("keyed", "rollback", Refusals) /\ UNCHANGED <<row, secretFile>>
  /\ UNCHANGED <<op, free, overlapped, spent>>

\* What an interrupted update left, from the last stage on record (and three
\* ways to get it wrong).
RecoveryStateForPromotedOnly(stage) ==
  IF stage = "snapshot-promoted" THEN "commit-required" ELSE "retry-safe"
RecoveryStateForAnyStage(stage) ==
  IF stage = "snapshot-promoted" THEN "commit-required" ELSE "rollback-required"
RecoveryStateFor(stage) ==
  CASE stage = "snapshot-promoted" -> "commit-required"
    [] stage \in {"candidate-built", "candidate-healthy"} -> "rollback-required"
    [] OTHER -> "retry-safe"

\* Suite Manager dies: its handlers are gone, the agent's runs on unheard.
\* At most one handler is left running (a bound of the model).
SmCrash ==
  /\ sm # "down" /\ spent.smCrash < MaxSmCrashes /\ Spend("smCrash")
  /\ sm' = "down" /\ saga' = NoSaga /\ free' = "idle"
  /\ \E s \in {"keyed", "free"} :
       /\ \A t \in Callers \ {s} : ~InFlight(t) \/ (t = "lost" /\ ~InFlight(s))
       /\ calls' = [NoCalls EXCEPT !["lost"] = IF InFlight(s) THEN calls[s] ELSE calls["lost"]]
  /\ UNCHANGED <<durable, host, agent, overlapped>>

FailInterruptedUpdate ==
  /\ sm = "down" /\ sm' = "recovering"
  /\ IF InterruptedAppUpdates THEN FailAppUpdate(RecoveryStateFor(op.stage))
     ELSE UNCHANGED <<op, row>>
  /\ UNCHANGED <<secretFile, host, calls, agent, saga, free, overlapped, spent>>

RecoverInterruptedUpdate ==
  /\ sm = "recovering" /\ sm' = "up"
  /\ IF row.recovery \in Pending /\ Promoted
     THEN CommitPromoted
     ELSE UNCHANGED <<row, op, overlapped>>
  /\ UNCHANGED <<secretFile, host, calls, agent, saga, free, spent>>

(***************************************************************************)
(* The other handlers that hold the key, and the applies that do not.      *)
(***************************************************************************)
BeginLifecycle ==
  /\ Idle /\ OnSm /\ spent.life < MaxLifecycle /\ Spend("life")
  /\ \/ /\ row.status = "installed" /\ saga' = [NoSaga EXCEPT !.kind = "disable"]
        /\ Call("keyed", "stop", NoPackage, row.digest)
     \/ /\ row.status # "absent" /\ disk.installed = row.digest
        /\ saga' = [NoSaga EXCEPT !.kind = "enable"]
        /\ Call("keyed", "apply", NoPackage, row.digest)
     \/ /\ row.status # "absent" /\ saga' = [NoSaga EXCEPT !.kind = "uninstall"]
        /\ Call("keyed", "remove", NoPackage, row.digest)
  /\ UNCHANGED <<durable, free>>

EndLifecycle ==
  /\ OnSm /\ saga' = NoSaga /\ calls' = Free("keyed")
  /\ saga.kind \in {"disable", "enable", "uninstall"}
  /\ \/ Answered("keyed", "stop", {"ok"}) /\ MarkAppDisabled /\ UNCHANGED secretFile
     \/ Answered("keyed", "apply", {"ok"}) /\ MarkAppEnabled /\ UNCHANGED secretFile
     \/ Answered("keyed", "remove", {"ok"}) /\ DeleteAppInstance /\ secretFile' = FALSE
     \/ calls["keyed"].answer \in Refusals /\ UNCHANGED durable
  /\ UNCHANGED <<free, overlapped, spent>>

FreeApply ==
  /\ OnSm /\ free = "idle" /\ spent.free < MaxFreeApplies /\ Spend("free")
  /\ row.status = "installed" /\ disk.installed = row.digest
  /\ free' = "applying" /\ Call("free", "apply", NoPackage, row.digest)
  /\ UNCHANGED <<durable, saga>>

FreeApplied ==
  /\ OnSm /\ free = "applying" /\ calls["free"].pc = "answered"
  /\ free' = "idle" /\ calls' = Free("free")
  /\ UNCHANGED <<durable, saga, overlapped, spent>>

\* Suite Manager gives up on a call after its 180 seconds; the agent goes on.
HangUp ==
  /\ OnSm /\ InFlight("keyed") /\ ~InFlight("lost")
  /\ calls["keyed"].kind \in {"stage", "promote", "stop", "remove"}
  /\ spent.hangUp < MaxHangUps /\ Spend("hangUp")
  /\ calls' = [calls EXCEPT !["lost"] = calls["keyed"],
       !["keyed"] = [@ EXCEPT !.pc = "answered", !.answer = "timeout"]]
  /\ UNCHANGED <<durable, saga, free, overlapped>>

Saga == \/ RecordUpdate \/ AdvanceUpdate \/ RecordPromotion \/ CommitUpdate \/ CommitFails
        \/ RefuseUpdate \/ RollBackUpdate \/ UpdateRolledBack \/ Recovered \/ EndLifecycle
        \/ FreeApplied

AtRest == Idle /\ free = "idle" /\ agent = "up" /\ \A s \in Callers : calls[s] = NoCall

Next ==
  \/ BeginUpdate \/ Saga \/ RecoverByCommit \/ RecoverByRollback
  \/ BeginLifecycle \/ FreeApply \/ HangUp
  \/ SmCrash \/ FailInterruptedUpdate \/ RecoverInterruptedUpdate
  \/ (\E s \in Callers : AgentStep(s))
  \/ AgentCrash \/ AgentStart \/ SweepInterruptedPromotions
  \/ (AtRest /\ UNCHANGED vars)

\* Handlers run on, and systemd restarts either process.
Fairness ==
  /\ WF_vars(Saga) /\ WF_vars(FailInterruptedUpdate) /\ WF_vars(RecoverInterruptedUpdate)
  /\ WF_vars(AgentStart) /\ WF_vars(SweepInterruptedPromotions)
  /\ \A s \in Callers : WF_vars(AgentStep(s))

Spec == Init /\ [][Next]_vars
FairSpec == Spec /\ Fairness

(***************************************************************************)
(* Properties.                                                             *)
(***************************************************************************)

Discarded == \A d \in DOMAIN disk : disk[d] = NoPackage

\* At rest the snapshot on disk is the one on record, or the record says a
\* recovery is due and names the candidate that is there ("the promotion never
\* returned, so Suite Manager still records the old digest", says the repair of
\* the agent).  It does not hold: an agent that dies before a promotion forgets
\* what it displaced finds Suite Manager's record committed from the disk when it
\* comes back, and undoes the promotion.
\* An uninstall whose answer was lost has discarded all of it, and is repeated.
\* Of handlers that did not overlap (see overlapped).
SnapshotIsRecorded ==
  AtRest /\ ~overlapped /\ row.status # "absent" /\ ~Discarded =>
    \/ disk.installed = row.digest
    \/ row.recovery \in Pending /\ op.status = "failed" /\ disk.installed = op.cand

\* A recovery that is due can be performed: the disk holds the promoted
\* candidate to commit, or both packages the agent's rollback verifies.
RecoveryIsPossible ==
  AtRest /\ ~overlapped /\ row.recovery \in Pending /\ ~Discarded =>
    /\ op.status = "failed"
    /\ \/ disk.installed = op.cand
       \/ row.recovery = "rollback-required" /\ disk.installed = row.digest
             /\ disk.candidate = op.cand

\* The secret an update collected stays on disk while anything can need it:
\* once the row holds it, and for as long as the update that collected it runs
\* or waits for its recovery.
CollectedSecretsKept ==
  /\ row.held => secretFile
  /\ op.added /\ (op.status = "running" \/ row.recovery \in Pending) => secretFile

\* Containers of a package nobody recorded serve only while a recovery is due.
\* Of handlers that did not overlap, with no apply made without the app's key, and
\* under an agent that did not die: one that dies with the candidate's containers up
\* answers nothing, and the update fails as if the step had been refused.
ServedIsRecorded ==
  AtRest /\ ~overlapped /\ spent.agentCrash = 0 /\ spent.free = 0
      /\ row.recovery \notin Pending =>
    docker.run \in {NoPackage, row.digest}

\* The row moves to another package only when the disk already holds it, of
\* handlers that did not overlap: no commit runs ahead of its promotion.
CommitFollowsTheDisk ==
  row'.digest \notin {row.digest, NoPackage} => overlapped \/ disk.installed = row'.digest

\* The same of every step.
CommitsFollowTheDisk == [][CommitFollowsTheDisk]_vars

\* Every recorded update ends, whatever dies in the middle: it succeeds, or it
\* fails with a recovery state the owner can act on.
UpdatesSettle == op.status = "running" ~> op.status # "running"
=============================================================================
