------------------------------- MODULE Address -------------------------------
(***************************************************************************)
(* The suite's one address: the change that moves it, the watch that keeps *)
(* the web server rendered for it, and the HTTPS agent, the one writer of  *)
(* the Caddyfile and of the token beside it.  Suite Manager and the agent  *)
(* are two processes: either may die, and an answer may be lost.           *)
(***************************************************************************)
EXTENDS Naturals, Sequences

CONSTANTS
  Domains,       \* domains the owner may move to, strings; each has its token
  Doors,         \* Easy Door names, strings
  Budgets        \* bounds: how many changes, ticks of the watch, failures of a command,
                 \* write or answer, deaths of Suite Manager or of the agent, offers,
                 \* managed updates and moves of the door a behaviour may have

VARIABLES
  track,       \* "home" or "public", as the machine was installed
  address,     \* address.json: kind, name, scheme
  offer,       \* offered.json: the domain a restored backup was on
  change,      \* the store's row: status, stage, target
  run,         \* the change in Suite Manager's memory
  tick,        \* the watch
  held,        \* the watch's certificate: the door it is held for
  door,        \* the machine's live Easy Door name and the ones with a certificate
  web,         \* Caddyfile, token file, and what Caddy runs
  parked,      \* the token a restore parked
  saved,       \* checkpoints on disk
  queue,       \* the agent's exclusive queue
  job,         \* what the agent does now
  severed,     \* history: an apply was cut off from the change that asked for it
  uses         \* what is left of the budget

addressVars == <<track, address, offer, change, run, tick, held, door, web,
                 parked, saved, queue, job, severed, uses>>
suiteVars == <<address, offer, change, run, tick, held>>
agentVars == <<web, parked, saved, queue, job>>

NoName   == "none"
Idle     == [pc |-> "done", target |-> NoName, useParked |-> FALSE, n |-> 0, cancel |-> FALSE]
NoJob    == [op |-> "none", pc |-> "idle", domain |-> NoName, useParked |-> FALSE, n |-> 0,
             rendered |-> [domain |-> NoName, doors |-> {}]]
Running  == run.pc # "done"
Here     == <<track>>

AddressTypeOK ==
  /\ address.kind \in {"lan", "door", "domain"} /\ address.scheme \in {"http", "https"}
  /\ offer \in Domains \cup {NoName} /\ parked \in Domains \cup {NoName}
  /\ change.status \in {"never", "applying", "applied", "failed"}
  /\ web.file.domain \in Domains \cup {NoName} /\ web.token \in Domains \cup {NoName}
  /\ \A n \in DOMAIN saved : saved[n].file.domain \in Domains \cup {NoName}

Spend(what) == uses[what] > 0 /\ uses' = [uses EXCEPT ![what] = @ - 1]
MayFail     == Spend("fail")
Fine        == UNCHANGED uses

(***************************************************************************)
(* What every Caddyfile is rendered from: the recorded address, the live   *)
(* door, and the domain of an apply that has not recorded it yet.          *)
(***************************************************************************)
Rendering(domain) ==
  [domain |-> domain,
   doors  |-> IF track = "public" THEN {}
              ELSE {door.live} \cup (IF address.kind = "door" THEN {address.name} ELSE {})]
RecordedDomain == IF address.kind = "domain" THEN address.name ELSE NoName
AddressInit ==
  /\ track \in {"home", "public"}
  /\ address = [kind |-> "lan", name |-> "lan", scheme |-> "http"]
  /\ offer = NoName /\ parked = NoName
  /\ change = [status |-> "never", stage |-> NoName, target |-> NoName]
  /\ run = Idle /\ tick = "idle" /\ held = NoName
  /\ door = [live |-> CHOOSE d \in Doors : TRUE, issued |-> {}]
  /\ web = [file |-> Rendering(NoName), token |-> NoName,
            live |-> [file |-> Rendering(NoName), token |-> NoName]]
  /\ saved = <<>> /\ queue = <<>> /\ job = NoJob
  /\ severed = FALSE
  /\ uses \in Budgets

(***************************************************************************)
(* The machine: its LAN address moves, a certificate arrives, a restore    *)
(* offers the domain its backup was on and parks its token.                *)
(***************************************************************************)
DoorMoves == \E d \in Doors \ {door.live} :
  /\ Spend("move") /\ door' = [door EXCEPT !.live = d]
  /\ UNCHANGED <<Here, suiteVars, agentVars, severed>>

CertificateArrives ==
  /\ track = "home" /\ door.live \notin door.issued /\ door.live \in web.live.file.doors
  /\ door' = [door EXCEPT !.issued = @ \cup {door.live}]
  /\ UNCHANGED <<Here, suiteVars, agentVars, severed, uses>>

\* The restore stops Suite Manager, so it meets no change of its own.
RestoreOffers(d) ==
  /\ track = "home" /\ ~Running /\ tick = "idle"
  /\ parked' = d /\ offer' = d /\ Spend("offer")
  /\ UNCHANGED <<Here, address, change, run, tick, held, door, web, saved, queue, job, severed>>

\* Onboarding is completed through a door.
RecordDoor ==
  /\ address.kind = "lan" /\ track = "home" /\ change.status = "never"
  /\ address' = [kind |-> "door", name |-> door.live,
                 scheme |-> IF door.live \in door.issued THEN "https" ELSE "http"]
  /\ UNCHANGED <<Here, offer, change, run, tick, held, door, agentVars, severed, uses>>

(***************************************************************************)
(* Asking the agent.  `apply`, `ensure`, `commit` and `rollback` wait in   *)
(* its queue; what a request was asked for is the change it belongs to.    *)
(***************************************************************************)
Asks(request)  == queue' = Append(queue, [NoJob EXCEPT !.op = request.op, !.pc = "start",
                    !.n = request.n, !.domain = request.domain, !.useParked = request.useParked])
Plain(op, n)   == [op |-> op, n |-> n, domain |-> NoName, useParked |-> FALSE]
Waits          == [apply |-> "applying", commit |-> "committing", rollback |-> "undoing"]
Answers        == run.pc = Waits[job.op] /\ run.n = job.n

(***************************************************************************)
(* The change.                                                             *)
(***************************************************************************)
Stage(s)  == change' = [change EXCEPT !.stage = s]
Failed    == change' = [change EXCEPT !.status = "failed"] /\ run' = Idle
RunAt(pc) == Running /\ run.pc = pc
GoesTo(pc) == run' = [run EXCEPT !.pc = pc]

BeginChange(target, useParked, first) ==
  /\ ~Running /\ change.status # "applying" /\ Spend("change")
  /\ change' = [status |-> "applying", stage |-> NoName, target |-> target]
  /\ run' = [pc |-> first, target |-> target, useParked |-> useParked,
             n |-> uses.change, cancel |-> FALSE]
  /\ UNCHANGED <<Here, address, offer, held, door, agentVars, severed>>

MoveToDomain(d) ==
  /\ BeginChange(d, FALSE, IF track = "public" THEN "dns" ELSE "apply") /\ UNCHANGED tick
MoveToOffered ==
  /\ track = "home" /\ offer # NoName
  /\ BeginChange(offer, TRUE, "apply") /\ UNCHANGED tick
FollowDoor ==
  /\ track = "home"
  /\ BeginChange(door.live, FALSE, "record") /\ UNCHANGED tick

\* A public server's own record must have arrived; until then it may be cancelled.
WaitForDns ==
  /\ RunAt("dns") /\ change.stage # "dns" /\ Stage("dns")
  /\ UNCHANGED <<Here, address, offer, run, tick, held, door, agentVars, severed, uses>>
DnsEnds ==
  /\ RunAt("dns") /\ change.stage = "dns"
  /\ \/ ~run.cancel /\ GoesTo("apply") /\ UNCHANGED change
     \/ Failed                            \* cancelled, or the wait ran out
  /\ UNCHANGED <<Here, address, offer, tick, held, door, agentVars, severed, uses>>
CancelChange ==
  /\ Running /\ change.stage = "dns" /\ RunAt("dns") /\ ~run.cancel
  /\ run' = [run EXCEPT !.cancel = TRUE]
  /\ UNCHANGED <<Here, address, offer, change, tick, held, door, agentVars, severed, uses>>

AskApply ==
  /\ RunAt("apply") /\ Stage("caddy") /\ GoesTo("applying")
  /\ Asks([op |-> "apply", n |-> run.n, domain |-> run.target, useParked |-> run.useParked])
  /\ UNCHANGED <<Here, address, offer, tick, held, door, web, parked, saved, job, severed, uses>>

\* No answer in time, or none at all: the change fails without its rollback id.
ApplyUnheard ==
  /\ RunAt("applying") /\ MayFail /\ Failed /\ severed' = TRUE
  /\ UNCHANGED <<Here, address, offer, tick, held, door, agentVars>>

Target == IF run.target \in Domains
          THEN [kind |-> "domain", name |-> run.target, scheme |-> "https"]
          ELSE [kind |-> "door", name |-> run.target,
                scheme |-> IF held = run.target THEN "https" ELSE "http"]

\* The point of no return; a write that fails takes the web server back.
Record ==
  /\ RunAt("record") /\ Stage("recorded")
  /\ \/ /\ address' = Target /\ Fine
        /\ IF run.target \in Domains
           THEN Asks(Plain("commit", run.n)) /\ GoesTo("committing")
           ELSE GoesTo("apps") /\ UNCHANGED queue
     \/ /\ MayFail /\ UNCHANGED address
        /\ IF run.target \in Domains
           THEN Asks(Plain("rollback", run.n)) /\ GoesTo("undoing")
           ELSE GoesTo("failing") /\ UNCHANGED queue
  /\ UNCHANGED <<Here, offer, tick, held, door, web, parked, saved, job, severed>>

RecordFails ==
  /\ RunAt("failing") /\ Failed
  /\ UNCHANGED <<Here, address, offer, tick, held, door, agentVars, severed, uses>>

CommitUnheard ==   \* its failure is swallowed
  /\ RunAt("committing") /\ MayFail /\ GoesTo("offer")
  /\ UNCHANGED <<Here, address, offer, change, tick, held, door, agentVars, severed>>

ClearsOffer ==
  /\ RunAt("offer")
  /\ IF offer = run.target THEN offer' = NoName /\ GoesTo("discard")
                           ELSE UNCHANGED offer /\ GoesTo("apps")
  /\ UNCHANGED <<Here, address, change, tick, held, door, agentVars, severed, uses>>
RunDiscards ==
  /\ RunAt("discard") /\ GoesTo("apps")
  /\ \/ parked' = NoName /\ Fine
     \/ MayFail /\ UNCHANGED parked
  /\ UNCHANGED <<Here, address, offer, change, tick, held, door, web, saved, queue, job, severed>>

\* Every app is rebuilt; what fails there does not undo the move.
Rebake ==
  /\ RunAt("apps")
  /\ change' = [change EXCEPT !.stage = "apps", !.status = "applied"] /\ run' = Idle
  /\ UNCHANGED <<Here, address, offer, tick, held, door, agentVars, severed, uses>>

\* The owner declines the domain; nothing holds this off a change in flight.
DismissOffer ==
  /\ offer # NoName /\ offer' = NoName
  /\ \/ parked' = NoName /\ Fine
     \/ MayFail /\ UNCHANGED parked
  /\ UNCHANGED <<Here, address, change, run, tick, held, door, web, saved, queue, job, severed>>

(***************************************************************************)
(* The watch: every minute, and never during a change.                     *)
(***************************************************************************)
TickStarts ==
  /\ tick = "idle" /\ ~Running /\ Spend("tick")
  /\ tick' = "ensuring" /\ Asks(Plain("ensure", 0))
  /\ UNCHANGED <<Here, address, offer, change, run, held, door, web, parked, saved, job, severed>>
TickUnheard ==
  /\ tick = "ensuring" /\ MayFail /\ tick' = "idle"
  /\ UNCHANGED <<Here, address, offer, change, run, held, door, agentVars, severed>>
TickProbes ==
  /\ tick = "probe" /\ tick' = "move"
  /\ held' = IF track = "home" /\ door.live \in door.issued THEN door.live ELSE NoName
  /\ UNCHANGED <<Here, address, offer, change, run, door, agentVars, severed, uses>>
DoorIsHeld == address.kind = "door" /\ address.scheme = "http" /\ held = address.name
TickMoves ==
  /\ tick = "move" /\ tick' = "idle"
  /\ \/ /\ DoorIsHeld /\ BeginChange(door.live, FALSE, "record")
     \/ /\ Running \/ ~DoorIsHeld \/ change.status = "applying"
        /\ UNCHANGED <<Here, address, offer, change, run, held, door, agentVars, severed, uses>>

(***************************************************************************)
(* The agent.                                                              *)
(***************************************************************************)
AgentTakes ==
  /\ job = NoJob /\ queue # <<>>
  /\ job' = Head(queue) /\ queue' = Tail(queue)
  /\ UNCHANGED <<Here, suiteVars, door, web, parked, saved, severed, uses>>

Doing(op, pc) == job.op = op /\ job.pc = pc
Proceeds(pc)  == job' = [job EXCEPT !.pc = pc]
Caddy(w)      == [w EXCEPT !.live = [file |-> w.file, token |-> w.token]]   \* a restart
Reloads(w)    == [w EXCEPT !.live.file = w.file]                            \* keeps its environment

\* The answer reaches whoever still listens.
ToRun(pc) ==
  /\ IF Answers THEN GoesTo(pc) /\ UNCHANGED severed
                   ELSE UNCHANGED <<run, severed>>
  /\ UNCHANGED <<Here, address, offer, change, tick, held, door>>
ToTick(pc) ==
  /\ tick' = IF tick = "ensuring" THEN pc ELSE tick
  /\ UNCHANGED <<Here, address, offer, change, run, held, door, severed>>
Quiet == UNCHANGED <<Here, suiteVars, door, severed>>

EnsureRenders ==
  /\ Doing("ensure", "start")
  /\ job' = [job EXCEPT !.pc = "write", !.rendered = Rendering(RecordedDomain)]
  /\ Quiet /\ UNCHANGED <<web, parked, saved, queue, uses>>
\* Written when it differs; put back if Caddy will not reload with it.
EnsureWrites ==
  /\ Doing("ensure", "write") /\ job' = NoJob
  /\ \/ web' = Reloads([web EXCEPT !.file = job.rendered]) /\ Fine /\ ToTick("probe")
     \/ web.file # job.rendered /\ MayFail /\ UNCHANGED web /\ ToTick("idle")
  /\ UNCHANGED <<parked, saved, queue>>

Checkpoint == [file |-> web.file, token |-> web.token, marked |-> job.useParked]
ApplyChecks ==
  /\ Doing("apply", "start")
  /\ \/ /\ job.useParked => parked = job.domain
        /\ saved' = [n \in DOMAIN saved \cup {job.n} |-> IF n = job.n THEN Checkpoint ELSE saved[n]]
        /\ Proceeds("install") /\ Fine /\ Quiet
     \/ /\ job.useParked /\ parked # job.domain     \* the credential is not there any more
        /\ job' = NoJob /\ ToRun("failing") /\ Fine /\ UNCHANGED saved
     \/ /\ MayFail /\ job' = NoJob /\ ToRun("failing") /\ UNCHANGED saved
  /\ UNCHANGED <<web, parked, queue>>
ApplyInstalls ==
  /\ Doing("apply", "install") /\ Proceeds("restart")
  /\ web' = [web EXCEPT !.file = Rendering(job.domain),
                        !.token = IF track = "home" THEN job.domain ELSE @]
  /\ Quiet /\ UNCHANGED <<parked, saved, queue, uses>>
ApplyRestarts ==
  /\ Doing("apply", "restart") /\ Quiet
  /\ \/ web' = Caddy(web) /\ Proceeds("certificate") /\ Fine
     \/ UNCHANGED web /\ Proceeds("restore") /\ MayFail
  /\ UNCHANGED <<parked, saved, queue>>
ApplyAnswers ==
  /\ Doing("apply", "certificate")
  /\ \/ job' = NoJob /\ ToRun("record") /\ Fine
     \/ Proceeds("restore") /\ MayFail /\ Quiet
  /\ UNCHANGED <<web, parked, saved, queue>>

Without(n) == [m \in DOMAIN saved \ {n} |-> saved[m]]
Restored(n) == Caddy([web EXCEPT !.file = saved[n].file, !.token = saved[n].token])

ApplyRestores ==
  /\ Doing("apply", "restore") /\ job' = NoJob /\ ToRun("failing")
  /\ \/ web' = Restored(job.n) /\ saved' = Without(job.n) /\ Fine
     \/ MayFail /\ web' = web /\ UNCHANGED saved   \* the checkpoint is kept
  /\ UNCHANGED <<parked, queue>>

CommitEnds ==
  /\ Doing("commit", "start") /\ job' = NoJob /\ ToRun("offer")
  /\ parked' = IF job.n \in DOMAIN saved /\ saved[job.n].marked THEN NoName ELSE parked
  /\ saved' = Without(job.n)
  /\ UNCHANGED <<web, queue, uses>>

RollbackEnds ==
  /\ Doing("rollback", "start") /\ job' = NoJob /\ ToRun("failing")
  /\ \/ web' = Restored(job.n) /\ saved' = Without(job.n) /\ Fine
     \/ MayFail /\ UNCHANGED <<web, saved>>
  /\ UNCHANGED <<parked, queue>>

(***************************************************************************)
(* Deaths.                                                                 *)
(***************************************************************************)
Cuts == severed' = (severed \/ run.pc \in {"applying", "record", "undoing"})

\* A change that was running is closed as failed: nothing will finish it.
SuiteRestarts ==
  /\ Spend("death")
  /\ change' = IF change.status = "applying" THEN [change EXCEPT !.status = "failed"] ELSE change
  /\ run' = Idle /\ tick' = "idle" /\ held' = NoName /\ Cuts
  /\ UNCHANGED <<Here, address, offer, door, agentVars>>

\* What it was doing stops where it is, and whoever waited hears of it.
AgentDies ==
  /\ Spend("death")
  /\ job' = NoJob /\ queue' = <<>>
  /\ tick' = IF tick = "ensuring" THEN "idle" ELSE tick
  /\ run' = CASE run.pc \in {"applying", "undoing"} -> [run EXCEPT !.pc = "failing"]
              [] run.pc = "committing" -> [run EXCEPT !.pc = "offer"]
              [] OTHER -> run
  /\ severed' = (severed \/ run.pc \in {"applying", "undoing"} \/ job.op = "apply")
  /\ UNCHANGED <<Here, address, offer, change, held, door, web, parked, saved>>

\* A managed update renders the file itself, outside the agent's queue.
UpdateRenders ==
  /\ Spend("update")
  /\ web' = Reloads([web EXCEPT !.file = Rendering(RecordedDomain)])
  /\ severed' = (severed \/ Running)
  /\ UNCHANGED <<Here, suiteVars, door, parked, saved, queue, job>>

AddressNext ==
  \/ DoorMoves \/ CertificateArrives \/ RecordDoor \/ DismissOffer
  \/ \E d \in Domains : RestoreOffers(d) \/ MoveToDomain(d)
  \/ MoveToOffered \/ FollowDoor \/ WaitForDns \/ DnsEnds \/ CancelChange
  \/ AskApply \/ ApplyUnheard \/ Record \/ RecordFails \/ CommitUnheard
  \/ ClearsOffer \/ RunDiscards \/ Rebake
  \/ TickStarts \/ TickUnheard \/ TickProbes \/ TickMoves
  \/ AgentTakes \/ EnsureRenders \/ EnsureWrites \/ ApplyChecks \/ ApplyInstalls
  \/ ApplyRestarts \/ ApplyAnswers \/ ApplyRestores \/ CommitEnds \/ RollbackEnds
  \/ SuiteRestarts \/ AgentDies \/ UpdateRenders

AddressSpec == AddressInit /\ [][AddressNext]_addressVars

(***************************************************************************)
(* Properties.                                                             *)
(***************************************************************************)
AllQuiet == ~Running /\ tick = "idle" /\ queue = <<>> /\ job = NoJob

\* At rest, a suite on a home server's own domain has that domain's token in
\* the file its certificate is renewed with, however many moves failed, were
\* taken back or were followed by another -- unless an apply was cut off from
\* the change that asked for it (suite-address-service.cjs run, agent-core.cjs
\* restore and rollback) or putting the previous configuration back failed.
TokenIsTheAddress ==
  AllQuiet /\ ~severed /\ DOMAIN saved = {} /\ track = "home" /\ address.kind = "domain"
    => web.token = address.name

\* A domain the owner applied, once the move is complete, is what the web
\* server serves until the next one begins: an ensure rendered for the old
\* address never lands over it (suite-address-service.cjs watchEasyDoor: "Never
\* during an address change, which owns the web server until it finishes"),
\* unless a managed update rendered the file in the middle of the change.
ChangeOwnsTheWebServer ==
  ~severed /\ change.status = "applied" /\ ~Running /\ address.kind = "domain" /\ address.name = change.target
    => web.file.domain = address.name
=============================================================================
