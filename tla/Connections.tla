---------------------------- MODULE Connections ----------------------------
(***************************************************************************)
(* Two installed apps, a consumer connected to a provider, and every       *)
(* handler of Suite Manager that renders, applies or connects them: a      *)
(* save of the consumer's environment with its rollback, connect, restart, *)
(* stop, enable, uninstall, a bare start and the rebuild after the suite's *)
(* address moved.  A keyed handler holds its app's operation key; connect, *)
(* start and the rebuild hold none.                                        *)
(***************************************************************************)
EXTENDS Naturals, Sequences

CONSTANTS
  Values,       \* values of the consumer's one hidden variable, strings
  MaxRequests,  \* bound: requests taken
  MaxStarts,    \* bound: bare starts among them
  MaxFailures,  \* bound: agent calls that fail
  MaxKills      \* bound: Suite Manager killed

Unset    == "unset"
Settings == Values \cup {Unset}
Apps     == {"consumer", "provider"}
VARIABLES
  rows,       \* status of each app's row
  env,        \* the consumer's stored variable, by the fingerprint of its value
  secret,     \* the file that holds the variable's value
  folder,     \* whether the consumer has a folder on a drive
  link,       \* the relationship's status and the provider's address it stored
  projected,  \* per app: what the stored projections hold, and if it is applied
  suite,      \* the suite's address
  runs,       \* per app: the container that runs
  joined,     \* whether the consumer is on the provider's network
  handlers,   \* the requests in flight, by what they hold
  crossed,    \* history: two handlers have been in flight together
  used        \* how much of each bound is used

connVars == <<rows, env, secret, folder, link, projected, suite, runs, joined,
              handlers, crossed, used>>
store    == <<rows, env, secret, folder, link, projected, suite>>

NoRead    == [env |-> Unset, link |-> Unset, folder |-> FALSE, address |-> "old"]
NoMemory  == [env |-> Unset, secret |-> Unset, folder |-> FALSE, linked |-> FALSE,
              content |-> [env |-> FALSE, link |-> FALSE, folder |-> FALSE]]
Idle      == [op |-> "none", todo |-> <<>>, read |-> NoRead, address |-> "old",
              value |-> Unset, drive |-> FALSE, before |-> NoMemory, result |-> "none"]
Keys      == {"consumer", "provider", "none"}
Busy(h)   == handlers[h].todo # <<>>
Linked    == link.status # "none"

ConnTypeOK ==
  /\ rows \in [Apps -> {"installed", "disabled", "absent"}]
  /\ env \in Settings /\ secret \in Settings /\ folder \in BOOLEAN
  /\ link.status \in {"none", "applying", "active", "degraded", "failed"}
  /\ suite \in {"old", "new"} /\ joined \in BOOLEAN /\ crossed \in BOOLEAN

(***************************************************************************)
(* Projections.  What they hold is references, never values: whether the   *)
(* variable, the connection's variables and the folder are there.          *)
(***************************************************************************)
RenderInstanceProjections(value, linked, placed) ==
  [env |-> value # Unset, link |-> linked, folder |-> placed]

Replaced(p, content) ==
  [p EXCEPT !.content = content, !.applied = @ /\ p.content = content]
Recorded(p)     == [p EXCEPT !.applied = TRUE, !.healthy = TRUE]
Checked(p, ok)  == [p EXCEPT !.healthy = ok]
RouteApplied(a)   == projected[a].applied
RuntimeApplied(a) == projected[a].applied /\ projected[a].healthy

Plain == [env |-> FALSE, link |-> FALSE, folder |-> FALSE]
Stopped == [on |-> FALSE, ok |-> FALSE, env |-> Unset, link |-> Unset, folder |-> FALSE,
            address |-> "old"]

ConnInit ==
  /\ rows = [a \in Apps |-> "installed"]
  /\ env = Unset /\ secret = Unset /\ folder = FALSE /\ suite = "old"
  /\ \E connected \in BOOLEAN :
       /\ link = [status |-> IF connected THEN "active" ELSE "none",
                  url |-> IF connected THEN "old" ELSE Unset]
       /\ joined = connected
       /\ projected = [a \in Apps |-> [content |-> [Plain EXCEPT !.link = connected /\ a = "consumer"],
                                       applied |-> TRUE, healthy |-> TRUE]]
       /\ runs = [a \in Apps |-> [Stopped EXCEPT !.on = TRUE, !.ok = TRUE,
                                  !.link = IF connected /\ a = "consumer" THEN "old" ELSE Unset]]
  /\ handlers = [h \in Keys |-> Idle]
  /\ crossed = FALSE
  /\ used = [request |-> 0, start |-> 0, failure |-> 0, kill |-> 0]

(***************************************************************************)
(* A handler is a list of steps still to do.  `on` is what a failure of    *)
(* the step does: end the request, undo the save, fail the connection, or  *)
(* go on with the next app.                                                *)
(***************************************************************************)
Step(do, a, on) == [do |-> do, app |-> a, on |-> on]
Relink          == Step("relink", "consumer", "unlink")
JoinSteps       == << Step("apply", "consumer", "unlink"), Step("join", "consumer", "unlink"),
                      Step("complete", "consumer", "unlink") >>
UndoSteps       == << Step("restore", "consumer", "lost"), Step("apply", "consumer", "lost"),
                      Step("health", "consumer", "lost"), Step("end", "consumer", "lost") >>

Begin(h, op, todo, value, drive) ==
  /\ ~Busy(h) /\ used.request < MaxRequests
  /\ used' = [used EXCEPT !.request = @ + 1, !.start = @ + (IF op = "start" THEN 1 ELSE 0)]
  /\ handlers' = [handlers EXCEPT ![h] =
       [op |-> op, todo |-> todo, read |-> NoRead, address |-> suite, value |-> value,
        drive |-> drive, result |-> "none",
        before |-> [env |-> env, secret |-> Unset, folder |-> folder,
                    linked |-> Linked, content |-> projected["consumer"].content]]]
  /\ crossed' = (crossed \/ \E other \in Keys \ {h} : Busy(other))

PerformRestartPackageRuntime(a) ==
  /\ rows[a] = "installed" /\ RouteApplied(a)
  /\ Begin(a, "restart", << Step("apply", a, "end"), Relink >>, Unset, FALSE)
  /\ UNCHANGED <<store, runs, joined>>

PerformEnablePackage(a) ==
  /\ rows[a] # "absent"
  /\ Begin(a, "enable", << Step("apply", a, "end") >>
              \o (IF rows[a] = "disabled" THEN << Step("enable", a, "end") >> ELSE <<>>)
              \o << Relink >>, Unset, FALSE)
  /\ UNCHANGED <<store, runs, joined>>

PerformDisablePackage(a) ==
  /\ rows[a] = "installed"
  /\ Begin(a, "disable", << Step("stop", a, "end"), Step("disable", a, "end") >>, Unset, FALSE)
  /\ UNCHANGED <<store, runs, joined>>

PerformUninstallPackage(a) ==
  /\ rows[a] # "absent"
  /\ Begin(a, "uninstall", << Step("remove", a, "end"), Step("delete", a, "end") >>, Unset, FALSE)
  /\ UNCHANGED <<store, runs, joined>>

\* The rows and projections before the save are read here; choosing a drive
\* asks the agent for its drives before anything is written.
PerformSavePackageEnvironment(value, drive) ==
  /\ rows["consumer"] = "installed" /\ RouteApplied("consumer")
  /\ drive => ~folder
  /\ Begin("consumer", "save",
           << Step("write", "consumer", "end"), Step("apply", "consumer", "undo"),
              Step("health", "consumer", "undo"), Step("tidy", "consumer", "end"), Relink >>,
           value, drive)
  /\ UNCHANGED <<store, runs, joined>>

StartPackageRuntime(a) ==
  /\ used.start < MaxStarts /\ rows[a] = "installed"
  /\ Begin("none", "start", << Step("apply", a, "end") >>, Unset, FALSE)
  /\ UNCHANGED <<store, runs, joined>>

ConnectPackages ==
  /\ \A a \in Apps : rows[a] = "installed" /\ RuntimeApplied(a)
  /\ link' = [status |-> "applying", url |-> suite]
  /\ projected' = [projected EXCEPT !["consumer"] =
                     Replaced(@, RenderInstanceProjections(env, TRUE, folder))]
  /\ Begin("none", "connect", JoinSteps, Unset, FALSE)
  /\ UNCHANGED <<rows, env, secret, folder, suite, runs, joined>>

\* The suite moves to its other address, and every app is rebuilt on it.
ReconcilePublicUrls ==
  /\ suite = "old" /\ suite' = "new"
  /\ LET each(a) == IF rows[a] = "installed" THEN << Step("apply", a, "skip") >> ELSE <<>>
     IN  /\ ~Busy("none") /\ used.request < MaxRequests
         /\ used' = [used EXCEPT !.request = @ + 1]
         /\ handlers' = [handlers EXCEPT !["none"] =
              [Idle EXCEPT !.op = "reconcile", !.address = "new",
                           !.todo = each("consumer") \o each("provider") \o << Relink >>]]
         /\ crossed' = (crossed \/ \E other \in Keys \ {"none"} : Busy(other))
  /\ UNCHANGED <<rows, env, secret, folder, link, projected, runs, joined>>

(***************************************************************************)
(* The steps.                                                              *)
(***************************************************************************)
At(h, do)   == Busy(h) /\ Head(handlers[h].todo).do = do
AppOf(h)    == Head(handlers[h].todo).app
Rest(h)     == Tail(handlers[h].todo)
Todo(h, s)  == handlers' = [handlers EXCEPT ![h].todo = s]
Advance(h)  == Todo(h, Rest(h))
Become(h, do) == Todo(h, << [Head(handlers[h].todo) EXCEPT !.do = do] >> \o Rest(h))

\* A step failed.  A request the owner was answered ends with its result; a
\* connection that failed is recorded, and nothing comes after a connection.
Failed(h) ==
  LET on == Head(handlers[h].todo).on
  IN  \/ /\ on \in {"end", "lost"} /\ UNCHANGED link
         /\ handlers' = [handlers EXCEPT ![h].todo = <<>>,
                          ![h].result = IF on = "lost" THEN "neither" ELSE "failed"]
      \/ on = "undo" /\ Todo(h, UndoSteps) /\ UNCHANGED link
      \/ /\ on = "skip" /\ UNCHANGED link
         /\ handlers' = [handlers EXCEPT ![h].todo = Tail(@), ![h].result = "partial"]
      \/ /\ on = "unlink"
         /\ link' = IF link.status = "none" THEN link ELSE [link EXCEPT !.status = "failed"]
         /\ handlers' = [handlers EXCEPT ![h].todo = <<>>, ![h].result = "partial"]

WriteSaveUnlinked(h) == \* mutant: renders the manifest and the owner's variables only
  /\ At(h, "write")
  /\ LET me == handlers[h] IN
     /\ env' = me.value
     /\ secret' = IF me.value = Unset THEN secret ELSE me.value
     /\ folder' = (folder \/ me.drive)
     /\ projected' = [projected EXCEPT !["consumer"] =
          Replaced(@, RenderInstanceProjections(me.value, FALSE,
                                                me.before.folder \/ me.drive))]
     /\ handlers' = [handlers EXCEPT ![h].todo = Tail(@), ![h].before.secret = secret]
  /\ UNCHANGED <<rows, link, suite, runs, joined, crossed, used>>

\* Writes the save: its secret file, then rows, projections and folder as one.
WriteSave(h) ==
  /\ At(h, "write")
  /\ LET me == handlers[h] IN
     /\ env' = me.value
     /\ secret' = IF me.value = Unset THEN secret ELSE me.value
     /\ folder' = (folder \/ me.drive)
     /\ projected' = [projected EXCEPT !["consumer"] =
          Replaced(@, RenderInstanceProjections(me.value, me.before.linked,
                                                me.before.folder \/ me.drive))]
     /\ handlers' = [handlers EXCEPT ![h].todo = Tail(@), ![h].before.secret = secret]
  /\ UNCHANGED <<rows, link, suite, runs, joined, crossed, used>>

RollbackPackageEnvironment(h) ==
  /\ At(h, "restore")
  /\ LET before == handlers[h].before IN
     /\ env' = before.env /\ folder' = before.folder
     /\ secret' = IF handlers[h].value = Unset THEN secret ELSE before.secret
     /\ projected' = [projected EXCEPT !["consumer"] = Replaced(@, before.content)]
  /\ Advance(h)
  /\ UNCHANGED <<rows, link, suite, runs, joined, crossed, used>>

\* The variable's old secret goes only once the app is known good.
TidySecrets(h) ==
  /\ At(h, "tidy")
  /\ secret' = IF handlers[h].value = Unset THEN Unset ELSE secret
  /\ handlers' = [handlers EXCEPT ![h].todo = Tail(@), ![h].result = "applied"]
  /\ UNCHANGED <<rows, env, folder, link, projected, suite, runs, joined, crossed, used>>

EndRollback(h) ==
  /\ At(h, "end")
  /\ handlers' = [handlers EXCEPT ![h].todo = <<>>, ![h].result = "rolled-back"]
  /\ UNCHANGED <<store, runs, joined, crossed, used>>

\* What an apply asks the agent for is read before it is asked.
ApplyPackageRuntime(h) ==
  /\ At(h, "apply")
  /\ LET a == AppOf(h)
         content == projected[a].content
         runnable == rows[a] = "installed" \/ (rows[a] = "disabled" /\ handlers[h].op = "enable")
         readable == content.env => secret # Unset
     IN \/ /\ runnable /\ readable
           /\ handlers' = [handlers EXCEPT ![h].todo = << [Head(@) EXCEPT !.do = "agent"] >> \o Tail(@),
                ![h].read = [env |-> IF content.env THEN secret ELSE Unset,
                             link |-> IF content.link THEN link.url ELSE Unset,
                             folder |-> content.folder, address |-> handlers[h].address]]
           /\ UNCHANGED link
        \/ ~(runnable /\ readable) /\ Failed(h)
  /\ UNCHANGED <<rows, env, secret, folder, projected, suite, runs, joined, crossed, used>>

\* The agent replaces the app's containers; they start on their own network only.
Started(h, healthy) ==
  LET a == AppOf(h) read == handlers[h].read
  IN  /\ runs' = [runs EXCEPT ![a] = [on |-> TRUE, ok |-> healthy, env |-> read.env,
                    link |-> read.link, folder |-> read.folder, address |-> read.address]]
      /\ joined' = (joined /\ a # "consumer")

AgentApplies(h) ==
  /\ At(h, "agent")
  /\ Started(h, TRUE)
  /\ IF handlers[h].op = "orphan" THEN Todo(h, <<>>) ELSE Become(h, "record")
  /\ UNCHANGED <<store, crossed, used>>

\* A build or storage failure leaves the containers; a later one leaves new ones.
AgentApplyFails(h) ==
  /\ At(h, "agent") /\ used.failure < MaxFailures
  /\ used' = [used EXCEPT !.failure = @ + 1]
  /\ Started(h, FALSE) \/ UNCHANGED <<runs, joined>>
  /\ Failed(h)
  /\ UNCHANGED <<rows, env, secret, folder, projected, suite, crossed>>

\* Whatever the projections hold by now is recorded as applied.
ApplyAppProjections(h) ==
  /\ At(h, "record")
  /\ LET a == AppOf(h) IN
     \/ /\ rows[a] # "absent"
        /\ projected' = [projected EXCEPT ![a] = Recorded(@)]
        /\ Advance(h) /\ UNCHANGED link
     \/ rows[a] = "absent" /\ Failed(h) /\ UNCHANGED projected
  /\ UNCHANGED <<rows, env, secret, folder, suite, runs, joined, crossed, used>>

WaitForPackageHealth(h) ==
  /\ At(h, "health")
  /\ \/ /\ runs[AppOf(h)].ok /\ Advance(h)
        /\ projected' = [projected EXCEPT ![AppOf(h)] = Checked(@, TRUE)]
        /\ UNCHANGED <<link, runs, used>>
     \/ /\ used.failure < MaxFailures   \* it answered once and then died
        /\ used' = [used EXCEPT !.failure = @ + 1]
        /\ projected' = [projected EXCEPT ![AppOf(h)] = Checked(@, FALSE)]
        /\ runs' = [runs EXCEPT ![AppOf(h)].ok = FALSE]
        /\ Failed(h)
  /\ UNCHANGED <<rows, env, secret, folder, suite, joined, crossed>>

ReapplyIntegrationRelationship(h) ==
  /\ At(h, "relink")
  /\ \/ ~Linked /\ Advance(h) /\ UNCHANGED link
     \/ /\ Linked /\ \E a \in Apps : rows[a] # "installed" \/ ~RuntimeApplied(a)
        /\ link' = [link EXCEPT !.status = "degraded"] /\ Advance(h)
     \/ /\ Linked /\ \A a \in Apps : rows[a] = "installed" /\ RuntimeApplied(a)
        /\ link' = [link EXCEPT !.url = handlers[h].address]
        /\ Todo(h, JoinSteps \o Rest(h))
  /\ UNCHANGED <<rows, env, secret, folder, projected, suite, runs, joined, crossed, used>>

ConnectNetwork(h) ==
  /\ At(h, "join")
  /\ \/ /\ \A a \in Apps : runs[a].on
        /\ joined' = TRUE /\ Advance(h) /\ UNCHANGED <<link, used>>
     \/ /\ used.failure < MaxFailures \/ \E a \in Apps : ~runs[a].on
        /\ used' = IF \E a \in Apps : ~runs[a].on THEN used
                   ELSE [used EXCEPT !.failure = @ + 1]
        /\ Failed(h) /\ UNCHANGED joined
  /\ UNCHANGED <<rows, env, secret, folder, projected, suite, runs, crossed>>

CompleteAppIntegration(h) ==
  /\ At(h, "complete")
  /\ link' = IF link.status = "none" THEN link ELSE [link EXCEPT !.status = "active"]
  /\ Advance(h)
  /\ UNCHANGED <<rows, env, secret, folder, projected, suite, runs, joined, crossed, used>>

\* Stopping takes the app's network with it; a volume that stays fails a removal.
StopAppService(h) ==
  /\ At(h, "stop") \/ At(h, "remove")
  /\ runs' = [runs EXCEPT ![AppOf(h)] = Stopped] /\ joined' = FALSE
  /\ \/ /\ IF handlers[h].op = "orphan" THEN Todo(h, <<>>) ELSE Advance(h)
        /\ UNCHANGED <<link, used>>
     \/ /\ At(h, "remove") /\ used.failure < MaxFailures
        /\ used' = [used EXCEPT !.failure = @ + 1] /\ Failed(h)
  /\ UNCHANGED <<rows, env, secret, folder, projected, suite, crossed>>

MarkAppDisabled(h) ==
  /\ At(h, "disable")
  /\ rows' = [rows EXCEPT ![AppOf(h)] = "disabled"]
  /\ projected' = [projected EXCEPT ![AppOf(h)].applied = FALSE, ![AppOf(h)].healthy = FALSE]
  /\ link' = IF link.status = "none" THEN link ELSE [link EXCEPT !.status = "degraded"]
  /\ Advance(h)
  /\ UNCHANGED <<env, secret, folder, suite, runs, joined, crossed, used>>

MarkAppEnabled(h) ==
  /\ At(h, "enable")
  /\ rows' = [rows EXCEPT ![AppOf(h)] = "installed"] /\ Advance(h)
  /\ UNCHANGED <<env, secret, folder, link, projected, suite, runs, joined, crossed, used>>

\* The app's secrets go, then its row, and every row that refers to it.
DeleteAppInstance(h) ==
  /\ At(h, "delete")
  /\ LET a == AppOf(h) IN
     /\ rows' = [rows EXCEPT ![a] = "absent"]
     /\ link' = [status |-> "none", url |-> link.url]
     /\ env' = IF a = "consumer" THEN Unset ELSE env
     /\ secret' = IF a = "consumer" THEN Unset ELSE secret
     /\ folder' = (folder /\ a # "consumer")
  /\ Advance(h)
  /\ UNCHANGED <<projected, suite, runs, joined, crossed, used>>

\* Suite Manager dies: its handlers are gone, what the agent is doing is not.
Killed ==
  /\ used.kill < MaxKills /\ \E h \in Keys : Busy(h)
  /\ used' = [used EXCEPT !.kill = @ + 1]
  /\ handlers' = [h \in Keys |->
       IF Busy(h) /\ Head(handlers[h].todo).do \in {"agent", "stop", "remove"}
       THEN [handlers[h] EXCEPT !.op = "orphan",
               !.todo = << [Head(@) EXCEPT !.on = "end"] >>]
       ELSE Idle]
  /\ UNCHANGED <<store, runs, joined, crossed>>

ConnStep(h) ==
  \/ WriteSave(h) \/ RollbackPackageEnvironment(h) \/ TidySecrets(h) \/ EndRollback(h)
  \/ ApplyPackageRuntime(h) \/ AgentApplies(h) \/ AgentApplyFails(h)
  \/ ApplyAppProjections(h) \/ WaitForPackageHealth(h)
  \/ ReapplyIntegrationRelationship(h) \/ ConnectNetwork(h) \/ CompleteAppIntegration(h)
  \/ StopAppService(h) \/ MarkAppDisabled(h) \/ MarkAppEnabled(h) \/ DeleteAppInstance(h)

ConnNext ==
  \/ \E a \in Apps : \/ PerformRestartPackageRuntime(a) \/ PerformEnablePackage(a)
                     \/ PerformDisablePackage(a) \/ PerformUninstallPackage(a)
                     \/ StartPackageRuntime(a)
  \/ \E value \in Settings, drive \in BOOLEAN : PerformSavePackageEnvironment(value, drive)
  \/ ConnectPackages \/ ReconcilePublicUrls \/ Killed
  \/ \E h \in Keys : ConnStep(h)

ConnSpec == ConnInit /\ [][ConnNext]_connVars

(***************************************************************************)
(* Properties.                                                             *)
(***************************************************************************)
\* The consumer's stored projections are what its rows would render to now,
\* through any failure, rollback or kill, as long as two handlers were never
\* in flight together and the provider is still installed.
ProjectionsAreReproducible ==
  ~crossed /\ (\A a \in Apps : rows[a] # "absent")
  => projected["consumer"].content = RenderInstanceProjections(env, Linked, folder)

\* A save answered "rolled-back" left the stored variable, the value in its
\* file, the folder and the running container as they were before it.
RolledBackIsAsBefore ==
  \A h \in Keys :
    handlers[h].result = "rolled-back" /\ ~crossed /\ ~Busy(h) /\ handlers[h].op = "save"
    /\ (\A other \in Keys \ {h} : handlers[other].op = "none")
    => LET before == handlers[h].before IN
       /\ env = before.env /\ folder = before.folder
       /\ env # Unset => secret = before.secret /\ runs["consumer"].env = before.secret
       /\ env = Unset => runs["consumer"].env = Unset

\* A connection shown as active, between two apps that are applied and healthy
\* and with nothing in flight, has the consumer on the provider's network.
ActiveIsJoined ==
  /\ link.status = "active" /\ ~crossed
  /\ \A h \in Keys : ~Busy(h)
  /\ \A a \in Apps : RuntimeApplied(a) /\ runs[a].ok
  => joined
=============================================================================
