------------------------------- MODULE Homepage -------------------------------
(***************************************************************************)
(* The dashboard: one YAML template the owner and Suite Manager both edit, *)
(* the file Homepage shows and the Caddy routes projected from it, and the *)
(* note each installed app keeps of whether its tile is there.  Whoever    *)
(* changes the template names the content the change was made from.  The   *)
(* agent writes the files, restarts what reads them and puts the earlier   *)
(* files back when that fails.  It answers more than one request at once,  *)
(* and takes no lock: two changes may be written at the same time.         *)
(***************************************************************************)
EXTENDS Naturals, FiniteSets

CONSTANTS
    Apps,          \* package ids
    HostOf,        \* the subdomain each app is served at
    Subs,          \* subdomains the owner may type
    Reserved,      \* those no link is given: home, www
    Asking,        \* the apps whose install asks for the links; an added one's does not
    Bases,         \* addresses the suite may have
    NoSub, NoBase, NoApp,
    Slots,         \* bound: requests in flight at once
    MaxRequests,   \* bound: requests begun
    MaxInstalls,   \* bound: instance ids are 1..MaxInstalls
    MaxEdits,      \* bound: edits the owner makes
    MaxFailures,   \* bound: transactions and removals that fail
    MaxLost,       \* bound: answers Suite Manager never hears
    MaxCuts,       \* bound: transactions left half way
    MaxMoves       \* bound: changes of the suite's address

VARIABLES
    template,   \* services.template.yaml: a set of entries
    shown,      \* services.yaml: the entries and the address they were built for
    routes,     \* the Caddy routes: subdomains and that address
    base,       \* the suite's recorded address
    rows,       \* app instances: [app, applied], by instance id
    tab,        \* the Customize screen: [content, saved]
    requests,   \* what is being asked of the agent, one per slot
    dropped,    \* history: tiles the owner or an uninstall took off
    crossed,    \* history: two transactions were open at once
    unsettled,  \* history: [tiles, hosts] two requests were about at once
    count       \* [requests, installs, edits, failures, lost, cuts, moves]

homepageVars == <<template, shown, routes, base, rows, tab, requests, dropped, crossed,
                  unsettled, count>>

Tile(id, widget) == [kind |-> "tile", id |-> id, sub |-> NoSub, widget |-> widget]
Service(sub) == [kind |-> "service", id |-> 0, sub |-> sub, widget |-> NoBase]
TilesIn(content) == {e.id : e \in {x \in content : x.kind = "tile"}}
HomeServiceHosts(content) == {e.sub : e \in {x \in content : x.kind = "service"}}
AppRouteHosts == {HostOf[rows[id].app] : id \in DOMAIN rows}

ValidProxy(sub) == sub \notin Reserved

(* The address is part of what is written only where a link is routed.     *)
BuiltFor(content, b) == IF HomeServiceHosts(content) = {} THEN NoBase ELSE b
ProjectServices(content, b) == [entries |-> content, base |-> BuiltFor(content, b)]
RenderCaddyRoutes(content, b) == [subs |-> HomeServiceHosts(content), base |-> BuiltFor(content, b)]
Files == [template |-> template, shown |-> shown, routes |-> routes]

-----------------------------------------------------------------------------
(* A request: its kind, who it is for, the content it was made from, what  *)
(* it asks for, the content that makes, the address it was sent with, the  *)
(* files it replaces and those it has still to write or put back, and      *)
(* whether another transaction was open while it was.                      *)
Idle == [kind |-> "none", stage |-> "none", id |-> 0, app |-> NoApp, from |-> {}, asks |-> {},
         to |-> {}, base |-> NoBase, before |-> <<>>, left |-> {},
         met |-> FALSE, heard |-> TRUE]
Request(kind, stage, id, from, asks) ==
    [Idle EXCEPT !.kind = kind, !.stage = stage, !.id = id, !.from = from, !.asks = asks, !.base = base]
Install(app) == [Idle EXCEPT !.kind = "install", !.stage = "placing", !.app = app]

Changing(kind) == {s \in Slots : requests[s].kind = kind}
Open == {s \in Slots : requests[s].stage \in {"checked", "writing", "undoing"}}
Quiet == \A s \in Slots : requests[s].kind = "none"

(* An app installed at a link's address, the agent not answering.          *)
Unasked(app) == app \in Asking /\ HostOf[app] \in HomeServiceHosts(template)

(* What a request decides about, next to one that is under way.            *)
Exclusive == {"uninstall", "refresh"}
WorkedOn(id) == \E s \in Slots : requests[s].kind \in Exclusive /\ requests[s].id = id
DisputedHosts(request) ==
    CASE request.kind = "install" /\ (Unasked(request.app) \/ Changing("save") \cup Changing("add") \cup Open # {})
           -> {HostOf[request.app]}
      [] request.kind \in {"save", "add"} -> {HostOf[requests[s].app] : s \in Changing("install")}
      [] OTHER -> {}
DisputedTiles(request) ==
    {request.id} \cap {requests[s].id : s \in UNION {Changing(kind) : kind \in
        CASE request.kind = "tile" -> {"uninstall"} [] request.kind = "uninstall" -> {"tile"} [] OTHER -> {}}}

(* The slots are alike: the first free one is taken.                       *)
FirstFree == {s \in Slots : requests[s].kind = "none" /\ \A other \in Slots :
                               requests[other].kind = "none" => s <= other}
Begins(slot, request) ==
    /\ slot \in FirstFree /\ count.requests < MaxRequests
    /\ requests' = [requests EXCEPT ![slot] = request]
    /\ count' = [count EXCEPT !.requests = @ + 1, !.edits = @ + (IF request.kind = "add" THEN 1 ELSE 0),
                              !.lost = @ + (IF request.kind = "install" /\ Unasked(request.app) THEN 1 ELSE 0)]
    /\ unsettled' = [tiles |-> unsettled.tiles \cup DisputedTiles(request),
                     hosts |-> unsettled.hosts \cup DisputedHosts(request)]
Moves(slot, stage) == requests' = [requests EXCEPT ![slot].stage = stage]
Ends(slot) == requests' = [requests EXCEPT ![slot] = Idle]

Init ==
    /\ template = {} /\ rows = <<>> /\ dropped = {} /\ crossed = FALSE /\ unsettled = [tiles |-> {}, hosts |-> {}]
    /\ base \in Bases
    /\ shown = ProjectServices({}, base)
    /\ routes = RenderCaddyRoutes({}, base)
    /\ tab = [content |-> {}, saved |-> {}]
    /\ requests = [s \in Slots |-> Idle]
    /\ count = [requests |-> 0, installs |-> 0, edits |-> 0, failures |-> 0, lost |-> 0, cuts |-> 0, moves |-> 0]

(* Installing asks the agent which addresses links are served at, and      *)
(* keeps off them; asking in vain stops nothing.  The app is recorded once *)
(* its package is in place.                                                *)
InstallPackage(slot, app) ==
    /\ count.installs < MaxInstalls
    /\ app \notin {rows[i].app : i \in DOMAIN rows} \cup {requests[s].app : s \in Slots}
    /\ Unasked(app) => count.lost < MaxLost
    /\ Begins(slot, Install(app))
    /\ UNCHANGED <<template, shown, routes, base, rows, tab, dropped, crossed>>

CompleteInstall(slot) ==
    LET id == count.installs + 1 IN
    /\ requests[slot].stage = "placing" /\ id <= MaxInstalls
    /\ rows' = [i \in DOMAIN rows \cup {id} |->
                  IF i = id THEN [app |-> requests[slot].app, applied |-> FALSE] ELSE rows[i]]
    /\ count' = [count EXCEPT !.installs = id]
    /\ Ends(slot)
    /\ UNCHANGED <<template, shown, routes, base, tab, dropped, crossed, unsettled>>

ChangeBase(b) ==
    /\ count.moves < MaxMoves /\ b # base
    /\ base' = b
    /\ count' = [count EXCEPT !.moves = @ + 1]
    /\ UNCHANGED <<template, shown, routes, rows, tab, requests, dropped, crossed, unsettled>>

-----------------------------------------------------------------------------
(* The Customize screen.  What was typed is kept until it is saved; adding *)
(* through the dialog or reloading replaces it by what the disk holds.     *)
TabBusy == \E s \in Changing("save") \cup Changing("add") : requests[s].heard

Load ==
    /\ ~ TabBusy
    /\ tab' = [content |-> template, saved |-> template]
    /\ tab' # tab
    /\ UNCHANGED <<template, shown, routes, base, rows, requests, dropped, crossed, unsettled, count>>

Type(content) ==
    /\ count.edits < MaxEdits
    /\ \/ \E e \in tab.content : content = tab.content \ {e}
       \/ \E s \in Subs : content = tab.content \cup {Service(s)}
    /\ content # tab.content
    /\ tab' = [tab EXCEPT !.content = content]
    /\ count' = [count EXCEPT !.edits = @ + 1]
    /\ UNCHANGED <<template, shown, routes, base, rows, requests, dropped, crossed, unsettled>>

SubdomainsFree(subs) == subs \cap AppRouteHosts = {}

Save(slot) ==
    /\ ~ TabBusy /\ tab.content # tab.saved
    /\ SubdomainsFree(HomeServiceHosts(tab.content))
    /\ Begins(slot, Request("save", "sent", 0, tab.saved, tab.content))
    /\ UNCHANGED <<template, shown, routes, base, rows, tab, dropped, crossed>>

AddHomeService(slot, sub) ==
    /\ ~ TabBusy /\ count.edits < MaxEdits
    /\ SubdomainsFree({sub})
    /\ ValidProxy(sub) /\ sub \notin HomeServiceHosts(template)              \* the preview's answer
    /\ Begins(slot, Request("add", "sent", 0, tab.saved, {Service(sub)}))
    /\ UNCHANGED <<template, shown, routes, base, rows, tab, dropped, crossed>>

-----------------------------------------------------------------------------
(* Suite Manager reads the template's revision before it asks for a tile,  *)
(* takes one off, or has every managed entry rebuilt on the new address.   *)
(* A removal and an update of one app wait for each other; adding its tile *)
(* waits for neither.                                                      *)
AddPackageToHomepage(slot, id) ==
    /\ Begins(slot, Request("tile", "sent", id, template, {Tile(id, base)}))
    /\ UNCHANGED <<template, shown, routes, base, rows, tab, dropped, crossed>>

(* Only a tile the note says is there is taken off.                        *)
UninstallPackage(slot, id) ==
    /\ ~ WorkedOn(id)
    /\ Begins(slot, Request("uninstall", IF rows[id].applied THEN "sent" ELSE "done", id, template, {}))
    /\ UNCHANGED <<template, shown, routes, base, rows, tab, dropped, crossed>>

Managed == {id \in DOMAIN rows : rows[id].applied}
ReconcileUrls(slot) ==
    /\ Begins(slot, Request("reconcile", "sent", 0, template, {Tile(id, base) : id \in Managed}))
    /\ UNCHANGED <<template, shown, routes, base, rows, tab, dropped, crossed>>

(* After an update the one tile is rebuilt as the new package has it.      *)
RefreshHomepageWidget(slot, id) ==
    /\ rows[id].applied /\ ~ WorkedOn(id)
    /\ Begins(slot, Request("refresh", "sent", id, template, {Tile(id, base)}))
    /\ UNCHANGED <<template, shown, routes, base, rows, tab, dropped, crossed>>

-----------------------------------------------------------------------------
(* The agent.  The change is refused when the template is no longer the    *)
(* one it was made from.                                                   *)
RemoveEntryById(content, id) == {e \in content : e.kind # "tile" \/ e.id # id}
ReconcileManagedUrls(content, entries) ==
    {e \in content : e.kind # "tile" \/ e.id \notin TilesIn(entries)}
        \cup {e \in entries : e.id \in TilesIn(content)}
AddEntry(content, entry) ==
    IF entry.kind = "tile" /\ entry.id \in TilesIn(content) THEN content ELSE content \cup {entry}

Mutation(request) ==
    CASE request.kind = "save"      -> request.asks
      [] request.kind = "uninstall" -> RemoveEntryById(request.from, request.id)
      [] request.kind \in {"reconcile", "refresh"} -> ReconcileManagedUrls(request.from, request.asks)
      [] OTHER                      -> AddEntry(request.from, CHOOSE e \in request.asks : TRUE)

SeenByAnyone(request) == TRUE
RevisionMatches(request) == template = request.from

(* Two links on one address are refused, by the dialog and by validation.  *)
Refused(request) ==
    \/ ~ RevisionMatches(request)
    \/ \E sub \in HomeServiceHosts(request.asks) : ~ ValidProxy(sub)
    \/ request.kind = "add" /\ request.asks \subseteq request.from

NothingToDo(request) == request.kind \notin {"reconcile", "refresh"} /\ Mutation(request) = template

(* Nothing keeps a second change out between this look and the write.      *)
AgentChecks(slot) ==
    LET request == requests[slot] IN
    /\ request.stage = "sent"
    /\ IF Refused(request) THEN Ends(slot) /\ UNCHANGED crossed
       ELSE /\ requests' = [s \in Slots |->
                 IF s # slot THEN [requests[s] EXCEPT !.met = @ \/ s \in Open]
                 ELSE [request EXCEPT !.to = Mutation(request), !.met = Open # {},
                                      !.stage = IF NothingToDo(request) THEN "done" ELSE "checked"]]
            /\ crossed' = (crossed \/ Open # {})
    /\ UNCHANGED <<template, shown, routes, base, rows, tab, dropped, unsettled, count>>

(* The files as they are now are set aside, those that change are written  *)
(* one after another.                                                      *)
Made(request) == [template |-> request.to, shown |-> ProjectServices(request.to, request.base),
                  routes |-> RenderCaddyRoutes(request.to, request.base)]
Changed(before, after) == {file \in DOMAIN before : before[file] # after[file]}

AgentStages(slot) ==
    LET request == requests[slot] IN
    /\ request.stage = "checked"
    /\ requests' = [requests EXCEPT ![slot].stage = "writing", ![slot].before = Files,
                                    ![slot].left = Changed(Files, Made(request))]
    /\ UNCHANGED <<template, shown, routes, base, rows, tab, dropped, crossed, unsettled, count>>

FirstOf(files) == IF "template" \in files THEN "template" ELSE IF "shown" \in files THEN "shown" ELSE "routes"
Put(file, content) ==
    /\ template' = IF file = "template" THEN content[file] ELSE template
    /\ shown' = IF file = "shown" THEN content[file] ELSE shown
    /\ routes' = IF file = "routes" THEN content[file] ELSE routes

AgentWrites(slot) ==
    LET file == FirstOf(requests[slot].left) IN
    /\ requests[slot].stage = "writing" /\ requests[slot].left # {}
    /\ Put(file, Made(requests[slot]))
    /\ requests' = [requests EXCEPT ![slot].left = @ \ {file}]
    /\ UNCHANGED <<base, rows, tab, dropped, crossed, unsettled, count>>

TakenOff(request) == TilesIn(request.from) \ TilesIn(request.to)

AgentFinishes(slot) ==
    /\ requests[slot].stage = "writing" /\ requests[slot].left = {}
    /\ IF requests[slot].heard THEN Moves(slot, "done") ELSE Ends(slot)
    /\ dropped' = dropped \cup TakenOff(requests[slot])
    /\ UNCHANGED <<template, shown, routes, base, rows, tab, crossed, unsettled, count>>

(* Only the files this transaction changes are put back, one after another *)
(* again; one that cannot be is left, and nobody hears of it.              *)
PutsBackTemplate(request) == {"template"}
PutsBack(request) == Changed(request.before, Made(request))

AgentFails(slot) ==
    /\ requests[slot].stage = "writing" /\ count.failures < MaxFailures
    /\ requests' = [requests EXCEPT ![slot].stage = "undoing", ![slot].left = PutsBack(requests[slot])]
    /\ count' = [count EXCEPT !.failures = @ + 1]
    /\ UNCHANGED <<template, shown, routes, base, rows, tab, dropped, crossed, unsettled>>

AgentPutsBack(slot) ==
    LET file == FirstOf(requests[slot].left) IN
    /\ requests[slot].stage = "undoing" /\ requests[slot].left # {}
    /\ requests' = [requests EXCEPT ![slot].left = @ \ {file}]
    /\ \/ Put(file, requests[slot].before) /\ UNCHANGED <<dropped, count>>
       \/ /\ count.cuts < MaxCuts
          /\ count' = [count EXCEPT !.cuts = @ + 1]
          /\ dropped' = dropped \cup TakenOff(requests[slot])
          /\ UNCHANGED <<template, shown, routes>>
    /\ UNCHANGED <<base, rows, tab, crossed, unsettled>>

AgentRefuses(slot) ==
    /\ requests[slot].stage = "undoing" /\ requests[slot].left = {}
    /\ Ends(slot)
    /\ UNCHANGED <<template, shown, routes, base, rows, tab, dropped, crossed, unsettled, count>>

(* Killed while it writes; nothing resumes what it was at.                 *)
AgentDies ==
    /\ Open # {} /\ count.cuts < MaxCuts
    /\ requests' = [s \in Slots |-> IF s \in Open THEN Idle ELSE requests[s]]
    /\ dropped' = dropped \cup UNION {TakenOff(requests[s]) : s \in Open}
    /\ count' = [count EXCEPT !.cuts = @ + 1]
    /\ UNCHANGED <<template, shown, routes, base, rows, tab, crossed, unsettled>>

-----------------------------------------------------------------------------
(* Suite Manager hears nothing for long enough, or restarts: what it was   *)
(* about to record is not recorded.                                        *)
AnswerIsLost(slot) ==
    LET request == requests[slot] IN
    /\ slot \in Open \/ request.stage \in {"done", "placing"}
    /\ request.heard /\ count.lost < MaxLost
    /\ IF slot \in Open THEN requests' = [requests EXCEPT ![slot].heard = FALSE] ELSE Ends(slot)
    /\ count' = [count EXCEPT !.lost = @ + 1]
    /\ UNCHANGED <<template, shown, routes, base, rows, tab, dropped, crossed, unsettled>>

Without(id) == [i \in DOMAIN rows \ {id} |-> rows[i]]

(* The tile is noted once it is there; the app's row goes after its tile,  *)
(* unless removing its containers fails.                                   *)
Records(request) ==
    CASE request.kind = "tile"      -> /\ rows' = IF request.id \in DOMAIN rows
                                                  THEN [rows EXCEPT ![request.id].applied = TRUE] ELSE rows
                                       /\ UNCHANGED tab
      [] request.kind = "uninstall" -> rows' = Without(request.id) /\ UNCHANGED tab
      [] request.kind = "save"      -> tab' = [tab EXCEPT !.saved = request.to] /\ UNCHANGED rows
      [] request.kind = "add"       -> tab' = [content |-> template, saved |-> template] /\ UNCHANGED rows
      [] OTHER                      -> UNCHANGED <<rows, tab>>

IsRecorded(slot) ==
    /\ requests[slot].stage = "done"
    /\ Records(requests[slot])
    /\ Ends(slot)
    /\ UNCHANGED <<template, shown, routes, base, dropped, crossed, unsettled, count>>

RemovalFails(slot) ==
    /\ requests[slot].kind = "uninstall" /\ requests[slot].stage = "done"
    /\ count.failures < MaxFailures
    /\ Ends(slot)
    /\ count' = [count EXCEPT !.failures = @ + 1]
    /\ UNCHANGED <<template, shown, routes, base, rows, tab, dropped, crossed, unsettled>>

Next ==
    \/ \E b \in Bases : ChangeBase(b)
    \/ Load
    \/ \E content \in {tab.content \ {e} : e \in tab.content}
                        \cup {tab.content \cup {Service(s)} : s \in Subs} : Type(content)
    \/ AgentDies
    \/ \E slot \in Slots :
         \/ \E app \in Apps : InstallPackage(slot, app)
         \/ CompleteInstall(slot)
         \/ Save(slot)
         \/ \E sub \in Subs : AddHomeService(slot, sub)
         \/ \E id \in DOMAIN rows : \/ AddPackageToHomepage(slot, id)
                                    \/ UninstallPackage(slot, id)
                                    \/ RefreshHomepageWidget(slot, id)
         \/ ReconcileUrls(slot)
         \/ AgentChecks(slot) \/ AgentStages(slot) \/ AgentWrites(slot) \/ AgentFinishes(slot)
         \/ AgentFails(slot) \/ AgentPutsBack(slot) \/ AgentRefuses(slot)
         \/ AnswerIsLost(slot) \/ IsRecorded(slot) \/ RemovalFails(slot)

Spec == Init /\ [][Next]_homepageVars

-----------------------------------------------------------------------------
(* A tile stands for an app that is there: nobody's edit of an older       *)
(* dashboard brings one back, and an uninstall leaves none behind, unless  *)
(* its tile was being added meanwhile, or two changes were open at once.   *)
TilesAreInstalled ==
    (Quiet /\ count.lost = 0 /\ count.cuts = 0 /\ ~ crossed)
        => TilesIn(template) \subseteq DOMAIN rows \cup unsettled.tiles

(* The shortcut goes with the app, whatever else happened to it.           *)
ShortcutGoesWithTheApp == Quiet => TilesIn(template) \subseteq DOMAIN rows

(* What is noted as on the dashboard is there, whoever wrote it since,     *)
(* unless the owner took it off, an uninstall that stopped half way did,   *)
(* or two changes were open at once.                                       *)
NotedTilesAreThere ==
    (Quiet /\ ~ crossed) => \A id \in Managed : id \in TilesIn(template) \cup dropped

(* No link is served at the address of an app whose install asks, which of *)
(* the two came first notwithstanding, unless the link was being changed   *)
(* while the app was being installed, or the install asked in vain.        *)
AddressesAreDistinct ==
    Quiet => /\ HomeServiceHosts(template) \cap Reserved = {}
             /\ \A id \in DOMAIN rows :
                  rows[id].app \in Asking =>
                    HostOf[rows[id].app] \notin HomeServiceHosts(template) \ unsettled.hosts

(* Between transactions the page and the routes are those of the template, *)
(* built for one address, after one that was rolled back too, as long as   *)
(* no two were open at once and none was left half way.                    *)
DashboardFollows ==
    (Open = {} /\ count.cuts = 0 /\ ~ crossed) =>
        \E b \in Bases : /\ shown = ProjectServices(template, b)
                         /\ routes = RenderCaddyRoutes(template, b)

HomepageIsSound == TilesAreInstalled /\ NotedTilesAreThere /\ AddressesAreDistinct /\ DashboardFollows

(* Rebuilding for an address, alone, leaves the page, the routes and the   *)
(* tiles it was asked for on it, whatever an earlier one left half written *)
(* or two at once wrote over each other.                                   *)
Rebuilds ==
    \A slot \in Slots :
       LET request == requests[slot] IN
       (request.kind = "reconcile" /\ request.stage # "done" /\ requests'[slot].stage = "done" /\ ~ request.met)
         => /\ shown = ProjectServices(template, request.base)
            /\ routes = RenderCaddyRoutes(template, request.base)
            /\ \A e \in request.asks : e.id \in TilesIn(template) => e \in template
ReconcileHeals == [][Rebuilds]_homepageVars

(* An accepted change is still there, or was taken back knowingly: what a  *)
(* transaction replaces is the content it was made from, and what it takes *)
(* back is its own, unless another was open before this one closed.        *)
LosesNoChange ==
    \A slot \in Slots :
      LET request == requests[slot] IN
      ("template" \in request.left /\ template' # template /\ ~ request.met)
        => template = IF request.stage = "writing" THEN request.from ELSE request.to
NobodysChangeIsLost == [][LosesNoChange]_homepageVars
=============================================================================
