------------------------------ MODULE Sources ------------------------------
(***************************************************************************)
(* One package source the owner adds: its row, the cached list of what it  *)
(* publishes, and the requests that wait on the git host between reading   *)
(* the one and writing the other.                                          *)
(***************************************************************************)
EXTENDS Naturals, FiniteSets

CONSTANTS
  Requests,      \* slots for requests in flight, strings
  MaxCommits,    \* bound: commits the source ever has
  MaxRequests,   \* bound: requests begun
  MaxFailures,   \* bound: requests to the git host that fail
  MaxDecisions   \* bound: the owner's removals and changes of status

VARIABLES
  head,       \* the source's newest commit
  row,        \* app_sources: the source's row
  listed,     \* external-app-sources.json: the cached list
  sweeping,   \* the slot of the sweep in flight, or Nobody
  req,        \* per slot: the request
  installed,  \* the commits apps were installed from
  astray,     \* history: an app was installed while its source was not active
  did         \* how much of each bound is used

sourceVars == <<head, row, listed, sweeping, req, installed, astray, did>>

None     == 0
Nobody   == "nobody"
NoRow    == [status |-> "none", revision |-> None]
Active   == row.status = "active"
NoList   == [revision |-> None, failures |-> 0, due |-> TRUE, known |-> FALSE]
Resting  == [kind |-> "none", pc |-> "done", seen |-> NoRow, commit |-> None]
Busy(r)  == req[r].pc # "done"
At(r, pc) == req[r].pc = pc
Goes(r, pc) == req' = [req EXCEPT ![r].pc = pc]
Ends(r)  == /\ req' = [req EXCEPT ![r] = Resting]
            /\ sweeping' = IF sweeping = r THEN Nobody ELSE sweeping
Did(what) == did' = [did EXCEPT ![what] = @ + 1]
Fails    == did.fail < MaxFailures /\ Did("fail")
Statuses == {"active", "unavailable", "compromised", "removed"}

SourcesTypeOK ==
  /\ row.status \in Statuses \cup {"none"} /\ row.revision \in 0..MaxCommits
  /\ listed.revision \in 0..MaxCommits /\ listed.failures \in 0..MaxFailures
  /\ sweeping \in Requests \cup {Nobody} /\ installed \subseteq 1..MaxCommits

SourcesInit ==
  /\ head = 1 /\ row = NoRow /\ listed = NoList /\ sweeping = Nobody
  /\ req = [r \in Requests |-> Resting] /\ installed = {} /\ astray = FALSE
  /\ did = [request |-> 0, fail |-> 0, decision |-> 0]

Commit ==
  /\ head < MaxCommits /\ head' = head + 1
  /\ UNCHANGED <<row, listed, sweeping, req, installed, astray, did>>

\* The check interval, or the back-off after a failure, has passed.
TimePasses ==
  /\ listed.known /\ ~listed.due /\ listed' = [listed EXCEPT !.due = TRUE]
  /\ UNCHANGED <<head, row, sweeping, req, installed, astray, did>>

(***************************************************************************)
(* The owner's decisions, answered in one step.                            *)
(***************************************************************************)
Decides == did.decision < MaxDecisions /\ Did("decision")

\* Compromise and removal are terminal.
Transitions == [active |-> {"unavailable", "compromised"},
                unavailable |-> {"active", "compromised"},
                compromised |-> {}, removed |-> {}, none |-> {}]
SetStatus(status) ==
  /\ status \in Transitions[row.status] /\ Decides /\ row' = [row EXCEPT !.status = status]
  /\ UNCHANGED <<head, listed, sweeping, req, installed, astray>>

RemoveSource ==
  /\ row.status \notin {"none", "removed"} /\ Decides
  /\ row' = [row EXCEPT !.status = "removed"] /\ listed' = NoList
  /\ UNCHANGED <<head, sweeping, req, installed, astray>>

(***************************************************************************)
(* Requests begin.  A source added or installed from again after its       *)
(* removal loses its old row and list first.                               *)
(***************************************************************************)
Begins(r, kind, pc) ==
  /\ ~Busy(r) /\ did.request < MaxRequests /\ Did("request")
  /\ req' = [req EXCEPT ![r] = [kind |-> kind, pc |-> pc, seen |-> row, commit |-> None]]
  /\ UNCHANGED <<head, installed, astray>>
Released == /\ row' = IF row.status = "removed" THEN NoRow ELSE row
            /\ listed' = IF row.status = "removed" THEN NoList ELSE listed

AddSource(r) ==
  /\ row.status \in {"none", "removed"} /\ Begins(r, "add", "resolve") /\ Released
  /\ UNCHANGED sweeping
InstallUrl(r) ==
  /\ row.status \in {"none", "removed", "active"} /\ Begins(r, "install", "resolve") /\ Released
  /\ UNCHANGED sweeping
\* The owner's own refresh waits for neither the interval nor the back-off.
RefreshSource(r) ==
  /\ Active /\ Begins(r, "refresh", "resolve") /\ UNCHANGED <<row, listed, sweeping>>
Sweep(r) ==
  /\ Active /\ listed.due /\ sweeping = Nobody /\ Begins(r, "refresh", "resolve")
  /\ sweeping' = r /\ UNCHANGED <<row, listed>>

(***************************************************************************)
(* The git host is asked which commit the source is at.                    *)
(***************************************************************************)
\* markFailed: the list is kept, whatever has become of the source.
MarkedFailed == [listed EXCEPT !.failures = @ + 1, !.due = FALSE, !.known = TRUE]

Resolves(r) ==
  /\ At(r, "resolve")
  /\ \/ /\ req' = [req EXCEPT ![r].commit = head, ![r].pc =
                     CASE req[r].kind = "add" -> "insert"
                       [] req[r].kind = "install" -> "download"
                       [] OTHER -> "note"]
        /\ UNCHANGED <<listed, sweeping, did>>
     \/ /\ Fails /\ Ends(r)
        /\ listed' = IF req[r].kind = "refresh" THEN MarkedFailed ELSE listed
  /\ UNCHANGED <<head, row, installed, astray>>

\* A second add of the same source meets its row.
Inserts(r) ==
  /\ At(r, "insert")
  /\ \/ /\ row = NoRow /\ row' = [status |-> "active", revision |-> req[r].commit]
        /\ req' = [req EXCEPT ![r].kind = "refresh", ![r].pc = "resolve",
                              ![r].seen = [status |-> "active", revision |-> req[r].commit]]
        /\ UNCHANGED sweeping
     \/ row # NoRow /\ UNCHANGED row /\ Ends(r)
  /\ UNCHANGED <<head, listed, installed, astray, did>>

(***************************************************************************)
(* A refresh: the row's commit is noted against the row it read, and the   *)
(* archive is downloaded unless the list is of that commit; a list of no   *)
(* packages is downloaded again, and packages are not counted here.        *)
(***************************************************************************)
Noted(r) == IF row # NoRow /\ req[r].commit # req[r].seen.revision
            THEN [row EXCEPT !.revision = req[r].commit] ELSE row
NotesByRow(r) ==   \* mutant: an unchanged row stands for an unchanged list
  /\ At(r, "note") /\ row' = Noted(r)
  /\ IF req[r].commit = req[r].seen.revision /\ listed.known
     THEN /\ listed' = [listed EXCEPT !.failures = 0, !.due = FALSE] /\ Ends(r)
     ELSE Goes(r, "list") /\ UNCHANGED <<listed, sweeping>>
  /\ UNCHANGED <<head, installed, astray, did>>
Notes(r) ==
  /\ At(r, "note") /\ row' = Noted(r)
  /\ \/ /\ req[r].commit = listed.revision /\ Ends(r)
        /\ listed' = [listed EXCEPT !.failures = 0, !.due = FALSE]
     \/ Goes(r, "list") /\ UNCHANGED <<listed, sweeping>>
  /\ UNCHANGED <<head, installed, astray, did>>

Lists(r) ==
  /\ At(r, "list") /\ Ends(r)
  /\ \/ /\ listed' = [revision |-> req[r].commit, failures |-> 0, due |-> FALSE, known |-> TRUE]
        /\ UNCHANGED did
     \/ Fails /\ listed' = MarkedFailed
  /\ UNCHANGED <<head, row, installed, astray>>

(***************************************************************************)
(* An install: the package is downloaded, validated, and handed on.        *)
(***************************************************************************)
Downloads(r) ==
  /\ At(r, "download")
  /\ \/ Goes(r, "register") /\ UNCHANGED <<sweeping, did>>
     \/ Fails /\ Ends(r)
  /\ UNCHANGED <<head, row, listed, installed, astray>>

\* The row is written by what the request saw of it before the download.
Registers(r) ==
  /\ At(r, "register")
  /\ \/ /\ req[r].seen.status \in {"none", "removed"} /\ row = NoRow
        /\ row' = [status |-> "active", revision |-> req[r].commit]
        /\ Goes(r, "install") /\ UNCHANGED sweeping
     \/ /\ req[r].seen.status \in {"none", "removed"} /\ row # NoRow
        /\ Ends(r) /\ UNCHANGED row
     \/ /\ req[r].seen.status = "active"
        /\ row' = IF row = NoRow THEN row ELSE [row EXCEPT !.revision = req[r].commit]
        /\ Goes(r, "install") /\ UNCHANGED sweeping
  /\ UNCHANGED <<head, listed, installed, astray, did>>

Installs(r) ==
  /\ At(r, "install") /\ Ends(r)
  /\ installed' = installed \cup {req[r].commit}
  /\ astray' = (astray \/ ~Active)
  /\ UNCHANGED <<head, row, listed, did>>

SourcesNext ==
  \/ Commit \/ TimePasses \/ RemoveSource
  \/ \E s \in Statuses : SetStatus(s)
  \/ \E r \in Requests :
       \/ AddSource(r) \/ InstallUrl(r) \/ RefreshSource(r) \/ Sweep(r)
       \/ Resolves(r) \/ Inserts(r) \/ Notes(r) \/ Lists(r)
       \/ Downloads(r) \/ Registers(r) \/ Installs(r)

SourcesSpec == SourcesInit /\ [][SourcesNext]_sourceVars

(***************************************************************************)
(* Properties.                                                             *)
(***************************************************************************)
\* A check that ends well leaves the list of the very commit it resolved:
\* however downloads failed before it and whichever other checks overlap it,
\* "unchanged" is never said of a list of another commit
\* (external-source-service.cjs refreshSource).
CheckedIsListed == [][
  \A r \in Requests :
    req[r].pc \in {"note", "list"} /\ ~Busy(r)' /\ listed'.failures = 0
      => listed'.revision = req[r].commit]_sourceVars

\* Apps are only installed from a source that is active when they are
\* (external-source-registry.cjs: "New installs are only allowed from an active
\* source. Every other status ... blocks new installs").
InstallsFromActiveSources == ~astray
=============================================================================
