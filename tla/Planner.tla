------------------------------- MODULE Planner -------------------------------
(***************************************************************************)
(* The roadmap planner of the site: a library of roadmaps kept in one      *)
(* entry of the browser's storage, opened by one or several tabs.  A tab   *)
(* holds the library and an undo history of the open roadmap, and writes   *)
(* an edit back by a timer that captured what was on screen.  What the     *)
(* owner clicks is on screen at once; what a finished fetch changes is     *)
(* queued until the next rendering, and the timer may fire before it.      *)
(* A document is a version number and whether its artwork is embedded.     *)
(***************************************************************************)
EXTENDS Naturals, FiniteSets, SequencesExt

CONSTANTS
    Tabs,
    Nothing,      \* the storage entry before the first write
    MaxProjects,  \* MAX_PROJECTS
    MaxPast,      \* undo steps kept
    MaxEdits,     \* bound: edits, each a new version
    MaxIds,       \* bound: roadmaps ever created
    MaxRefusals,  \* bound: writes the browser refuses
    MaxOpens,     \* bound: tabs opened
    Reopens       \* whether the owner picks the roadmap that is open already

VARIABLES
    storage,    \* Nothing, or the library as last written
    tab,        \* per tab: what it holds, see OpenedTab
    truth,      \* ghost: per roadmap the version its owner last saw
    count       \* [edits, ids, refusals, opens]

plannerVars == <<storage, tab, truth, count>>

Starter == [v |-> 0, art |-> FALSE]
Closed == [open |-> FALSE]

Project(id, doc, example) == [id |-> id, doc |-> doc, example |-> example]

Ids(library) == {library.projects[i].id : i \in DOMAIN library.projects}
Find(library, id) == library.projects[CHOOSE i \in DOMAIN library.projects :
                                        library.projects[i].id = id]
ActiveProject(library) == Find(library, library.active)
Full(library) == Len(library.projects) >= MaxProjects

-----------------------------------------------------------------------------
(* The library's own operations.                                           *)

WithActiveDoc(library, doc) ==
    [library EXCEPT !.projects =
       [i \in DOMAIN @ |-> IF @[i].id = library.active THEN [@[i] EXCEPT !.doc = doc]
                                                        ELSE @[i]]]

AddProject(library, project) ==
    IF Full(library) THEN library
    ELSE [active |-> project.id, projects |-> Append(library.projects, project)]

(* The neighbour that takes the place is opened in its stead. *)
RemoveProject(library, id) ==
    LET at == CHOOSE i \in DOMAIN library.projects : library.projects[i].id = id
        rest == RemoveAt(library.projects, at)
        near == rest[IF at <= Len(rest) THEN at ELSE Len(rest)]
    IN [active |-> IF library.active = id THEN near.id ELSE library.active,
        projects |-> rest]

(* Naming the example claims it as a roadmap of the owner's own. *)
Claim(library, id) ==
    [library EXCEPT !.projects =
       [i \in DOMAIN @ |-> IF @[i].id = id THEN [@[i] EXCEPT !.example = FALSE] ELSE @[i]]]

(* What a tab reads at its start: the example is rebuilt as it ships, and  *)
(* put first again where there is none.                                    *)
Rebuilt(project) == IF project.example THEN [project EXCEPT !.doc = Starter] ELSE project

LoadLibrary(id) ==
    IF storage = Nothing
    THEN [active |-> id, projects |-> <<Project(id, Starter, TRUE)>>]
    ELSE LET kept == [i \in DOMAIN storage.projects |-> Rebuilt(storage.projects[i])] IN
         [active |-> storage.active,
          projects |-> IF \E i \in DOMAIN kept : kept[i].example THEN kept
                       ELSE <<Project(id, Starter, TRUE)>> \o kept]

-----------------------------------------------------------------------------
(* A tab.  ref is what the handlers read, library and present what is      *)
(* queued, seen what is on screen; a change of the document or of the open *)
(* roadmap on screen starts the timer over.                                *)
OpenedTab(library) ==
    [open |-> TRUE, ref |-> library, library |-> library,
     past |-> <<>>, present |-> ActiveProject(library).doc, future |-> <<>>,
     seen |-> [library |-> library, doc |-> ActiveProject(library).doc],
     timer |-> [on |-> TRUE, active |-> library.active, doc |-> ActiveProject(library).doc],
     says |-> "saved"]

OnScreen(t) == t.seen.library = t.library /\ t.seen.doc = t.present

Rendered(t) ==
    LET same == t.seen.doc = t.present /\ t.seen.library.active = t.library.active IN
    [t EXCEPT !.ref = t.library, !.seen = [library |-> t.library, doc |-> t.present],
              !.timer = IF same THEN @
                        ELSE [on |-> TRUE, active |-> t.library.active, doc |-> t.present]]

(* The browser may refuse the write: storage is blocked, or full. *)
SaveLibrary(ok, library, c) ==
    /\ ~ok => count.refusals < MaxRefusals
    /\ storage' = IF ok THEN library ELSE storage
    /\ count' = [c EXCEPT !.refusals = IF ok THEN @ ELSE @ + 1]

Published(ok, t, library) ==
    [tab[t] EXCEPT !.ref = library, !.library = library,
                   !.says = IF ok THEN @ ELSE "unsaved"]

(* The roadmap shown anew: a clean history, and it says it is saved. *)
Shown(t, doc) ==
    Rendered([t EXCEPT !.past = <<>>, !.present = doc, !.future = <<>>, !.says = "saved"])

-----------------------------------------------------------------------------
(* Opening and closing.                                                    *)
OpenTab(t) ==
    /\ ~tab[t].open /\ count.opens < MaxOpens /\ count.ids < MaxIds
    /\ LET library == LoadLibrary(count.ids + 1) IN
       /\ tab' = [tab EXCEPT ![t] = OpenedTab(library)]
       /\ truth' = [id \in Ids(library) |->
                      IF Find(library, id).example THEN 0
                      ELSE IF id \in DOMAIN truth THEN truth[id] ELSE Find(library, id).doc.v]
    /\ count' = [count EXCEPT !.opens = @ + 1, !.ids = @ + 1]
    /\ UNCHANGED storage

(* A shared link opens as a roadmap of its own; a full library says so.    *)
OpenShared(t) ==
    /\ ~tab[t].open /\ count.opens < MaxOpens /\ count.ids + 1 < MaxIds
    /\ count.edits < MaxEdits
    /\ LET own == LoadLibrary(count.ids + 1)
           plan == Project(count.ids + 2, [v |-> count.edits + 1, art |-> FALSE],
                           FALSE)
           library == AddProject(own, plan)
       IN
       /\ tab' = [tab EXCEPT ![t] = OpenedTab(library)]
       /\ truth' = [id \in Ids(library) |->
                      IF id \in DOMAIN truth THEN truth[id] ELSE Find(library, id).doc.v]
    /\ count' = [count EXCEPT !.opens = @ + 1, !.ids = @ + 2, !.edits = @ + 1]
    /\ UNCHANGED storage

(* What the timer had not written by then goes with the tab. *)
CloseTab(t) ==
    /\ tab[t].open
    /\ tab' = [tab EXCEPT ![t] = Closed]
    /\ truth' = IF \E o \in Tabs \ {t} : tab[o].open THEN truth
                ELSE IF storage = Nothing THEN <<>>
                ELSE [id \in Ids(storage) |-> Find(storage, id).doc.v]
    /\ UNCHANGED <<storage, count>>

-----------------------------------------------------------------------------
LastOf(steps) == IF Len(steps) > MaxPast THEN Tail(steps) ELSE steps

(* Editing.  The first edit of the example lands in a copy of it.          *)
Known(id, v) == [i \in DOMAIN truth \cup {id} |-> IF i = id THEN v ELSE truth[i]]

ForksNever(open) == FALSE
ForksExample(open) == open.example

Drawn(shown, t) == IF shown THEN Rendered(t) ELSE t

Edited == [count EXCEPT !.edits = @ + 1]

CommitToCopy(ok, t, shown) ==
    LET doc == [tab[t].seen.doc EXCEPT !.v = count.edits + 1]
        copy == Project(count.ids + 1, doc, FALSE)
        library == AddProject(tab[t].ref, copy)
    IN
    /\ ForksExample(ActiveProject(tab[t].ref))
    /\ ~Full(tab[t].ref) /\ count.ids < MaxIds /\ count.edits < MaxEdits
    /\ SaveLibrary(ok, library, [Edited EXCEPT !.ids = @ + 1])
    /\ tab' = [tab EXCEPT ![t] = Drawn(shown,
                 [Published(ok, t, library) EXCEPT !.past = <<tab[t].seen.doc>>,
                    !.present = doc, !.future = <<>>, !.says = IF ok THEN "saving" ELSE @])]
    /\ truth' = Known(copy.id, doc.v)

CommitInPlace(t, shown) ==
    LET open == ActiveProject(tab[t].ref) IN
    /\ ~ForksExample(open) /\ count.edits < MaxEdits
    /\ tab' = [tab EXCEPT ![t] = Drawn(shown,
                 [@ EXCEPT !.past = LastOf(Append(@, tab[t].present)),
                           !.present = [@ EXCEPT !.v = count.edits + 1],
                           !.future = <<>>, !.says = "saving"])]
    /\ truth' = Known(open.id, count.edits + 1)
    /\ count' = Edited
    /\ UNCHANGED storage

(* An edit of the owner's is drawn at once; an icon whose artwork was      *)
(* fetched first is drawn with the next rendering.                         *)
Commit(t, shown) ==
    /\ tab[t].open /\ (shown => OnScreen(tab[t]))
    /\ CommitInPlace(t, shown) \/ \E ok \in BOOLEAN : CommitToCopy(ok, t, shown)

Undo(t) ==
    /\ tab[t].open /\ OnScreen(tab[t]) /\ tab[t].past # <<>>
    /\ tab' = [tab EXCEPT ![t] = Rendered(
                 [@ EXCEPT !.past = Front(@), !.present = Last(tab[t].past),
                           !.future = <<tab[t].present>> \o @, !.says = "saving"])]
    /\ truth' = Known(tab[t].library.active, Last(tab[t].past).v)
    /\ UNCHANGED <<storage, count>>

Redo(t) ==
    /\ tab[t].open /\ OnScreen(tab[t]) /\ tab[t].future # <<>>
    /\ tab' = [tab EXCEPT ![t] = Rendered(
                 [@ EXCEPT !.past = Append(@, tab[t].present),
                           !.present = Head(tab[t].future),
                           !.future = Tail(@), !.says = "saving"])]
    /\ truth' = Known(tab[t].library.active, Head(tab[t].future).v)
    /\ UNCHANGED <<storage, count>>

(* Artwork that was fetched goes into the latest document, past the undo   *)
(* history, unless another document is on screen since.                    *)
Hydrate(t) ==
    /\ tab[t].open /\ ~tab[t].seen.doc.art /\ ~tab[t].present.art
    /\ tab' = [tab EXCEPT ![t] = [@ EXCEPT !.present.art = TRUE]]
    /\ UNCHANGED <<storage, truth, count>>

Render(t) ==
    /\ tab[t].open /\ ~OnScreen(tab[t])
    /\ tab' = [tab EXCEPT ![t] = Rendered(@)]
    /\ UNCHANGED <<storage, truth, count>>

(* The timer writes the document it captured, unless another roadmap was   *)
(* opened since.                                                           *)
Autosave(ok, t) ==
    LET next == WithActiveDoc(tab[t].ref, tab[t].timer.doc)
        off == [tab[t] EXCEPT !.timer.on = FALSE]
    IN
    /\ tab[t].open /\ tab[t].timer.on
    /\ \/ /\ tab[t].ref.active # tab[t].timer.active
          /\ ok
          /\ tab' = [tab EXCEPT ![t] = off]
          /\ UNCHANGED <<storage, count>>
       \/ /\ tab[t].ref.active = tab[t].timer.active
          /\ SaveLibrary(ok, next, count)
          /\ tab' = [tab EXCEPT ![t] = Rendered(
                       [off EXCEPT !.ref = next, !.library = next,
                                   !.says = IF ok THEN "saved" ELSE "unsaved"])]
    /\ UNCHANGED truth

-----------------------------------------------------------------------------
(* Switching roadmaps.  The open document is written back first.           *)
OpenProject(ok, t, id) ==
    LET saved == WithActiveDoc(tab[t].library, tab[t].present)
        library == [saved EXCEPT !.active = id]
    IN
    /\ tab[t].open /\ OnScreen(tab[t]) /\ id \in Ids(tab[t].library)
    /\ Reopens \/ id # tab[t].library.active
    /\ SaveLibrary(ok, library, count)
    /\ tab' = [tab EXCEPT ![t] = Shown(Published(ok, t, library), Find(saved, id).doc)]
    /\ UNCHANGED truth

(* A template, a copy of the open roadmap or a file, as a new roadmap. *)
StartProject(ok, t) ==
    LET saved == WithActiveDoc(tab[t].library, tab[t].present) IN
    /\ tab[t].open /\ OnScreen(tab[t]) /\ ~Full(saved) /\ count.ids < MaxIds
    /\ \E doc \in {Starter, tab[t].present} :
         LET library == AddProject(saved, Project(count.ids + 1, doc, FALSE)) IN
         /\ SaveLibrary(ok, library, [count EXCEPT !.ids = @ + 1])
         /\ tab' = [tab EXCEPT ![t] = Shown(Published(ok, t, library), doc)]
         /\ truth' = Known(count.ids + 1, doc.v)

(* The example is always kept, and so is the only roadmap. *)
DeleteProject(ok, t) ==
    LET id == tab[t].library.active
        next == RemoveProject(tab[t].library, id)
    IN
    /\ tab[t].open /\ OnScreen(tab[t])
    /\ Len(tab[t].library.projects) >= 2 /\ ~ActiveProject(tab[t].library).example
    /\ SaveLibrary(ok, next, count)
    /\ tab' = [tab EXCEPT ![t] = Rendered(
                 [Published(ok, t, next) EXCEPT !.past = <<>>, !.future = <<>>,
                    !.present = ActiveProject(next).doc])]
    /\ truth' = [i \in DOMAIN truth \ {id} |-> truth[i]]

RenameProject(ok, t) ==
    LET library == Claim(tab[t].library, tab[t].library.active) IN
    /\ tab[t].open /\ OnScreen(tab[t])
    /\ SaveLibrary(ok, library, count)
    /\ tab' = [tab EXCEPT ![t] = Rendered(Published(ok, t, library))]
    /\ UNCHANGED truth

-----------------------------------------------------------------------------
PlannerInit ==
    /\ storage = Nothing /\ truth = <<>>
    /\ tab = [t \in Tabs |-> Closed]
    /\ count = [edits |-> 0, ids |-> 0, refusals |-> 0, opens |-> 0]

PlannerNext ==
    \E t \in Tabs :
      \/ OpenTab(t) \/ OpenShared(t) \/ CloseTab(t)
      \/ \E shown \in BOOLEAN : Commit(t, shown)
      \/ Undo(t) \/ Redo(t) \/ Hydrate(t) \/ Render(t)
      \/ \E ok \in BOOLEAN :
           \/ Autosave(ok, t) \/ StartProject(ok, t)
           \/ DeleteProject(ok, t) \/ RenameProject(ok, t)
      \/ \E ok \in BOOLEAN, id \in 1..MaxIds : OpenProject(ok, t, id)

PlannerSpec == PlannerInit /\ [][PlannerNext]_plannerVars

-----------------------------------------------------------------------------
(* However edits, undo, fetched artwork, the timer and switching between   *)
(* roadmaps interleave, every roadmap in a tab shows what its owner last   *)
(* saw of it: a pending save never spills into its neighbour and a switch  *)
(* never drops an edit (page.tsx:326-345).                                 *)
WorkIsKept ==
    \A t \in Tabs : tab[t].open =>
      /\ Ids(tab[t].library) = DOMAIN truth
      /\ \A id \in DOMAIN truth :
           truth[id] = IF id = tab[t].library.active THEN tab[t].present.v
                       ELSE Find(tab[t].library, id).doc.v

(* The example stays exactly as it ships for anyone who goes back to it:   *)
(* an edit, also one whose fetch ends later, lands in a copy.              *)
ExampleIsPristine ==
    \A t \in Tabs : tab[t].open =>
      \A i \in DOMAIN tab[t].library.projects :
        tab[t].library.projects[i].example =>
          /\ tab[t].library.projects[i].doc.v = Starter.v
          /\ tab[t].library.active = tab[t].library.projects[i].id =>
               tab[t].present.v = Starter.v

(* A tab at rest says its plans are saved only when the browser has them   *)
(* (saveLibrary, roadmap-library.ts:85-86).                                *)
SavedIsStored ==
    \A t \in Tabs :
      (tab[t].open /\ OnScreen(tab[t]) /\ ~tab[t].timer.on /\ tab[t].says = "saved") =>
        /\ storage # Nothing
        /\ Ids(storage) = DOMAIN truth
        /\ \A id \in DOMAIN truth : Find(storage, id).doc.v = truth[id]
=============================================================================
