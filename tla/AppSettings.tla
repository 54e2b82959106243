---------------------------- MODULE AppSettings ----------------------------
(***************************************************************************)
(* The variables an owner gives an installed app: the rows of the settings *)
(* dialog, open in one or more tabs, and the set the server keeps, which a *)
(* save replaces whole.  A hidden value never comes back from the server:  *)
(* its row shows a fingerprint, and is submitted without a value, which    *)
(* the server reads as "keep the one stored under this name".  One save is *)
(* taken at a time (the app's operation key), so serving it is one step.   *)
(***************************************************************************)
EXTENDS Naturals, Sequences, SequencesExt, FiniteSets, Functions

CONSTANTS
  Tabs,
  Names,      \* variable names, strings
  Secretive,  \* the names SECRET_LOOKING_NAME matches
  Managed,    \* the names MOS sets itself
  Values,     \* values typed, strings, "" among them
  MaxRows, MaxEdits, MaxSaves, MaxLost

VARIABLES
  stored,  \* app_env: rows [name, secret, value] of the app
  tabs,    \* the dialog of each tab
  acted,   \* ghost: names the owner has touched since the rows were seeded
  count    \* how much of each bound is used

settingsVars == <<stored, tabs, acted, count>>

Hash(v) == "sha256:" \o v
NoHash  == "none"

(* rowsFrom: a hidden value comes as its fingerprint. *)
RowsFrom(entries) ==
  LET seen(e) == [name |-> e.name, secret |-> e.secret, touched |-> TRUE,
                  held |-> IF e.secret THEN Hash(e.value) ELSE NoHash,
                  value |-> IF e.secret THEN "" ELSE e.value]
  IN SetToSeq({seen(e) : e \in entries})

SubmittedRows(rows) == [i \in DOMAIN rows |-> <<rows[i].name, rows[i].secret, rows[i].value>>]
Held(row) == row.secret /\ row.held # NoHash /\ row.value = ""

(* What the request carries of a row: a hidden value that was not retyped has none. *)
Entry(row) == [name |-> row.name, secret |-> row.secret, has |-> ~Held(row), value |-> row.value]

Closed == [open |-> FALSE, rows |-> <<>>, saved |-> <<>>, errors |-> {}, sending |-> "no",
           request |-> <<>>, answer |-> "none", env |-> {}, notice |-> "none", unsure |-> FALSE]
Seeded(tab, entries) ==
  [tab EXCEPT !.rows = RowsFrom(entries), !.saved = SubmittedRows(RowsFrom(entries))]

SettingsInit ==
  /\ \E some \in SUBSET (Names \ (Managed \cup {""})), v \in Values \ {""} :
       stored = {[name |-> n, secret |-> n \in Secretive, value |-> v \o n] : n \in some}
  /\ tabs = [t \in Tabs |-> Closed]
  /\ acted = [t \in Tabs |-> {}]
  /\ count = [edits |-> 0, saves |-> 0, lost |-> 0]

Unsaved(tab) == SubmittedRows(tab.rows) # tab.saved
Editable(t)  == tabs[t].open /\ tabs[t].sending = "no" /\ count.edits < MaxEdits

(* Every edit of a row also forgets what the server said of the row at its place. *)
Edited(t, rows, errors, names) ==
  /\ tabs' = [tabs EXCEPT ![t].rows = rows, ![t].errors = errors]
  /\ acted' = [acted EXCEPT ![t] = @ \cup names]
  /\ count' = [count EXCEPT !.edits = @ + 1]
  /\ UNCHANGED stored

OpenDialog(t) ==
  /\ ~tabs[t].open
  /\ tabs' = [tabs EXCEPT ![t] = Seeded([Closed EXCEPT !.open = TRUE], stored)]
  /\ acted' = [acted EXCEPT ![t] = {}]
  /\ UNCHANGED <<stored, count>>

EditName(t, i, name) ==
  LET row == tabs[t].rows[i] IN
  /\ Editable(t)
  /\ name # row.name
  /\ Edited(t, [tabs[t].rows EXCEPT ![i].name = name,
                                    ![i].secret = IF row.touched THEN @ ELSE name \in Secretive],
            tabs[t].errors \ {i}, {row.name, name})

EditValue(t, i, value) ==
  /\ Editable(t)
  /\ ~Held(tabs[t].rows[i])
  /\ value # tabs[t].rows[i].value
  /\ Edited(t, [tabs[t].rows EXCEPT ![i].value = value], tabs[t].errors \ {i}, {tabs[t].rows[i].name})

ToggleSecret(t, i) ==
  /\ Editable(t)
  /\ ~Held(tabs[t].rows[i])
  /\ Edited(t, [tabs[t].rows EXCEPT ![i].secret = ~@, ![i].touched = TRUE],
            tabs[t].errors \ {i}, {tabs[t].rows[i].name})

Replace(t, i) ==
  /\ Editable(t)
  /\ Held(tabs[t].rows[i])
  /\ Edited(t, [tabs[t].rows EXCEPT ![i].held = NoHash], tabs[t].errors \ {i}, {tabs[t].rows[i].name})

RemoveRow(t, i) ==
  /\ Editable(t)
  /\ Edited(t, RemoveAt(tabs[t].rows, i), tabs[t].errors, {tabs[t].rows[i].name})

AddRow(t) ==
  /\ Editable(t)
  /\ Len(tabs[t].rows) < MaxRows
  /\ Edited(t, Append(tabs[t].rows, [name |-> "", secret |-> FALSE, touched |-> FALSE,
                                     held |-> NoHash, value |-> ""]), tabs[t].errors, {})

(* A pasted NAME=value line takes over the first row of that name. *)
Pasted(rows, name, value) ==
  LET same == {i \in DOMAIN rows : rows[i].name = name} IN
  IF same = {}
  THEN Append(rows, [name |-> name, secret |-> name \in Secretive, touched |-> FALSE,
                     held |-> NoHash, value |-> value])
  ELSE LET i == CHOOSE m \in same : \A k \in same : m <= k
       IN [rows EXCEPT ![i].held = NoHash, ![i].value = value]
ApplyPaste(t, name, value) ==
  /\ Editable(t)
  /\ name # ""
  /\ Len(Pasted(tabs[t].rows, name, value)) <= MaxRows
  /\ Edited(t, Pasted(tabs[t].rows, name, value), {}, {name})

Save(t) ==
  /\ tabs[t].open /\ tabs[t].sending = "no"
  /\ Unsaved(tabs[t])
  /\ count.saves < MaxSaves
  /\ tabs' = [tabs EXCEPT ![t].sending = "sent", ![t].errors = {}, ![t].notice = "none",
                          ![t].request = [i \in DOMAIN tabs[t].rows |-> Entry(tabs[t].rows[i])]]
  /\ count' = [count EXCEPT !.saves = @ + 1]
  /\ UNCHANGED <<stored, acted>>

-----------------------------------------------------------------------------
(* validateOwnerEnvSubmission: the places of the entries it refuses. *)
StoredSecret(name) == {e \in stored : e.name = name /\ e.secret}
Refused(entries) ==
  {i \in DOMAIN entries :
     \/ entries[i].name = ""
     \/ entries[i].name \in Managed
     \/ \E k \in 1..(i - 1) : entries[k].name = entries[i].name
     \/ ~entries[i].has /\ StoredSecret(entries[i].name) = {}}

Kept(entry) ==
  IF entry.has THEN [name |-> entry.name, secret |-> entry.secret, value |-> entry.value]
  ELSE CHOOSE e \in StoredSecret(entry.name) : TRUE
Replacing(entries) == {Kept(e) : e \in Range(entries)}

(* The app is rebuilt from the new set and has to answer; if it does not, the set
   it had is put back. *)
Serve(t) ==
  /\ tabs[t].sending = "sent"
  /\ \/ /\ Refused(tabs[t].request) # {}
        /\ tabs' = [tabs EXCEPT ![t].sending = "served", ![t].answer = "refused"]
        /\ UNCHANGED stored
     \/ /\ Refused(tabs[t].request) = {}
        /\ stored' = Replacing(tabs[t].request)
        /\ tabs' = [tabs EXCEPT ![t].sending = "served", ![t].answer = "applied",
                                ![t].env = Replacing(tabs[t].request)]
     \/ /\ Refused(tabs[t].request) = {}
        /\ tabs' = [tabs EXCEPT ![t].sending = "served", ![t].answer = "rolled-back", ![t].env = stored]
        /\ UNCHANGED stored
  /\ UNCHANGED <<acted, count>>

(* An accepted answer brings the rows the server held once it was served. *)
AnswerArrives(t) ==
  LET tab == [tabs[t] EXCEPT !.sending = "no", !.notice = tabs[t].answer, !.request = <<>>,
                             !.answer = "none", !.env = {}] IN
  /\ tabs[t].sending = "served"
  /\ IF tabs[t].answer = "refused"
     THEN /\ tabs' = [tabs EXCEPT ![t] = [tab EXCEPT !.errors = Refused(tabs[t].request)]]
          /\ UNCHANGED acted
     ELSE /\ tabs' = [tabs EXCEPT ![t] = [Seeded(tab, tabs[t].env) EXCEPT !.unsure = FALSE]]
          /\ acted' = [acted EXCEPT ![t] = {}]
  /\ UNCHANGED <<stored, count>>

(* The connection goes, before the request was taken or after it was. *)
LoseAnswer(t) ==
  /\ tabs[t].sending # "no"
  /\ count.lost < MaxLost
  /\ count' = [count EXCEPT !.lost = @ + 1]
  /\ tabs' = [tabs EXCEPT ![t].sending = "no", ![t].notice = "error", ![t].request = <<>>,
                          ![t].answer = "none", ![t].env = {}, ![t].unsure = tabs[t].answer = "applied" \/ @]
  /\ UNCHANGED <<stored, acted>>

Close(t) ==
  /\ tabs[t].open /\ tabs[t].sending = "no"
  /\ tabs' = [tabs EXCEPT ![t] = Closed]
  /\ acted' = [acted EXCEPT ![t] = {}]
  /\ UNCHANGED <<stored, count>>

SettingsNext == \E t \in Tabs :
  \/ OpenDialog(t)
  \/ \E i \in DOMAIN tabs[t].rows, name \in Names : EditName(t, i, name)
  \/ \E i \in DOMAIN tabs[t].rows, value \in Values : EditValue(t, i, value)
  \/ \E i \in DOMAIN tabs[t].rows : ToggleSecret(t, i)
  \/ \E i \in DOMAIN tabs[t].rows : Replace(t, i)
  \/ \E i \in DOMAIN tabs[t].rows : RemoveRow(t, i)
  \/ AddRow(t)
  \/ \E name \in Names, value \in Values : ApplyPaste(t, name, value)
  \/ Save(t)
  \/ Serve(t)
  \/ AnswerArrives(t)
  \/ LoseAnswer(t)
  \/ Close(t)

SettingsSpec == SettingsInit /\ [][SettingsNext]_settingsVars

-----------------------------------------------------------------------------
(* The hidden values a dialog was seeded with, by name. *)
HiddenIn(saved) == {saved[k][1] : k \in {i \in DOMAIN saved : saved[i][2]}}

(* A save never takes a hidden value its dialog showed, and the owner cannot retype,
   unless the owner did something there to a row of that name.  A value another tab
   added since is replaced with the rest of the set. *)
KeepsSecrets ==
  \A e \in stored \ stored' :
    e.secret => \E t \in Tabs : /\ tabs[t].sending = "sent" /\ tabs'[t].sending = "served"
                                /\ e.name \in HiddenIn(tabs[t].saved) => e.name \in acted[t]
SecretsAreKept == [][KeepsSecrets]_settingsVars

Shown(rows) == {[name |-> r.name, secret |-> r.secret, value |-> r.value] : r \in Range(rows)}

(* Save is off exactly when there is nothing to save: what the form shows is then
   what the app runs with, as far as this browser can know of it. *)
OffMeansStored ==
  \A t \in Tabs :
    LET tab == tabs[t] IN
    tab.open /\ tab.sending = "no" /\ ~Unsaved(tab) /\ Cardinality(Tabs) = 1 /\ ~tab.unsure
      => Shown(RowsFrom(stored)) = Shown(tab.rows)

(* The app never gets a name twice, a name MOS sets, or no name. *)
SetIsValid ==
  \A e \in stored : /\ e.name \notin Managed \cup {""}
                    /\ \A f \in stored : f.name = e.name => f = e

(* A row that says it holds a hidden value holds the one the server keeps under
   the name it shows, after a save as before it. *)
ShownIsKept ==
  [][\A t \in Tabs : tabs[t].sending = "sent" /\ tabs'[t].answer = "applied" =>
       \A i \in DOMAIN tabs[t].rows : Held(tabs[t].rows[i]) =>
         \E e \in stored' : e.name = tabs[t].rows[i].name /\ Hash(e.value) = tabs[t].rows[i].held]_settingsVars

SettingsAreSound == OffMeansStored /\ SetIsValid
=============================================================================
