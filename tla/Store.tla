-------------------------------- MODULE Store --------------------------------
(***************************************************************************)
(* Suite Manager's database, across releases: each release brings further  *)
(* migrations, applied one by one - a transaction each - when it opens the *)
(* database an earlier release left, or that a restore brought back.  A    *)
(* migration may be cut off or refused; the next start takes up from the   *)
(* last one that was recorded.                                             *)
(***************************************************************************)
EXTENDS Naturals, FiniteSets, FiniteSetsExt

CONSTANTS
    Releases,     \* versions of the schema that releases stop at
    Packages,     \* apps
    MaxWrites,    \* bound
    MaxMishaps,   \* bound: refusals, kills, restores and uninstalls together
    MaxTime,      \* bound: ticks
    IdleLife      \* ticks after which an unused session has expired

VARIABLES
    release,      \* the version the running code brings
    process,      \* [state, existed]: "down", "opening" or "open"
    db,           \* the file: [there, applied, tables, rows]
    backup,       \* what a backup holds of it
    now,
    count         \* [writes, refusals, kills, restores, deletes]

storeVars == <<release, process, db, backup, now, count>>

Mishaps == count.refusals + count.kills + count.restores + count.deletes

-----------------------------------------------------------------------------
(* The migrations: what each creates, drops, rebuilds around its rows, and *)
(* the single row it starts a settings table with.                         *)
Latest == 21

Creates(v) ==
    CASE v = 1 -> {"owners", "sessions"}
      [] v = 2 -> {"https_settings"}
      [] v = 3 -> {"homepage_revisions", "homepage_operations"}
      [] v = 4 -> {"app_instances", "app_instance_config", "app_instance_projections",
                   "app_operations"}
      [] v = 5 -> {"app_instance_guides"}
      [] OTHER -> {}

CreatesNext(v) ==
    CASE v = 6 -> {"app_integrations"}
      [] v = 7 -> {"security_events"}
      [] v = 11 -> {"app_sources"}
      [] OTHER -> {}

CreatesLater(v) ==
    CASE v = 13 -> {"owner_terms_acceptances"}
      [] v = 14 -> {"owner_preferences"}
      [] v = 15 -> {"app_instance_env"}
      [] v = 16 -> {"smtp_settings"}
      [] v = 17 -> {"login_throttle"}
      [] v = 18 -> {"known_browsers", "sign_in_alert_state"}
      [] v = 19 -> {"address_changes"}
      [] v = 21 -> {"app_instance_folders"}
      [] OTHER -> {}

Creation(v) == Creates(v) \cup CreatesNext(v) \cup CreatesLater(v)
Drops(v) == IF v = 19 THEN {"https_settings"} ELSE {}
Rebuilds(v) == CASE v = 12 -> {"security_events"} [] v = 20 -> {"sessions"} [] OTHER -> {}
Singles == {"https_settings", "smtp_settings", "sign_in_alert_state", "address_changes"}

SchemaAt(v) == (UNION {Creation(w) : w \in 1 .. v})
               \ UNION {Drops(w) : w \in 1 .. v}

(* Rows refer to the rows of a parent table, and go with them. *)
Parent(table) ==
    CASE table \in {"sessions", "owner_preferences"} -> "owners"
      [] table \in {"app_instance_config", "app_instance_projections", "app_operations",
                    "app_instance_guides", "app_integrations", "app_instance_env",
                    "app_instance_folders"} -> "app_instances"
      [] OTHER -> "none"

Row(table, id, of) ==
    [table |-> table, id |-> id, of |-> of, seen |-> IF table = "sessions" THEN now ELSE 0]
Single(v) == {Row(t, "1", {}) : t \in Creation(v) \cap Singles}

(* A table is rebuilt around its rows; a session from before expiry counts *)
(* as used now.                                                            *)
Rebuilt(v, rows) ==
    {IF r.table \in Rebuilds(v) /\ r.table = "sessions" THEN [r EXCEPT !.seen = now] ELSE r
       : r \in rows}

Migrated(v) ==
    [there |-> TRUE, applied |-> db.applied \cup {v},
     tables |-> (db.tables \cup Creation(v)) \ Drops(v),
     rows |-> {r \in Rebuilt(v, db.rows) : r.table \notin Drops(v)} \cup Single(v)]

(* BEGIN IMMEDIATE ... ROLLBACK. *)
NotRolledBack(v) == [db EXCEPT !.there = TRUE, !.tables = @ \cup Creation(v)]
RolledBack(v) == [db EXCEPT !.there = TRUE]

Empty == [there |-> FALSE, applied |-> {}, tables |-> {}, rows |-> {}]

-----------------------------------------------------------------------------
(* Opening.                                                                *)
Start ==
    /\ process.state = "down"
    /\ process' = [state |-> "opening", existed |-> db.there]
    /\ db' = [db EXCEPT !.there = TRUE]
    /\ UNCHANGED <<release, backup, now, count>>

Pending == {v \in 1 .. release : v \notin db.applied}

Migrate ==
    /\ process.state = "opening" /\ Pending # {}
    /\ db' = Migrated(Min(Pending))
    /\ UNCHANGED <<release, process, backup, now, count>>

Opened ==
    /\ process.state = "opening" /\ Pending = {}
    /\ process' = [process EXCEPT !.state = "open"]
    /\ UNCHANGED <<release, db, backup, now, count>>

(* The disk refuses a write.  The database is closed; one that was not     *)
(* there before the start is taken away again.                             *)
TakenAway == IF process.existed THEN RolledBack(Min(Pending)) ELSE Empty

OpeningFails ==
    /\ process.state = "opening" /\ Pending # {} /\ Mishaps < MaxMishaps
    /\ process' = [process EXCEPT !.state = "down"]
    /\ db' = TakenAway
    /\ count' = [count EXCEPT !.refusals = @ + 1]
    /\ UNCHANGED <<release, backup, now>>

(* Stopped while it opens, or later: what was not committed never was. *)
Killed ==
    /\ process.state = "opening" /\ Mishaps < MaxMishaps
    /\ process' = [process EXCEPT !.state = "down"]
    /\ db' = IF Pending = {} THEN db ELSE RolledBack(Min(Pending))
    /\ count' = [count EXCEPT !.kills = @ + 1]
    /\ UNCHANGED <<release, backup, now>>

Stop ==
    /\ process.state = "open"
    /\ process' = [process EXCEPT !.state = "down"]
    /\ UNCHANGED <<release, db, backup, now, count>>

Update(r) ==
    /\ process.state = "down" /\ r \in Releases /\ r > release
    /\ release' = r
    /\ UNCHANGED <<process, db, backup, now, count>>

-----------------------------------------------------------------------------
(* What the services write.                                                *)
Rows(table) == {r \in db.rows : r.table = table}
Ids(table) == {r.id : r \in Rows(table)}

(* Written again it is the same row.                                       *)
Rewritten(table, of) ==
    {r \in db.rows : ~(r.table = table /\ r.of = of)} \cup {Row(table, table, of)}

(* A row of an app or of the owner needs the app or the owner; a link      *)
(* between apps needs both.                                                *)
Insert(table, of) ==
    /\ process.state = "open" /\ count.writes < MaxWrites
    /\ table \in db.tables \ ({"owners", "app_instances"} \cup Singles)
    /\ IF Parent(table) = "none" THEN of = {}
       ELSE /\ of \subseteq Ids(Parent(table)) /\ of # {}
            /\ table # "app_integrations" => Cardinality(of) = 1
            /\ table = "app_integrations" => Cardinality(of) = 2
    /\ db' = [db EXCEPT !.rows = Rewritten(table, of)]
    /\ count' = [count EXCEPT !.writes = @ + 1]
    /\ UNCHANGED <<release, process, backup, now>>

(* The owner and the first session; an app with its configuration, its     *)
(* projections and the record of the installation.                         *)
CreateOwner ==
    /\ process.state = "open" /\ Rows("owners") = {}
    /\ db' = [db EXCEPT !.rows = @ \cup {Row("owners", "1", {}), Row("sessions", "sessions", {"1"})}]
    /\ UNCHANGED <<release, process, backup, now, count>>

InstallRows(a) ==
    {Row("app_instances", a, {})} \cup
    {Row(t, t, {a}) : t \in {"app_instance_config", "app_instance_projections", "app_operations"}}

InstallAppInstance(a) ==
    /\ process.state = "open" /\ release >= 4 /\ a \notin Ids("app_instances")
    /\ db' = [db EXCEPT !.rows = @ \cup InstallRows(a)]
    /\ UNCHANGED <<release, process, backup, now, count>>

Cascade(a) == {r \in db.rows : Parent(r.table) = "app_instances" /\ a \in r.of}

DeleteAppInstance(a) ==
    /\ process.state = "open" /\ a \in Ids("app_instances") /\ Mishaps < MaxMishaps
    /\ db' = [db EXCEPT !.rows = {r \in @ : ~(r.table = "app_instances" /\ r.id = a)} \ Cascade(a)]
    /\ count' = [count EXCEPT !.deletes = @ + 1]
    /\ UNCHANGED <<release, process, backup, now>>

(* The owner is seen: the session is good for as long again. *)
Live(r, at) == at - r.seen < IdleLife

MarkSeen ==
    /\ process.state = "open" /\ release >= 20
    /\ \E r \in Rows("sessions") :
         /\ Live(r, now) /\ r.seen # now
         /\ db' = [db EXCEPT !.rows = (@ \ {r}) \cup {[r EXCEPT !.seen = now]}]
    /\ UNCHANGED <<release, process, backup, now, count>>

-----------------------------------------------------------------------------
(* A backup takes the database as it is; a restore puts it back under the  *)
(* release that is installed by then, never an earlier one.                *)
SnapshotSqlite ==
    /\ db.there /\ ~backup.there /\ Mishaps < MaxMishaps
    /\ backup' = db
    /\ UNCHANGED <<release, process, db, now, count>>

Restore ==
    /\ process.state = "down" /\ backup.there /\ Mishaps < MaxMishaps
    /\ db' = backup
    /\ count' = [count EXCEPT !.restores = @ + 1]
    /\ UNCHANGED <<release, process, backup, now>>

Tick ==
    /\ now < MaxTime
    /\ now' = now + 1
    /\ UNCHANGED <<release, process, db, backup, count>>

-----------------------------------------------------------------------------
StoreInit ==
    /\ release \in Releases
    /\ process = [state |-> "down", existed |-> FALSE]
    /\ db = Empty /\ backup = Empty
    /\ now = 0
    /\ count = [writes |-> 0, refusals |-> 0, kills |-> 0, restores |-> 0, deletes |-> 0]

StoreNext ==
    \/ Start \/ Migrate \/ Opened \/ OpeningFails \/ Killed \/ Stop
    \/ \E r \in Releases : Update(r)
    \/ \E t \in db.tables, of \in SUBSET (Packages \cup {"1"}) : Insert(t, of)
    \/ CreateOwner \/ MarkSeen
    \/ \E a \in Packages : InstallAppInstance(a) \/ DeleteAppInstance(a)
    \/ SnapshotSqlite \/ Restore \/ Tick

StoreSpec == StoreInit /\ [][StoreNext]_storeVars

-----------------------------------------------------------------------------
(* The recorded migrations say exactly which tables there are, whatever    *)
(* was cut off or refused, so that the next start can go on (migrate,      *)
(* transaction).                                                           *)
SchemaIsRecorded ==
    LET v == Cardinality(db.applied) IN
    db.applied = 1 .. v /\ db.tables = SchemaAt(v)

(* No row of an app outlives the app, so that one installed again starts   *)
(* afresh (deleteAppInstance, ON DELETE CASCADE).                          *)
NoRowIsLeftBehind ==
    \A r \in db.rows : Parent(r.table) # "none" => r.of \subseteq Ids(Parent(r.table))

SchemaIsSound == SchemaIsRecorded /\ NoRowIsLeftBehind

(* No start, update or failure loses a row of a table that stays; only an  *)
(* uninstall and a restore do (migrations 12 and 20, the constructor).     *)
Same(r, s) == r.table = s.table /\ r.id = s.id /\ r.of = s.of
FirstStart == process.state = "opening" /\ ~process.existed
KeepsTheData ==
    ~FirstStart /\ count'.deletes = count.deletes /\ count'.restores = count.restores =>
      \A r \in db.rows : r.table \in SchemaAt(release') => \E s \in db'.rows : Same(r, s)

(* The update that brings the expiry of sessions signs nobody out: a       *)
(* session is live when the migration is done (migration 20).              *)
SignsNobodyOut ==
    20 \in db'.applied \ db.applied =>
      \A s \in db'.rows : s.table = "sessions" /\ count'.restores = count.restores => Live(s, now')

Upgrades == KeepsTheData /\ SignsNobodyOut
UpdatesKeepTheData == [][Upgrades]_storeVars
=============================================================================
