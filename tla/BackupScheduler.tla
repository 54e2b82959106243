-------------------------- MODULE BackupScheduler --------------------------
(***************************************************************************)
(* The clock behind automatic backups.  A tick reads the schedule, asks    *)
(* the update agent and the places, hands a backup to the job queue and    *)
(* watches it, then asks for one delete at a time until retention is met.  *)
(* Each await is a step of its own: the owner edits the schedule, names    *)
(* another primary, backs up and deletes by hand, drives come and go, and  *)
(* the agent restarts, in between.                                         *)
(***************************************************************************)
EXTENDS Naturals, FiniteSets

CONSTANTS
  SchedulePlaces,   \* places a backup can be written to
  MaxTime,          \* bound: half days the clock advances
  MaxBackups,       \* bound: backups taken by anyone
  MaxMoves,         \* bound: edits, deletes, drives pulled, updates and ticks that overlap
  MaxAgentRestarts, \* bound: restarts of the agent
  RetentionAttempts \* refused deletes after which retention gives up

ASSUME MaxTimeAssumption == MaxTime \in Nat \ {0}

VARIABLES
  clock,     \* half days passed; an occurrence of the day is even or odd
  schedule,  \* schedule.json
  primary,   \* primary-destination.json: a place or none
  tick,      \* a tick in flight: where it awaits, and what it read before
  late,      \* another, that had not ended when the timer fired again (at most one: a bound)
  queue,     \* the active job, or none
  history,   \* job files: the last job's id, and which jobs of its own failed
  points,    \* the restore points
  world,     \* attached places, and whether an update runs
  asked,     \* history: occurrences the scheduler started a backup for
  overlapped,\* history: a tick began before the last had ended
  spent      \* how much of each bound is used

tickVars == <<late, overlapped>>
schedVars == <<clock, schedule, primary, tick, queue, history, points, world, asked, spent, tickVars>>

None == 0
NoTick == [step |-> "none"]
NoPending == [job |-> None, at |-> None]
NoQueue == [id |-> None, kind |-> "none"]
RetentionChoices == {0, 1}
Times == {0, 1}
Never == 0

Unset == [enabled |-> FALSE, time |-> 0, keep |-> 1, configured |-> Never, lastRun |-> Never,
          pending |-> NoPending, result |-> "none"]

SchedTypeOK ==
  /\ clock \in 1 .. MaxTime
  /\ schedule.enabled \in BOOLEAN /\ schedule.time \in Times /\ schedule.keep \in RetentionChoices
  /\ schedule.configured <= clock /\ schedule.lastRun <= clock
  /\ schedule.result \in {"none", "failed", "succeeded"}
  /\ primary \in SchedulePlaces \cup {"none"}
  /\ {tick.step, late.step} \subseteq {"none", "update", "places", "points"}
  /\ queue.kind \in {"none", "backup", "delete"}
  /\ \A p \in points : p.place \in SchedulePlaces /\ p.automatic \in BOOLEAN

SchedInit ==
  /\ clock = 1 /\ primary \in SchedulePlaces \cup {"none"}
  /\ schedule \in {Unset, [Unset EXCEPT !.enabled = TRUE]}
  /\ schedule.enabled => primary # "none"
  /\ tick = NoTick /\ late = NoTick /\ overlapped = FALSE
  /\ queue = NoQueue /\ history = [last |-> 0, failed |-> {}] /\ points = {} /\ asked = {}
  /\ world = [attached |-> SchedulePlaces, updating |-> FALSE]
  /\ spent = [moves |-> 0, restarts |-> 0, backups |-> 0]

(***************************************************************************)
(* schedule.cjs: when a schedule was last due, and what retention removes. *)
(***************************************************************************)
Latest(S) == IF S = {} THEN Never ELSE CHOOSE t \in S : \A u \in S : u <= t
Occurrences(s) == {t \in 1 .. MaxTime : t % 2 = s.time}
LastOccurrenceAtOrBefore(s, now) == Latest({t \in Occurrences(s) : t <= now})

DueOccurrenceBySuccess(s, now) == \* mutant: owed until a run has succeeded
  LET o == LastOccurrenceAtOrBefore(s, now) IN
  IF s.enabled /\ o > s.configured /\ (o > s.lastRun \/ s.result = "failed") THEN o ELSE Never

DueOccurrence(s, now) ==
  LET o == LastOccurrenceAtOrBefore(s, now) IN
  IF s.enabled /\ o > Latest({s.lastRun, s.configured}) THEN o ELSE Never

TimingChanged(before, after) == before.time # after.time

Newer(P, p) == {q \in P : q.job > p.job}
RetentionVictimsAll(P, keep) == \* mutant: the owner's backups count as well
  IF keep = 0 THEN {} ELSE {p \in P : Cardinality(Newer(P, p)) >= keep}

\* The automatic ones past the newest keep; oldest first, so the head is the oldest.
RetentionVictims(P, keep) ==
  LET automatic == {p \in P : p.automatic} IN
  IF keep = 0 THEN {} ELSE {p \in automatic : Cardinality(Newer(automatic, p)) >= keep}
Oldest(P) == CHOOSE p \in P : \A q \in P : p.job <= q.job

(***************************************************************************)
(* The job queue the scheduler hands its work to (BackupQueue).            *)
(***************************************************************************)
NextJob == history.last + 1
CanCreate == queue = NoQueue
Create(kind, place, automatic, victim) ==
  /\ CanCreate
  /\ queue' = [id |-> NextJob, kind |-> kind, place |-> place, automatic |-> automatic,
               victim |-> victim]
  /\ history' = [history EXCEPT !.last = NextJob]
Job(id) == IF id = queue.id THEN "active" ELSE IF id \in history.failed THEN "failed" ELSE "succeeded"

(***************************************************************************)
(* The owner's routes.                                                     *)
(***************************************************************************)
NormalizeSchedule(current, enabled, time, keep) ==
  [current EXCEPT !.enabled = enabled, !.time = time, !.keep = keep]

SaveSchedule(enabled, time, keep) ==
  /\ spent.moves < MaxMoves /\ (enabled => primary # "none")
  /\ LET after == NormalizeSchedule(schedule, enabled, time, keep)
         restarted == TimingChanged(schedule, after) \/ ~schedule.enabled IN
     schedule' = [after EXCEPT
       !.configured = IF restarted THEN clock ELSE @,
       !.pending = IF enabled THEN @ ELSE NoPending]
  /\ schedule' # schedule
  /\ spent' = [spent EXCEPT !.moves = @ + 1]
  /\ UNCHANGED <<clock, primary, tick, queue, history, points, world, asked>>

SavePrimary(choice) ==
  /\ spent.moves < MaxMoves /\ choice # primary
  /\ choice \in world.attached \cup {"none"}
  /\ primary' = choice /\ spent' = [spent EXCEPT !.moves = @ + 1]
  /\ UNCHANGED <<clock, schedule, tick, queue, history, points, world, asked>>

OwnerBacksUp ==
  /\ spent.backups < MaxBackups /\ spent.moves < MaxMoves
  /\ \E d \in world.attached : Create("backup", d, FALSE, None)
  /\ spent' = [spent EXCEPT !.backups = @ + 1, !.moves = @ + 1]
  /\ UNCHANGED <<clock, schedule, primary, tick, points, world, asked>>

OwnerDeletes ==
  /\ spent.moves < MaxMoves
  /\ \E p \in points : Create("delete", p.place, FALSE, p.job)
  /\ spent' = [spent EXCEPT !.moves = @ + 1]
  /\ UNCHANGED <<clock, schedule, primary, tick, points, world, asked>>

(***************************************************************************)
(* A tick.  What it writes back is built from the schedule it read.        *)
(***************************************************************************)
Written(s) == schedule' = s /\ tick' = NoTick
\* The notice of why a run is owed is the schedule as it was read, written back.
RecordWaiting(s) == Written(s)
Settle(s, result) ==
  Written([s EXCEPT !.result = result, !.pending = NoPending])
Awaits(step, s, occurrence) ==
  tick' = [step |-> step, read |-> s, occurrence |-> occurrence] /\ UNCHANGED schedule

Prune(s) == IF s.keep = 0 THEN Settle(s, "succeeded") ELSE Awaits("points", s, Never)

Advance(s) ==
  LET status == IF s.pending.job = None THEN "none" ELSE Job(s.pending.job) IN
  /\ status # "active"
  /\ IF s.pending.phase = "backup"
     THEN IF status = "succeeded" THEN Prune([s EXCEPT !.pending.phase = "retention"])
          ELSE Settle(s, "failed")
     ELSE IF status = "failed" THEN Settle(s, "succeeded") ELSE Prune(s)

\* The timer does not ask whether the last tick has ended; that one goes on beside.
Tick ==
  /\ late = NoTick /\ schedule.enabled
  /\ \/ schedule.pending # NoPending /\ Advance(schedule)
     \/ /\ schedule.pending = NoPending /\ DueOccurrence(schedule, clock) # Never
        /\ Awaits("update", schedule, DueOccurrence(schedule, clock))
  /\ late' = tick /\ overlapped' = (overlapped \/ tick # NoTick)
  /\ IF tick = NoTick THEN UNCHANGED spent
     ELSE spent.moves < MaxMoves /\ spent' = [spent EXCEPT !.moves = @ + 1]
  /\ UNCHANGED <<clock, primary, queue, history, points, world, asked>>

\* Either of two ticks may be the next to be answered.
OtherTick ==
  /\ late # NoTick /\ tick' = late /\ late' = tick
  /\ UNCHANGED <<clock, schedule, primary, queue, history, points, world, asked, spent, overlapped>>

\* The update agent has answered, and the primary is read.
UpdateAnswered ==
  /\ tick.step = "update"
  /\ IF world.updating \/ primary = "none"
     THEN RecordWaiting(tick.read)
     ELSE Awaits("places", tick.read, tick.occurrence)
  /\ UNCHANGED <<clock, primary, queue, history, points, world, asked, spent>>

\* The places have answered; the primary is read again.  A refused job and a
\* place that is away leave the run owed.
StartsBackup(s, d) ==
  /\ Create("backup", d, TRUE, None)
  /\ asked' = asked \cup {<<tick.occurrence, NextJob>>}
  /\ spent' = [spent EXCEPT !.backups = @ + 1]
  /\ Written([s EXCEPT !.lastRun = clock,
       !.pending = [job |-> NextJob, at |-> d, phase |-> "backup", attempts |-> 0]])

PlacesAnswered ==
  /\ tick.step = "places" /\ spent.backups < MaxBackups
  /\ IF primary \in world.attached /\ CanCreate
     THEN StartsBackup(tick.read, primary)
     ELSE RecordWaiting(tick.read) /\ UNCHANGED <<queue, history, asked, spent>>
  /\ UNCHANGED <<clock, primary, points, world>>

\* The destination's restore points have been listed, or could not be.
Listed(d) == {p \in points : p.place = d}
Victims(s) == RetentionVictims(Listed(s.pending.at), s.keep)
DeletesOldest(s) ==
  Victims(s) # {} /\ Create("delete", s.pending.at, TRUE, Oldest(Victims(s)).job)

PointsAnswered ==
  /\ tick.step = "points"
  /\ LET s == tick.read IN
     IF s.pending.at \notin world.attached \/ Victims(s) = {}
     THEN Settle(s, "succeeded") /\ UNCHANGED <<queue, history>>
     ELSE IF CanCreate
     THEN /\ DeletesOldest(s)
          /\ Written([s EXCEPT !.pending.attempts = 0, !.pending.job = NextJob,
                               !.pending.phase = "retention"])
     ELSE /\ UNCHANGED <<queue, history>>
          /\ IF s.pending.attempts + 1 >= RetentionAttempts
             THEN Settle(s, "succeeded")
             ELSE Written([s EXCEPT !.pending.attempts = @ + 1])
  /\ UNCHANGED <<clock, primary, points, world, asked, spent>>

(***************************************************************************)
(* Around it: the queue's jobs end, drives come and go, an update starts   *)
(* and ends, the agent restarts.                                           *)
(***************************************************************************)
JobEnds ==
  /\ queue # NoQueue
  /\ \E status \in {"succeeded", "failed"} :
       /\ history' = [history EXCEPT !.failed =
            IF queue.automatic /\ status = "failed" THEN @ \cup {queue.id} ELSE @]
       /\ points' = IF status = "failed" THEN points
                    ELSE IF queue.kind = "backup"
                    THEN points \cup {[place |-> queue.place, job |-> queue.id,
                                       automatic |-> queue.automatic]}
                    ELSE {p \in points : p.job # queue.victim}
  /\ queue' = NoQueue
  /\ UNCHANGED <<clock, schedule, primary, tick, world, asked, spent>>

PlugIn ==
  /\ \E d \in SchedulePlaces \ world.attached :
       world' = [world EXCEPT !.attached = @ \cup {d}]
  /\ UNCHANGED <<clock, schedule, primary, tick, queue, history, points, asked, spent>>

Unplug ==
  /\ spent.moves < MaxMoves /\ spent' = [spent EXCEPT !.moves = @ + 1]
  /\ \E d \in world.attached : world' = [world EXCEPT !.attached = @ \ {d}]
  /\ UNCHANGED <<clock, schedule, primary, tick, queue, history, points, asked>>

UpdateStarts ==
  /\ ~world.updating /\ spent.moves < MaxMoves /\ spent' = [spent EXCEPT !.moves = @ + 1]
  /\ world' = [world EXCEPT !.updating = TRUE]
  /\ UNCHANGED <<clock, schedule, primary, tick, queue, history, points, asked>>

UpdateFinishes ==
  /\ world.updating /\ world' = [world EXCEPT !.updating = FALSE]
  /\ UNCHANGED <<clock, schedule, primary, tick, queue, history, points, asked, spent>>

\* The agent dies with its ticks; the workers live on.  Death may fall between the
\* creation of the job, a backup or a delete, and the writing of the schedule.
AgentRestarts ==
  /\ spent.restarts < MaxAgentRestarts /\ tick # NoTick
  /\ tick' = NoTick /\ late' = NoTick
  /\ \/ /\ tick.step = "places" /\ primary \in world.attached
        /\ spent.backups < MaxBackups /\ Create("backup", primary, TRUE, None)
        /\ asked' = asked \cup {<<tick.occurrence, NextJob>>}
        /\ spent' = [spent EXCEPT !.restarts = @ + 1, !.backups = @ + 1]
     \/ /\ tick.step = "points" /\ tick.read.pending.at \in world.attached
        /\ DeletesOldest(tick.read)
        /\ spent' = [spent EXCEPT !.restarts = @ + 1] /\ UNCHANGED asked
     \/ spent' = [spent EXCEPT !.restarts = @ + 1] /\ UNCHANGED <<queue, history, asked>>
  /\ UNCHANGED <<clock, schedule, primary, points, world, overlapped>>

TimePasses ==
  /\ clock < MaxTime /\ clock' = clock + 1
  /\ UNCHANGED <<schedule, primary, tick, queue, history, points, world, asked, spent>>

SchedSteps ==
  \/ \E enabled \in BOOLEAN, time \in Times, keep \in RetentionChoices :
       SaveSchedule(enabled, time, keep)
  \/ \E choice \in SchedulePlaces \cup {"none"} : SavePrimary(choice)
  \/ OwnerBacksUp \/ OwnerDeletes
  \/ UpdateAnswered \/ PlacesAnswered \/ PointsAnswered
  \/ JobEnds \/ PlugIn \/ Unplug \/ UpdateStarts \/ UpdateFinishes
  \/ TimePasses

SchedNext ==
  \/ SchedSteps /\ UNCHANGED tickVars
  \/ Tick \/ OtherTick \/ AgentRestarts

SchedSpec == SchedInit /\ [][SchedNext]_schedVars

(***************************************************************************)
(* Properties.                                                             *)
(***************************************************************************)
\* One step: what an automatic job removes is automatic, and older than a backup kept since.
SparesTheOwner ==
  \A p \in points \ points' : queue.automatic =>
    /\ p.automatic
    /\ \E own \in asked : own[2] > p.job /\ own[2] # queue.id /\ own[2] \notin history.failed

\* Retention removes only what MOS took on its own, at the place its run has
\* just written to, and older than the backup of that run, whatever the owner
\* backs up, deletes or chooses anew between the listing and the delete.
RetentionSparesTheOwner == [][SparesTheOwner]_schedVars

\* A missed or failed occurrence is not retried in a loop: an occurrence gets one
\* backup, and one more for each death of the agent before it was written down;
\* until a tick begins before the last has ended.  Beside another, a tick that was
\* refused writes back the schedule it read before, and the run is owed again.
RunsOncePerOccurrence ==
  ~overlapped =>
    \A o \in 1 .. MaxTime :
      Cardinality({run \in asked : run[1] = o}) <= 1 + spent.restarts
=============================================================================
