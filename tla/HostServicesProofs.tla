------------------------- MODULE HostServicesProofs -------------------------
(****************************************************************************)
(* Theorems about what a host does beside keeping its data, for any places,  *)
(* apps, file, run of the clock and number of failures.  The backup          *)
(* schedule: what retention may remove, and how often an occurrence is       *)
(* backed up.  The drive of the owner's files: an ejected one may be pulled, *)
(* and an app that runs reads the mount its records name.  An upload: the    *)
(* file that arrives is the file that was sent.                              *)
(****************************************************************************)
EXTENDS BackupScheduler, Drives, Uploads, WellFoundedInduction, FiniteSetTheorems, TLAPS

------------------------------------------------------------------------------
(* The backup schedule. *)

(* The inductive invariant.                                                  *)

FullPendings == [job : Nat, at : SchedulePlaces, phase : {"backup", "retention"}, attempts : Nat]
Schedules == [enabled : BOOLEAN, time : Times, keep : RetentionChoices, configured : Nat,
              lastRun : Nat, pending : {NoPending} \cup FullPendings,
              result : {"none", "failed", "succeeded"}]
Ticks == [step : {"update", "places", "points"}, read : Schedules, occurrence : Nat]
QueueJobs == [id : Nat \ {0}, kind : {"backup", "delete"}, place : SchedulePlaces,
              automatic : BOOLEAN, victim : Nat]
Points == [place : SchedulePlaces, job : Nat \ {0}, automatic : BOOLEAN]

SchedTypes ==
  /\ clock \in 1 .. MaxTime /\ schedule \in Schedules
  /\ tick = NoTick \/ tick \in Ticks
  /\ late = NoTick \/ late \in Ticks
  /\ overlapped \in BOOLEAN
  /\ queue = NoQueue \/ queue \in QueueJobs
  /\ history.last \in Nat /\ history = [last |-> history.last, failed |-> history.failed]
  /\ points \subseteq Points
  /\ world.attached \subseteq SchedulePlaces
  /\ world = [attached |-> world.attached, updating |-> world.updating]
  /\ asked \subseteq (1 .. MaxTime) \X (Nat \ {0}) /\ IsFiniteSet(asked)
  /\ spent \in [moves : Nat, restarts : Nat, backups : Nat]

\* What a tick is about.
IsSound(t) ==
  t # NoTick => /\ t.step = "points" => t.read.pending \in FullPendings
                /\ t.step # "points" => t.occurrence \in 1 .. clock

\* What a tick beside no other read of its own past is still so when it writes, whatever the
\* owner saved since.
TickIsCurrent ==
  /\ IsSound(tick) /\ IsSound(late)
  /\ ~overlapped =>
       /\ late = NoTick
       /\ tick # NoTick => /\ tick.read.lastRun = schedule.lastRun
                           /\ tick.step # "points" => tick.occurrence > tick.read.lastRun

Runs(o) == {run \in asked : run[1] = o}

\* An occurrence that the schedule has written down had one backup more than the agent's
\* deaths account for; one that it has not, none.
AskedOnce ==
  ~overlapped =>
    \A o \in 1 .. MaxTime :
      Cardinality(Runs(o)) <= spent.restarts + (IF o <= schedule.lastRun THEN 1 ELSE 0)

\* A job is never given an earlier one's number, and a point carries that of its own backup.
NumbersAreNew ==
  /\ \A p \in points : p.job <= history.last /\ p.job # queue.id /\ p.job \notin history.failed
  /\ \A p, q \in points : p.job = q.job => p = q
  /\ \A n \in history.failed : n \in 1 .. history.last
  /\ queue # NoQueue => queue.id = history.last /\ queue.id \notin history.failed

\* What counts as automatic is a backup that the scheduler asked for.
AutomaticWasAsked ==
  /\ \A p \in points : p.automatic => \E run \in asked : run[2] = p.job
  /\ queue.kind = "backup" /\ queue.automatic => \E run \in asked : run[2] = queue.id

\* The delete that retention has queued may still fall only on what it was asked for.
DeleteSpares ==
  queue.kind = "delete" /\ queue.automatic =>
    \A p \in points : p.job = queue.victim =>
      /\ p.automatic
      /\ \E own \in asked : own[2] > p.job /\ own[2] # queue.id /\ own[2] \notin history.failed

SchedInv == /\ SchedTypes /\ TickIsCurrent /\ AskedOnce
            /\ NumbersAreNew /\ AutomaticWasAsked /\ DeleteSpares

------------------------------------------------------------------------------
(* Lemmas about the operators. *)

\* A set of numbers has a least one.
LEMMA LeastExists ==
  ASSUME NEW S, S \subseteq Nat, S # {}
  PROVE  \E x \in S : \A y \in S : x <= y
<1> DEFINE Less == {pair \in Nat \X Nat : pair[1] < pair[2]}
<1>1. IsWellFoundedOn(Less, Nat)
  BY NatLessThanWellFounded, Zenon DEF OpToRel
<1>2. PICK x \in S : \A y \in S : ~ (<<y, x>> \in Less)
  <2> HIDE DEF Less
  <2> QED BY <1>1, WFMin
<1>3. ASSUME NEW y \in S PROVE x <= y
  <2>1. x \in Nat /\ y \in Nat /\ ~ (y < x) BY <1>2
  <2> QED BY <2>1
<1> QED BY <1>3

\* The latest of some times up to the bound is one of them, and none is later.
LEMMA LatestIsLast ==
  ASSUME NEW S \in SUBSET (1 .. MaxTime), S # {}
  PROVE  Latest(S) \in S /\ \A u \in S : u <= Latest(S)
<1> DEFINE Left == {MaxTime - t : t \in S}
<1>1. Left \subseteq Nat /\ Left # {}
  <2>1. \A t \in S : MaxTime - t \in Nat BY MaxTimeAssumption
  <2> QED BY <2>1
<1>2. PICK x \in Left : \A y \in Left : x <= y
  BY <1>1, LeastExists
<1>3. PICK t \in S : x = MaxTime - t
  BY <1>2
<1>4. ASSUME NEW u \in S PROVE u <= t
  <2>1. MaxTime - t <= MaxTime - u BY <1>2, <1>3
  <2>2. t \in 1 .. MaxTime /\ u \in 1 .. MaxTime OBVIOUS
  <2> QED BY <2>1, <2>2, MaxTimeAssumption
<1> QED BY <1>4 DEF Latest

\* What is due has passed, and is later than the last run.
LEMMA DueIsOwed ==
  ASSUME NEW s \in Schedules, NEW now \in 1 .. MaxTime, DueOccurrence(s, now) # Never
  PROVE  DueOccurrence(s, now) \in 1 .. now /\ DueOccurrence(s, now) > s.lastRun
<1> DEFINE past == {t \in Occurrences(s) : t <= now}
           o == LastOccurrenceAtOrBefore(s, now)
<1>1. DueOccurrence(s, now) = o /\ o # Never /\ o > Latest({s.lastRun, s.configured})
  BY DEF DueOccurrence
<1>2. past # {} /\ o = Latest(past)
  BY <1>1 DEF LastOccurrenceAtOrBefore, Latest
<1>3. past \in SUBSET (1 .. MaxTime) BY DEF Occurrences
<1>4. o \in past BY <1>2, <1>3, LatestIsLast
<1>5. o \in 1 .. now BY <1>3, <1>4, MaxTimeAssumption
<1>6. s.lastRun <= Latest({s.lastRun, s.configured})
  <2>1. s.lastRun \in Nat /\ s.configured \in Nat BY DEF Schedules
  <2>2. \E t \in {s.lastRun, s.configured} : \A u \in {s.lastRun, s.configured} : u <= t
    BY <2>1
  <2> QED BY <2>2 DEF Latest
<1>7. Latest({s.lastRun, s.configured}) \in Nat /\ s.lastRun \in Nat
  <2>1. s.lastRun \in Nat /\ s.configured \in Nat BY DEF Schedules
  <2>2. \E t \in {s.lastRun, s.configured} : \A u \in {s.lastRun, s.configured} : u <= t
    BY <2>1
  <2> QED BY <2>1, <2>2 DEF Latest
<1> QED BY <1>1, <1>5, <1>6, <1>7

\* The oldest of some points is one of them.
LEMMA OldestIsOneOfThem ==
  ASSUME NEW P \in SUBSET Points, P # {}
  PROVE  Oldest(P) \in P
<1> DEFINE Numbers == {p.job : p \in P}
<1>1. Numbers \subseteq Nat /\ Numbers # {} BY DEF Points
<1>2. PICK n \in Numbers : \A m \in Numbers : n <= m
  BY <1>1, LeastExists
<1>3. PICK p \in P : n = p.job
  BY <1>2
<1>4. \A q \in P : p.job <= q.job BY <1>2, <1>3
<1> QED BY <1>4 DEF Oldest

\* Whatever is kept, what retention removes is automatic, and an automatic one is newer.
LEMMA VictimsAreOld ==
  ASSUME NEW P \in SUBSET Points, NEW keep \in RetentionChoices,
         NEW p \in RetentionVictims(P, keep)
  PROVE  p \in P /\ p.automatic /\ \E q \in P : q.automatic /\ q.job > p.job
<1> DEFINE automatic == {q \in P : q.automatic}
<1>1. p \in automatic /\ keep = 1 /\ Cardinality(Newer(automatic, p)) >= keep
  BY DEF RetentionVictims, RetentionChoices
<1>2. Newer(automatic, p) # {}
  <2>1. Cardinality({}) = 0 BY FS_EmptySet
  <2> QED BY <1>1, <2>1
<1> QED BY <1>1, <1>2 DEF Newer

\* One more run of an occurrence is one more run of that occurrence only.
LEMMA OneMoreRun ==
  ASSUME IsFiniteSet(asked), NEW o, NEW n, asked' = asked \cup {<<o, n>>}
  PROVE  /\ IsFiniteSet(asked')
         /\ Cardinality(Runs(o)) \in Nat /\ Cardinality(Runs(o)') <= Cardinality(Runs(o)) + 1
         /\ \A other : other # o => Runs(other)' = Runs(other)
<1>1. IsFiniteSet(asked') BY FS_AddElement
<1>2. IsFiniteSet(Runs(o)) /\ Cardinality(Runs(o)) \in Nat
  BY FS_Subset, FS_CardinalityType DEF Runs
<1>3. Runs(o)' = Runs(o) \cup {<<o, n>>} BY DEF Runs
<1>4. Cardinality(Runs(o)') <= Cardinality(Runs(o)) + 1
  <2>1. Cardinality(Runs(o) \cup {<<o, n>>})
          = IF <<o, n>> \in Runs(o) THEN Cardinality(Runs(o)) ELSE Cardinality(Runs(o)) + 1
    BY <1>2, FS_AddElement
  <2> HIDE DEF Runs
  <2> QED BY <1>2, <1>3, <2>1
<1>5. \A other : other # o => Runs(other)' = Runs(other) BY DEF Runs
<1> QED BY <1>1, <1>2, <1>4, <1>5

------------------------------------------------------------------------------
(* The types, and what a tick remembers. *)

\* A job enters an empty queue, under the next number.
LEMMA CreateQueues ==
  ASSUME SchedTypes, NEW kind \in {"backup", "delete"}, NEW place \in SchedulePlaces,
         NEW automatic \in BOOLEAN, NEW victim \in Nat, Create(kind, place, automatic, victim)
  PROVE  /\ queue = NoQueue /\ queue' \in QueueJobs
         /\ queue'.id = history.last + 1 /\ queue'.kind = kind
         /\ queue'.automatic = automatic /\ queue'.victim = victim
         /\ history'.last = history.last + 1 /\ history'.failed = history.failed
         /\ history'.last \in Nat
         /\ history' = [last |-> history'.last, failed |-> history'.failed]
<1>1. /\ queue = NoQueue
      /\ queue' = [id |-> history.last + 1, kind |-> kind, place |-> place,
                   automatic |-> automatic, victim |-> victim]
      /\ history' = [history EXCEPT !.last = history.last + 1]
  BY DEF Create, CanCreate, NextJob
<1>2. history.last + 1 \in Nat \ {0} BY DEF SchedTypes
<1>3. history' = [last |-> history.last + 1, failed |-> history.failed]
  BY <1>1 DEF SchedTypes
<1> QED BY <1>1, <1>2, <1>3 DEF QueueJobs

\* So does the delete that retention asks for.
LEMMA DeleteQueues ==
  ASSUME SchedTypes, NEW s, s.pending.at \in SchedulePlaces, DeletesOldest(s)
  PROVE  /\ queue' \in QueueJobs /\ history'.last \in Nat
         /\ history' = [last |-> history'.last, failed |-> history'.failed]
<1>1. Victims(s) \in SUBSET Points
  BY DEF SchedTypes, Listed, RetentionVictims, Victims
<1>2. Oldest(Victims(s)).job \in Nat
  BY <1>1, OldestIsOneOfThem DEF DeletesOldest, Points
<1> QED BY <1>2, CreateQueues DEF DeletesOldest

\* What the owner saves keeps the run on record.
LEMMA SavedSchedule ==
  ASSUME SchedTypes, NEW enabled \in BOOLEAN, NEW time \in Times, NEW keep \in RetentionChoices,
         SaveSchedule(enabled, time, keep)
  PROVE  schedule' \in Schedules /\ schedule'.lastRun = schedule.lastRun
<1>1. NormalizeSchedule(schedule, enabled, time, keep) \in Schedules
  BY DEF NormalizeSchedule, SchedTypes, Schedules
<1>2. NormalizeSchedule(schedule, enabled, time, keep).lastRun = schedule.lastRun
  BY DEF NormalizeSchedule, SchedTypes, Schedules
<1> HIDE DEF NormalizeSchedule
<1>3. \E c \in Nat, p \in {NoPending} \cup FullPendings :
        schedule' = [NormalizeSchedule(schedule, enabled, time, keep)
                       EXCEPT !.configured = c, !.pending = p]
  <2> DEFINE after == NormalizeSchedule(schedule, enabled, time, keep)
             c == IF TimingChanged(schedule, after) \/ ~schedule.enabled THEN clock
                  ELSE after.configured
             p == IF enabled THEN after.pending ELSE NoPending
  <2>1. schedule' = [after EXCEPT !.configured = c, !.pending = p]
    BY DEF SaveSchedule
  <2>2. c \in Nat BY <1>1, MaxTimeAssumption DEF SchedTypes, Schedules
  <2>3. p \in {NoPending} \cup FullPendings BY <1>1 DEF Schedules
  <2> HIDE DEF c, p
  <2> QED BY <2>1, <2>2, <2>3
<1> QED BY <1>1, <1>2, <1>3 DEF Schedules

\* Settling ends the tick with the run that was on record.
LEMMA SettleKeeps ==
  ASSUME NEW s \in Schedules, NEW result \in {"failed", "succeeded"}, Settle(s, result)
  PROVE  tick' = NoTick /\ schedule' \in Schedules /\ schedule'.lastRun = s.lastRun
PROOF
BY DEF Settle, Written, Schedules

\* A run whose backup is over goes on to its restore points, or is settled.
LEMMA PruneKeeps ==
  ASSUME schedule \in Schedules, NEW s \in Schedules, s.lastRun = schedule.lastRun,
         s.pending \in FullPendings, Prune(s)
  PROVE  /\ schedule' \in Schedules /\ schedule'.lastRun = schedule.lastRun
         /\ tick' = NoTick \/ /\ tick' \in Ticks /\ tick'.step = "points" /\ tick'.read = s
<1>1. CASE s.keep = 0
  BY <1>1, SettleKeeps DEF Prune
<1>2. CASE s.keep # 0
  BY <1>2 DEF Prune, Awaits, Ticks, Never
<1> QED BY <1>1, <1>2

\* The run on record stays until a backup is started for a later one.
RunStands == overlapped \/ schedule'.lastRun = schedule.lastRun \/ PlacesAnswered

\* The types, and that the run a tick read is still the one on record.
LEMMA StepTypesKept ==
  ASSUME SchedTypes, TickIsCurrent, SchedSteps, UNCHANGED tickVars
  PROVE  SchedTypes' /\ TickIsCurrent' /\ RunStands
<1>c. late' = late /\ overlapped' = overlapped
  BY DEF tickVars
<1> USE <1>c, MaxTimeAssumption DEF SchedTypes, TickIsCurrent, RunStands, IsSound
<1>a. tick # NoTick => tick \in Ticks /\ tick.read \in Schedules /\ tick.occurrence \in Nat
  BY DEF Ticks
<1>b. NoTick.step = "none"
  BY DEF NoTick
<1>2. ASSUME NEW enabled \in BOOLEAN, NEW time \in Times, NEW keep \in RetentionChoices,
             SaveSchedule(enabled, time, keep)
      PROVE  SchedTypes' /\ TickIsCurrent' /\ RunStands
  <2>1. schedule' \in Schedules /\ schedule'.lastRun = schedule.lastRun
    BY <1>2, SavedSchedule
  <2>2. spent' \in [moves : Nat, restarts : Nat, backups : Nat]
    BY <1>2 DEF SaveSchedule
  <2>3. UNCHANGED <<clock, primary, tick, queue, history, points, world, asked>>
    BY <1>2 DEF SaveSchedule
  <2> QED BY <2>1, <2>2, <2>3
<1>3. ASSUME NEW choice \in SchedulePlaces \cup {"none"}, SavePrimary(choice)
      PROVE  SchedTypes' /\ TickIsCurrent' /\ RunStands
  BY <1>3 DEF SavePrimary
<1>4. CASE OwnerBacksUp
  <2>1. PICK d \in world.attached : Create("backup", d, FALSE, None)
    BY <1>4 DEF OwnerBacksUp
  <2>2. queue' \in QueueJobs /\ history'.last \in Nat
        /\ history' = [last |-> history'.last, failed |-> history'.failed]
    BY <2>1, CreateQueues DEF None
  <2>3. spent' \in [moves : Nat, restarts : Nat, backups : Nat]
    <3>1. spent.backups + 1 \in Nat /\ spent.moves + 1 \in Nat OBVIOUS
    <3> QED BY <1>4, <3>1 DEF OwnerBacksUp
  <2> QED BY <1>4, <2>2, <2>3 DEF OwnerBacksUp
<1>5. CASE OwnerDeletes
  <2>1. PICK p \in points : Create("delete", p.place, FALSE, p.job)
    BY <1>5 DEF OwnerDeletes
  <2>2. p.place \in SchedulePlaces /\ p.job \in Nat BY DEF Points
  <2>3. queue' \in QueueJobs /\ history'.last \in Nat
        /\ history' = [last |-> history'.last, failed |-> history'.failed]
    BY <2>1, <2>2, CreateQueues
  <2>4. spent' \in [moves : Nat, restarts : Nat, backups : Nat]
    BY <1>5 DEF OwnerDeletes
  <2> QED BY <1>5, <2>3, <2>4 DEF OwnerDeletes
<1>7. CASE UpdateAnswered
  <2>1. tick # NoTick /\ tick.step = "update"
    BY <1>7, <1>b DEF UpdateAnswered
  <2>2. CASE RecordWaiting(tick.read)
    BY <1>7, <1>a, <2>1, <2>2 DEF UpdateAnswered, RecordWaiting, Written
  <2>3. CASE Awaits("places", tick.read, tick.occurrence)
    BY <1>7, <1>a, <2>1, <2>3 DEF UpdateAnswered, Awaits, Ticks
  <2> QED BY <1>7, <2>2, <2>3 DEF UpdateAnswered
<1>8. CASE PlacesAnswered
  <2>1. tick # NoTick /\ tick.step = "places"
    BY <1>8, <1>b DEF PlacesAnswered
  <2>2. CASE primary \in world.attached /\ StartsBackup(tick.read, primary)
    <3>1. /\ Create("backup", primary, TRUE, None)
          /\ asked' = asked \cup {<<tick.occurrence, history.last + 1>>}
          /\ spent' = [spent EXCEPT !.backups = @ + 1] /\ tick' = NoTick
          /\ schedule' = [tick.read EXCEPT !.lastRun = clock,
                  !.pending = [job |-> history.last + 1, at |-> primary, phase |-> "backup",
                               attempts |-> 0]]
      BY <2>2 DEF StartsBackup, Written, NextJob
    <3>2. queue' \in QueueJobs /\ history'.last \in Nat
          /\ history' = [last |-> history'.last, failed |-> history'.failed]
      BY <2>2, <3>1, CreateQueues DEF None
    <3>3. schedule' \in Schedules
      <4> DEFINE p == [job |-> history.last + 1, at |-> primary, phase |-> "backup", attempts |-> 0]
      <4>1. p \in FullPendings /\ clock \in Nat BY <2>2 DEF FullPendings
      <4>2. schedule' = [tick.read EXCEPT !.lastRun = clock, !.pending = p]
        BY <3>1
      <4> HIDE DEF p
      <4> QED BY <1>a, <2>1, <4>1, <4>2 DEF Schedules
    <3>4. asked' \subseteq (1 .. MaxTime) \X (Nat \ {0}) /\ IsFiniteSet(asked')
      <4>1. tick.occurrence \in 1 .. MaxTime /\ history.last + 1 \in Nat \ {0}
        BY <2>1
      <4>2. IsFiniteSet(asked') BY <3>1, OneMoreRun
      <4> QED BY <3>1, <4>1, <4>2
    <3>5. spent' \in [moves : Nat, restarts : Nat, backups : Nat]
      BY <3>1
    <3> QED BY <1>8, <3>1, <3>2, <3>3, <3>4, <3>5 DEF PlacesAnswered
  <2>3. CASE RecordWaiting(tick.read) /\ UNCHANGED <<queue, history, asked, spent>>
    BY <1>8, <1>a, <2>1, <2>3 DEF PlacesAnswered, RecordWaiting, Written
  <2> QED BY <1>8, <2>2, <2>3 DEF PlacesAnswered
<1>9. CASE PointsAnswered
  <2>1. /\ tick # NoTick /\ tick.step = "points" /\ tick.read.pending \in FullPendings
        /\ tick.read.pending.at \in SchedulePlaces /\ tick.read.pending.attempts \in Nat
    BY <1>9, <1>b DEF PointsAnswered, FullPendings
  <2> DEFINE s == tick.read
  <2>2. CASE Settle(s, "succeeded") /\ UNCHANGED <<queue, history>>
    <3>1. /\ tick' = NoTick /\ schedule' \in Schedules
          /\ overlapped \/ schedule'.lastRun = schedule.lastRun
      BY <1>a, <2>1, <2>2, SettleKeeps
    <3> QED BY <1>9, <2>2, <3>1 DEF PointsAnswered
  <2>3. CASE /\ DeletesOldest(s)
             /\ Written([s EXCEPT !.pending.attempts = 0, !.pending.job = NextJob,
                                  !.pending.phase = "retention"])
    <3>3. queue' \in QueueJobs /\ history'.last \in Nat
          /\ history' = [last |-> history'.last, failed |-> history'.failed]
      BY <2>1, <2>3, DeleteQueues
    <3>4. /\ schedule' \in Schedules /\ tick' = NoTick
          /\ overlapped \/ schedule'.lastRun = schedule.lastRun
      <4> DEFINE p == [s.pending EXCEPT !.attempts = 0, !.job = history.last + 1,
                                        !.phase = "retention"]
      <4>1. p \in FullPendings
        <5>1. history.last + 1 \in Nat OBVIOUS
        <5> QED BY <2>1, <5>1 DEF FullPendings
      <4>2. schedule' = [s EXCEPT !.pending = p] /\ tick' = NoTick
        BY <1>a, <2>1, <2>3 DEF Written, NextJob, Schedules
      <4> HIDE DEF p
      <4> QED BY <1>a, <2>1, <4>1, <4>2 DEF Schedules
    <3> QED BY <1>9, <3>3, <3>4 DEF PointsAnswered
  <2>4. CASE Written([s EXCEPT !.pending.attempts = @ + 1]) /\ UNCHANGED <<queue, history>>
    <3> DEFINE p == [s.pending EXCEPT !.attempts = @ + 1]
    <3>1. p \in FullPendings BY <2>1 DEF FullPendings
    <3>2. schedule' = [s EXCEPT !.pending = p] /\ tick' = NoTick
      BY <1>a, <2>1, <2>4 DEF Written, Schedules
    <3>3. schedule' \in Schedules /\ (overlapped \/ schedule'.lastRun = schedule.lastRun)
      <4> HIDE DEF p
      <4> QED BY <1>a, <2>1, <3>1, <3>2 DEF Schedules
    <3> QED BY <1>9, <2>4, <3>2, <3>3 DEF PointsAnswered
  <2> QED BY <1>9, <2>2, <2>3, <2>4 DEF PointsAnswered
<1>10. CASE JobEnds
  <2>1. PICK status \in {"succeeded", "failed"} :
          /\ history' = [history EXCEPT !.failed =
               IF queue.automatic /\ status = "failed" THEN @ \cup {queue.id} ELSE @]
          /\ points' = IF status = "failed" THEN points
                       ELSE IF queue.kind = "backup"
                       THEN points \cup {[place |-> queue.place, job |-> queue.id,
                                          automatic |-> queue.automatic]}
                       ELSE {p \in points : p.job # queue.victim}
    BY <1>10 DEF JobEnds
  <2>2. queue \in QueueJobs /\ queue' = NoQueue BY <1>10 DEF JobEnds
  <2>3. points' \subseteq Points BY <2>1, <2>2 DEF QueueJobs, Points
  <2>4. history'.last = history.last /\ history' = [last |-> history'.last, failed |-> history'.failed]
    BY <2>1
  <2> QED BY <1>10, <2>2, <2>3, <2>4 DEF JobEnds
<1>11. CASE PlugIn
  BY <1>11 DEF PlugIn
<1>12. CASE Unplug
  <2>1. spent' \in [moves : Nat, restarts : Nat, backups : Nat]
    BY <1>12 DEF Unplug
  <2>2. PICK d \in world.attached : world' = [world EXCEPT !.attached = @ \ {d}]
    BY <1>12 DEF Unplug
  <2>3. /\ world'.attached \subseteq SchedulePlaces
        /\ world' = [attached |-> world'.attached, updating |-> world'.updating]
    BY <2>2
  <2> QED BY <1>12, <2>1, <2>3 DEF Unplug
<1>13. CASE UpdateStarts \/ UpdateFinishes
  BY <1>13 DEF UpdateStarts, UpdateFinishes
<1>15. CASE TimePasses
  BY <1>15 DEF TimePasses
<1> QED
  BY <1>2, <1>3, <1>4, <1>5, <1>7, <1>8, <1>9, <1>10, <1>11, <1>12, <1>13, <1>15 DEF SchedSteps

\* And when a tick begins, is the next to be answered, or dies with the agent.
LEMMA TypesKept ==
  ASSUME SchedTypes, TickIsCurrent, [SchedNext]_schedVars
  PROVE  SchedTypes' /\ TickIsCurrent' /\ RunStands
<1> USE MaxTimeAssumption DEF SchedTypes, TickIsCurrent, RunStands, IsSound
<1>a. tick # NoTick => tick \in Ticks /\ tick.read \in Schedules /\ tick.occurrence \in Nat
  BY DEF Ticks
<1>b. NoTick.step = "none"
  BY DEF NoTick
<1>1. CASE UNCHANGED schedVars
  BY <1>1 DEF schedVars, tickVars
<1>2. CASE SchedSteps /\ UNCHANGED tickVars
  BY <1>2, StepTypesKept
<1>3. CASE OtherTick
  BY <1>3 DEF OtherTick
<1>4. CASE Tick
  <2>1. /\ UNCHANGED <<clock, primary, queue, history, points, world, asked>>
        /\ late = NoTick /\ late' = tick /\ overlapped' = (overlapped \/ tick # NoTick)
        /\ spent' \in [moves : Nat, restarts : Nat, backups : Nat]
    <3>1. spent' = spent \/ spent' = [spent EXCEPT !.moves = @ + 1]
      BY <1>4 DEF Tick
    <3> QED BY <1>4, <3>1 DEF Tick
  <2>2. CASE schedule.pending # NoPending /\ Advance(schedule)
    <3>1. schedule.pending \in FullPendings BY <2>2 DEF Schedules
    <3> DEFINE s == [schedule EXCEPT !.pending.phase = "retention"]
    <3>2. s \in Schedules /\ s.lastRun = schedule.lastRun /\ s.pending \in FullPendings
      <4> DEFINE p == [schedule.pending EXCEPT !.phase = "retention"]
      <4>1. p \in FullPendings BY <3>1 DEF FullPendings
      <4>2. s = [schedule EXCEPT !.pending = p] BY DEF Schedules
      <4> HIDE DEF s, p
      <4> QED BY <4>1, <4>2 DEF Schedules
    <3>3. \/ Prune(s) \/ Prune(schedule)
          \/ Settle(schedule, "failed") \/ Settle(schedule, "succeeded")
      BY <2>2 DEF Advance
    <3>4. /\ schedule' \in Schedules /\ schedule'.lastRun = schedule.lastRun
          /\ tick' = NoTick \/ /\ tick' \in Ticks /\ tick'.step = "points"
                               /\ tick'.read.lastRun = schedule.lastRun
                               /\ tick'.read.pending \in FullPendings
      <4> HIDE DEF s
      <4> QED BY <3>1, <3>2, <3>3, PruneKeeps, SettleKeeps
    <3> QED BY <2>1, <3>4
  <2>3. CASE /\ DueOccurrence(schedule, clock) # Never
             /\ Awaits("update", schedule, DueOccurrence(schedule, clock))
    <3>1. /\ DueOccurrence(schedule, clock) \in 1 .. clock
          /\ DueOccurrence(schedule, clock) > schedule.lastRun
      BY <2>3, DueIsOwed
    <3>2. /\ tick' = [step |-> "update", read |-> schedule,
                      occurrence |-> DueOccurrence(schedule, clock)]
          /\ schedule' = schedule
      BY <2>3 DEF Awaits
    <3>3. /\ tick' \in Ticks /\ tick'.step = "update" /\ tick'.read = schedule
          /\ tick'.occurrence \in 1 .. clock /\ tick'.occurrence > schedule.lastRun
      BY <3>1, <3>2 DEF Ticks
    <3> QED BY <2>1, <3>2, <3>3
  <2> QED BY <1>4, <2>2, <2>3 DEF Tick
<1>5. CASE AgentRestarts
  <2>1. spent' \in [moves : Nat, restarts : Nat, backups : Nat] /\ tick' = NoTick
    <3>1. spent.backups + 1 \in Nat /\ spent.restarts + 1 \in Nat
      OBVIOUS
    <3>2. \/ spent' = [spent EXCEPT !.restarts = @ + 1, !.backups = @ + 1]
          \/ spent' = [spent EXCEPT !.restarts = @ + 1]
      BY <1>5 DEF AgentRestarts
    <3>3. spent' \in [moves : Nat, restarts : Nat, backups : Nat]
      BY <3>1, <3>2
    <3> QED BY <1>5, <3>3 DEF AgentRestarts
  <2>2. CASE /\ tick.step = "places" /\ primary \in world.attached
             /\ Create("backup", primary, TRUE, None)
             /\ asked' = asked \cup {<<tick.occurrence, NextJob>>}
    <3>1. queue' \in QueueJobs /\ history'.last \in Nat
          /\ history' = [last |-> history'.last, failed |-> history'.failed]
      BY <2>2, CreateQueues DEF None
    <3>2. asked' \subseteq (1 .. MaxTime) \X (Nat \ {0}) /\ IsFiniteSet(asked')
      <4>1. tick.occurrence \in 1 .. MaxTime /\ history.last + 1 \in Nat \ {0}
        BY <1>5, <2>2 DEF AgentRestarts
      <4>2. asked' = asked \cup {<<tick.occurrence, history.last + 1>>}
        BY <2>2 DEF NextJob
      <4>3. IsFiniteSet(asked') BY <4>2, OneMoreRun
      <4> QED BY <4>1, <4>2, <4>3
    <3> QED BY <1>5, <2>1, <3>1, <3>2 DEF AgentRestarts
  <2>3. CASE UNCHANGED <<queue, history, asked>>
    BY <1>5, <2>1, <2>3 DEF AgentRestarts
  <2>4. CASE tick.step = "points" /\ DeletesOldest(tick.read) /\ UNCHANGED asked
    <3>1. tick.read.pending \in FullPendings
      BY <1>5, <2>4 DEF AgentRestarts
    <3>2. queue' \in QueueJobs /\ history'.last \in Nat
          /\ history' = [last |-> history'.last, failed |-> history'.failed]
      BY <2>4, <3>1, DeleteQueues DEF FullPendings
    <3> QED BY <1>5, <2>1, <2>4, <3>2 DEF AgentRestarts
  <2> QED BY <1>5, <2>2, <2>3, <2>4 DEF AgentRestarts
<1> QED BY <1>1, <1>2, <1>3, <1>4, <1>5 DEF SchedNext

------------------------------------------------------------------------------
(* How often an occurrence is backed up. *)

\* A step counts a run of the occurrence only when it writes the run down, or dies doing so.
LEMMA AskedKept ==
  ASSUME SchedTypes, TickIsCurrent, AskedOnce, [SchedNext]_schedVars
  PROVE  AskedOnce'
<1>a. SchedTypes' /\ TickIsCurrent' /\ RunStands
  BY TypesKept
<1>c. overlapped => overlapped'
  BY DEF SchedNext, tickVars, Tick, OtherTick, AgentRestarts, schedVars
<1> SUFFICES ASSUME ~overlapped' PROVE AskedOnce'
  BY DEF AskedOnce
<1>d. ~overlapped
  BY <1>c
<1> USE <1>d
<1>b. /\ spent.restarts \in Nat /\ spent'.restarts \in Nat
      /\ schedule.lastRun \in Nat /\ schedule'.lastRun \in Nat
      /\ \A o \in 1 .. MaxTime : Cardinality(Runs(o)) \in Nat /\ Cardinality(Runs(o)') \in Nat
  <2>1. \A o : IsFiniteSet(Runs(o)) /\ IsFiniteSet(Runs(o)')
    BY <1>a, FS_Subset DEF Runs, SchedTypes
  <2> QED BY <1>a, <2>1, FS_CardinalityType DEF SchedTypes, Schedules
<1>1. ASSUME asked' = asked, schedule'.lastRun = schedule.lastRun, spent.restarts <= spent'.restarts
      PROVE  AskedOnce'
  <2>1. \A o : Runs(o)' = Runs(o) BY <1>1 DEF Runs
  <2>2. ASSUME NEW o \in 1 .. MaxTime
        PROVE  Cardinality(Runs(o)') <= spent'.restarts + (IF o <= schedule'.lastRun THEN 1 ELSE 0)
    <3>1. Cardinality(Runs(o)) <= spent.restarts + (IF o <= schedule.lastRun THEN 1 ELSE 0)
      BY DEF AskedOnce
    <3> QED BY <1>1, <1>b, <2>1, <3>1
  <2> QED BY <2>2 DEF AskedOnce
<1>2. ASSUME NEW run \in 1 .. MaxTime, NEW n, asked' = asked \cup {<<run, n>>},
             run > schedule.lastRun,
             \/ schedule'.lastRun >= run /\ spent'.restarts = spent.restarts
             \/ schedule'.lastRun = schedule.lastRun /\ spent'.restarts = spent.restarts + 1
      PROVE  AskedOnce'
  <2>1. Cardinality(Runs(run)') <= Cardinality(Runs(run)) + 1
    BY <1>2, OneMoreRun DEF SchedTypes
  <2>2. \A o : o # run => Runs(o)' = Runs(o)
    BY <1>2, OneMoreRun DEF SchedTypes
  <2>3. ASSUME NEW o \in 1 .. MaxTime
        PROVE  Cardinality(Runs(o)') <= spent'.restarts + (IF o <= schedule'.lastRun THEN 1 ELSE 0)
    <3>1. Cardinality(Runs(o)) <= spent.restarts + (IF o <= schedule.lastRun THEN 1 ELSE 0)
      BY DEF AskedOnce
    <3>2. CASE o = run
      BY <1>2, <1>b, <2>1, <3>1, <3>2
    <3>3. CASE o # run
      BY <1>2, <1>b, <2>2, <3>1, <3>3
    <3> QED BY <3>2, <3>3
  <2> QED BY <2>3 DEF AskedOnce
<1>3. CASE PlacesAnswered
  <2>1. /\ tick # NoTick /\ tick.step = "places" /\ tick.read \in Schedules
        /\ tick.occurrence \in 1 .. clock /\ tick.occurrence > schedule.lastRun
        /\ tick.read.lastRun = schedule.lastRun
    BY <1>3 DEF PlacesAnswered, SchedTypes, TickIsCurrent, IsSound, Ticks, NoTick
  <2>2. CASE StartsBackup(tick.read, primary)
    <3>1. /\ asked' = asked \cup {<<tick.occurrence, NextJob>>}
          /\ spent' = [spent EXCEPT !.backups = @ + 1]
          /\ schedule' = [tick.read EXCEPT !.lastRun = clock,
                  !.pending = [job |-> NextJob, at |-> primary, phase |-> "backup", attempts |-> 0]]
      BY <2>2 DEF StartsBackup, Written
    <3>2. schedule'.lastRun = clock BY <2>1, <3>1 DEF Schedules
    <3>3. spent'.restarts = spent.restarts BY <3>1 DEF SchedTypes
    <3>4. tick.occurrence \in 1 .. MaxTime /\ clock >= tick.occurrence
      BY <2>1, MaxTimeAssumption DEF SchedTypes
    <3> QED BY <1>2, <2>1, <3>1, <3>2, <3>3, <3>4
  <2>3. CASE RecordWaiting(tick.read) /\ UNCHANGED <<queue, history, asked, spent>>
    BY <1>1, <1>b, <2>1, <2>3 DEF RecordWaiting, Written
  <2> QED BY <1>3, <2>2, <2>3 DEF PlacesAnswered
<1>4. CASE AgentRestarts
  <2>1. spent'.restarts = spent.restarts + 1 /\ schedule' = schedule
    BY <1>4 DEF AgentRestarts, SchedTypes
  <2>2. CASE asked' = asked
    BY <1>1, <1>b, <2>1, <2>2
  <2>3. CASE tick.step = "places" /\ asked' = asked \cup {<<tick.occurrence, NextJob>>}
    <3>1. tick.occurrence \in 1 .. MaxTime /\ tick.occurrence > schedule.lastRun
      BY <1>4, <2>3, MaxTimeAssumption DEF AgentRestarts, SchedTypes, TickIsCurrent, IsSound
    <3> QED BY <1>2, <2>1, <2>3, <3>1
  <2> QED BY <1>4, <2>2, <2>3 DEF AgentRestarts
<1>5. ASSUME ~ PlacesAnswered, asked' = asked, spent'.restarts = spent.restarts PROVE AskedOnce'
  BY <1>1, <1>5, <1>a, <1>b DEF RunStands
<1>6. ASSUME NEW enabled \in BOOLEAN, NEW time \in Times, NEW keep \in RetentionChoices,
             SaveSchedule(enabled, time, keep)
      PROVE  asked' = asked /\ spent'.restarts = spent.restarts
  BY <1>6 DEF SaveSchedule, SchedTypes
<1>7. ASSUME \/ \E choice \in SchedulePlaces \cup {"none"} : SavePrimary(choice)
             \/ OwnerBacksUp \/ OwnerDeletes \/ Unplug \/ UpdateStarts
      PROVE  asked' = asked /\ spent'.restarts = spent.restarts
  BY <1>7 DEF SavePrimary, OwnerBacksUp, OwnerDeletes, Unplug, UpdateStarts, SchedTypes
<1>8. ASSUME \/ UNCHANGED schedVars \/ OtherTick \/ UpdateAnswered \/ PointsAnswered \/ JobEnds
             \/ Tick \/ PlugIn \/ UpdateFinishes \/ TimePasses
      PROVE  asked' = asked /\ spent'.restarts = spent.restarts
  BY <1>8 DEF schedVars, Tick, OtherTick, UpdateAnswered, PointsAnswered, JobEnds, PlugIn,
              UpdateFinishes, TimePasses, SchedTypes
<1> QED BY <1>3, <1>4, <1>5, <1>6, <1>7, <1>8 DEF SchedNext, SchedSteps

------------------------------------------------------------------------------
(* What retention may remove. *)

RetentionInv == NumbersAreNew /\ AutomaticWasAsked /\ DeleteSpares

\* A step that touches neither the queue nor the points keeps it, runs that are asked for and all.
LEMMA RetentionAside ==
  ASSUME RetentionInv, UNCHANGED <<queue, history, points>>, asked \subseteq asked'
  PROVE  RetentionInv'
<1>1. NumbersAreNew' BY DEF RetentionInv, NumbersAreNew
<1>2. AutomaticWasAsked' BY DEF RetentionInv, AutomaticWasAsked
<1>3. DeleteSpares' BY DEF RetentionInv, DeleteSpares
<1> QED BY <1>1, <1>2, <1>3 DEF RetentionInv

\* A job that enters the queue keeps it, when it is a backup that was asked for, when the owner
\* made it, or when it is a delete that spares what it has to.
LEMMA RetentionQueued ==
  ASSUME SchedTypes, RetentionInv, points' = points, asked \subseteq asked',
         NEW kind \in {"backup", "delete"}, NEW place \in SchedulePlaces,
         NEW automatic \in BOOLEAN, NEW victim \in Nat, Create(kind, place, automatic, victim),
         kind = "backup" /\ automatic => \E run \in asked' : run[2] = history.last + 1,
         kind = "delete" /\ automatic =>
           \A p \in points : p.job = victim =>
             p.automatic /\ \E q \in points : q.automatic /\ q.job > p.job
  PROVE  RetentionInv'
<1>1. /\ queue = NoQueue /\ queue' \in QueueJobs
      /\ queue'.id = history.last + 1 /\ queue'.kind = kind
      /\ queue'.automatic = automatic /\ queue'.victim = victim
      /\ history'.last = history.last + 1 /\ history'.failed = history.failed
      /\ history.last \in Nat
  BY CreateQueues DEF SchedTypes
<1>2. /\ \A p \in points : p.job \in Nat /\ p.job <= history.last /\ p.job \notin history.failed
      /\ \A p, q \in points : p.job = q.job => p = q
      /\ \A n \in history.failed : n \in 1 .. history.last
      /\ \A p \in points : p.automatic => \E run \in asked : run[2] = p.job
  BY DEF RetentionInv, NumbersAreNew, AutomaticWasAsked, SchedTypes, Points
<1>3. NumbersAreNew' BY <1>1, <1>2 DEF NumbersAreNew
<1>4. AutomaticWasAsked' BY <1>1, <1>2 DEF AutomaticWasAsked
<1>5. DeleteSpares'
  <2>1. SUFFICES ASSUME kind = "delete", automatic, NEW p \in points, p.job = victim
                 PROVE  /\ p.automatic
                        /\ \E own \in asked' : /\ own[2] > p.job /\ own[2] # history.last + 1
                                               /\ own[2] \notin history.failed
    BY <1>1 DEF DeleteSpares
  <2>2. PICK q \in points : q.automatic /\ q.job > p.job /\ p.automatic
    BY <2>1
  <2>3. PICK own \in asked : own[2] = q.job
    BY <1>2, <2>2
  <2> QED BY <1>1, <1>2, <2>2, <2>3
<1> QED BY <1>3, <1>4, <1>5 DEF RetentionInv

\* Every step keeps it, and takes a point away only as it allows.
LEMMA RetentionKept ==
  ASSUME SchedTypes, TickIsCurrent, RetentionInv, [SchedNext]_schedVars
  PROVE  RetentionInv' /\ SparesTheOwner
<1>a. \A p \in points : p.place \in SchedulePlaces /\ p.job \in Nat
  BY DEF SchedTypes, Points
<1>b. points' = points => SparesTheOwner
  BY DEF SparesTheOwner
<1>1. ASSUME UNCHANGED <<queue, history, points, asked>> PROVE RetentionInv' /\ SparesTheOwner
  BY <1>1, <1>b, RetentionAside
<1>2. ASSUME \/ UNCHANGED schedVars
             \/ \E enabled \in BOOLEAN, time \in Times, keep \in RetentionChoices :
                  SaveSchedule(enabled, time, keep)
             \/ \E choice \in SchedulePlaces \cup {"none"} : SavePrimary(choice)
             \/ Tick \/ OtherTick \/ UpdateAnswered \/ PlugIn \/ Unplug \/ UpdateStarts
             \/ UpdateFinishes \/ TimePasses
      PROVE  RetentionInv' /\ SparesTheOwner
  BY <1>1, <1>2 DEF schedVars, SaveSchedule, SavePrimary, Tick, OtherTick, UpdateAnswered, PlugIn, Unplug,
                    UpdateStarts, UpdateFinishes, TimePasses
<1>3. CASE OwnerBacksUp
  <2>1. PICK d \in world.attached : Create("backup", d, FALSE, None)
    BY <1>3 DEF OwnerBacksUp
  <2> QED BY <1>3, <1>b, <2>1, RetentionQueued DEF OwnerBacksUp, None, SchedTypes
<1>4. CASE OwnerDeletes
  <2>1. PICK p \in points : Create("delete", p.place, FALSE, p.job)
    BY <1>4 DEF OwnerDeletes
  <2> QED BY <1>4, <1>a, <1>b, <2>1, RetentionQueued DEF OwnerDeletes
<1>5. CASE PlacesAnswered
  <2>1. CASE primary \in world.attached /\ StartsBackup(tick.read, primary)
    <3>1. /\ Create("backup", primary, TRUE, None)
          /\ asked' = asked \cup {<<tick.occurrence, history.last + 1>>}
      BY <2>1 DEF StartsBackup, NextJob
    <3>2. \E run \in asked' : run[2] = history.last + 1
      <4> DEFINE run == <<tick.occurrence, history.last + 1>>
      <4>1. run[2] = history.last + 1 OBVIOUS
      <4>2. run \in asked' BY <3>1
      <4> HIDE DEF run
      <4> QED BY <4>1, <4>2
    <3> QED BY <1>5, <1>b, <2>1, <3>1, <3>2, RetentionQueued DEF PlacesAnswered, None, SchedTypes
  <2>2. CASE UNCHANGED <<queue, history, asked>>
    BY <1>1, <1>5, <2>2 DEF PlacesAnswered
  <2> QED BY <1>5, <2>1, <2>2 DEF PlacesAnswered
<1>d. ASSUME tick.step = "points", DeletesOldest(tick.read), UNCHANGED <<points, asked>>
      PROVE  RetentionInv' /\ SparesTheOwner
  <2> DEFINE s == tick.read
             victims == RetentionVictims(Listed(s.pending.at), s.keep)
  <2>1. victims # {} /\ Create("delete", s.pending.at, TRUE, Oldest(victims).job)
    BY <1>d DEF DeletesOldest, Victims
  <2>2. /\ s.pending.at \in SchedulePlaces /\ s.keep \in RetentionChoices
        /\ Listed(s.pending.at) \in SUBSET Points
    BY <1>d DEF SchedTypes, TickIsCurrent, IsSound, NoTick, Ticks, Schedules, FullPendings, Listed
  <2>3. victims \in SUBSET Listed(s.pending.at) BY <2>2, VictimsAreOld
  <2> PICK v \in victims : v = Oldest(victims)
    BY <2>1, <2>2, <2>3, OldestIsOneOfThem
  <2>4. PICK q \in Listed(s.pending.at) : v.automatic /\ q.automatic /\ q.job > v.job
    BY <2>2, VictimsAreOld
  <2>5. v \in points /\ q \in points BY <2>3, <2>4 DEF Listed
  <2>6. \A p \in points : p.job = v.job => p.automatic /\ \E r \in points : r.automatic /\ r.job > p.job
    BY <2>4, <2>5 DEF RetentionInv, NumbersAreNew
  <2>7. Create("delete", s.pending.at, TRUE, v.job) /\ v.job \in Nat
    BY <1>a, <2>1, <2>5
  <2> HIDE DEF s, victims
  <2> QED BY <1>d, <1>b, <2>2, <2>6, <2>7, RetentionQueued
<1>6. CASE PointsAnswered
  <2>1. CASE UNCHANGED <<queue, history>>
    BY <1>1, <1>6, <2>1 DEF PointsAnswered
  <2>2. CASE DeletesOldest(tick.read)
    BY <1>6, <1>d, <2>2 DEF PointsAnswered
  <2> QED BY <1>6, <2>1, <2>2 DEF PointsAnswered
<1>7. CASE AgentRestarts
  <2>1. CASE /\ primary \in world.attached /\ Create("backup", primary, TRUE, None)
             /\ asked' = asked \cup {<<tick.occurrence, NextJob>>}
    <3>1. asked' = asked \cup {<<tick.occurrence, history.last + 1>>}
      BY <2>1 DEF NextJob
    <3>2. \E run \in asked' : run[2] = history.last + 1
      <4> DEFINE run == <<tick.occurrence, history.last + 1>>
      <4>1. run[2] = history.last + 1 OBVIOUS
      <4>2. run \in asked' BY <3>1
      <4> HIDE DEF run
      <4> QED BY <4>1, <4>2
    <3> QED BY <1>7, <1>b, <2>1, <3>1, <3>2, RetentionQueued DEF AgentRestarts, None, SchedTypes
  <2>2. CASE UNCHANGED <<queue, history, asked>>
    BY <1>1, <1>7, <2>2 DEF AgentRestarts
  <2>3. CASE tick.step = "points" /\ DeletesOldest(tick.read) /\ UNCHANGED asked
    BY <1>7, <1>d, <2>3 DEF AgentRestarts
  <2> QED BY <1>7, <2>1, <2>2, <2>3 DEF AgentRestarts
<1>8. CASE JobEnds
  <2>1. PICK status \in {"succeeded", "failed"} :
          /\ history' = [history EXCEPT !.failed =
               IF queue.automatic /\ status = "failed" THEN @ \cup {queue.id} ELSE @]
          /\ points' = IF status = "failed" THEN points
                       ELSE IF queue.kind = "backup"
                       THEN points \cup {[place |-> queue.place, job |-> queue.id,
                                          automatic |-> queue.automatic]}
                       ELSE {p \in points : p.job # queue.victim}
    BY <1>8 DEF JobEnds
  <2>2. /\ queue \in QueueJobs /\ queue # NoQueue /\ queue' = NoQueue /\ asked' = asked
        /\ queue.id = history.last /\ queue.id \in Nat \ {0} /\ queue.kind \in {"backup", "delete"}
        /\ queue.id \notin history.failed
    BY <1>8 DEF JobEnds, SchedTypes, QueueJobs, RetentionInv, NumbersAreNew
  <2>3. /\ history'.last = history.last
        /\ history'.failed \in {history.failed, history.failed \cup {queue.id}}
        /\ status # "failed" => history'.failed = history.failed
    BY <2>1 DEF SchedTypes
  <2>4. NoQueue.id = 0 /\ NoQueue.kind = "none" BY DEF NoQueue, None
  <2>5. /\ \A p \in points : /\ p.job \in Nat \ {0} /\ p.job <= history.last /\ p.job # queue.id
                            /\ p.job \notin history.failed
        /\ \A p, q \in points : p.job = q.job => p = q
        /\ \A n \in history.failed : n \in 1 .. history.last
        /\ \A p \in points : p.automatic => \E run \in asked : run[2] = p.job
    BY DEF RetentionInv, NumbersAreNew, AutomaticWasAsked, SchedTypes, Points
  <2>6. ASSUME NEW p \in points'
        PROVE  \/ p \in points
               \/ /\ p.job = queue.id /\ p.automatic = queue.automatic /\ queue.kind = "backup"
                  /\ p = [place |-> queue.place, job |-> queue.id, automatic |-> queue.automatic]
                  /\ status # "failed"
    BY <2>1
  <2>7. NumbersAreNew'
    <3>1. \A p \in points' : /\ p.job <= history'.last /\ p.job # queue'.id
                             /\ p.job \notin history'.failed
      BY <2>2, <2>3, <2>4, <2>5, <2>6
    <3>2. \A p, q \in points' : p.job = q.job => p = q BY <2>5, <2>6
    <3>3. \A n \in history'.failed : n \in 1 .. history'.last
      BY <2>2, <2>3, <2>5
    <3> QED BY <2>2, <3>1, <3>2, <3>3 DEF NumbersAreNew
  <2>8. AutomaticWasAsked'
    BY <2>2, <2>4, <2>5, <2>6 DEF AutomaticWasAsked, RetentionInv
  <2>9. DeleteSpares' BY <2>2, <2>4 DEF DeleteSpares
  <2>10. SparesTheOwner
    <3>1. SUFFICES ASSUME NEW p \in points, p \notin points', queue.automatic
                   PROVE  /\ p.automatic
                          /\ \E own \in asked : /\ own[2] > p.job /\ own[2] # queue.id
                                                /\ own[2] \notin history.failed
      BY DEF SparesTheOwner
    <3>2. queue.kind = "delete" /\ p.job = queue.victim
      BY <2>1, <2>2, <3>1
    <3> QED BY <3>1, <3>2 DEF RetentionInv, DeleteSpares
  <2> QED BY <2>7, <2>8, <2>9, <2>10 DEF RetentionInv
<1> QED BY <1>2, <1>3, <1>4, <1>5, <1>6, <1>7, <1>8 DEF SchedNext, SchedSteps

------------------------------------------------------------------------------
\* A server on which nothing has been scheduled yet.
LEMMA SchedInitially == SchedInit => SchedInv
<1> SUFFICES ASSUME SchedInit PROVE SchedInv
  OBVIOUS
<1>1. SchedTypes
  <2>1. schedule \in Schedules
    <3>1. Unset \in Schedules
      BY DEF Schedules, Unset, Times, RetentionChoices, Never
    <3>2. [Unset EXCEPT !.enabled = TRUE] \in Schedules
      BY <3>1 DEF Schedules
    <3> QED BY <3>1, <3>2 DEF SchedInit
  <2>2. IsFiniteSet(asked) /\ clock \in 1 .. MaxTime
    BY FS_EmptySet, MaxTimeAssumption DEF SchedInit
  <2> QED BY <2>1, <2>2 DEF SchedInit, SchedTypes
<1>2. AskedOnce
  <2>1. \A o : Cardinality(Runs(o)) = 0
    <3>1. \A o : Runs(o) = {} BY DEF SchedInit, Runs
    <3>2. Cardinality({}) = 0 BY FS_EmptySet
    <3> QED BY <3>1, <3>2
  <2>2. spent.restarts = 0 BY DEF SchedInit
  <2> QED BY <2>1, <2>2 DEF AskedOnce
<1>3. TickIsCurrent /\ NumbersAreNew /\ AutomaticWasAsked /\ DeleteSpares
  BY DEF SchedInit, TickIsCurrent, IsSound, NumbersAreNew, AutomaticWasAsked, DeleteSpares, NoQueue
<1> QED BY <1>1, <1>2, <1>3 DEF SchedInv

LEMMA SchedInvHolds == SchedSpec => []SchedInv
<1>1. SchedInv /\ [SchedNext]_schedVars => SchedInv'
  BY TypesKept, AskedKept, RetentionKept DEF SchedInv, RetentionInv
<1> QED BY <1>1, SchedInitially, PTL DEF SchedSpec

\* The clock runs on, the owner edits the schedule and the agent dies between any two awaits of a
\* tick: an occurrence gets one backup, and one more for each death before it was written down,
\* up to the first tick that begins beside another (dueOccurrence and the tick of the scheduler).
THEOREM OccurrencesRunOnce == SchedSpec => []RunsOncePerOccurrence
<1>1. SchedInv => RunsOncePerOccurrence
  <2>1. SUFFICES ASSUME SchedInv, ~overlapped, NEW o \in 1 .. MaxTime
                 PROVE  Cardinality(Runs(o)) <= 1 + spent.restarts
    BY DEF RunsOncePerOccurrence, Runs
  <2>2. Cardinality(Runs(o)) \in Nat /\ spent.restarts \in Nat
    BY <2>1, FS_Subset, FS_CardinalityType DEF SchedInv, SchedTypes, Runs
  <2>3. Cardinality(Runs(o)) <= spent.restarts + (IF o <= schedule.lastRun THEN 1 ELSE 0)
    BY <2>1 DEF SchedInv, AskedOnce
  <2> QED BY <2>2, <2>3
<1> QED BY <1>1, SchedInvHolds, PTL

\* Whatever the owner backs up, deletes or chooses between the listing of the restore points and
\* the delete that retention asked for, it falls on an automatic one, older than an automatic
\* backup that succeeded (retentionVictims in schedule.cjs).
THEOREM RetentionSpares == SchedSpec => RetentionSparesTheOwner
<1>1. SchedInv /\ [SchedNext]_schedVars => [SparesTheOwner]_schedVars
  BY RetentionKept DEF SchedInv, RetentionInv
<1> QED BY <1>1, SchedInvHolds, PTL DEF SchedSpec, RetentionSparesTheOwner

------------------------------------------------------------------------------
(* The drive of the owner's files. *)

Carriers  == {"look", "clear", "mount", "record"}
DriveOps  == {"none", "attach", "missed", "use", "open", "eject", "check", "apply", "remove", "change"}
DrivePcs  == Carriers \cup {"done", "restart", "folders", "run", "start", "keep", "stop", "close",
                            "repair", "eject", "release", "prove", "root", "write"}

\* Where each kind of work can be.
PlacesOf(op) ==
  CASE op \in {"none", "missed"} -> {"done"}
    [] op = "attach" -> Carriers \cup {"restart", "done"}
    [] op = "use"    -> Carriers \cup {"restart", "done"}
    [] op = "open"   -> Carriers \cup {"keep", "done"}
    [] op = "apply"  -> Carriers \cup {"folders", "run", "done"}
    [] op = "eject"  -> Carriers \cup {"stop", "close", "eject", "restart", "done"}
    [] op = "check"  -> Carriers \cup {"stop", "close", "repair", "start", "done"}
    [] op = "remove" -> {"release", "done"}
    [] op = "change" -> {"prove", "root", "write", "done"}

Doings == [op : DriveOps, pc : DrivePcs, app : DriveApps \cup {"none"}, stopped : SUBSET DriveApps]
Boxes  == [state : {"none", "running", "stopped"}, bind : Nat]
Claims == [known : BOOLEAN, apps : SUBSET DriveApps, ejected : BOOLEAN, keepOpen : BOOLEAN]
Mounts == [source : {0, 1, 2}, readOnly : BOOLEAN, id : Nat]

SpaceTypes ==
  /\ ownDrive \in [plugged : BOOLEAN, path : {1, 2}, dirty : BOOLEAN]
  /\ mount \in Mounts /\ claim \in Claims
  /\ boxes \in [DriveApps -> Boxes]
  /\ astray \in BOOLEAN /\ overlap \in BOOLEAN
  /\ work \in [Handlers -> Doings]

Routes ==
  /\ \A h \in Handlers : work[h].pc \in PlacesOf(work[h].op)
  /\ \A h \in Handlers : work[h].op = "apply" => work[h].app \in DriveApps
  /\ work["plug"].op \in {"none", "attach", "missed"}

NoneRuns == \A a \in DriveApps : boxes[a].state # "running"
AllBound == \A a \in DriveApps : boxes[a].state = "running" => boxes[a].bind = mount.id

Alone == \A h, k \in Handlers : Working(h) /\ Working(k) => h = k

\* What a handler alone knows of the drive, where it stands.
Closing ==
  \A h \in Handlers :
    /\ Working(h) /\ work[h].op \in {"eject", "check"} => ~claim.ejected
    /\ work[h].pc \in {"close", "repair", "eject"} => NoneRuns
    /\ work[h].pc = "eject" => ~Mounted

Opening ==
  \A h \in Handlers :
    /\ work[h].pc \in {"clear", "mount"} => ~OpenHere
    /\ work[h].pc = "mount" => ~Mounted
    /\ work[h].pc = "root" => Mounted
    /\ work[h].pc \in {"record", "restart", "folders", "run"} => Mounted /\ (ownDrive.plugged => OpenHere)
    /\ work[h].pc = "run" => claim.known /\ work[h].app \in claim.apps

\* A drive on record as ejected is read by nobody, and whoever opens it is about to say so.
EjectedMeans ==
  claim.ejected =>
    /\ claim.known /\ NoneRuns
    /\ \A h \in Handlers : work[h].pc \notin {"restart", "folders", "run", "start", "keep"}
    /\ OpenHere => \E h \in Handlers : work[h].pc = "record"

ClaimsHold ==
  /\ claim.apps # {} => claim.known
  /\ \A a \in DriveApps : boxes[a].state # "none" => a \in claim.apps

\* Once the plug-in unit has been through, the drive is open and read by its own mount, or
\* shut and read by nobody.
Settled ==
  ownDrive.plugged /\ ~Working("plug") /\ work["plug"].op # "missed" =>
    (OpenHere /\ AllBound) \/ (~Mounted /\ NoneRuns)

SpaceInv ==
  /\ SpaceTypes /\ Routes
  /\ ~overlap => Alone /\ Closing /\ Opening /\ EjectedMeans /\ ClaimsHold /\ Settled /\ ~astray

\* Where a handler goes once the drive is open.
LEMMA OpenedNext ==
  ASSUME SpaceTypes, Routes, NEW h \in Handlers, work[h].pc \in Carriers
  PROVE  /\ work[h].op \in {"attach", "use", "open", "apply", "eject", "check"}
         /\ work[h].op \in {"attach", "use", "eject"} => AfterAttach(h) = "restart"
         /\ work[h].op = "check" => AfterAttach(h) = "start"
         /\ work[h].op = "apply" => AfterAttach(h) = "folders"
         /\ work[h].op = "open" => AfterAttach(h) = "keep"
<1>1. work[h].op \in DriveOps /\ work[h].pc \in PlacesOf(work[h].op)
  BY DEF SpaceTypes, Doings, Routes
<1>2. work[h].op \in {"attach", "use", "open", "apply", "eject", "check"}
  BY <1>1 DEF PlacesOf, Carriers, DriveOps
<1> QED BY <1>2 DEF AfterAttach

\* A handler that only moves on.
LEMMA HandlerMoves ==
  ASSUME SpaceTypes, Routes, NEW h \in Handlers, NEW pc, pc \in PlacesOf(work[h].op),
         work' = [work EXCEPT ![h].pc = pc]
  PROVE  /\ work' \in [Handlers -> Doings]
         /\ Routes'
<1>1. work[h].op \in DriveOps /\ pc \in DrivePcs
  BY DEF SpaceTypes, Doings, PlacesOf, DriveOps, DrivePcs
<1>0. [work[h] EXCEPT !.pc = pc] \in Doings
  BY <1>1 DEF SpaceTypes, Doings
<1>2. work' \in [Handlers -> Doings] BY <1>0 DEF SpaceTypes
<1>3. \A k \in Handlers : work'[k].op = work[k].op /\ work'[k].app = work[k].app /\ work'[k].pc = IF k = h THEN pc ELSE work[k].pc
  BY DEF SpaceTypes, Doings
<1>4. "plug" \in Handlers BY DEF Handlers
<1>5. Routes' BY <1>3, <1>4 DEF Routes
<1> QED BY <1>2, <1>5


LEMMA DriveWorkStep ==
  ASSUME SpaceInv, NEW h \in Handlers, DriveWork(h)
  PROVE  SpaceInv'
<1> USE DEF SpaceInv

<1>1. CASE AttachLooks(h)
  <2> USE <1>1 DEF AttachLooks, Pc, Is, AttachFails, OpenHere, Mounted, Nowhere
  <2>0. /\ work[h].op \in {"attach", "use", "open", "apply", "eject", "check"}
        /\ work[h].op \in {"attach", "use", "eject"} => AfterAttach(h) = "restart"
        /\ work[h].op = "check" => AfterAttach(h) = "start"
        /\ work[h].op = "apply" => AfterAttach(h) = "folders"
        /\ work[h].op = "open" => AfterAttach(h) = "keep"
    BY OpenedNext DEF Carriers
  <2>1. SpaceTypes' /\ Routes'
    <3>1. work[h].op \in DriveOps /\ work[h].pc \in PlacesOf(work[h].op)
      BY DEF SpaceTypes, Doings, Routes
    <3>3. /\ work' \in [Handlers -> Doings]
          /\ Routes'
      <4>1. work' \in [Handlers -> Doings]
        BY <2>0, <3>1 DEF SpaceTypes, Doings, DrivePcs, DriveOps, Carriers
      <4>2. \A k \in Handlers \ {h} : work'[k] = work[k]
        BY DEF SpaceTypes
      <4>3. work'[h].pc \in PlacesOf(work'[h].op) /\ (work[h].op \in {"none", "attach", "missed"} => work'[h].op \in {"none", "attach", "missed"})
              /\ (work'[h].op = "apply" => work[h].op = "apply") /\ work'[h].app = work[h].app
        BY <2>0, <3>1 DEF SpaceTypes, Doings, PlacesOf, DrivePcs, DriveOps, Carriers
      <4> QED BY <4>1, <4>2, <4>3 DEF Routes, Handlers
    <3>4. SpaceTypes' BY <3>3 DEF SpaceTypes, Mounts, Claims, Boxes
    <3> QED BY <3>3, <3>4
  <2>2. ASSUME ~overlap'
        PROVE  Alone' /\ Closing' /\ Opening' /\ EjectedMeans' /\ ClaimsHold' /\ Settled' /\ ~astray'
    <3> USE <2>2
    <3>1. Alone'
      BY <2>0 DEF Alone, Working, SpaceTypes, Doings, Boxes, Claims, Mounts, Routes, PlacesOf, Carriers
    <3>2. Closing'
      BY <2>0 DEF Closing, Alone, Working, SpaceTypes, Doings, Boxes, Claims, Mounts, Routes, PlacesOf, Carriers, NoneRuns, EjectedMeans
    <3>3. Opening'
      BY <2>0 DEF Opening, Alone, Working, SpaceTypes, Doings, Boxes, Claims, Mounts, Routes, PlacesOf, Carriers
    <3>4. EjectedMeans'
      BY <2>0 DEF EjectedMeans, Opening, Closing, Alone, Working, SpaceTypes, Doings, Boxes, Claims, Mounts, Routes, PlacesOf, Carriers, NoneRuns
    <3>5. ClaimsHold'
      BY <2>0 DEF ClaimsHold, Opening, SpaceTypes, Doings, Boxes, Claims, Mounts, Routes, PlacesOf, Carriers
    <3>6. Settled'
      BY <2>0, SMTT(30) DEF Settled, ClaimsHold, Opening, Closing, Alone, Working, SpaceTypes, Doings, Boxes, Claims, Mounts, Routes, PlacesOf, Carriers, NoneRuns, AllBound, Handlers
    <3>7. ~astray'
      BY <2>0 DEF Opening, SpaceTypes, Doings, Mounts, Routes
    <3> QED BY <3>1, <3>2, <3>3, <3>4, <3>5, <3>6, <3>7
  <2> QED BY <2>1, <2>2

<1>2. CASE AttachClears(h)
  <2> USE <1>2 DEF AttachClears, Pc, Is, OpenHere, Mounted, Nowhere
  <2>1. SpaceTypes' /\ Routes'
    <3>1. work[h].op \in DriveOps /\ work[h].pc \in PlacesOf(work[h].op)
      BY DEF SpaceTypes, Doings, Routes
    <3>2. PICK pc : pc \in PlacesOf(work[h].op) /\ work' = [work EXCEPT ![h].pc = pc]
      BY <3>1 DEF PlacesOf, Carriers, DriveOps
    <3>3. /\ work' \in [Handlers -> Doings]
          /\ Routes'
      BY <3>2, HandlerMoves
    <3>4. SpaceTypes' BY <3>3 DEF SpaceTypes, Mounts, Claims, Boxes
    <3> QED BY <3>3, <3>4
  <2>2. ASSUME ~overlap'
        PROVE  Alone' /\ Closing' /\ Opening' /\ EjectedMeans' /\ ClaimsHold' /\ Settled' /\ ~astray'
    <3> USE <2>2
    <3>1. Alone'
      BY DEF Alone, Working, SpaceTypes, Doings, Boxes, Claims, Mounts, Routes, PlacesOf, Carriers
    <3>2. Closing'
      BY DEF Closing, Alone, Working, SpaceTypes, Doings, Boxes, Claims, Mounts, Routes, PlacesOf, Carriers, NoneRuns, EjectedMeans
    <3>3. Opening'
      BY DEF Opening, Alone, Working, SpaceTypes, Doings, Boxes, Claims, Mounts, Routes, PlacesOf, Carriers
    <3>4. EjectedMeans'
      BY DEF EjectedMeans, Opening, Closing, Alone, Working, SpaceTypes, Doings, Boxes, Claims, Mounts, Routes, PlacesOf, Carriers, NoneRuns
    <3>5. ClaimsHold'
      BY DEF ClaimsHold, Opening, SpaceTypes, Doings, Boxes, Claims, Mounts, Routes, PlacesOf, Carriers
    <3>6. Settled'
      BY SMTT(30) DEF Settled, ClaimsHold, Opening, Closing, Alone, Working, SpaceTypes, Doings, Boxes, Claims, Mounts, Routes, PlacesOf, Carriers, NoneRuns, AllBound, Handlers
    <3>7. ~astray' BY DEF Opening, SpaceTypes, Doings, Mounts, Routes
    <3> QED BY <3>1, <3>2, <3>3, <3>4, <3>5, <3>6, <3>7
  <2> QED BY <2>1, <2>2

<1>3. CASE AttachMounts(h)
  <2> USE <1>3 DEF AttachMounts, Pc, Is, AttachFails, Refuse, OpenHere, Mounted, Nowhere
  <2>0. /\ work[h].op \in {"attach", "use", "open", "apply", "eject", "check"}
        /\ work[h].op \in {"attach", "use", "eject"} => AfterAttach(h) = "restart"
        /\ work[h].op = "check" => AfterAttach(h) = "start"
        /\ work[h].op = "apply" => AfterAttach(h) = "folders"
        /\ work[h].op = "open" => AfterAttach(h) = "keep"
    BY OpenedNext DEF Carriers
  <2>1. SpaceTypes' /\ Routes'
    <3>1. work[h].op \in DriveOps /\ work[h].pc \in PlacesOf(work[h].op)
      BY DEF SpaceTypes, Doings, Routes
    <3>3. /\ work' \in [Handlers -> Doings]
          /\ Routes'
      <4>1. work' \in [Handlers -> Doings]
        BY <2>0, <3>1 DEF SpaceTypes, Doings, DrivePcs, DriveOps, Carriers
      <4>2. \A k \in Handlers \ {h} : work'[k] = work[k]
        BY DEF SpaceTypes
      <4>3. work'[h].pc \in PlacesOf(work'[h].op) /\ (work[h].op \in {"none", "attach", "missed"} => work'[h].op \in {"none", "attach", "missed"})
              /\ (work'[h].op = "apply" => work[h].op = "apply") /\ work'[h].app = work[h].app
        BY <2>0, <3>1 DEF SpaceTypes, Doings, PlacesOf, DrivePcs, DriveOps, Carriers
      <4> QED BY <4>1, <4>2, <4>3 DEF Routes, Handlers
    <3>5. mount' \in Mounts BY DEF SpaceTypes, Mounts
    <3>6. claim' \in Claims BY DEF SpaceTypes, Claims
    <3>4. SpaceTypes' BY <3>3, <3>5, <3>6 DEF SpaceTypes
    <3> QED BY <3>3, <3>4
  <2>2. ASSUME ~overlap'
        PROVE  Alone' /\ Closing' /\ Opening' /\ EjectedMeans' /\ ClaimsHold' /\ Settled' /\ ~astray'
    <3> USE <2>2
    <3>1. Alone'
      BY <2>0 DEF Alone, Working, SpaceTypes, Doings, Boxes, Claims, Mounts, Routes, PlacesOf, Carriers
    <3>2. Closing'
      BY <2>0 DEF Closing, Alone, Working, SpaceTypes, Doings, Boxes, Claims, Mounts, Routes, PlacesOf, Carriers, NoneRuns, EjectedMeans
    <3>3. Opening'
      BY <2>0 DEF Opening, Alone, Working, SpaceTypes, Doings, Boxes, Claims, Mounts, Routes, PlacesOf, Carriers
    <3>4. EjectedMeans'
      BY <2>0 DEF EjectedMeans, Opening, Closing, Alone, Working, SpaceTypes, Doings, Boxes, Claims, Mounts, Routes, PlacesOf, Carriers, NoneRuns
    <3>5. ClaimsHold'
      BY <2>0 DEF ClaimsHold, Opening, SpaceTypes, Doings, Boxes, Claims, Mounts, Routes, PlacesOf, Carriers
    <3>6. Settled'
      BY <2>0, SMTT(30) DEF Settled, ClaimsHold, Opening, Closing, Alone, Working, SpaceTypes, Doings, Boxes, Claims, Mounts, Routes, PlacesOf, Carriers, NoneRuns, AllBound, Handlers
    <3>7. ~astray'
      BY <2>0 DEF Opening, SpaceTypes, Doings, Mounts, Routes
    <3> QED BY <3>1, <3>2, <3>3, <3>4, <3>5, <3>6, <3>7
  <2> QED BY <2>1, <2>2

<1>4. CASE AttachRecords(h)
  <2> USE <1>4 DEF AttachRecords, Pc, Is, AttachFails, OpenHere, Mounted, Nowhere
  <2>0. /\ work[h].op \in {"attach", "use", "open", "apply", "eject", "check"}
        /\ work[h].op \in {"attach", "use", "eject"} => AfterAttach(h) = "restart"
        /\ work[h].op = "check" => AfterAttach(h) = "start"
        /\ work[h].op = "apply" => AfterAttach(h) = "folders"
        /\ work[h].op = "open" => AfterAttach(h) = "keep"
    BY OpenedNext DEF Carriers
  <2>1. SpaceTypes' /\ Routes'
    <3>1. work[h].op \in DriveOps /\ work[h].pc \in PlacesOf(work[h].op)
      BY DEF SpaceTypes, Doings, Routes
    <3>3. /\ work' \in [Handlers -> Doings]
          /\ Routes'
      <4>1. work' \in [Handlers -> Doings]
        BY <2>0, <3>1 DEF SpaceTypes, Doings, DrivePcs, DriveOps, Carriers
      <4>2. \A k \in Handlers \ {h} : work'[k] = work[k]
        BY DEF SpaceTypes
      <4>3. work'[h].pc \in PlacesOf(work'[h].op) /\ (work[h].op \in {"none", "attach", "missed"} => work'[h].op \in {"none", "attach", "missed"})
              /\ (work'[h].op = "apply" => work[h].op = "apply") /\ work'[h].app = work[h].app
        BY <2>0, <3>1 DEF SpaceTypes, Doings, PlacesOf, DrivePcs, DriveOps, Carriers
      <4> QED BY <4>1, <4>2, <4>3 DEF Routes, Handlers
    <3>4. SpaceTypes' BY <3>3 DEF SpaceTypes, Mounts, Claims, Boxes
    <3> QED BY <3>3, <3>4
  <2>2. ASSUME ~overlap'
        PROVE  Alone' /\ Closing' /\ Opening' /\ EjectedMeans' /\ ClaimsHold' /\ Settled' /\ ~astray'
    <3> USE <2>2
    <3>1. Alone'
      BY <2>0 DEF Alone, Working, SpaceTypes, Doings, Boxes, Claims, Mounts, Routes, PlacesOf, Carriers
    <3>2. Closing'
      BY <2>0, SMTT(30) DEF Closing, Alone, Working, SpaceTypes, Doings, Boxes, Claims, Mounts, Routes, PlacesOf, Carriers, NoneRuns, EjectedMeans
    <3>3. Opening'
      BY <2>0 DEF Opening, Alone, Working, SpaceTypes, Doings, Boxes, Claims, Mounts, Routes, PlacesOf, Carriers
    <3>4. EjectedMeans'
      <4>1. claim.ejected => work[h].op \notin {"eject", "check"}
        BY <2>0 DEF Closing, Working, SpaceTypes, Doings, Boxes, Claims, Mounts, Routes, PlacesOf, Carriers
      <4>2. work[h].op \in {"eject", "check"} \/ work[h].pc # "close"
        BY DEF SpaceTypes, Doings, Routes, PlacesOf, Carriers, DriveOps
      <4> QED
        BY <4>1, <4>2, <2>0 DEF EjectedMeans, Opening, Closing, Alone, Working, SpaceTypes, Doings, Boxes, Claims, Mounts, Routes, PlacesOf, Carriers, NoneRuns
    <3>5. ClaimsHold'
      BY <2>0 DEF ClaimsHold, Opening, SpaceTypes, Doings, Boxes, Claims, Mounts, Routes, PlacesOf, Carriers
    <3>6. Settled'
      BY <2>0, SMTT(30) DEF Settled, ClaimsHold, Opening, Closing, Alone, Working, SpaceTypes, Doings, Boxes, Claims, Mounts, Routes, PlacesOf, Carriers, NoneRuns, AllBound, Handlers
    <3>7. ~astray'
      BY <2>0 DEF Opening, SpaceTypes, Doings, Mounts, Routes
    <3> QED BY <3>1, <3>2, <3>3, <3>4, <3>5, <3>6, <3>7
  <2> QED BY <2>1, <2>2

<1>5. CASE RestartsContainers(h)
  <2> USE <1>5 DEF RestartsContainers, Pc, Is, Remembered, Labelled, Restarted, BindNow, Nowhere, OpenHere, Mounted, Nowhere
  <2>1. SpaceTypes' /\ Routes'
    <3>1. work[h].op \in DriveOps /\ work[h].pc \in PlacesOf(work[h].op)
      BY DEF SpaceTypes, Doings, Routes
    <3>2. PICK pc : pc \in PlacesOf(work[h].op) /\ work' = [work EXCEPT ![h].pc = pc]
      BY <3>1 DEF PlacesOf, Carriers, DriveOps
    <3>3. /\ work' \in [Handlers -> Doings]
          /\ Routes'
      BY <3>2, HandlerMoves
    <3>6. \A a \in DriveApps : Restarted(boxes[a]) \in Boxes /\ boxes[a] \in Boxes
      BY DEF SpaceTypes, Mounts, Boxes, OnSystem
    <3>5. boxes' \in [DriveApps -> Boxes]
      <4> HIDE DEF Restarted
      <4> QED BY <3>6 DEF SpaceTypes
    <3>4. SpaceTypes' BY <3>3, <3>5 DEF SpaceTypes, Claims
    <3> QED BY <3>3, <3>4
  <2>2. ASSUME ~overlap'
        PROVE  Alone' /\ Closing' /\ Opening' /\ EjectedMeans' /\ ClaimsHold' /\ Settled' /\ ~astray'
    <3> USE <2>2
    <3>1. Alone'
      BY DEF Alone, Working, SpaceTypes, Doings, Boxes, Claims, Mounts, Routes, PlacesOf, Carriers
    <3>2. Closing'
      BY DEF Closing, Alone, Working, SpaceTypes, Doings, Boxes, Claims, Mounts, Routes, PlacesOf, Carriers, NoneRuns, EjectedMeans
    <3>3. Opening'
      BY DEF Opening, Alone, Working, SpaceTypes, Doings, Boxes, Claims, Mounts, Routes, PlacesOf, Carriers
    <3>4. EjectedMeans'
      BY DEF EjectedMeans, Opening, Closing, Alone, Working, SpaceTypes, Doings, Boxes, Claims, Mounts, Routes, PlacesOf, Carriers, NoneRuns
    <3>5. ClaimsHold'
      BY DEF ClaimsHold, Opening, SpaceTypes, Doings, Boxes, Claims, Mounts, Routes, PlacesOf, Carriers
    <3>6. Settled'
      BY DEF Settled, ClaimsHold, Opening, Closing, Alone, Working, SpaceTypes, Doings, Boxes, Claims, Mounts, Routes, PlacesOf, Carriers, NoneRuns, AllBound, Handlers
    <3>7. ~astray' BY DEF Opening, SpaceTypes, Doings, Mounts, Routes
    <3> QED BY <3>1, <3>2, <3>3, <3>4, <3>5, <3>6, <3>7
  <2> QED BY <2>1, <2>2

<1>6. CASE StopsContainers(h)
  <2> USE <1>6 DEF StopsContainers, Pc, Is, Labelled, OpenHere, Mounted, Nowhere
  <2>1. SpaceTypes' /\ Routes'
    <3>1. work[h].op \in DriveOps /\ work[h].pc \in PlacesOf(work[h].op)
      BY DEF SpaceTypes, Doings, Routes
    <3>3. /\ work' \in [Handlers -> Doings]
          /\ Routes'
      <4>0. [work[h] EXCEPT !.pc = "close", !.stopped = Labelled] \in Doings
        BY ZenonT(30) DEF SpaceTypes, Doings, DrivePcs
      <4>1. work' \in [Handlers -> Doings]
        BY <4>0, <3>1, ZenonT(30) DEF SpaceTypes, Doings, DrivePcs, DriveOps, Carriers
      <4>2. \A k \in Handlers \ {h} : work'[k] = work[k]
        BY DEF SpaceTypes
      <4>3. work'[h].pc \in PlacesOf(work'[h].op) /\ (work[h].op \in {"none", "attach", "missed"} => work'[h].op \in {"none", "attach", "missed"})
              /\ (work'[h].op = "apply" => work[h].op = "apply") /\ work'[h].app = work[h].app
        BY <3>1 DEF SpaceTypes, Doings, PlacesOf, DrivePcs, DriveOps, Carriers
      <4> QED BY <4>1, <4>2, <4>3 DEF Routes, Handlers
    <3>5. boxes' \in [DriveApps -> Boxes]
      BY DEF SpaceTypes, Mounts, Boxes
    <3>4. SpaceTypes' BY <3>3, <3>5 DEF SpaceTypes, Claims
    <3> QED BY <3>3, <3>4
  <2>2. ASSUME ~overlap'
        PROVE  Alone' /\ Closing' /\ Opening' /\ EjectedMeans' /\ ClaimsHold' /\ Settled' /\ ~astray'
    <3> USE <2>2
    <3>1. Alone'
      BY DEF Alone, Working, SpaceTypes, Doings, Boxes, Claims, Mounts, Routes, PlacesOf, Carriers
    <3>2. Closing'
      BY DEF Closing, Alone, Working, SpaceTypes, Doings, Boxes, Claims, Mounts, Routes, PlacesOf, Carriers, NoneRuns, EjectedMeans
    <3>3. Opening'
      BY DEF Opening, Alone, Working, SpaceTypes, Doings, Boxes, Claims, Mounts, Routes, PlacesOf, Carriers
    <3>4. EjectedMeans'
      BY DEF EjectedMeans, Opening, Closing, Alone, Working, SpaceTypes, Doings, Boxes, Claims, Mounts, Routes, PlacesOf, Carriers, NoneRuns
    <3>5. ClaimsHold'
      BY DEF ClaimsHold, Opening, SpaceTypes, Doings, Boxes, Claims, Mounts, Routes, PlacesOf, Carriers
    <3>6. Settled'
      BY DEF Settled, ClaimsHold, Opening, Closing, Alone, Working, SpaceTypes, Doings, Boxes, Claims, Mounts, Routes, PlacesOf, Carriers, NoneRuns, AllBound, Handlers
    <3>7. ~astray' BY DEF Opening, SpaceTypes, Doings, Mounts, Routes
    <3> QED BY <3>1, <3>2, <3>3, <3>4, <3>5, <3>6, <3>7
  <2> QED BY <2>1, <2>2

<1>7. CASE CloseDrive(h)
  <2> USE <1>7 DEF CloseDrive, Pc, Is, Refuse, InUse, OpenHere, Mounted, Nowhere
  <2>1. SpaceTypes' /\ Routes'
    <3>1. work[h].op \in DriveOps /\ work[h].pc \in PlacesOf(work[h].op)
      BY DEF SpaceTypes, Doings, Routes
    <3>2. PICK pc : pc \in PlacesOf(work[h].op) /\ work' = [work EXCEPT ![h].pc = pc]
      BY <3>1 DEF PlacesOf, Carriers, DriveOps
    <3>3. /\ work' \in [Handlers -> Doings]
          /\ Routes'
      BY <3>2, HandlerMoves
    <3>4. SpaceTypes' BY <3>3 DEF SpaceTypes, Mounts, Claims, Boxes
    <3> QED BY <3>3, <3>4
  <2>2. ASSUME ~overlap'
        PROVE  Alone' /\ Closing' /\ Opening' /\ EjectedMeans' /\ ClaimsHold' /\ Settled' /\ ~astray'
    <3> USE <2>2
    <3>1. Alone'
      BY DEF Alone, Working, SpaceTypes, Doings, Boxes, Claims, Mounts, Routes, PlacesOf, Carriers
    <3>2. Closing'
      BY DEF Closing, Alone, Working, SpaceTypes, Doings, Boxes, Claims, Mounts, Routes, PlacesOf, Carriers, NoneRuns, EjectedMeans
    <3>3. Opening'
      BY DEF Opening, Alone, Working, SpaceTypes, Doings, Boxes, Claims, Mounts, Routes, PlacesOf, Carriers
    <3>4. EjectedMeans'
      <4>1. claim.ejected => work[h].op \notin {"eject", "check"}
        BY DEF Closing, Working, SpaceTypes, Doings, Boxes, Claims, Mounts, Routes, PlacesOf, Carriers
      <4>2. work[h].op \in {"eject", "check"} \/ work[h].pc # "close"
        BY DEF SpaceTypes, Doings, Routes, PlacesOf, Carriers, DriveOps
      <4> QED
        BY <4>1, <4>2 DEF EjectedMeans, Opening, Closing, Alone, Working, SpaceTypes, Doings, Boxes, Claims, Mounts, Routes, PlacesOf, Carriers, NoneRuns
    <3>5. ClaimsHold'
      BY DEF ClaimsHold, Opening, SpaceTypes, Doings, Boxes, Claims, Mounts, Routes, PlacesOf, Carriers
    <3>6. Settled'
      BY SMTT(30) DEF Settled, ClaimsHold, Opening, Closing, Alone, Working, SpaceTypes, Doings, Boxes, Claims, Mounts, Routes, PlacesOf, Carriers, NoneRuns, AllBound, Handlers
    <3>7. ~astray' BY DEF Opening, SpaceTypes, Doings, Mounts, Routes
    <3> QED BY <3>1, <3>2, <3>3, <3>4, <3>5, <3>6, <3>7
  <2> QED BY <2>1, <2>2

<1>8. CASE RecordsEject(h)
  <2> USE <1>8 DEF RecordsEject, Pc, Is, OpenHere, Mounted, Nowhere
  <2>1. SpaceTypes' /\ Routes'
    <3>1. work[h].op \in DriveOps /\ work[h].pc \in PlacesOf(work[h].op)
      BY DEF SpaceTypes, Doings, Routes
    <3>2. PICK pc : pc \in PlacesOf(work[h].op) /\ work' = [work EXCEPT ![h].pc = pc]
      BY <3>1 DEF PlacesOf, Carriers, DriveOps
    <3>3. /\ work' \in [Handlers -> Doings]
          /\ Routes'
      BY <3>2, HandlerMoves
    <3>4. SpaceTypes' BY <3>3 DEF SpaceTypes, Mounts, Claims, Boxes
    <3> QED BY <3>3, <3>4
  <2>2. ASSUME ~overlap'
        PROVE  Alone' /\ Closing' /\ Opening' /\ EjectedMeans' /\ ClaimsHold' /\ Settled' /\ ~astray'
    <3> USE <2>2
    <3>1. Alone'
      BY DEF Alone, Working, SpaceTypes, Doings, Boxes, Claims, Mounts, Routes, PlacesOf, Carriers
    <3>2. Closing'
      BY DEF Closing, Alone, Working, SpaceTypes, Doings, Boxes, Claims, Mounts, Routes, PlacesOf, Carriers, NoneRuns, EjectedMeans
    <3>3. Opening'
      BY DEF Opening, Alone, Working, SpaceTypes, Doings, Boxes, Claims, Mounts, Routes, PlacesOf, Carriers
    <3>4. EjectedMeans'
      BY DEF EjectedMeans, Opening, Closing, Alone, Working, SpaceTypes, Doings, Boxes, Claims, Mounts, Routes, PlacesOf, Carriers, NoneRuns
    <3>5. ClaimsHold'
      BY DEF ClaimsHold, Opening, SpaceTypes, Doings, Boxes, Claims, Mounts, Routes, PlacesOf, Carriers
    <3>6. Settled'
      BY DEF Settled, ClaimsHold, Opening, Closing, Alone, Working, SpaceTypes, Doings, Boxes, Claims, Mounts, Routes, PlacesOf, Carriers, NoneRuns, AllBound, Handlers
    <3>7. ~astray' BY DEF Opening, SpaceTypes, Doings, Mounts, Routes
    <3> QED BY <3>1, <3>2, <3>3, <3>4, <3>5, <3>6, <3>7
  <2> QED BY <2>1, <2>2

<1>9. CASE Repairs(h)
  <2> USE <1>9 DEF Repairs, Pc, Is, Refuse, OpenHere, Mounted, Nowhere
  <2>1. SpaceTypes' /\ Routes'
    <3>1. work[h].op \in DriveOps /\ work[h].pc \in PlacesOf(work[h].op)
      BY DEF SpaceTypes, Doings, Routes
    <3>2. PICK pc : pc \in PlacesOf(work[h].op) /\ work' = [work EXCEPT ![h].pc = pc]
      BY <3>1 DEF PlacesOf, Carriers, DriveOps
    <3>3. /\ work' \in [Handlers -> Doings]
          /\ Routes'
      BY <3>2, HandlerMoves
    <3>4. SpaceTypes' BY <3>3 DEF SpaceTypes, Mounts, Claims, Boxes
    <3> QED BY <3>3, <3>4
  <2>2. ASSUME ~overlap'
        PROVE  Alone' /\ Closing' /\ Opening' /\ EjectedMeans' /\ ClaimsHold' /\ Settled' /\ ~astray'
    <3> USE <2>2
    <3>1. Alone'
      BY DEF Alone, Working, SpaceTypes, Doings, Boxes, Claims, Mounts, Routes, PlacesOf, Carriers
    <3>2. Closing'
      BY DEF Closing, Alone, Working, SpaceTypes, Doings, Boxes, Claims, Mounts, Routes, PlacesOf, Carriers, NoneRuns, EjectedMeans
    <3>3. Opening'
      BY DEF Opening, Alone, Working, SpaceTypes, Doings, Boxes, Claims, Mounts, Routes, PlacesOf, Carriers
    <3>4. EjectedMeans'
      BY DEF EjectedMeans, Opening, Closing, Alone, Working, SpaceTypes, Doings, Boxes, Claims, Mounts, Routes, PlacesOf, Carriers, NoneRuns
    <3>5. ClaimsHold'
      BY DEF ClaimsHold, Opening, SpaceTypes, Doings, Boxes, Claims, Mounts, Routes, PlacesOf, Carriers
    <3>6. Settled'
      BY SMTT(30) DEF Settled, ClaimsHold, Opening, Closing, Alone, Working, SpaceTypes, Doings, Boxes, Claims, Mounts, Routes, PlacesOf, Carriers, NoneRuns, AllBound, Handlers
    <3>7. ~astray' BY DEF Opening, SpaceTypes, Doings, Mounts, Routes
    <3> QED BY <3>1, <3>2, <3>3, <3>4, <3>5, <3>6, <3>7
  <2> QED BY <2>1, <2>2

<1>10. CASE StartsStopped(h)
  <2> USE <1>10 DEF StartsStopped, Pc, Is, Restarted, BindNow, Nowhere, OnSystem, OpenHere, Mounted, Nowhere
  <2>1. SpaceTypes' /\ Routes'
    <3>1. work[h].op \in DriveOps /\ work[h].pc \in PlacesOf(work[h].op)
      BY DEF SpaceTypes, Doings, Routes
    <3>2. PICK pc : pc \in PlacesOf(work[h].op) /\ work' = [work EXCEPT ![h].pc = pc]
      BY <3>1 DEF PlacesOf, Carriers, DriveOps
    <3>3. /\ work' \in [Handlers -> Doings]
          /\ Routes'
      BY <3>2, HandlerMoves
    <3>5. boxes' \in [DriveApps -> Boxes]
      BY DEF SpaceTypes, Mounts, Boxes
    <3>4. SpaceTypes' BY <3>3, <3>5 DEF SpaceTypes, Claims
    <3> QED BY <3>3, <3>4
  <2>2. ASSUME ~overlap'
        PROVE  Alone' /\ Closing' /\ Opening' /\ EjectedMeans' /\ ClaimsHold' /\ Settled' /\ ~astray'
    <3> USE <2>2
    <3>1. Alone'
      BY DEF Alone, Working, SpaceTypes, Doings, Boxes, Claims, Mounts, Routes, PlacesOf, Carriers
    <3>2. Closing'
      BY DEF Closing, Alone, Working, SpaceTypes, Doings, Boxes, Claims, Mounts, Routes, PlacesOf, Carriers, NoneRuns, EjectedMeans
    <3>3. Opening'
      BY DEF Opening, Alone, Working, SpaceTypes, Doings, Boxes, Claims, Mounts, Routes, PlacesOf, Carriers
    <3>4. EjectedMeans'
      BY DEF EjectedMeans, Opening, Closing, Alone, Working, SpaceTypes, Doings, Boxes, Claims, Mounts, Routes, PlacesOf, Carriers, NoneRuns
    <3>5. ClaimsHold'
      BY DEF ClaimsHold, Opening, SpaceTypes, Doings, Boxes, Claims, Mounts, Routes, PlacesOf, Carriers
    <3>6. Settled'
      BY DEF Settled, ClaimsHold, Opening, Closing, Alone, Working, SpaceTypes, Doings, Boxes, Claims, Mounts, Routes, PlacesOf, Carriers, NoneRuns, AllBound, Handlers
    <3>7. ~astray' BY DEF Opening, SpaceTypes, Doings, Mounts, Routes
    <3> QED BY <3>1, <3>2, <3>3, <3>4, <3>5, <3>6, <3>7
  <2> QED BY <2>1, <2>2

<1>11. CASE PrepareFolders(h)
  <2> USE <1>11 DEF PrepareFolders, Pc, Is, OpenHere, Mounted, Nowhere
  <2>1. SpaceTypes' /\ Routes'
    <3>1. work[h].op \in DriveOps /\ work[h].pc \in PlacesOf(work[h].op)
      BY DEF SpaceTypes, Doings, Routes
    <3>2. PICK pc : pc \in PlacesOf(work[h].op) /\ work' = [work EXCEPT ![h].pc = pc]
      BY <3>1 DEF PlacesOf, Carriers, DriveOps
    <3>3. /\ work' \in [Handlers -> Doings]
          /\ Routes'
      BY <3>2, HandlerMoves
    <3>5. work[h].app \in DriveApps
      BY <3>1 DEF SpaceTypes, Doings, Routes, PlacesOf, Carriers, DriveOps
    <3>6. claim' \in Claims BY <3>5 DEF SpaceTypes, Claims
    <3>4. SpaceTypes' BY <3>3, <3>6 DEF SpaceTypes
    <3> QED BY <3>3, <3>4
  <2>2. ASSUME ~overlap'
        PROVE  Alone' /\ Closing' /\ Opening' /\ EjectedMeans' /\ ClaimsHold' /\ Settled' /\ ~astray'
    <3> USE <2>2
    <3>1. Alone'
      BY DEF Alone, Working, SpaceTypes, Doings, Boxes, Claims, Mounts, Routes, PlacesOf, Carriers
    <3>2. Closing'
      BY DEF Closing, Alone, Working, SpaceTypes, Doings, Boxes, Claims, Mounts, Routes, PlacesOf, Carriers, NoneRuns, EjectedMeans
    <3>3. Opening'
      BY DEF Opening, Alone, Working, SpaceTypes, Doings, Boxes, Claims, Mounts, Routes, PlacesOf, Carriers
    <3>4. EjectedMeans'
      BY DEF EjectedMeans, Opening, Closing, Alone, Working, SpaceTypes, Doings, Boxes, Claims, Mounts, Routes, PlacesOf, Carriers, NoneRuns
    <3>5. ClaimsHold'
      BY DEF ClaimsHold, Opening, SpaceTypes, Doings, Boxes, Claims, Mounts, Routes, PlacesOf, Carriers
    <3>6. Settled'
      BY DEF Settled, ClaimsHold, Opening, Closing, Alone, Working, SpaceTypes, Doings, Boxes, Claims, Mounts, Routes, PlacesOf, Carriers, NoneRuns, AllBound, Handlers
    <3>7. ~astray' BY DEF Opening, SpaceTypes, Doings, Mounts, Routes
    <3> QED BY <3>1, <3>2, <3>3, <3>4, <3>5, <3>6, <3>7
  <2> QED BY <2>1, <2>2

<1>12. CASE RunsContainer(h)
  <2> USE <1>12 DEF RunsContainer, Pc, Is, BindNow, Nowhere, OnSystem, OpenHere, Mounted, Nowhere
  <2>1. SpaceTypes' /\ Routes'
    <3>1. work[h].op \in DriveOps /\ work[h].pc \in PlacesOf(work[h].op)
      BY DEF SpaceTypes, Doings, Routes
    <3>2. PICK pc : pc \in PlacesOf(work[h].op) /\ work' = [work EXCEPT ![h].pc = pc]
      BY <3>1 DEF PlacesOf, Carriers, DriveOps
    <3>3. /\ work' \in [Handlers -> Doings]
          /\ Routes'
      BY <3>2, HandlerMoves
    <3>5. boxes' \in [DriveApps -> Boxes]
      BY DEF SpaceTypes, Mounts, Boxes
    <3>4. SpaceTypes' BY <3>3, <3>5 DEF SpaceTypes, Claims
    <3> QED BY <3>3, <3>4
  <2>2. ASSUME ~overlap'
        PROVE  Alone' /\ Closing' /\ Opening' /\ EjectedMeans' /\ ClaimsHold' /\ Settled' /\ ~astray'
    <3> USE <2>2
    <3>1. Alone'
      BY DEF Alone, Working, SpaceTypes, Doings, Boxes, Claims, Mounts, Routes, PlacesOf, Carriers
    <3>2. Closing'
      BY DEF Closing, Alone, Working, SpaceTypes, Doings, Boxes, Claims, Mounts, Routes, PlacesOf, Carriers, NoneRuns, EjectedMeans
    <3>3. Opening'
      BY DEF Opening, Alone, Working, SpaceTypes, Doings, Boxes, Claims, Mounts, Routes, PlacesOf, Carriers
    <3>4. EjectedMeans'
      BY DEF EjectedMeans, Opening, Closing, Alone, Working, SpaceTypes, Doings, Boxes, Claims, Mounts, Routes, PlacesOf, Carriers, NoneRuns
    <3>5. ClaimsHold'
      BY DEF ClaimsHold, Opening, SpaceTypes, Doings, Boxes, Claims, Mounts, Routes, PlacesOf, Carriers
    <3>6. Settled'
      BY ZenonT(30) DEF Settled, ClaimsHold, Opening, Closing, Alone, Working, SpaceTypes, Doings, Boxes, Claims, Mounts, Routes, PlacesOf, Carriers, NoneRuns, AllBound, Handlers
    <3>7. ~astray' BY DEF Opening, SpaceTypes, Doings, Mounts, Routes
    <3> QED BY <3>1, <3>2, <3>3, <3>4, <3>5, <3>6, <3>7
  <2> QED BY <2>1, <2>2

<1>13. CASE ReleaseDrive(h)
  <2> USE <1>13 DEF ReleaseDrive, Pc, Is, OpenHere, Mounted, Nowhere
  <2>1. SpaceTypes' /\ Routes'
    <3>1. work[h].op \in DriveOps /\ work[h].pc \in PlacesOf(work[h].op)
      BY DEF SpaceTypes, Doings, Routes
    <3>2. PICK pc : pc \in PlacesOf(work[h].op) /\ work' = [work EXCEPT ![h].pc = pc]
      BY <3>1 DEF PlacesOf, Carriers, DriveOps
    <3>3. /\ work' \in [Handlers -> Doings]
          /\ Routes'
      BY <3>2, HandlerMoves
    <3>5. boxes' \in [DriveApps -> Boxes]
      BY DEF SpaceTypes, Mounts, Boxes
    <3>4. SpaceTypes' BY <3>3, <3>5 DEF SpaceTypes, Claims
    <3> QED BY <3>3, <3>4
  <2>2. ASSUME ~overlap'
        PROVE  Alone' /\ Closing' /\ Opening' /\ EjectedMeans' /\ ClaimsHold' /\ Settled' /\ ~astray'
    <3> USE <2>2
    <3>1. Alone'
      BY DEF Alone, Working, SpaceTypes, Doings, Boxes, Claims, Mounts, Routes, PlacesOf, Carriers
    <3>2. Closing'
      BY DEF Closing, Alone, Working, SpaceTypes, Doings, Boxes, Claims, Mounts, Routes, PlacesOf, Carriers, NoneRuns, EjectedMeans
    <3>3. Opening'
      BY DEF Opening, Alone, Working, SpaceTypes, Doings, Boxes, Claims, Mounts, Routes, PlacesOf, Carriers
    <3>4. EjectedMeans'
      BY DEF EjectedMeans, Opening, Closing, Alone, Working, SpaceTypes, Doings, Boxes, Claims, Mounts, Routes, PlacesOf, Carriers, NoneRuns
    <3>5. ClaimsHold'
      BY DEF ClaimsHold, Opening, SpaceTypes, Doings, Boxes, Claims, Mounts, Routes, PlacesOf, Carriers
    <3>6. Settled'
      BY ZenonT(30) DEF Settled, ClaimsHold, Opening, Closing, Alone, Working, SpaceTypes, Doings, Boxes, Claims, Mounts, Routes, PlacesOf, Carriers, NoneRuns, AllBound, Handlers
    <3>7. ~astray' BY DEF Opening, SpaceTypes, Doings, Mounts, Routes
    <3> QED BY <3>1, <3>2, <3>3, <3>4, <3>5, <3>6, <3>7
  <2> QED BY <2>1, <2>2

<1>14. CASE KeepsOpen(h)
  <2> USE <1>14 DEF KeepsOpen, Pc, Is, OpenHere, Mounted, Nowhere
  <2>1. SpaceTypes' /\ Routes'
    <3>1. work[h].op \in DriveOps /\ work[h].pc \in PlacesOf(work[h].op)
      BY DEF SpaceTypes, Doings, Routes
    <3>2. PICK pc : pc \in PlacesOf(work[h].op) /\ work' = [work EXCEPT ![h].pc = pc]
      BY <3>1 DEF PlacesOf, Carriers, DriveOps
    <3>3. /\ work' \in [Handlers -> Doings]
          /\ Routes'
      BY <3>2, HandlerMoves
    <3>4. SpaceTypes' BY <3>3 DEF SpaceTypes, Mounts, Claims, Boxes
    <3> QED BY <3>3, <3>4
  <2>2. ASSUME ~overlap'
        PROVE  Alone' /\ Closing' /\ Opening' /\ EjectedMeans' /\ ClaimsHold' /\ Settled' /\ ~astray'
    <3> USE <2>2
    <3>1. Alone'
      BY DEF Alone, Working, SpaceTypes, Doings, Boxes, Claims, Mounts, Routes, PlacesOf, Carriers
    <3>2. Closing'
      BY DEF Closing, Alone, Working, SpaceTypes, Doings, Boxes, Claims, Mounts, Routes, PlacesOf, Carriers, NoneRuns, EjectedMeans
    <3>3. Opening'
      BY DEF Opening, Alone, Working, SpaceTypes, Doings, Boxes, Claims, Mounts, Routes, PlacesOf, Carriers
    <3>4. EjectedMeans'
      BY DEF EjectedMeans, Opening, Closing, Alone, Working, SpaceTypes, Doings, Boxes, Claims, Mounts, Routes, PlacesOf, Carriers, NoneRuns
    <3>5. ClaimsHold'
      BY DEF ClaimsHold, Opening, SpaceTypes, Doings, Boxes, Claims, Mounts, Routes, PlacesOf, Carriers
    <3>6. Settled'
      BY DEF Settled, ClaimsHold, Opening, Closing, Alone, Working, SpaceTypes, Doings, Boxes, Claims, Mounts, Routes, PlacesOf, Carriers, NoneRuns, AllBound, Handlers
    <3>7. ~astray' BY DEF Opening, SpaceTypes, Doings, Mounts, Routes
    <3> QED BY <3>1, <3>2, <3>3, <3>4, <3>5, <3>6, <3>7
  <2> QED BY <2>1, <2>2

<1>15. CASE ProvesMount(h)
  <2> USE <1>15 DEF ProvesMount, Pc, Is, OpenHere, Mounted, Nowhere
  <2>1. SpaceTypes' /\ Routes'
    <3>1. work[h].op \in DriveOps /\ work[h].pc \in PlacesOf(work[h].op)
      BY DEF SpaceTypes, Doings, Routes
    <3>2. PICK pc : pc \in PlacesOf(work[h].op) /\ work' = [work EXCEPT ![h].pc = pc]
      BY <3>1 DEF PlacesOf, Carriers, DriveOps
    <3>3. /\ work' \in [Handlers -> Doings]
          /\ Routes'
      BY <3>2, HandlerMoves
    <3>4. SpaceTypes' BY <3>3 DEF SpaceTypes, Mounts, Claims, Boxes
    <3> QED BY <3>3, <3>4
  <2>2. ASSUME ~overlap'
        PROVE  Alone' /\ Closing' /\ Opening' /\ EjectedMeans' /\ ClaimsHold' /\ Settled' /\ ~astray'
    <3> USE <2>2
    <3>1. Alone'
      BY DEF Alone, Working, SpaceTypes, Doings, Boxes, Claims, Mounts, Routes, PlacesOf, Carriers
    <3>2. Closing'
      BY DEF Closing, Alone, Working, SpaceTypes, Doings, Boxes, Claims, Mounts, Routes, PlacesOf, Carriers, NoneRuns, EjectedMeans
    <3>3. Opening'
      BY DEF Opening, Alone, Working, SpaceTypes, Doings, Boxes, Claims, Mounts, Routes, PlacesOf, Carriers
    <3>4. EjectedMeans'
      BY DEF EjectedMeans, Opening, Closing, Alone, Working, SpaceTypes, Doings, Boxes, Claims, Mounts, Routes, PlacesOf, Carriers, NoneRuns
    <3>5. ClaimsHold'
      BY DEF ClaimsHold, Opening, SpaceTypes, Doings, Boxes, Claims, Mounts, Routes, PlacesOf, Carriers
    <3>6. Settled'
      BY DEF Settled, ClaimsHold, Opening, Closing, Alone, Working, SpaceTypes, Doings, Boxes, Claims, Mounts, Routes, PlacesOf, Carriers, NoneRuns, AllBound, Handlers
    <3>7. ~astray' BY DEF Opening, SpaceTypes, Doings, Mounts, Routes
    <3> QED BY <3>1, <3>2, <3>3, <3>4, <3>5, <3>6, <3>7
  <2> QED BY <2>1, <2>2

<1>16. CASE MakesRoot(h)
  <2> USE <1>16 DEF MakesRoot, Pc, Is, OpenHere, Mounted, Nowhere
  <2>1. SpaceTypes' /\ Routes'
    <3>1. work[h].op \in DriveOps /\ work[h].pc \in PlacesOf(work[h].op)
      BY DEF SpaceTypes, Doings, Routes
    <3>2. PICK pc : pc \in PlacesOf(work[h].op) /\ work' = [work EXCEPT ![h].pc = pc]
      BY <3>1 DEF PlacesOf, Carriers, DriveOps
    <3>3. /\ work' \in [Handlers -> Doings]
          /\ Routes'
      BY <3>2, HandlerMoves
    <3>4. SpaceTypes' BY <3>3 DEF SpaceTypes, Mounts, Claims, Boxes
    <3> QED BY <3>3, <3>4
  <2>2. ASSUME ~overlap'
        PROVE  Alone' /\ Closing' /\ Opening' /\ EjectedMeans' /\ ClaimsHold' /\ Settled' /\ ~astray'
    <3> USE <2>2
    <3>1. Alone'
      BY DEF Alone, Working, SpaceTypes, Doings, Boxes, Claims, Mounts, Routes, PlacesOf, Carriers
    <3>2. Closing'
      BY DEF Closing, Alone, Working, SpaceTypes, Doings, Boxes, Claims, Mounts, Routes, PlacesOf, Carriers, NoneRuns, EjectedMeans
    <3>3. Opening'
      BY DEF Opening, Alone, Working, SpaceTypes, Doings, Boxes, Claims, Mounts, Routes, PlacesOf, Carriers
    <3>4. EjectedMeans'
      BY DEF EjectedMeans, Opening, Closing, Alone, Working, SpaceTypes, Doings, Boxes, Claims, Mounts, Routes, PlacesOf, Carriers, NoneRuns
    <3>5. ClaimsHold'
      BY DEF ClaimsHold, Opening, SpaceTypes, Doings, Boxes, Claims, Mounts, Routes, PlacesOf, Carriers
    <3>6. Settled'
      BY DEF Settled, ClaimsHold, Opening, Closing, Alone, Working, SpaceTypes, Doings, Boxes, Claims, Mounts, Routes, PlacesOf, Carriers, NoneRuns, AllBound, Handlers
    <3>7. ~astray' BY DEF Opening, SpaceTypes, Doings, Mounts, Routes
    <3> QED BY <3>1, <3>2, <3>3, <3>4, <3>5, <3>6, <3>7
  <2> QED BY <2>1, <2>2

<1>17. CASE WritesFile(h)
  <2> USE <1>17 DEF WritesFile, Pc, Is, OpenHere, Mounted, Nowhere
  <2>1. SpaceTypes' /\ Routes'
    <3>1. work[h].op \in DriveOps /\ work[h].pc \in PlacesOf(work[h].op)
      BY DEF SpaceTypes, Doings, Routes
    <3>2. PICK pc : pc \in PlacesOf(work[h].op) /\ work' = [work EXCEPT ![h].pc = pc]
      BY <3>1 DEF PlacesOf, Carriers, DriveOps
    <3>3. /\ work' \in [Handlers -> Doings]
          /\ Routes'
      BY <3>2, HandlerMoves
    <3>4. SpaceTypes' BY <3>3 DEF SpaceTypes, Mounts, Claims, Boxes
    <3> QED BY <3>3, <3>4
  <2>2. ASSUME ~overlap'
        PROVE  Alone' /\ Closing' /\ Opening' /\ EjectedMeans' /\ ClaimsHold' /\ Settled' /\ ~astray'
    <3> USE <2>2
    <3>1. Alone'
      BY DEF Alone, Working, SpaceTypes, Doings, Boxes, Claims, Mounts, Routes, PlacesOf, Carriers
    <3>2. Closing'
      BY DEF Closing, Alone, Working, SpaceTypes, Doings, Boxes, Claims, Mounts, Routes, PlacesOf, Carriers, NoneRuns, EjectedMeans
    <3>3. Opening'
      BY DEF Opening, Alone, Working, SpaceTypes, Doings, Boxes, Claims, Mounts, Routes, PlacesOf, Carriers
    <3>4. EjectedMeans'
      BY DEF EjectedMeans, Opening, Closing, Alone, Working, SpaceTypes, Doings, Boxes, Claims, Mounts, Routes, PlacesOf, Carriers, NoneRuns
    <3>5. ClaimsHold'
      BY DEF ClaimsHold, Opening, SpaceTypes, Doings, Boxes, Claims, Mounts, Routes, PlacesOf, Carriers
    <3>6. Settled'
      BY DEF Settled, ClaimsHold, Opening, Closing, Alone, Working, SpaceTypes, Doings, Boxes, Claims, Mounts, Routes, PlacesOf, Carriers, NoneRuns, AllBound, Handlers
    <3>7. ~astray' BY DEF Opening, SpaceTypes, Doings, Mounts, Routes
    <3> QED BY <3>1, <3>2, <3>3, <3>4, <3>5, <3>6, <3>7
  <2> QED BY <2>1, <2>2

<1> QED
  BY <1>1, <1>2, <1>3, <1>4, <1>5, <1>6, <1>7, <1>8, <1>9, <1>10, <1>11, <1>12, <1>13, <1>14, <1>15, <1>16, <1>17 DEF DriveWork

\* A handler that begins: alone, it finds the drive as the last one left it.
LEMMA BeginKeeps ==
  ASSUME SpaceInv, NEW h \in Handlers, NEW op, NEW app, NEW first,
         BeginWork(h, op, app, first),
         <<op, first>> \in {<<"eject", "stop">>, <<"check", "stop">>, <<"use", "look">>,
                            <<"open", "look">>, <<"apply", "look">>, <<"remove", "release">>,
                            <<"change", "prove">>},
         app \in DriveApps \cup {"none"}, op = "apply" => app \in DriveApps, h # "plug",
         ~overlap /\ op \in {"eject", "check"} => ~claim.ejected
  PROVE  SpaceInv'
<1> USE DEF SpaceInv, BeginWork, Start
<1>1. work[h].pc = "done" BY DEF Working
<1> DEFINE begun == [Resting EXCEPT !.op = op, !.app = app, !.pc = first]
<1>3. work' = [work EXCEPT ![h] = begun] OBVIOUS
<1>4. op \in DriveOps /\ first \in DrivePcs /\ first \in PlacesOf(op)
  BY DEF DriveOps, DrivePcs, PlacesOf, Carriers
<1>5. begun \in Doings /\ begun.op = op /\ begun.pc = first /\ begun.app = app
  BY <1>4 DEF Doings, Resting
<1> HIDE DEF begun
<1>6. SpaceTypes' BY <1>3, <1>5 DEF SpaceTypes
<1>7. /\ \A k \in Handlers \ {h} : work'[k] = work[k]
      /\ work'[h].op = op /\ work'[h].pc = first /\ work'[h].app = app
  BY <1>3, <1>5 DEF SpaceTypes
<1>8. Routes' BY <1>4, <1>7 DEF Routes, Handlers
<1>9. ASSUME ~overlap'
      PROVE  Alone' /\ Closing' /\ Opening' /\ EjectedMeans' /\ ClaimsHold' /\ Settled' /\ ~astray'
  <2>1. ~overlap /\ \A k \in Handlers \ {h} : ~Working(k)
    BY <1>9 DEF SpaceTypes
  <2>2. \A k \in Handlers \ {h} : work'[k].pc = "done"
    BY <1>7, <2>1 DEF Working
  <2>3. Alone' BY <2>2 DEF Alone, Working
  <2>4. Closing' BY <1>7, <2>1, <2>2 DEF Closing, Working, NoneRuns
  <2>5. Opening' BY <1>7, <2>1, <2>2 DEF Opening
  <2>6. EjectedMeans'
    BY <1>1, <1>7, <2>1, <2>2 DEF EjectedMeans, NoneRuns, OpenHere, Mounted, Working
  <2>7. ClaimsHold' BY <2>1 DEF ClaimsHold
  <2>8. Settled'
    BY <1>7, <2>1 DEF Settled, Working, Handlers, OpenHere, Mounted, AllBound, NoneRuns
  <2> QED BY <2>1, <2>3, <2>4, <2>5, <2>6, <2>7, <2>8
<1> QED BY <1>6, <1>8, <1>9

LEMMA SpaceInvInductive ==
  DrivesSpec => []SpaceInv
<1>1. DrivesInit => SpaceInv
  <2> SUFFICES ASSUME DrivesInit PROVE SpaceInv
    OBVIOUS
  <2> USE DEF DrivesInit
  <2>1. SpaceTypes
    BY DEF SpaceTypes, Doings, Resting, DriveOps, DrivePcs, Carriers, Mounts, Claims, Boxes, NoClaim
  <2>2. \A h \in Handlers : work[h] = Resting OBVIOUS
  <2>3. Routes BY <2>2 DEF Routes, Resting, PlacesOf, Handlers
  <2>4. Alone /\ Closing /\ Opening /\ ClaimsHold
    BY <2>2 DEF Alone, Closing, Opening, ClaimsHold, Working, Resting, NoClaim
  <2>5. EjectedMeans /\ Settled
    BY <2>2 DEF EjectedMeans, Settled, AllBound, OpenHere, Mounted, Nowhere, Working, Resting, NoClaim, Handlers
  <2> QED BY <2>1, <2>3, <2>4, <2>5 DEF SpaceInv
<1>2. SpaceInv /\ [DrivesNext]_driveSpaceVars => SpaceInv'
  <2> SUFFICES ASSUME SpaceInv, [DrivesNext]_driveSpaceVars PROVE SpaceInv'
    OBVIOUS
  <2>0. SpaceTypes /\ (~overlap => EjectedMeans) BY DEF SpaceInv
  <2>1. CASE UNCHANGED driveSpaceVars
    BY <2>1 DEF driveSpaceVars, SpaceInv, SpaceTypes, Routes, Alone, Closing, Opening, EjectedMeans,
                ClaimsHold, Settled, Working, NoneRuns, AllBound, OpenHere, Mounted
  <2>2. CASE Pull
    <3> USE <2>2 DEF Pull
    <3>1. /\ ownDrive' \in [plugged : BOOLEAN, path : {1, 2}, dirty : BOOLEAN]
          /\ ~ownDrive'.plugged
      BY DEF SpaceInv, SpaceTypes
    <3>2. SpaceTypes' /\ Routes'
      BY <3>1 DEF SpaceInv, SpaceTypes, Routes
    <3>3. ASSUME ~overlap'
          PROVE  Alone' /\ Closing' /\ Opening' /\ EjectedMeans' /\ ClaimsHold' /\ Settled' /\ ~astray'
      BY <3>1, <3>3 DEF SpaceInv, Alone, Closing, Opening, EjectedMeans, ClaimsHold, Settled,
                        Working, NoneRuns, AllBound, OpenHere, Mounted
    <3> QED BY <3>2, <3>3 DEF SpaceInv
  <2>3. CASE PlugsIn
    <3> USE <2>3 DEF PlugsIn, Start
    <3> DEFINE begun == [Resting EXCEPT !.op = "attach", !.app = "none", !.pc = "look"]
               path  == IF mount.source = ownDrive.path THEN 3 - ownDrive.path ELSE ownDrive.path
    <3>0. path \in {1, 2} /\ mount.source # path
      BY <2>0 DEF SpaceTypes, Mounts
    <3>a. ownDrive' = [ownDrive EXCEPT !.plugged = TRUE, !.path = path]
      OBVIOUS
    <3> HIDE DEF path
    <3>1. /\ ownDrive' \in [plugged : BOOLEAN, path : {1, 2}, dirty : BOOLEAN]
          /\ mount.source # ownDrive'.path
      BY <2>0, <3>0, <3>a DEF SpaceTypes
    <3>2. work' = [work EXCEPT !["plug"] = begun] OBVIOUS
    <3>3. begun \in Doings /\ begun.op = "attach" /\ begun.pc = "look"
      BY DEF Resting, Doings, DriveOps, DrivePcs, Carriers
    <3> HIDE DEF begun
    <3>4. SpaceTypes' BY <2>0, <3>1, <3>2, <3>3 DEF SpaceTypes, Handlers
    <3>5. /\ \A k \in Handlers \ {"plug"} : work'[k] = work[k]
          /\ work'["plug"].op = "attach" /\ work'["plug"].pc = "look"
      BY <2>0, <3>2, <3>3 DEF SpaceTypes, Handlers
    <3>6. Routes'
      <4>1. "look" \in PlacesOf("attach") BY DEF PlacesOf, Carriers
      <4> QED BY <3>5, <4>1 DEF SpaceInv, Routes, Handlers
    <3>7. ASSUME ~overlap'
          PROVE  Alone' /\ Closing' /\ Opening' /\ EjectedMeans' /\ ClaimsHold' /\ Settled' /\ ~astray'
      <4>1. ~overlap /\ \A k \in Handlers \ {"plug"} : ~Working(k)
        BY <2>0, <3>7 DEF SpaceTypes
      <4>2. \A k \in Handlers \ {"plug"} : work'[k].pc = "done"
        BY <3>5, <4>1 DEF Working
      <4>3. ~OpenHere' BY <3>1 DEF OpenHere
      <4>4. Alone' /\ Closing' /\ Opening'
        BY <3>5, <4>2, <4>3 DEF Alone, Closing, Opening, Working
      <4>5. EjectedMeans' /\ ClaimsHold' /\ Settled'
        BY <3>5, <4>1, <4>2, <4>3 DEF SpaceInv, EjectedMeans, ClaimsHold, Settled, NoneRuns, Working
      <4> QED BY <4>1, <4>4, <4>5 DEF SpaceInv
    <3> QED BY <3>4, <3>6, <3>7 DEF SpaceInv
  <2>4. CASE Forget
    <3> USE <2>4 DEF Forget
    <3>1. claim' \in Claims BY DEF Claims, NoClaim
    <3>2. SpaceTypes' /\ Routes'
      BY <3>1 DEF SpaceInv, SpaceTypes, Routes
    <3>3. ASSUME ~overlap'
          PROVE  Alone' /\ Closing' /\ Opening' /\ EjectedMeans' /\ ClaimsHold' /\ Settled' /\ ~astray'
      BY <3>3 DEF SpaceInv, Alone, Closing, Opening, EjectedMeans, ClaimsHold, Settled, NoClaim,
                  Working, NoneRuns, AllBound, OpenHere, Mounted
    <3> QED BY <3>2, <3>3 DEF SpaceInv
  <2>5. CASE BeginEject \/ BeginCheck \/ BeginUse \/ BeginOpen \/ BeginChange
             \/ \E a \in DriveApps : BeginApply(a) \/ BeginRemove(a)
    <3>1. CASE BeginEject
      <4>1. BeginWork("job", "eject", "none", "stop") /\ "job" \in Handlers
        BY <3>1 DEF BeginEject, Handlers
      <4>2. ~(claim.known /\ claim.ejected)
        BY <3>1 DEF BeginEject, DriveState
      <4>3. ~overlap => ~claim.ejected BY <2>0, <4>2 DEF EjectedMeans
      <4> QED BY <4>1, <4>3, BeginKeeps
    <3>2. CASE BeginCheck
      <4>1. BeginWork("job", "check", "none", "stop") /\ "job" \in Handlers
        BY <3>2 DEF BeginCheck, Handlers
      <4>2. ~(claim.known /\ claim.ejected)
        BY <3>2 DEF BeginCheck, DriveState
      <4>3. ~overlap => ~claim.ejected BY <2>0, <4>2 DEF EjectedMeans
      <4> QED BY <4>1, <4>3, BeginKeeps
    <3>3. CASE BeginUse
      BY <3>3, BeginKeeps DEF BeginUse, Handlers
    <3>4. CASE BeginOpen
      BY <3>4, BeginKeeps DEF BeginOpen, Handlers
    <3>5. CASE BeginChange
      BY <3>5, BeginKeeps DEF BeginChange, Handlers
    <3>6. ASSUME NEW a \in DriveApps, BeginApply(a)
          PROVE  SpaceInv'
      BY <3>6, BeginKeeps DEF BeginApply, Handlers
    <3>7. ASSUME NEW a \in DriveApps, BeginRemove(a)
          PROVE  SpaceInv'
      BY <3>7, BeginKeeps DEF BeginRemove, Handlers
    <3> QED BY <2>5, <3>1, <3>2, <3>3, <3>4, <3>5, <3>6, <3>7
  <2>6. CASE \E h \in Handlers : DriveWork(h)
    BY <2>6, DriveWorkStep
  <2> QED BY <2>1, <2>2, <2>3, <2>4, <2>5, <2>6 DEF DrivesNext
<1> QED BY <1>1, <1>2, PTL DEF DrivesSpec

\* A drive shown as ejected, with nothing in flight, has nothing mounted on it and no running
\* container that reads it, unless two handlers have been in flight together (eject in
\* storage.cjs, ejectDrive in system-adapter.cjs).
THEOREM EjectedMayBePulled == DrivesSpec => []EjectedIsSafeToPull
<1>1. SpaceInv => EjectedIsSafeToPull
  <2> SUFFICES ASSUME SpaceInv, Quiet, ~overlap, claim.ejected
               PROVE  ~OpenHere /\ \A a \in DriveApps : boxes[a].state # "running"
    BY DEF EjectedIsSafeToPull
  <2>1. \A h \in Handlers : work[h].pc = "done" BY DEF Quiet, Working
  <2> QED BY <2>1 DEF SpaceInv, EjectedMeans, NoneRuns
<1> QED BY <1>1, SpaceInvInductive, PTL

\* With nothing in flight and the drive open, a container that runs and claims the drive reads
\* the mount that is there now, unless the drive could not be opened when it was last plugged
\* in or two handlers have been in flight together (attachOnSight, reattachDrive).
THEOREM RunsOnTheMount == DrivesSpec => []BoundToTheMount
<1>1. SpaceInv => BoundToTheMount
  <2> SUFFICES ASSUME SpaceInv, Quiet, ~overlap, OpenHere, work["plug"].op # "missed"
               PROVE  \A a \in claim.apps : boxes[a].state = "running" => boxes[a].bind = mount.id
    BY DEF BoundToTheMount
  <2>1. ~Working("plug") BY DEF Quiet, Handlers
  <2>2. AllBound /\ claim.apps \subseteq DriveApps
    BY <2>1 DEF SpaceInv, Settled, OpenHere, SpaceTypes, Claims
  <2> QED BY <2>2 DEF AllBound
<1> QED BY <1>1, SpaceInvInductive, PTL

------------------------------------------------------------------------------
(* An upload. *)

UploadFiles == [there : BOOLEAN, pieces : Seq(Nat), flushed : Nat]
Browsers    == [pc : {"start", "again", "send", "added", "failed"}, offset : Nat]
UploadPcs   == {"done", "read", "over", "stage", "open", "write", "fail", "save", "offset",
                "check", "remove", "forget"}
UploadRequests ==
  [kind : {"none", "begin", "put", "finish", "cancel"}, pc : UploadPcs, offset : Nat, ack : Nat,
   left : Seq(Nat), upto : Nat, heard : BOOLEAN, awaited : BOOLEAN]

UploadTypes ==
  /\ session \in [open : BOOLEAN, ack : Nat] /\ inFlight \in Slots \cup {0}
  /\ partial \in UploadFiles /\ kept \in UploadFiles
  /\ requests \in [Slots -> UploadRequests] /\ browser \in Browsers
  /\ crowded \in BOOLEAN

\* Where each kind of request can be.
Placed(kind, pc) ==
  \/ kind = "none"   /\ pc = "done"
  \/ kind = "begin"  /\ pc \in {"read", "over", "offset", "save"}
  \/ kind = "put"    /\ pc \in {"read", "over", "stage", "open", "write", "fail", "save"}
  \/ kind = "finish" /\ pc \in {"read", "check", "forget"}
  \/ kind = "cancel" /\ pc \in {"read", "remove", "forget"}

RequestPlaces ==
  \A s \in Slots : /\ Placed(requests[s].kind, requests[s].pc)
                   /\ requests[s].kind = "cancel" => ~requests[s].heard

\* A chunk on its way, or written by an agent that is still waited for, holds the entry.
OneInFlight ==
  \A s \in Slots :
    /\ Doing(s, "put", "stage") \/ Doing(s, "put", "save") => inFlight = s
    /\ requests[s].kind = "put" /\ requests[s].pc \in {"open", "write", "fail"} /\ requests[s].awaited
       => inFlight = s

\* What a request goes by.
Figures ==
  \A s \in Slots :
    /\ Doing(s, "begin", "save") => requests[s].upto <= requests[s].ack
    /\ Doing(s, "put", "stage") \/ Doing(s, "put", "open") => requests[s].offset = requests[s].ack
    /\ Doing(s, "finish", "check") => requests[s].ack = Size

AddedStays ==
  /\ browser.pc = "added" => kept.there
  /\ \A s \in Slots : Doing(s, "finish", "forget") => kept.there

\* A partial cut back to n pieces is all flushed.
Covered(n) == n <= partial.flushed \/ Len(partial.pieces) = partial.flushed

FlushedIsRight == \A i \in 1..partial.flushed : partial.pieces[i] = i

SavesCovered ==
  \A s \in Slots : Doing(s, "put", "save") =>
    /\ Covered(requests[s].upto)
    /\ \A r \in Slots \ {s} : requests[r].kind = "put" => requests[r].pc \notin {"open", "write", "fail"}

\* A chunk goes on from what was flushed with the pieces that follow.
WritesRight ==
  \A s \in Slots : Doing(s, "put", "write") =>
    /\ session.ack <= partial.flushed
    /\ \A i \in 1..Len(partial.pieces) : partial.pieces[i] = i
    /\ \A i \in 1..Len(requests[s].left) : requests[s].left[i] = Len(partial.pieces) + i
    /\ requests[s].upto = Len(partial.pieces) + Len(requests[s].left)
    /\ \A r \in Slots \ {s} : ~Doing(r, "put", "write")

KeptIsRight == kept.there => kept.pieces = TheFile

UploadInv ==
  /\ UploadTypes /\ RequestPlaces /\ OneInFlight /\ Figures /\ AddedStays
  /\ partial.flushed <= Len(partial.pieces)
  /\ ~crowded => FlushedIsRight /\ Covered(session.ack) /\ SavesCovered /\ WritesRight /\ KeptIsRight

LEMMA TheFileInOrder ==
  ASSUME Size \in Nat
  PROVE  /\ TheFile \in Seq(Nat) /\ Len(TheFile) = Size
         /\ \A i \in 1..Size : TheFile[i] = i
BY DEF TheFile

LEMMA PieceIsNext ==
  ASSUME Size \in Nat, ChunkSize \in Nat, NEW offset \in Nat
  PROVE  /\ Piece(offset) \in Seq(Nat)
         /\ \A i \in 1..Len(Piece(offset)) : Piece(offset)[i] = offset + i
<1> DEFINE end == IF offset + ChunkSize < Size THEN offset + ChunkSize ELSE Size
<1>1. end \in Nat /\ end <= Size OBVIOUS
<1>2. Piece(offset) = SubSeq(TheFile, offset + 1, end) BY DEF Piece
<1> HIDE DEF end
<1>3. /\ SubSeq(TheFile, offset + 1, end) \in Seq(Nat)
      /\ Len(SubSeq(TheFile, offset + 1, end)) = IF offset + 1 <= end THEN end - offset ELSE 0
      /\ \A i \in 1..Len(SubSeq(TheFile, offset + 1, end)) : SubSeq(TheFile, offset + 1, end)[i] = TheFile[offset + i]
  BY <1>1, TheFileInOrder
<1> QED BY <1>1, <1>2, <1>3, TheFileInOrder

LEMMA FirstPieces ==
  ASSUME NEW pieces \in Seq(Nat), NEW n \in Nat, n <= Len(pieces)
  PROVE  /\ SubSeq(pieces, 1, n) \in Seq(Nat) /\ Len(SubSeq(pieces, 1, n)) = n
         /\ \A i \in 1..n : SubSeq(pieces, 1, n)[i] = pieces[i]
OBVIOUS

LEMMA TornPieces ==
  ASSUME NEW file \in UploadFiles, file.flushed <= Len(file.pieces), NEW torn \in Torn(file)
  PROVE  /\ torn \in UploadFiles /\ torn.there = file.there /\ torn.flushed = file.flushed
         /\ file.flushed <= Len(torn.pieces) /\ Len(torn.pieces) <= Len(file.pieces)
         /\ \A i \in 1..file.flushed : torn.pieces[i] = file.pieces[i]
<1>1. PICK n \in file.flushed..Len(file.pieces) :
        torn = [file EXCEPT !.pieces = [i \in 1..n |-> IF i <= file.flushed THEN file.pieces[i] ELSE Garbage]]
  BY DEF Torn
<1> DEFINE left == [i \in 1..n |-> IF i <= file.flushed THEN file.pieces[i] ELSE Garbage]
<1>2. n \in Nat /\ left \in Seq(Nat) /\ Len(left) = n
  BY DEF UploadFiles, Garbage
<1>3. \A i \in 1..file.flushed : left[i] = file.pieces[i]
  BY <1>2 DEF UploadFiles
<1>4. torn = [file EXCEPT !.pieces = left] BY <1>1
<1> HIDE DEF left
<1> QED BY <1>2, <1>3, <1>4, SMTT(30) DEF UploadFiles

LEMMA HearsWhat ==
  ASSUME browser \in Browsers, NEW kind, NEW answer, NEW n \in Nat
  PROVE  /\ Hears(kind, answer, n) \in Browsers
         /\ Hears(kind, answer, n).pc = "added" =>
              browser.pc = "added" \/ (answer = "ok" /\ kind = "finish")
BY DEF Hears, Offset, Browsers

\* A request that has its answer.
LEMMA AnsweredIs ==
  ASSUME UploadTypes, NEW s \in Slots, NEW answer, NEW n \in Nat, Answered(s, answer, n)
  PROVE  /\ requests' \in [Slots -> UploadRequests] /\ browser' \in Browsers
         /\ requests'[s] = NoRequest /\ \A r \in Slots \ {s} : requests'[r] = requests[r]
         /\ browser'.pc = "added" => \/ browser.pc = "added"
                                     \/ answer = "ok" /\ requests[s].kind = "finish"
<1>1. NoRequest \in UploadRequests
  BY DEF NoRequest, UploadRequests, UploadPcs
<1>2. requests' = [requests EXCEPT ![s] = NoRequest] BY DEF Answered
<1>3. browser' = browser \/ browser' = Hears(requests[s].kind, answer, n)
  BY DEF Answered
<1> QED BY <1>1, <1>2, <1>3, HearsWhat DEF UploadTypes

\* The agent's answer.
LEMMA AgentDoneIs ==
  ASSUME UploadTypes, NEW s \in Slots, NEW pc \in UploadPcs, NEW n \in Nat, AgentDone(s, pc, n)
  PROVE  /\ requests' \in [Slots -> UploadRequests]
         /\ \A r \in Slots \ {s} : requests'[r] = requests[r]
         /\ \/ requests[s].awaited /\ requests'[s] = [requests[s] EXCEPT !.pc = pc, !.upto = n]
            \/ ~requests[s].awaited /\ requests'[s] = NoRequest
<1>0. NoRequest \in UploadRequests
  BY DEF NoRequest, UploadRequests, UploadPcs
<1>1. [requests[s] EXCEPT !.pc = pc, !.upto = n] \in UploadRequests
  BY DEF UploadRequests, UploadTypes
<1>2. requests' = [requests EXCEPT ![s] = IF requests[s].awaited THEN [requests[s] EXCEPT !.pc = pc, !.upto = n]
                                          ELSE NoRequest]
  BY DEF AgentDone
<1> QED BY <1>0, <1>1, <1>2 DEF UploadTypes

\* A request by itself at the drive, with the session as it read it.
LEMMA ByItself ==
  ASSUME UploadTypes, NEW s \in Slots, Beside(s), ~crowded'
  PROVE  /\ ~crowded /\ requests[s].ack = session.ack
         /\ \A r \in Slots \ {s} : requests[r].pc \notin {"open", "write", "fail", "offset", "check", "remove"}
BY DEF Beside, Others, AtTheAgent, UploadTypes

LEMMA GoesIs ==
  ASSUME UploadTypes, NEW s \in Slots, NEW pc \in UploadPcs, Goes(s, pc)
  PROVE  /\ requests' \in [Slots -> UploadRequests]
         /\ \A r \in Slots \ {s} : requests'[r] = requests[r]
         /\ requests'[s] = [requests[s] EXCEPT !.pc = pc]
<1>1. [requests[s] EXCEPT !.pc = pc] \in UploadRequests
  BY DEF UploadRequests, UploadTypes
<1> QED BY <1>1 DEF UploadTypes, Goes

LEMMA NoRequestIs ==
  /\ NoRequest \in UploadRequests /\ NoRequest.kind = "none" /\ NoRequest.pc = "done"
  /\ ~NoRequest.heard /\ ~NoRequest.awaited
BY DEF NoRequest, UploadRequests, UploadPcs

\* A request that ends, with nothing new on the drive.
LEMMA EndingKeeps ==
  ASSUME UploadInv, NEW s \in Slots,
         requests' \in [Slots -> UploadRequests], browser' \in Browsers,
         requests'[s] = NoRequest, \A r \in Slots \ {s} : requests'[r] = requests[r],
         browser'.pc = "added" => kept.there,
         inFlight' \in {inFlight, IF inFlight = s THEN 0 ELSE inFlight},
         kept' = kept, crowded' \in BOOLEAN, crowded => crowded',
         session' \in [open : BOOLEAN, ack : Nat],
         partial' = partial \/ partial' = Absent,
         ~crowded' => /\ Covered(session'.ack)
                      /\ (partial' = partial /\ session'.ack <= session.ack)
                         \/ \A r \in Slots \ {s} : ~Doing(r, "put", "write")
  PROVE  UploadInv'
<1> USE NoRequestIs DEF UploadInv
<1>0. Absent \in UploadFiles BY DEF UploadFiles, Absent
<1>1. UploadTypes' BY <1>0 DEF UploadTypes
<1>2. partial'.flushed <= Len(partial'.pieces) BY DEF Absent
<1>3. RequestPlaces' BY DEF RequestPlaces, Placed
<1>4. OneInFlight' BY DEF OneInFlight, Doing
<1>5. Figures' BY DEF Figures, Doing
<1>6. AddedStays' BY DEF AddedStays, Doing
<1>7. ASSUME ~crowded'
      PROVE  FlushedIsRight' /\ Covered(session.ack)' /\ SavesCovered' /\ WritesRight' /\ KeptIsRight'
  <2>0. ~crowded /\ session.ack \in Nat /\ session'.ack \in Nat /\ partial.flushed \in Nat
    BY <1>7 DEF UploadTypes, UploadFiles
  <2>1. FlushedIsRight' BY <2>0 DEF FlushedIsRight, Absent
  <2>2. Covered(session.ack)' BY <1>7, <2>0 DEF Covered, Absent
  <2>3. SavesCovered' BY <2>0 DEF SavesCovered, Covered, Doing, Absent
  <2>4. WritesRight'
    <3> SUFFICES ASSUME NEW r \in Slots, Doing(r, "put", "write")'
                 PROVE  WritesRight!(r)!2'
      BY DEF WritesRight
    <3>1. r # s /\ requests'[r] = requests[r] /\ Doing(r, "put", "write")
      BY DEF Doing
    <3>2. partial' = partial /\ session'.ack <= session.ack
      BY <1>7, <3>1
    <3>3. WritesRight!(r)!2 BY <1>7, <2>0, <3>1 DEF WritesRight
    <3>4. \A q \in Slots \ {r} : ~Doing(q, "put", "write")'
      BY <3>3 DEF Doing
    <3> QED BY <2>0, <3>1, <3>2, <3>3, <3>4
  <2>5. KeptIsRight' BY <2>0 DEF KeptIsRight
  <2> QED BY <2>1, <2>2, <2>3, <2>4, <2>5
<1> QED BY <1>1, <1>2, <1>3, <1>4, <1>5, <1>6, <1>7

\* A request that goes on, or is left alone, with nothing new on the drive: nobody
\* comes to write, and who comes to hold the entry does so alone.
LEMMA GoingOnKeeps ==
  ASSUME UploadInv, UploadTypes', UNCHANGED <<session, partial, kept, crowded>>,
         RequestPlaces', OneInFlight', Figures', AddedStays',
         \A r \in Slots : /\ Doing(r, "put", "save")' => Doing(r, "put", "save") /\ requests'[r].upto = requests[r].upto
                          /\ Doing(r, "put", "write")' => /\ Doing(r, "put", "write")
                                                          /\ requests'[r].upto = requests[r].upto
                                                          /\ requests'[r].left = requests[r].left
                          /\ requests'[r].kind = "put" /\ requests'[r].pc \in {"open", "write", "fail"} =>
                               \/ requests[r].kind = "put" /\ requests[r].pc \in {"open", "write", "fail"}
                               \/ inFlight' = r
  PROVE  UploadInv'
<1> USE DEF UploadInv
<1>1. ASSUME ~crowded' PROVE SavesCovered' /\ WritesRight'
  <2>1. SavesCovered'
    BY <1>1 DEF SavesCovered, Covered, OneInFlight, Doing
  <2>2. WritesRight'
    <3> SUFFICES ASSUME NEW r \in Slots, Doing(r, "put", "write")'
                 PROVE  WritesRight!(r)!2'
      BY DEF WritesRight
    <3>1. WritesRight!(r)!2 BY <1>1 DEF WritesRight
    <3>2. \A q \in Slots \ {r} : ~Doing(q, "put", "write")' BY <3>1
    <3> QED BY <3>1, <3>2
  <2> QED BY <2>1, <2>2
<1> QED BY <1>1 DEF FlushedIsRight, Covered, KeptIsRight, UploadTypes

LEMMA RequestEndsKeeps ==
  ASSUME Size \in Nat, UploadInv, NEW s \in Slots,
         Busy(s) \/ Broken(s) \/ AppendFails(s) \/ DriveFull(s)
  PROVE  UploadInv'
<1> USE DEF UploadInv
<1>0. \A a \in {"later", "refused"} : Answered(s, a, 0) =>
        /\ requests' \in [Slots -> UploadRequests] /\ browser' \in Browsers
        /\ requests'[s] = NoRequest /\ \A r \in Slots \ {s} : requests'[r] = requests[r]
        /\ browser'.pc = "added" => kept.there
  BY AnsweredIs DEF AddedStays
<1>1. CASE Busy(s) \/ Broken(s) \/ AppendFails(s)
  <2>1. UNCHANGED <<partial, kept, crowded, session>> /\ Answered(s, "later", 0)
        /\ inFlight' \in {inFlight, IF inFlight = s THEN 0 ELSE inFlight}
    BY <1>1 DEF Busy, Broken, AppendFails, AgentRefuses
  <2> QED BY <1>0, <2>1, EndingKeeps DEF UploadTypes
<1>2. CASE DriveFull(s)
  <2>1. /\ kept' = kept /\ crowded' = crowded /\ partial' = Absent /\ Answered(s, "refused", 0)
        /\ inFlight' \in {inFlight, IF inFlight = s THEN 0 ELSE inFlight}
        /\ session' \in {session, NoSession} /\ Doing(s, "put", "write")
    BY <1>2 DEF DriveFull, AgentRefuses
  <2>2. session' \in [open : BOOLEAN, ack : Nat]
    <3>1. NoSession \in [open : BOOLEAN, ack : Nat] BY DEF NoSession
    <3> QED BY <2>1, <3>1 DEF UploadTypes
  <2>3. ~crowded' => \A r \in Slots \ {s} : ~Doing(r, "put", "write")
    BY <2>1 DEF WritesRight
  <2>4. ~crowded' => Covered(session'.ack)
    BY <2>1, <2>2 DEF NoSession, Covered, UploadTypes, UploadFiles
  <2> QED BY <1>0, <2>1, <2>2, <2>3, <2>4, EndingKeeps DEF UploadTypes
<1> QED BY <1>1, <1>2

LEMMA SessionStepKeeps ==
  ASSUME Size \in Nat, UploadInv, NEW s \in Slots, SavesSession(s) \/ DropsSession(s)
  PROVE  UploadInv'
<1> USE DEF UploadInv
<1>0. requests[s] \in UploadRequests BY DEF UploadTypes
<1>1. CASE SavesSession(s)
  <2>0. /\ Doing(s, "begin", "save") \/ Doing(s, "put", "save")
        /\ requests[s].upto \in Nat
    BY <1>0, <1>1 DEF SavesSession, RequestPlaces, Placed, Doing, UploadRequests
  <2>1. /\ kept' = kept /\ partial' = partial /\ Answered(s, "ok", requests[s].upto)
        /\ inFlight' \in {inFlight, IF inFlight = s THEN 0 ELSE inFlight}
        /\ session' = [open |-> TRUE, ack |-> requests[s].upto]
        /\ crowded' = (crowded \/ requests[s].ack # session.ack)
    BY <1>1 DEF SavesSession
  <2>2. session' \in [open : BOOLEAN, ack : Nat] /\ crowded' \in BOOLEAN /\ (crowded => crowded')
    BY <2>0, <2>1 DEF UploadTypes
  <2>3. /\ requests' \in [Slots -> UploadRequests] /\ browser' \in Browsers
        /\ requests'[s] = NoRequest /\ \A r \in Slots \ {s} : requests'[r] = requests[r]
        /\ browser'.pc = "added" => kept.there
    BY <2>0, <2>1, AnsweredIs DEF AddedStays, Doing
  <2>4. ~crowded' => /\ Covered(session'.ack)
                     /\ (partial' = partial /\ session'.ack <= session.ack)
                        \/ \A r \in Slots \ {s} : ~Doing(r, "put", "write")
    <3>1. CASE Doing(s, "put", "save")
      BY <2>1, <3>1 DEF SavesCovered, Doing
    <3>2. CASE Doing(s, "begin", "save")
      <4>1. requests[s].upto <= requests[s].ack BY <3>2 DEF Figures
      <4>2. session'.ack = requests[s].upto /\ partial' = partial
            /\ session.ack \in Nat /\ partial.flushed \in Nat /\ Len(partial.pieces) \in Nat
        BY <2>1 DEF UploadTypes, UploadFiles
      <4>3. ~crowded' => Covered(session.ack) /\ requests[s].upto <= session.ack
        BY <2>1, <4>1
      <4> QED BY <2>0, <4>2, <4>3 DEF Covered
    <3> QED BY <2>0, <3>1, <3>2
  <2> QED BY <2>1, <2>2, <2>3, <2>4, EndingKeeps
<1>2. CASE DropsSession(s)
  <2>0. Doing(s, "finish", "forget") \/ requests[s].kind = "cancel"
    BY <1>2 DEF DropsSession, RequestPlaces, Placed, Doing
  <2>1. /\ UNCHANGED <<kept, partial, inFlight, crowded>> /\ Answered(s, "ok", 0)
        /\ session' = NoSession
    BY <1>2 DEF DropsSession
  <2>2. session' \in [open : BOOLEAN, ack : Nat] /\ session'.ack = 0 /\ session'.ack <= session.ack
    BY <2>1 DEF UploadTypes, NoSession
  <2>3. /\ requests' \in [Slots -> UploadRequests] /\ browser' \in Browsers
        /\ requests'[s] = NoRequest /\ \A r \in Slots \ {s} : requests'[r] = requests[r]
        /\ browser'.pc = "added" => kept.there
    BY <2>0, <2>1, AnsweredIs DEF AddedStays, Doing
  <2>4. Covered(session'.ack)
    BY <2>2 DEF Covered, UploadTypes, UploadFiles
  <2> QED BY <2>1, <2>2, <2>3, <2>4, EndingKeeps DEF UploadTypes
<1> QED BY <1>1, <1>2

\* What `requests` becomes when the request of s goes on.
LEMMA GoesOn ==
  ASSUME UploadTypes, NEW s \in Slots, NEW r \in UploadRequests, requests' = [requests EXCEPT ![s] = r]
  PROVE  requests' \in [Slots -> UploadRequests] /\ requests'[s] = r
         /\ \A q \in Slots \ {s} : requests'[q] = requests[q]
BY DEF UploadTypes

LEMMA ReadsSessionKeeps ==
  ASSUME Size \in Nat, UploadInv, NEW s \in Slots, ReadsSession(s)
  PROVE  UploadInv'
<1> USE DEF UploadInv
<1> DEFINE req == requests[s]
           pc  == CASE req.kind \in {"begin", "put"} -> "over" [] req.kind = "finish" -> "check" [] OTHER -> "remove"
<1>0. UNCHANGED <<session, inFlight, partial, kept, crowded>> /\ req \in UploadRequests
  BY DEF ReadsSession, UploadTypes
<1>1. \/ /\ requests' = [requests EXCEPT ![s] = [req EXCEPT !.ack = session.ack, !.pc = pc]] /\ browser' = browser
         /\ req.kind = "finish" => session.ack = Size
      \/ \E answer \in {"refused", "restart", "later"} : Answered(s, answer, 0)
  BY DEF ReadsSession, UploadTypes
<1>2. ASSUME NEW answer \in {"refused", "restart", "later"}, Answered(s, answer, 0)
      PROVE  UploadInv'
  <2>1. /\ requests' \in [Slots -> UploadRequests] /\ browser' \in Browsers
        /\ requests'[s] = NoRequest /\ \A r \in Slots \ {s} : requests'[r] = requests[r]
        /\ browser'.pc = "added" => kept.there
    BY <1>2, AnsweredIs DEF AddedStays
  <2> QED BY <1>0, <2>1, EndingKeeps DEF UploadTypes
<1>3. ASSUME requests' = [requests EXCEPT ![s] = [req EXCEPT !.ack = session.ack, !.pc = pc]], browser' = browser,
             req.kind = "finish" => session.ack = Size
      PROVE  UploadInv'
  <2>1. req.pc = "read" /\ req.kind \in {"begin", "put", "finish", "cancel"}
    BY <1>2, <1>3 DEF ReadsSession, RequestPlaces, Placed
  <2>2. Placed(req.kind, pc) /\ pc \in {"over", "check", "remove"}
    BY <2>1 DEF Placed
  <2> HIDE DEF pc
  <2>3. [req EXCEPT !.ack = session.ack, !.pc = pc] \in UploadRequests
    BY <1>0, <2>2 DEF UploadRequests, UploadPcs, UploadTypes
  <2>4. /\ requests' \in [Slots -> UploadRequests] /\ \A r \in Slots \ {s} : requests'[r] = requests[r]
        /\ requests'[s].kind = req.kind /\ requests'[s].pc = pc /\ requests'[s].heard = req.heard
        /\ requests'[s].ack = session.ack
    BY <1>0, <1>3, <2>3, GoesOn DEF UploadRequests
  <2> HIDE DEF req
  <2>5. UploadTypes' BY <1>0, <1>3, <2>4 DEF UploadTypes
  <2>6. RequestPlaces' BY <2>2, <2>4 DEF RequestPlaces, req
  <2>7. OneInFlight' /\ Figures' /\ AddedStays'
    BY <1>0, <1>3, <2>2, <2>4 DEF OneInFlight, Figures, AddedStays, Doing
  <2> QED BY <1>0, <2>2, <2>4, <2>5, <2>6, <2>7, GoingOnKeeps DEF Doing
<1> QED BY <1>1, <1>2, <1>3

LEMMA StagesKeeps ==
  ASSUME Size \in Nat, UploadInv, NEW s \in Slots, Stages(s)
  PROVE  UploadInv'
<1> USE DEF UploadInv
<1>0. UNCHANGED <<session, inFlight, partial, kept, crowded, browser>> /\ requests[s] \in UploadRequests
      /\ Doing(s, "put", "stage")
  BY DEF Stages, UploadTypes
<1>a. /\ requests' \in [Slots -> UploadRequests] /\ \A r \in Slots \ {s} : requests'[r] = requests[r]
      /\ requests'[s] = [requests[s] EXCEPT !.pc = "open"]
  BY GoesIs DEF Stages, UploadPcs
<1>1. /\ requests' \in [Slots -> UploadRequests] /\ \A r \in Slots \ {s} : requests'[r] = requests[r]
      /\ requests'[s].kind = "put" /\ requests'[s].pc = "open" /\ requests'[s].heard = requests[s].heard
      /\ requests'[s].ack = requests[s].ack /\ requests'[s].offset = requests[s].offset
  BY <1>0, <1>a DEF UploadRequests, Doing
<1>2. UploadTypes' BY <1>0, <1>1 DEF UploadTypes
<1>3. RequestPlaces' BY <1>0, <1>1 DEF RequestPlaces, Placed, Doing
<1>4. OneInFlight' /\ Figures' /\ AddedStays'
  BY <1>0, <1>1 DEF OneInFlight, Figures, AddedStays, Doing
<1>5. inFlight' = s BY <1>0 DEF OneInFlight
<1> QED BY <1>0, <1>1, <1>2, <1>3, <1>4, <1>5, GoingOnKeeps DEF Doing

LEMMA TakesOverKeeps ==
  ASSUME Size \in Nat, UploadInv, NEW s \in Slots, TakesOver(s)
  PROVE  UploadInv'
<1> USE NoRequestIs DEF UploadInv
<1>0. /\ UNCHANGED <<session, partial, kept, crowded>> /\ requests[s] \in UploadRequests
      /\ requests[s].pc = "over" /\ (inFlight # 0 => requests[inFlight].pc = "stage") /\ s # inFlight /\ s # 0
      /\ requests[s].kind \in {"begin", "put"}
  BY DEF TakesOver, UploadTypes, RequestPlaces, Placed, Slots
<1>1. /\ \A r \in Slots \ {s} : requests'[r] = IF r = inFlight THEN NoRequest ELSE requests[r]
      /\ \/ requests'[s] = NoRequest /\ inFlight' = 0
         \/ requests[s].kind = "begin" /\ requests'[s] = [requests[s] EXCEPT !.pc = "offset"] /\ inFlight' = 0
         \/ /\ requests[s].kind = "put" /\ requests[s].offset = requests[s].ack
            /\ requests'[s] = [requests[s] EXCEPT !.pc = "stage"] /\ inFlight' = s
      /\ requests' = [r \in Slots |-> requests'[r]]
  BY <1>0 DEF TakesOver
<1>2. /\ [requests[s] EXCEPT !.pc = "offset"] \in UploadRequests
      /\ [requests[s] EXCEPT !.pc = "stage"] \in UploadRequests
  BY <1>0 DEF UploadRequests, UploadPcs
<1>3. browser' \in Browsers /\ (browser'.pc = "added" => browser.pc = "added")
  <2>1. browser' = browser \/ browser' = Hears("put", "later", 0)
    BY DEF TakesOver
  <2> QED BY <2>1, HearsWhat DEF UploadTypes
<1>4. \A r \in Slots : requests'[r] \in UploadRequests
  BY <1>1, <1>2 DEF UploadTypes
<1>5. UploadTypes' BY <1>0, <1>1, <1>3, <1>4 DEF UploadTypes
<1>6. \/ requests'[s].kind = "none" /\ requests'[s].pc = "done" /\ ~requests'[s].heard
      \/ /\ requests'[s].kind = "begin" /\ requests'[s].pc = "offset" /\ requests[s].kind = "begin"
      \/ /\ requests'[s].kind = "put" /\ requests'[s].pc = "stage" /\ inFlight' = s
         /\ requests'[s].offset = requests'[s].ack
  BY <1>0, <1>1 DEF UploadRequests
<1>7. \A r \in Slots \ {s} : \/ requests'[r] = NoRequest
                             \/ requests'[r] = requests[r] /\ r # inFlight
  BY <1>1
<1>8. RequestPlaces' BY <1>6, <1>7 DEF RequestPlaces, Placed
<1>9. OneInFlight' /\ Figures' /\ AddedStays'
  <2>1. OneInFlight' BY <1>6, <1>7 DEF OneInFlight, Doing
  <2>2. Figures' BY <1>6, <1>7 DEF Figures, Doing
  <2>3. AddedStays' BY <1>0, <1>3, <1>6, <1>7 DEF AddedStays, Doing
  <2> QED BY <2>1, <2>2, <2>3
<1> QED BY <1>0, <1>5, <1>6, <1>7, <1>8, <1>9, GoingOnKeeps DEF Doing

LEMMA UploadOffsetKeeps ==
  ASSUME Size \in Nat, UploadInv, NEW s \in Slots, UploadOffset(s)
  PROVE  UploadInv'
<1> USE NoRequestIs DEF UploadInv
<1> DEFINE upto == Lesser(Len(partial.pieces), requests[s].ack)
<1>0. /\ UNCHANGED kept /\ requests[s] \in UploadRequests /\ Doing(s, "begin", "offset") /\ Beside(s)
      /\ crowded' \in BOOLEAN /\ (crowded => crowded')
  BY DEF UploadOffset, Beside, UploadTypes
<1>1. ASSUME AgentRefuses(s, "later", FALSE), partial' = partial
      PROVE  UploadInv'
  <2>1. /\ requests' \in [Slots -> UploadRequests] /\ browser' \in Browsers
        /\ requests'[s] = NoRequest /\ \A r \in Slots \ {s} : requests'[r] = requests[r]
        /\ browser'.pc = "added" => kept.there
    BY <1>1, AnsweredIs DEF AddedStays, AgentRefuses
  <2> QED BY <1>0, <1>1, <2>1, EndingKeeps DEF UploadTypes, AgentRefuses
<1>2. ASSUME partial' = Trimmed(upto), AgentDone(s, "save", upto)
      PROVE  UploadInv'
  <2>1. /\ upto \in Nat /\ upto <= Len(partial.pieces) /\ upto <= requests[s].ack
        /\ upto = Len(partial.pieces) \/ upto = requests[s].ack
        /\ partial.pieces \in Seq(Nat) /\ partial.flushed \in Nat /\ requests[s].ack \in Nat
        /\ Len(partial.pieces) \in Nat
    <3>1. partial.pieces \in Seq(Nat) /\ partial.flushed \in Nat /\ requests[s].ack \in Nat
      BY <1>0 DEF UploadTypes, UploadFiles, UploadRequests
    <3>2. \A a, b \in Nat : /\ Lesser(a, b) \in Nat /\ Lesser(a, b) <= a /\ Lesser(a, b) <= b
                            /\ Lesser(a, b) = a \/ Lesser(a, b) = b
      BY DEF Lesser
    <3>3. Len(partial.pieces) \in Nat BY <3>1
    <3> QED BY <3>1, <3>2, <3>3
  <2> HIDE DEF upto
  <2>2. /\ partial'.there = TRUE /\ partial'.pieces \in Seq(Nat) /\ Len(partial'.pieces) = upto
        /\ \A i \in 1..upto : partial'.pieces[i] = partial.pieces[i]
        /\ partial'.flushed = IF partial.flushed < upto THEN partial.flushed ELSE upto
        /\ partial' \in UploadFiles
    <3> DEFINE pieces  == SubSeq(partial.pieces, 1, upto)
               flushed == IF partial.flushed < upto THEN partial.flushed ELSE upto
    <3>1. /\ pieces \in Seq(Nat) /\ Len(pieces) = upto /\ flushed \in Nat
          /\ \A i \in 1..upto : pieces[i] = partial.pieces[i]
      BY <2>1, FirstPieces
    <3>2. partial' = [there |-> TRUE, pieces |-> pieces, flushed |-> flushed]
      BY <1>2 DEF Trimmed
    <3>3. flushed = IF partial.flushed < upto THEN partial.flushed ELSE upto
      OBVIOUS
    <3> HIDE DEF pieces, flushed
    <3> QED BY <3>1, <3>2, <3>3 DEF UploadFiles
  <2>3. partial' \in UploadFiles /\ partial'.flushed \in Nat /\ partial'.flushed <= Len(partial'.pieces)
    BY <2>1, <2>2
  <2>4. /\ requests' \in [Slots -> UploadRequests] /\ \A r \in Slots \ {s} : requests'[r] = requests[r]
        /\ \/ /\ requests'[s].kind = "begin" /\ requests'[s].pc = "save"
              /\ requests'[s].upto = upto /\ requests'[s].ack = requests[s].ack
           \/ requests'[s] = NoRequest
    <3>1. /\ requests' \in [Slots -> UploadRequests] /\ \A r \in Slots \ {s} : requests'[r] = requests[r]
          /\ \/ requests[s].awaited /\ requests'[s] = [requests[s] EXCEPT !.pc = "save", !.upto = upto]
             \/ ~requests[s].awaited /\ requests'[s] = NoRequest
      BY <1>2, <2>1, AgentDoneIs DEF UploadPcs
    <3> QED BY <1>0, <3>1 DEF Doing, UploadRequests
  <2>5. session' = session /\ inFlight' = inFlight /\ browser' = browser
    BY <1>2 DEF AgentDone
  <2>6. UploadTypes' BY <1>0, <2>3, <2>4, <2>5 DEF UploadTypes
  <2>7. RequestPlaces' BY <2>4 DEF RequestPlaces, Placed
  <2>8. OneInFlight' BY <2>4, <2>5 DEF OneInFlight, Doing
  <2>9. Figures' BY <2>1, <2>4 DEF Figures, Doing
  <2>10. AddedStays' BY <1>0, <2>4, <2>5 DEF AddedStays, Doing
  <2>11. ASSUME ~crowded'
         PROVE  FlushedIsRight' /\ Covered(session.ack)' /\ SavesCovered' /\ WritesRight' /\ KeptIsRight'
    <3>0. /\ ~crowded /\ requests[s].ack = session.ack
          /\ \A r \in Slots \ {s} : requests[r].pc \notin {"open", "write", "fail", "offset", "check", "remove"}
      BY <1>0, <2>11, ByItself
    <3>1. FlushedIsRight'
      <4> SUFFICES ASSUME NEW i \in 1..partial'.flushed
                   PROVE  partial'.pieces[i] = i
        BY DEF FlushedIsRight
      <4>1. i \in 1..upto /\ i \in 1..partial.flushed BY <2>1, <2>2
      <4> QED BY <2>2, <3>0, <4>1 DEF FlushedIsRight
    <3>2. Len(partial'.pieces) = partial'.flushed
      <4>1. session.ack <= partial.flushed \/ Len(partial.pieces) = partial.flushed
        BY <3>0 DEF Covered
      <4> QED BY <2>1, <2>2, <3>0, <4>1
    <3>3. Covered(session.ack)' /\ KeptIsRight'
      BY <1>0, <2>5, <3>0, <3>2 DEF Covered, KeptIsRight
    <3>4. SavesCovered'
      BY <2>4, <3>0, <3>2 DEF SavesCovered, Covered, Doing
    <3>5. WritesRight' BY <2>4, <3>0 DEF WritesRight, Doing
    <3> QED BY <3>1, <3>3, <3>4, <3>5
  <2> QED BY <2>3, <2>6, <2>7, <2>8, <2>9, <2>10, <2>11
<1> QED BY <1>1, <1>2 DEF UploadOffset

LEMMA AppendOpensKeeps ==
  ASSUME Size \in Nat, ChunkSize \in Nat, UploadInv, NEW s \in Slots, AppendOpens(s)
  PROVE  UploadInv'
<1> USE NoRequestIs DEF UploadInv
<1> DEFINE size == Len(partial.pieces)
<1>0. /\ UNCHANGED <<kept, partial>> /\ requests[s] \in UploadRequests /\ Doing(s, "put", "open") /\ Beside(s)
      /\ crowded' \in BOOLEAN /\ (crowded => crowded') /\ size \in Nat /\ session.ack \in Nat
      /\ partial.flushed \in Nat
  BY DEF AppendOpens, Beside, UploadTypes, UploadFiles
<1>1. ASSUME NEW answer \in {"later", "refused", "restart"}, NEW lost \in BOOLEAN, AgentRefuses(s, answer, lost)
      PROVE  UploadInv'
  <2>1. /\ requests' \in [Slots -> UploadRequests] /\ browser' \in Browsers
        /\ requests'[s] = NoRequest /\ \A r \in Slots \ {s} : requests'[r] = requests[r]
        /\ browser'.pc = "added" => kept.there
    BY <1>1, AnsweredIs DEF AddedStays, AgentRefuses
  <2>2. /\ session' \in {session, NoSession}
        /\ inFlight' \in {inFlight, IF inFlight = s THEN 0 ELSE inFlight}
    BY <1>1 DEF AgentRefuses
  <2>3. NoSession \in [open : BOOLEAN, ack : Nat] /\ NoSession.ack = 0
    BY DEF NoSession
  <2>4. session' \in [open : BOOLEAN, ack : Nat] /\ session'.ack <= session.ack
        /\ (Covered(session.ack) => Covered(session'.ack))
    BY <1>0, <2>2, <2>3 DEF UploadTypes, Covered
  <2> QED BY <1>0, <2>1, <2>2, <2>4, EndingKeeps
<1>2. ASSUME size = requests[s].offset,
             requests' = [requests EXCEPT ![s].pc = "write", ![s].left = Piece(size),
                                          ![s].upto = size + Len(Piece(size))],
             UNCHANGED <<session, inFlight, browser>>
      PROVE  UploadInv'
  <2> DEFINE left == Piece(size)
  <2>1. left \in Seq(Nat) /\ Len(left) \in Nat /\ \A i \in 1..Len(left) : left[i] = size + i
    BY <1>0, PieceIsNext
  <2> HIDE DEF left
  <2>2. [requests[s] EXCEPT !.pc = "write", !.left = left, !.upto = size + Len(left)] \in UploadRequests
    <3>1. size + Len(left) \in Nat BY <1>0, <2>1
    <3> QED BY <1>0, <2>1, <3>1 DEF UploadRequests, UploadPcs
  <2>3. requests' = [requests EXCEPT ![s] = [requests[s] EXCEPT !.pc = "write", !.left = left,
                                                                !.upto = size + Len(left)]]
    BY <1>2 DEF left
  <2>4. /\ requests' \in [Slots -> UploadRequests] /\ \A r \in Slots \ {s} : requests'[r] = requests[r]
        /\ requests'[s].kind = "put" /\ requests'[s].pc = "write" /\ requests'[s].left = left
        /\ requests'[s].upto = size + Len(left) /\ requests'[s].heard = requests[s].heard
        /\ requests'[s].awaited = requests[s].awaited
    BY <1>0, <2>2, <2>3, GoesOn DEF UploadRequests, Doing
  <2>6. UploadTypes' BY <1>0, <1>2, <2>4 DEF UploadTypes
  <2>7. RequestPlaces' BY <2>4 DEF RequestPlaces, Placed
  <2>8. OneInFlight' BY <1>0, <1>2, <2>4 DEF OneInFlight, Doing
  <2>9. Figures' BY <2>4 DEF Figures, Doing
  <2>10. AddedStays' BY <1>0, <1>2, <2>4 DEF AddedStays, Doing
  <2>11. ASSUME ~crowded'
         PROVE  FlushedIsRight' /\ Covered(session.ack)' /\ SavesCovered' /\ WritesRight' /\ KeptIsRight'
    <3>0. /\ ~crowded /\ requests[s].ack = session.ack
          /\ \A r \in Slots \ {s} : requests[r].pc \notin {"open", "write", "fail", "offset", "check", "remove"}
      BY <1>0, <2>11, ByItself
    <3>1. FlushedIsRight' /\ Covered(session.ack)' /\ KeptIsRight'
      BY <1>0, <1>2, <3>0 DEF FlushedIsRight, Covered, KeptIsRight
    <3>2. SavesCovered'
      BY <1>0, <2>4, <3>0 DEF SavesCovered, Covered, Doing
    <3>3. session.ack = size /\ size <= partial.flushed
      BY <1>0, <1>2, <3>0 DEF Figures, Covered
    <3>4. \A i \in 1..size : partial.pieces[i] = i
      BY <1>0, <3>0, <3>3 DEF FlushedIsRight
    <3>5. WritesRight'
      BY <1>0, <1>2, <2>1, <2>4, <3>0, <3>3, <3>4, SMTT(30) DEF WritesRight, Doing
    <3> QED BY <3>1, <3>2, <3>5
  <2> QED BY <1>0, <2>6, <2>7, <2>8, <2>9, <2>10, <2>11
<1> QED BY <1>1, <1>2 DEF AppendOpens

\* What a piece more makes of the pieces.
LEMMA OneMore ==
  ASSUME NEW pieces \in Seq(Nat), NEW left \in Seq(Nat), left # <<>>
  PROVE  /\ Append(pieces, Head(left)) \in Seq(Nat) /\ Tail(left) \in Seq(Nat)
         /\ Len(Append(pieces, Head(left))) = Len(pieces) + 1 /\ Len(left) = Len(Tail(left)) + 1
         /\ \A i \in 1..Len(pieces) : Append(pieces, Head(left))[i] = pieces[i]
         /\ Append(pieces, Head(left))[Len(pieces) + 1] = left[1]
         /\ \A i \in 1..Len(Tail(left)) : Tail(left)[i] = left[i + 1]
OBVIOUS

LEMMA AppendWritesKeeps ==
  ASSUME Size \in Nat, UploadInv, NEW s \in Slots, AppendWrites(s)
  PROVE  UploadInv'
<1> USE NoRequestIs DEF UploadInv
<1> DEFINE pieces == partial.pieces
           left   == requests[s].left
<1>0. /\ UNCHANGED <<kept, session, inFlight, browser>> /\ requests[s] \in UploadRequests
      /\ Doing(s, "put", "write") /\ Beside(s) /\ left # <<>>
      /\ crowded' \in BOOLEAN /\ (crowded => crowded') /\ session.ack \in Nat /\ left \in Seq(Nat)
      /\ pieces \in Seq(Nat) /\ partial.flushed \in Nat
  BY DEF AppendWrites, Beside, UploadTypes, UploadFiles, UploadRequests
<1>1. /\ Append(pieces, Head(left)) \in Seq(Nat) /\ Tail(left) \in Seq(Nat)
      /\ Len(Append(pieces, Head(left))) = Len(pieces) + 1 /\ Len(left) = Len(Tail(left)) + 1
      /\ \A i \in 1..Len(pieces) : Append(pieces, Head(left))[i] = pieces[i]
      /\ Append(pieces, Head(left))[Len(pieces) + 1] = left[1]
      /\ \A i \in 1..Len(Tail(left)) : Tail(left)[i] = left[i + 1]
  BY <1>0, OneMore
<1>2. /\ partial' = [partial EXCEPT !.pieces = Append(pieces, Head(left))]
      /\ requests' = [requests EXCEPT ![s] = [requests[s] EXCEPT !.left = Tail(left)]]
  BY DEF AppendWrites
<1>3. [requests[s] EXCEPT !.left = Tail(left)] \in UploadRequests
  BY <1>0, <1>1 DEF UploadRequests
<1>4. /\ requests' \in [Slots -> UploadRequests] /\ \A r \in Slots \ {s} : requests'[r] = requests[r]
      /\ requests'[s].kind = "put" /\ requests'[s].pc = "write" /\ requests'[s].left = Tail(left)
      /\ requests'[s].upto = requests[s].upto /\ requests'[s].heard = requests[s].heard
      /\ requests'[s].awaited = requests[s].awaited
  BY <1>0, <1>2, <1>3, GoesOn DEF UploadRequests, Doing
<1>5. /\ partial' \in UploadFiles /\ partial'.flushed = partial.flushed
      /\ partial'.pieces = Append(pieces, Head(left))
  BY <1>1, <1>2 DEF UploadTypes, UploadFiles
<1>6. UploadTypes' BY <1>0, <1>4, <1>5 DEF UploadTypes
<1>7. RequestPlaces' /\ OneInFlight' /\ Figures' /\ AddedStays'
  <2>1. RequestPlaces' BY <1>4 DEF RequestPlaces, Placed
  <2>2. OneInFlight' BY <1>0, <1>4 DEF OneInFlight, Doing
  <2>3. Figures' BY <1>4 DEF Figures, Doing
  <2>4. AddedStays' BY <1>0, <1>4 DEF AddedStays, Doing
  <2> QED BY <2>1, <2>2, <2>3, <2>4
<1>8. Len(pieces) \in Nat /\ Len(left) \in Nat /\ Len(Tail(left)) \in Nat /\ partial'.flushed <= Len(partial'.pieces)
  BY <1>0, <1>1, <1>5
<1>9. ASSUME ~crowded'
      PROVE  FlushedIsRight' /\ Covered(session.ack)' /\ SavesCovered' /\ WritesRight' /\ KeptIsRight'
  <2>0. ~crowded /\ WritesRight!(s)!2 BY <1>0, <1>9 DEF WritesRight
  <2>1. FlushedIsRight'
    BY <1>0, <1>1, <1>5, <1>8, <2>0 DEF FlushedIsRight
  <2>2. Covered(session.ack)' /\ KeptIsRight'
    BY <1>0, <1>5, <2>0 DEF Covered, KeptIsRight
  <2>3. SavesCovered' BY <1>0, <1>4, <2>0 DEF SavesCovered, Doing
  <2>4. WritesRight!(s)!2'
    <3>1. session'.ack <= partial'.flushed BY <1>0, <1>5, <2>0
    <3>2. left[1] = Len(pieces) + 1 BY <1>0, <1>1, <2>0
    <3>3. \A i \in 1..Len(partial'.pieces) : partial'.pieces[i] = i
      <4> SUFFICES ASSUME NEW i \in 1..Len(partial'.pieces)
                   PROVE  partial'.pieces[i] = i
        OBVIOUS
      <4>1. i \in 1..Len(pieces) \/ i = Len(pieces) + 1
        BY <1>1, <1>5, <1>8
      <4>2. CASE i \in 1..Len(pieces)
        BY <1>1, <1>5, <2>0, <4>2
      <4>3. CASE i = Len(pieces) + 1
        BY <1>1, <1>5, <3>2, <4>3
      <4> QED BY <4>1, <4>2, <4>3
    <3>4. \A i \in 1..Len(requests'[s].left) : requests'[s].left[i] = Len(partial'.pieces) + i
      BY <1>1, <1>4, <1>5, <1>8, <2>0
    <3>5. requests'[s].upto = Len(partial'.pieces) + Len(requests'[s].left)
      <4>1. requests[s].upto = Len(pieces) + Len(left) BY <2>0
      <4>2. requests'[s].upto = requests[s].upto /\ Len(requests'[s].left) = Len(Tail(left))
            /\ Len(partial'.pieces) = Len(pieces) + 1
        BY <1>1, <1>4, <1>5
      <4> DEFINE n == Len(pieces)
                 m == Len(left)
                 k == Len(Tail(left))
      <4>3. n \in Nat /\ k \in Nat /\ m = k + 1 /\ requests[s].upto = n + m
        BY <1>1, <1>8, <4>1
      <4> HIDE DEF n, m, k
      <4>4. requests[s].upto = (n + 1) + k BY <4>3
      <4>5. requests[s].upto = (Len(pieces) + 1) + Len(Tail(left))
        BY <4>4 DEF n, k
      <4> QED BY <4>2, <4>5, Zenon
    <3> QED BY <1>4, <2>0, <3>1, <3>3, <3>4, <3>5 DEF Doing
  <2>5. WritesRight' BY <1>4, <2>0, <2>4 DEF WritesRight, Doing
  <2> QED BY <2>1, <2>2, <2>3, <2>5
<1> QED BY <1>6, <1>7, <1>8, <1>9

LEMMA AppendFlushesKeeps ==
  ASSUME Size \in Nat, UploadInv, NEW s \in Slots, AppendFlushes(s)
  PROVE  UploadInv'
<1> USE NoRequestIs DEF UploadInv
<1>0. /\ UNCHANGED <<kept, session, inFlight, browser>> /\ requests[s] \in UploadRequests
      /\ Doing(s, "put", "write") /\ Beside(s) /\ requests[s].left = <<>> /\ requests[s].upto \in Nat
      /\ crowded' \in BOOLEAN /\ (crowded => crowded') /\ partial.pieces \in Seq(Nat)
      /\ Len(partial.pieces) \in Nat /\ session.ack \in Nat
  BY DEF AppendFlushes, Beside, UploadTypes, UploadFiles, UploadRequests, AgentDone
<1>1. /\ partial' \in UploadFiles /\ partial'.pieces = partial.pieces
      /\ partial'.flushed = Len(partial.pieces)
  BY <1>0 DEF AppendFlushes, UploadTypes, UploadFiles
<1>2. /\ requests' \in [Slots -> UploadRequests] /\ \A r \in Slots \ {s} : requests'[r] = requests[r]
      /\ \/ /\ requests'[s].kind = "put" /\ requests'[s].pc = "save" /\ requests[s].awaited
            /\ requests'[s].upto = requests[s].upto /\ requests'[s].heard = requests[s].heard
         \/ requests'[s] = NoRequest
  <2>1. /\ requests' \in [Slots -> UploadRequests] /\ \A r \in Slots \ {s} : requests'[r] = requests[r]
        /\ \/ requests[s].awaited /\ requests'[s] = [requests[s] EXCEPT !.pc = "save", !.upto = requests[s].upto]
           \/ ~requests[s].awaited /\ requests'[s] = NoRequest
    BY <1>0, AgentDoneIs DEF UploadPcs, AppendFlushes
  <2> QED BY <1>0, <2>1 DEF Doing, UploadRequests
<1>3. UploadTypes' BY <1>0, <1>1, <1>2 DEF UploadTypes
<1>4. RequestPlaces' /\ OneInFlight' /\ Figures' /\ AddedStays'
  <2>1. RequestPlaces' BY <1>2 DEF RequestPlaces, Placed
  <2>2. OneInFlight' BY <1>0, <1>2 DEF OneInFlight, Doing
  <2>3. Figures' BY <1>2 DEF Figures, Doing
  <2>4. AddedStays' BY <1>0, <1>2 DEF AddedStays, Doing
  <2> QED BY <2>1, <2>2, <2>3, <2>4
<1>5. ASSUME ~crowded'
      PROVE  FlushedIsRight' /\ Covered(session.ack)' /\ SavesCovered' /\ WritesRight' /\ KeptIsRight'
  <2>0. /\ ~crowded /\ WritesRight!(s)!2
        /\ \A r \in Slots \ {s} : requests[r].pc \notin {"open", "write", "fail", "offset", "check", "remove"}
    BY <1>0, <1>5, ByItself DEF WritesRight
  <2>1. FlushedIsRight' /\ Covered(session.ack)' /\ KeptIsRight'
    BY <1>0, <1>1, <2>0 DEF FlushedIsRight, Covered, KeptIsRight
  <2>2. SavesCovered'
    BY <1>1, <1>2, <2>0, ZenonT(30) DEF SavesCovered, Covered, Doing
  <2>3. WritesRight' BY <1>2, <2>0 DEF WritesRight, Doing
  <2> QED BY <2>1, <2>2, <2>3
<1> QED BY <1>0, <1>1, <1>3, <1>4, <1>5

LEMMA UploadFinishKeeps ==
  ASSUME Size \in Nat, UploadInv, NEW s \in Slots, UploadFinish(s)
  PROVE  UploadInv'
<1> USE NoRequestIs DEF UploadInv
<1>0. /\ requests[s] \in UploadRequests /\ Doing(s, "finish", "check") /\ Beside(s)
      /\ crowded' \in BOOLEAN /\ (crowded => crowded') /\ session.ack \in Nat /\ partial.flushed \in Nat
      /\ partial.pieces \in Seq(Nat)
  BY DEF UploadFinish, Beside, UploadTypes, UploadFiles
<1>00. Absent \in UploadFiles /\ Absent.flushed = 0 /\ Absent.pieces = <<>> /\ Len(Absent.pieces) = 0
  BY DEF UploadFiles, Absent
<1>1. ASSUME NEW answer \in {"later", "refused", "restart"}, NEW lost \in BOOLEAN, AgentRefuses(s, answer, lost),
             partial' \in {partial, Absent}, kept' = kept
      PROVE  UploadInv'
  <2>1. /\ requests' \in [Slots -> UploadRequests] /\ browser' \in Browsers
        /\ requests'[s] = NoRequest /\ \A r \in Slots \ {s} : requests'[r] = requests[r]
        /\ browser'.pc = "added" => kept.there
    BY <1>1, AnsweredIs DEF AddedStays, AgentRefuses
  <2>2. /\ session' \in {session, NoSession}
        /\ inFlight' \in {inFlight, IF inFlight = s THEN 0 ELSE inFlight}
    BY <1>1 DEF AgentRefuses
  <2>3. NoSession \in [open : BOOLEAN, ack : Nat] /\ NoSession.ack = 0
    BY DEF NoSession
  <2>4. session' \in [open : BOOLEAN, ack : Nat] /\ (Covered(session.ack) => Covered(session'.ack))
    BY <1>0, <2>2, <2>3 DEF UploadTypes, Covered
  <2>5. ~crowded' => \A r \in Slots \ {s} : ~Doing(r, "put", "write")
    BY <1>0, ByItself DEF Doing
  <2> QED BY <1>0, <1>1, <2>1, <2>2, <2>4, <2>5, EndingKeeps
<1>2. ASSUME partial.there, Len(partial.pieces) = Size, kept' = partial, partial' = Absent, AgentDone(s, "forget", 0)
      PROVE  UploadInv'
  <2>1. /\ requests' \in [Slots -> UploadRequests] /\ \A r \in Slots \ {s} : requests'[r] = requests[r]
        /\ \/ /\ requests'[s].kind = "finish" /\ requests'[s].pc = "forget" /\ requests'[s].heard = requests[s].heard
           \/ requests'[s] = NoRequest
    <3>1. /\ requests' \in [Slots -> UploadRequests] /\ \A r \in Slots \ {s} : requests'[r] = requests[r]
          /\ \/ requests[s].awaited /\ requests'[s] = [requests[s] EXCEPT !.pc = "forget", !.upto = 0]
             \/ ~requests[s].awaited /\ requests'[s] = NoRequest
      BY <1>2, AgentDoneIs DEF UploadPcs
    <3> QED BY <1>0, <3>1 DEF Doing, UploadRequests
  <2>2. UNCHANGED <<session, inFlight, browser>> BY <1>2 DEF AgentDone
  <2>3. UploadTypes' BY <1>0, <1>00, <1>2, <2>1, <2>2 DEF UploadTypes
  <2>4. RequestPlaces' BY <2>1 DEF RequestPlaces, Placed
  <2>5. OneInFlight' BY <2>1, <2>2 DEF OneInFlight, Doing
  <2>6. Figures' BY <2>1 DEF Figures, Doing
  <2>7. AddedStays' BY <1>2, <2>1, <2>2 DEF AddedStays, Doing
  <2>8. ASSUME ~crowded'
        PROVE  FlushedIsRight' /\ Covered(session.ack)' /\ SavesCovered' /\ WritesRight' /\ KeptIsRight'
    <3>0. /\ ~crowded /\ requests[s].ack = session.ack
          /\ \A r \in Slots \ {s} : requests[r].pc \notin {"open", "write", "fail", "offset", "check", "remove"}
      BY <1>0, <2>8, ByItself
    <3>1. FlushedIsRight' /\ Covered(session.ack)'
      BY <1>00, <1>2 DEF FlushedIsRight, Covered
    <3>2. SavesCovered'
      BY <1>00, <1>2, <2>1, <3>0 DEF SavesCovered, Covered, Doing
    <3>3. WritesRight' BY <2>1, <3>0 DEF WritesRight, Doing
    <3>4. partial.flushed = Size
      BY <1>0, <1>2, <3>0 DEF Figures, Covered
    <3>5. partial.pieces = TheFile
      BY <1>0, <1>2, <3>0, <3>4, TheFileInOrder DEF FlushedIsRight
    <3> QED BY <1>2, <3>1, <3>2, <3>3, <3>5 DEF KeptIsRight, TheFile
  <2> QED BY <1>00, <1>2, <2>3, <2>4, <2>5, <2>6, <2>7, <2>8
<1> QED BY <1>1, <1>2 DEF UploadFinish

LEMMA UploadCancelKeeps ==
  ASSUME Size \in Nat, UploadInv, NEW s \in Slots, UploadCancel(s)
  PROVE  UploadInv'
<1> USE NoRequestIs DEF UploadInv
<1>0. /\ requests[s] \in UploadRequests /\ Doing(s, "cancel", "remove") /\ Beside(s)
      /\ UNCHANGED <<kept, session, inFlight, browser>> /\ partial' \in {partial, Absent}
      /\ crowded' \in BOOLEAN /\ (crowded => crowded')
  BY DEF UploadCancel, Beside, UploadTypes, AgentDone
<1>00. Absent \in UploadFiles /\ Absent.flushed = 0 /\ Absent.pieces = <<>> /\ Len(Absent.pieces) = 0
  BY DEF UploadFiles, Absent
<1>1. /\ requests' \in [Slots -> UploadRequests] /\ \A r \in Slots \ {s} : requests'[r] = requests[r]
      /\ \/ /\ requests'[s].kind = "cancel" /\ requests'[s].pc = "forget" /\ requests'[s].heard = requests[s].heard
         \/ requests'[s] = NoRequest
  <2>1. /\ requests' \in [Slots -> UploadRequests] /\ \A r \in Slots \ {s} : requests'[r] = requests[r]
        /\ \/ requests[s].awaited /\ requests'[s] = [requests[s] EXCEPT !.pc = "forget", !.upto = 0]
           \/ ~requests[s].awaited /\ requests'[s] = NoRequest
    BY AgentDoneIs DEF UploadPcs, UploadCancel
  <2> QED BY <1>0, <2>1 DEF Doing, UploadRequests
<1>2. UploadTypes' BY <1>0, <1>00, <1>1 DEF UploadTypes
<1>3. RequestPlaces' BY <1>0, <1>1 DEF RequestPlaces, Placed, Doing
<1>4. OneInFlight' /\ Figures'
  BY <1>0, <1>1 DEF OneInFlight, Figures, Doing
<1>5. AddedStays' BY <1>0, <1>1 DEF AddedStays, Doing
<1>6. ASSUME ~crowded'
      PROVE  FlushedIsRight' /\ Covered(session.ack)' /\ SavesCovered' /\ WritesRight' /\ KeptIsRight'
  <2>0. /\ ~crowded
        /\ \A r \in Slots \ {s} : requests[r].pc \notin {"open", "write", "fail", "offset", "check", "remove"}
    BY <1>0, <1>6, ByItself
  <2>1. FlushedIsRight' /\ Covered(session.ack)' /\ KeptIsRight'
    BY <1>0, <1>00, <2>0 DEF FlushedIsRight, Covered, KeptIsRight
  <2>2. SavesCovered'
    BY <1>0, <1>00, <1>1, <2>0 DEF SavesCovered, Covered, Doing
  <2>3. WritesRight' BY <1>1, <2>0 DEF WritesRight, Doing
  <2> QED BY <2>1, <2>2, <2>3
<1> QED BY <1>0, <1>00, <1>2, <1>3, <1>4, <1>5, <1>6

LEMMA AsksKeeps ==
  ASSUME Size \in Nat, UploadInv, NEW s \in Slots, NEW kind \in {"begin", "put", "finish"}, Asks(s, kind)
  PROVE  UploadInv'
<1> USE DEF UploadInv
<1> DEFINE req == [NoRequest EXCEPT !.kind = kind, !.pc = "read", !.offset = browser.offset,
                                    !.heard = TRUE, !.awaited = TRUE]
<1>0. UNCHANGED <<session, inFlight, partial, kept, browser, crowded>> /\ requests' = [requests EXCEPT ![s] = req]
  BY DEF Asks
<1>1. req \in UploadRequests /\ req.kind = kind /\ req.pc = "read"
  <2>1. browser.offset \in Nat BY DEF UploadTypes, Browsers
  <2> QED BY <2>1, NoRequestIs DEF UploadRequests, UploadPcs
<1> HIDE DEF req
<1>2. /\ requests' \in [Slots -> UploadRequests] /\ \A r \in Slots \ {s} : requests'[r] = requests[r]
      /\ requests'[s].kind = kind /\ requests'[s].pc = "read"
  BY <1>0, <1>1, GoesOn
<1>3. UploadTypes' BY <1>0, <1>2 DEF UploadTypes
<1>4. RequestPlaces' BY <1>2 DEF RequestPlaces, Placed
<1>5. OneInFlight' /\ Figures' /\ AddedStays'
  BY <1>0, <1>2 DEF OneInFlight, Figures, AddedStays, Doing
<1> QED BY <1>0, <1>2, <1>3, <1>4, <1>5, GoingOnKeeps DEF Doing

LEMMA StopKeeps ==
  ASSUME Size \in Nat, UploadInv, NEW s \in Slots, Stop(s)
  PROVE  UploadInv'
<1> USE DEF UploadInv
<1> DEFINE req == [NoRequest EXCEPT !.kind = "cancel", !.pc = "read", !.awaited = TRUE]
<1>0. /\ UNCHANGED <<session, inFlight, partial, kept, crowded>> /\ requests' = [requests EXCEPT ![s] = req]
      /\ browser' = [pc |-> "start", offset |-> 0]
  BY DEF Stop
<1>1. req \in UploadRequests /\ req.kind = "cancel" /\ req.pc = "read" /\ ~req.heard
  BY NoRequestIs DEF UploadRequests, UploadPcs
<1> HIDE DEF req
<1>2. /\ requests' \in [Slots -> UploadRequests] /\ \A r \in Slots \ {s} : requests'[r] = requests[r]
      /\ requests'[s].kind = "cancel" /\ requests'[s].pc = "read" /\ ~requests'[s].heard
  BY <1>0, <1>1, GoesOn
<1>3. UploadTypes' BY <1>0, <1>2 DEF UploadTypes, Browsers
<1>4. RequestPlaces' BY <1>2 DEF RequestPlaces, Placed
<1>5. OneInFlight' /\ Figures' /\ AddedStays'
  BY <1>0, <1>2 DEF OneInFlight, Figures, AddedStays, Doing
<1> QED BY <1>0, <1>2, <1>3, <1>4, <1>5, GoingOnKeeps DEF Doing

LEMMA CutKeeps ==
  ASSUME Size \in Nat, UploadInv, NEW s \in Slots, Cut(s)
  PROVE  UploadInv'
<1> USE DEF UploadInv
<1>0. /\ UNCHANGED <<session, inFlight, partial, kept, crowded>> /\ browser' = Hears(requests[s].kind, "later", 0)
      /\ requests' = [requests EXCEPT ![s] = [requests[s] EXCEPT !.heard = FALSE]] /\ requests[s] \in UploadRequests
  BY DEF Cut, UploadTypes
<1>1. [requests[s] EXCEPT !.heard = FALSE] \in UploadRequests
  BY <1>0 DEF UploadRequests
<1>2. /\ requests' \in [Slots -> UploadRequests] /\ \A r \in Slots \ {s} : requests'[r] = requests[r]
      /\ requests'[s] = [requests[s] EXCEPT !.heard = FALSE]
  BY <1>0, <1>1, GoesOn
<1>3. browser' \in Browsers /\ (browser'.pc = "added" => browser.pc = "added")
  BY <1>0, HearsWhat DEF UploadTypes
<1>4. /\ requests'[s].kind = requests[s].kind /\ requests'[s].pc = requests[s].pc /\ ~requests'[s].heard
      /\ requests'[s].offset = requests[s].offset /\ requests'[s].ack = requests[s].ack
      /\ requests'[s].upto = requests[s].upto /\ requests'[s].left = requests[s].left
      /\ requests'[s].awaited = requests[s].awaited
  BY <1>0, <1>2 DEF UploadRequests
<1>5. UploadTypes' BY <1>0, <1>2, <1>3 DEF UploadTypes
<1>6. RequestPlaces'
  <2>1. Placed(requests'[s].kind, requests'[s].pc)
    BY <1>4 DEF RequestPlaces
  <2> QED BY <1>2, <1>4, <2>1 DEF RequestPlaces
<1>7. OneInFlight' /\ Figures' /\ AddedStays'
  BY <1>0, <1>2, <1>3, <1>4 DEF OneInFlight, Figures, AddedStays, Doing
<1> QED BY <1>0, <1>2, <1>4, <1>5, <1>6, <1>7, GoingOnKeeps DEF Doing

LEMMA LeftAloneIs ==
  ASSUME NEW r \in UploadRequests
  PROVE  /\ LeftAlone(r) \in UploadRequests /\ LeftAlone(r).kind = r.kind /\ LeftAlone(r).pc = r.pc
         /\ ~LeftAlone(r).heard /\ ~LeftAlone(r).awaited /\ LeftAlone(r).offset = r.offset
         /\ LeftAlone(r).ack = r.ack /\ LeftAlone(r).upto = r.upto /\ LeftAlone(r).left = r.left
BY DEF LeftAlone, UploadRequests

LEMMA GivesUpKeeps ==
  ASSUME Size \in Nat, UploadInv, NEW s \in Slots, GivesUp(s)
  PROVE  UploadInv'
<1> USE DEF UploadInv
<1>0. /\ UNCHANGED <<session, partial, kept, crowded>> /\ browser' \in {browser, Hears("put", "later", 0)}
      /\ requests' = [requests EXCEPT ![s] = LeftAlone(requests[s])] /\ requests[s] \in UploadRequests
      /\ inFlight' = 0 /\ AtTheAgent(s) /\ requests[s].awaited /\ requests[s].kind = "put"
  BY DEF GivesUp, UploadTypes
<1>1. /\ requests' \in [Slots -> UploadRequests] /\ \A r \in Slots \ {s} : requests'[r] = requests[r]
      /\ requests'[s] = LeftAlone(requests[s])
  BY <1>0, LeftAloneIs, GoesOn
<1>2. browser' \in Browsers /\ (browser'.pc = "added" => browser.pc = "added")
  BY <1>0, HearsWhat DEF UploadTypes
<1>3. inFlight = s /\ requests[s].pc \in {"open", "write", "fail"}
  BY <1>0 DEF OneInFlight, RequestPlaces, Placed, AtTheAgent
<1>4. UploadTypes' BY <1>0, <1>1, <1>2 DEF UploadTypes
<1>5. RequestPlaces'
  BY <1>0, <1>1, LeftAloneIs DEF RequestPlaces, Placed
<1>6. OneInFlight' /\ Figures' /\ AddedStays'
  <2>1. OneInFlight'
    BY <1>0, <1>1, <1>3, LeftAloneIs DEF OneInFlight, Doing
  <2>2. Figures' /\ AddedStays'
    BY <1>0, <1>1, <1>2, LeftAloneIs DEF Figures, AddedStays, Doing
  <2> QED BY <2>1, <2>2
<1> QED BY <1>0, <1>1, <1>4, <1>5, <1>6, LeftAloneIs, GoingOnKeeps DEF Doing

LEMMA RestartKeeps ==
  ASSUME Size \in Nat, UploadInv, Restart
  PROVE  UploadInv'
<1> USE NoRequestIs DEF UploadInv
<1>0. /\ UNCHANGED <<session, partial, kept, crowded>> /\ inFlight' = 0
      /\ \E kind : browser' \in {browser, Hears(kind, "later", 0)}
      /\ requests' = [r \in Slots |-> IF AtTheAgent(r) THEN LeftAlone(requests[r]) ELSE NoRequest]
  BY DEF Restart
<1>1. \A r \in Slots : requests[r] \in UploadRequests /\ requests'[r] \in UploadRequests
                       /\ \/ AtTheAgent(r) /\ requests'[r] = LeftAlone(requests[r])
                          \/ requests'[r] = NoRequest
  BY <1>0, LeftAloneIs DEF UploadTypes
<1>2. browser' \in Browsers /\ (browser'.pc = "added" => browser.pc = "added")
  BY <1>0, HearsWhat DEF UploadTypes
<1>3. UploadTypes' BY <1>0, <1>1, <1>2 DEF UploadTypes
<1>4. RequestPlaces' BY <1>1, LeftAloneIs DEF RequestPlaces, Placed
<1>5. OneInFlight'
  BY <1>1, LeftAloneIs DEF OneInFlight, Doing, AtTheAgent
<1>6. Figures' /\ AddedStays'
  BY <1>0, <1>1, <1>2, LeftAloneIs DEF Figures, AddedStays, Doing
<1> QED BY <1>0, <1>1, <1>3, <1>4, <1>5, <1>6, LeftAloneIs, GoingOnKeeps DEF Doing

LEMMA DayPassesKeeps ==
  ASSUME Size \in Nat, UploadInv, DayPasses
  PROVE  UploadInv'
<1> USE DEF UploadInv
<1>1. /\ UNCHANGED <<kept, browser, requests, crowded>> /\ partial' \in {partial, Absent}
      /\ session' \in {session, NoSession} /\ inFlight' \in {inFlight, 0}
      /\ \A s \in Slots : requests'[s] = NoRequest
      /\ session' = session \/ partial' = partial
  BY DEF DayPasses
<1>2. /\ Absent \in UploadFiles /\ Absent.flushed = 0 /\ Len(Absent.pieces) = 0
      /\ NoSession \in [open : BOOLEAN, ack : Nat] /\ NoSession.ack = 0
  BY DEF Absent, UploadFiles, NoSession
<1>3. UploadTypes' BY <1>1, <1>2 DEF UploadTypes
<1>4. \A s \in Slots : requests'[s].kind = "none" /\ requests'[s].pc = "done" /\ ~requests'[s].heard
  BY <1>1, NoRequestIs
<1>5. RequestPlaces' /\ OneInFlight' /\ Figures' /\ SavesCovered' /\ WritesRight'
  BY <1>4 DEF RequestPlaces, Placed, OneInFlight, Figures, SavesCovered, WritesRight, Doing
<1>6. AddedStays' BY <1>1, <1>4 DEF AddedStays, Doing
<1>7. ASSUME ~crowded PROVE FlushedIsRight' /\ Covered(session.ack)' /\ KeptIsRight'
  BY <1>1, <1>2, <1>7 DEF FlushedIsRight, Covered, KeptIsRight, UploadTypes, UploadFiles
<1> QED BY <1>1, <1>2, <1>3, <1>5, <1>6, <1>7

LEMMA CablePulledKeeps ==
  ASSUME Size \in Nat, UploadInv, CablePulled
  PROVE  UploadInv'
<1> USE DEF UploadInv
<1>0. /\ UNCHANGED <<session, inFlight, kept, browser, crowded>> /\ partial' \in Torn(partial)
      /\ requests' = [r \in Slots |-> IF Doing(r, "put", "write") THEN [requests[r] EXCEPT !.pc = "fail"]
                                      ELSE requests[r]]
  BY DEF CablePulled
<1>1. /\ partial' \in UploadFiles /\ partial'.there = partial.there /\ partial'.flushed = partial.flushed
      /\ partial.flushed <= Len(partial'.pieces) /\ Len(partial'.pieces) <= Len(partial.pieces)
      /\ \A i \in 1..partial.flushed : partial'.pieces[i] = partial.pieces[i]
      /\ partial.flushed \in Nat /\ Len(partial.pieces) \in Nat /\ Len(partial'.pieces) \in Nat
  <2>1. partial \in UploadFiles BY DEF UploadTypes
  <2>2. partial' \in UploadFiles BY <1>0, <2>1, TornPieces
  <2>3. partial.flushed \in Nat /\ Len(partial.pieces) \in Nat /\ Len(partial'.pieces) \in Nat
    BY <2>1, <2>2 DEF UploadFiles
  <2> QED BY <1>0, <2>1, <2>2, <2>3, TornPieces
<1>2. \A r \in Slots : \/ requests'[r] = requests[r] /\ ~Doing(r, "put", "write")
                       \/ /\ Doing(r, "put", "write") /\ requests'[r] = [requests[r] EXCEPT !.pc = "fail"]
  BY <1>0
<1>3. \A r \in Slots : requests[r] \in UploadRequests BY DEF UploadTypes
<1>4. \A r \in Slots : \/ requests'[r] = requests[r] /\ ~Doing(r, "put", "write")
                       \/ /\ Doing(r, "put", "write") /\ requests'[r] \in UploadRequests
                          /\ requests'[r].kind = "put" /\ requests'[r].pc = "fail"
                          /\ requests'[r].heard = requests[r].heard /\ requests'[r].awaited = requests[r].awaited
  <2>1. \A q \in UploadRequests :
          LET failed == [q EXCEPT !.pc = "fail"]
          IN  /\ failed \in UploadRequests /\ failed.kind = q.kind /\ failed.pc = "fail"
              /\ failed.heard = q.heard /\ failed.awaited = q.awaited
    BY DEF UploadRequests, UploadPcs
  <2> TAKE r \in Slots
  <2>2. CASE requests'[r] = requests[r] /\ ~Doing(r, "put", "write")
    BY <2>2
  <2>3. CASE Doing(r, "put", "write") /\ requests'[r] = [requests[r] EXCEPT !.pc = "fail"]
    BY <1>3, <2>1, <2>3 DEF Doing
  <2> QED BY <1>2, <2>2, <2>3
<1>5. UploadTypes' BY <1>0, <1>1, <1>3, <1>4 DEF UploadTypes
<1>6. RequestPlaces' BY <1>4 DEF RequestPlaces, Placed
<1>7. OneInFlight' /\ Figures' /\ AddedStays'
  <2>1. OneInFlight' BY <1>0, <1>4 DEF OneInFlight, Doing
  <2>2. Figures' /\ AddedStays'
    BY <1>0, <1>4 DEF Figures, AddedStays, Doing
  <2> QED BY <2>1, <2>2
<1>8. ASSUME ~crowded'
      PROVE  FlushedIsRight' /\ Covered(session.ack)' /\ SavesCovered' /\ WritesRight' /\ KeptIsRight'
  <2>0. ~crowded BY <1>0, <1>8
  <2>1. \A n : Covered(n) => Covered(n)' BY <1>1 DEF Covered
  <2>2. FlushedIsRight' /\ Covered(session.ack)' /\ KeptIsRight'
    BY <1>0, <1>1, <2>0, <2>1 DEF FlushedIsRight, Covered, KeptIsRight
  <2>3. SavesCovered'
    <3> SUFFICES ASSUME NEW r \in Slots, Doing(r, "put", "save")'
                 PROVE  SavesCovered!(r)!2'
      BY DEF SavesCovered
    <3>1. requests'[r] = requests[r] /\ Doing(r, "put", "save")
      BY <1>4 DEF Doing
    <3>2. SavesCovered!(r)!2 BY <2>0, <3>1 DEF SavesCovered
    <3>3. Covered(requests[r].upto)' BY <1>1, <3>1, <3>2 DEF Covered
    <3> QED BY <1>4, <3>1, <3>2, <3>3 DEF Doing
  <2>4. WritesRight' BY <1>4 DEF WritesRight, Doing
  <2> QED BY <2>2, <2>3, <2>4
<1> QED BY <1>1, <1>5, <1>6, <1>7, <1>8

LEMMA StillKeeps ==
  ASSUME UploadInv, UNCHANGED <<session, inFlight, partial, kept, browser, requests, crowded>>
  PROVE  UploadInv'
BY ZenonT(30) DEF UploadInv, UploadTypes, RequestPlaces, Placed, OneInFlight, Figures, AddedStays, Covered, FlushedIsRight,
       SavesCovered, WritesRight, KeptIsRight, Doing

LEMMA UploadInvInductive ==
  ASSUME Size \in Nat, ChunkSize \in Nat
  PROVE  (UploadInit => UploadInv) /\ (UploadInv /\ [UploadNext]_uploadVars => UploadInv')
<1>1. ASSUME UploadInit PROVE UploadInv
  <2>1. /\ session = NoSession /\ inFlight = 0 /\ partial = Absent /\ kept = Absent /\ crowded = FALSE
        /\ browser = [pc |-> "start", offset |-> 0] /\ requests = [s \in Slots |-> NoRequest]
    BY <1>1 DEF UploadInit
  <2>2. /\ Absent \in UploadFiles /\ ~Absent.there /\ Absent.flushed = 0 /\ Len(Absent.pieces) = 0
        /\ NoSession \in [open : BOOLEAN, ack : Nat] /\ NoSession.ack = 0
    BY DEF Absent, UploadFiles, NoSession
  <2>3. UploadTypes BY <2>1, <2>2, NoRequestIs DEF UploadTypes, Browsers
  <2>4. \A s \in Slots : requests[s].kind = "none" /\ requests[s].pc = "done" /\ ~requests[s].heard
    BY <2>1, NoRequestIs
  <2>5. RequestPlaces BY <2>4 DEF RequestPlaces, Placed
  <2>6. OneInFlight /\ Figures /\ AddedStays
    BY <2>1, <2>4 DEF OneInFlight, Figures, AddedStays, Doing
  <2>7. SavesCovered /\ WritesRight
    BY <2>4 DEF SavesCovered, WritesRight, Doing
  <2> QED BY <2>1, <2>2, <2>3, <2>5, <2>6, <2>7 DEF UploadInv, FlushedIsRight, Covered, KeptIsRight
<1>2. ASSUME UploadInv, NEW s \in Slots, RequestStep(s) PROVE UploadInv'
  BY <1>2, RequestEndsKeeps, SessionStepKeeps, ReadsSessionKeeps, StagesKeeps, TakesOverKeeps, UploadOffsetKeeps,
     AppendOpensKeeps, AppendWritesKeeps, AppendFlushesKeeps, UploadFinishKeeps, UploadCancelKeeps DEF RequestStep
<1>3. ASSUME UploadInv, NEW s \in Slots,
             AsksToBegin(s) \/ SendsChunk(s) \/ AsksToFinish(s) \/ Cut(s) \/ Stop(s) \/ GivesUp(s)
      PROVE  UploadInv'
  BY <1>3, AsksKeeps, CutKeeps, StopKeeps, GivesUpKeeps DEF AsksToBegin, SendsChunk, AsksToFinish
<1>4. ASSUME UploadInv, CableBack \/ UNCHANGED uploadVars PROVE UploadInv'
  BY <1>4, StillKeeps DEF CableBack, uploadVars
<1> QED BY <1>1, <1>2, <1>3, <1>4, RestartKeeps, DayPassesKeeps, CablePulledKeeps DEF UploadNext

LEMMA UploadInvSays == UploadInv => FileIsWhole /\ AddedIsKept
BY DEF UploadInv, FileIsWhole, AddedIsKept, KeptIsRight, AddedStays

\* A finished upload is the file that was sent, for any size of file and chunk and any number
\* of cut connections, restarts, timeouts, idle days, pulled cables and stops, unless requests of one
\* upload met at the agent or one held a copy of the session that had moved on
\* (files-service.cjs, files.cjs).
THEOREM ArrivesWhole ==
  ASSUME Size \in Nat, ChunkSize \in Nat
  PROVE  UploadSpec => []FileIsWhole
<1> QED BY UploadInvInductive, UploadInvSays, PTL DEF UploadSpec

\* The browser shows a file as added only when it is in its folder (uploads.ts, files.cjs).
THEOREM AddedIsThere ==
  ASSUME Size \in Nat, ChunkSize \in Nat
  PROVE  UploadSpec => []AddedIsKept
<1> QED BY UploadInvInductive, UploadInvSays, PTL DEF UploadSpec
=============================================================================
