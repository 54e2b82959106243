------------------------------ MODULE Progress ------------------------------
(***************************************************************************)
(* Where a backup job has got to, as an owner is shown it.  The worker     *)
(* writes its stage, part and count; the record made of them is kept in    *)
(* the job and published in a file that Caddy serves; the busy page polls  *)
(* it while Suite Manager is down.  The times of finished stages are what  *)
(* the next job of that kind is expected to take.  Tick is half an hour.   *)
(***************************************************************************)
EXTENDS Naturals, Sequences, SequencesExt, FiniteSets, FiniteSetsExt, Functions

CONSTANTS
  Kinds,        \* the kinds of job that run: a subset of those of JobGroups
  Total,        \* data stores a backup copies
  Size,         \* the size a job's subject has, by kind; 0 when not recorded
  StaleAge,     \* PROGRESS_STALE_MINUTES, in ticks
  Watched,      \* an owner has the busy page open at some time
  MaxJobs, MaxTicks, MaxMishaps, MaxToggles

VARIABLES
  job,      \* current-job.json
  worker,   \* the worker's process is there
  file,     \* the public progress file
  age,      \* ticks since it was written
  history,  \* finished jobs with a timeline
  page,     \* the busy page in the owner's browser
  count     \* bounds

vars == <<job, worker, file, age, history, page, count>>

(* The stages the engine goes through, as its code runs them. *)
EngineStages ==
  [backup   |-> <<"prepare", "space", "open", "pause", "state", "volumes", "manifest", "restart">>,
   restore  |-> <<"check", "space", "stop", "rescue", "put state", "put volumes", "rebuild",
                  "verify", "start">>,
   validate |-> <<"check">>,
   delete   |-> <<"delete">>]

(* JOB_GROUPS: what every job of a kind runs, in order; STAGE_STEPS: the parts of
   a stage that is one call to the engine. *)
JobGroups ==
  [backup   |-> <<<<"prepare", "space", "open">>, <<"pause", "state", "volumes">>,
                  <<"manifest", "restart">>>>,
   restore  |-> <<<<"check">>, <<"space", "stop", "rescue">>,
                  <<"put state", "put volumes", "rebuild">>, <<"verify", "start">>>>,
   validate |-> <<<<"check">>>>,
   delete   |-> <<<<"delete">>>>]
StepsOf(stage) == IF stage = "check" THEN <<"undamaged", "suite state", "packages">> ELSE <<>>

PlanFor(kind) == FlattenSeq(JobGroups[kind])
Position(seq, e) == IF \E i \in DOMAIN seq : seq[i] = e
                    THEN CHOOSE i \in DOMAIN seq : seq[i] = e ELSE 0
GroupOf(kind, stage) ==
  LET holds == {g \in DOMAIN JobGroups[kind] : Contains(JobGroups[kind][g], stage)}
  IN IF holds = {} THEN 0 ELSE Min(holds)

(* progressFor: a stage outside the plan keeps the place of the one it runs inside. *)
NoProgress == [kind |-> "", stage |-> "", placed |-> "", step |-> 0, part |-> "",
               done |-> 0, of |-> 0]
Placed(j) == IF Contains(PlanFor(j.kind), j.stage) THEN j.stage
             ELSE IF j.progress.placed # "" THEN j.progress.placed ELSE j.progress.stage
ProgressFor(j, done) ==
  LET group == GroupOf(j.kind, Placed(j)) IN
  [kind |-> j.kind, stage |-> j.stage, placed |-> Placed(j),
   step |-> IF group > 0 THEN group ELSE j.progress.step,
   part |-> IF Contains(StepsOf(j.stage), j.part) THEN j.part ELSE "",
   done |-> Min({done, Total}), of |-> j.id]

(* The plan of the screen: the groups, and the lines inside each. *)
PositionState(position, current) ==
  IF position < current THEN "done" ELSE IF position = current THEN "now" ELSE "next"

PartLines(p, stage) ==
  LET plan == PlanFor(p.kind)
      at == IF Position(plan, stage) = Position(plan, p.placed) THEN Max({1, Position(StepsOf(stage), p.part)})
            ELSE IF Position(plan, stage) < Position(plan, p.placed) THEN Len(StepsOf(stage)) + 1
            ELSE 0
  IN [i \in DOMAIN StepsOf(stage) |-> [line |-> StepsOf(stage)[i], state |-> PositionState(i, at)]]
StageLines(p, stage) ==
  IF StepsOf(stage) # <<>> THEN PartLines(p, stage)
  ELSE <<[line |-> stage,
          state |-> PositionState(Position(PlanFor(p.kind), stage), Position(PlanFor(p.kind), p.placed))]>>
GroupLines(p, group) ==
  IF Len(group) = 1 /\ StepsOf(group[1]) = <<>> THEN <<>>
  ELSE FlattenSeq([i \in DOMAIN group |-> StageLines(p, group[i])])
Plan(p) == [g \in DOMAIN JobGroups[p.kind] |->
              [state |-> PositionState(g, p.step), lines |-> GroupLines(p, JobGroups[p.kind][g])]]
Ticked(p) == UNION {{l.line : l \in {x \in Range(Plan(p)[g].lines) : x.state = "done"}} : g \in DOMAIN Plan(p)}

(* advanceTimeline and closeTimeline. *)
Opened(timeline, stage) == Append(timeline, [stage |-> stage, ticks |-> 0])

(* What this machine's history says of a stage, and of the rest of a job. *)
Seconds(j, stage) == SumFunctionOnSet([i \in DOMAIN j.timeline |-> j.timeline[i].ticks],
                                      {i \in DOMAIN j.timeline : j.timeline[i].stage = stage})
StageSamples(h, kinds, stage) ==
  {[seconds |-> Seconds(j, stage), size |-> Size[j.kind], of |-> j.id] :
     j \in {x \in h : x.kind \in kinds /\ \E e \in Range(x.timeline) : e.stage = stage}}
RemainderSamples(h, kind, excluded) ==
  {[seconds |-> SumFunctionOnSet([i \in DOMAIN j.timeline |-> j.timeline[i].ticks],
                                 {i \in DOMAIN j.timeline : j.timeline[i].stage \notin excluded}),
    size |-> Size[kind], of |-> j.id] : j \in {x \in h : x.kind = kind}}
Median(samples) ==
  LET sorted == SetToSortSeq(samples, LAMBDA a, b : a.seconds < b.seconds \/ (a.seconds = b.seconds /\ a.of < b.of))
      n == Len(sorted)
  IN IF n % 2 = 1 THEN sorted[(n + 1) \div 2].seconds
     ELSE (sorted[n \div 2].seconds + sorted[n \div 2 + 1].seconds + 1) \div 2
ScaledSeconds(samples, size) == Median(samples)

Unknown == [basis |-> "none", seconds |-> 0]
CheckExpectation(h, size) ==
  LET samples == StageSamples(h, {"validate", "restore"}, "check")
  IN IF samples = {} THEN [basis |-> "guess", seconds |-> 0]
     ELSE [basis |-> "measured", seconds |-> ScaledSeconds(samples, size)]
RestoreExpectation(h, size) ==
  LET check == CheckExpectation(h, size)
      rest == RemainderSamples(h, "restore", {"check", "rebuild"})
      built == StageSamples(h, {"restore"}, "rebuild")
  IN CASE check.basis = "measured" /\ rest # {} /\ built # {} ->
            [basis |-> "measured",
             seconds |-> check.seconds + ScaledSeconds(rest, size) + ScaledSeconds(built, size)]
       [] check.basis # "measured" /\ rest = {} /\ built = {} -> [basis |-> "guess", seconds |-> 0]
       [] OTHER -> [basis |-> "partly", seconds |-> 0]
RunningExpectation(kind, h) ==
  CASE kind = "restore"  -> RestoreExpectation(h, Size[kind])
    [] kind = "validate" -> CheckExpectation(h, Size[kind])
    [] OTHER             -> Unknown

-----------------------------------------------------------------------------
NoJob == [id |-> 0, kind |-> "", stage |-> "", part |-> "", status |-> "none", progress |-> NoProgress,
          timeline |-> <<>>, expect |-> Unknown, failing |-> FALSE, ran |-> {}]
NoPage == [open |-> FALSE, visible |-> FALSE, shown |-> NoProgress, details |-> {}]
FreshPage == [NoPage EXCEPT !.open = TRUE]

Init ==
  /\ job = NoJob
  /\ worker = FALSE
  /\ file = NoProgress
  /\ age = 0
  /\ history = {}
  /\ page = NoPage
  /\ count = [ticks |-> 0, mishaps |-> 0, toggles |-> 0]

IsActive == job.status = "running"

(* updateJob: the record and the file follow every write of an active job; a file
   that cannot be written costs the job nothing. *)
Publish(record) ==
  \/ /\ file' = record
     /\ age' = 0
     /\ UNCHANGED count
  \/ /\ count.mishaps < MaxMishaps
     /\ count' = [count EXCEPT !.mishaps = @ + 1]
     /\ UNCHANGED <<file, age>>

Write(j, done) ==
  LET record == ProgressFor(j, done) IN
  /\ job' = [j EXCEPT !.progress = record]
  /\ Publish(record)

Kept(j) == IF j.progress.stage = j.stage THEN j.progress.done ELSE 0

(* stage(): the earlier stage is closed, the part and the count are forgotten. *)
Entered(j, stage) ==
  [j EXCEPT !.stage = stage, !.part = "", !.timeline = Opened(@, stage)]

StartJob(kind) ==
  /\ ~IsActive
  /\ job.id < MaxJobs
  /\ Write([NoJob EXCEPT !.id = job.id + 1, !.kind = kind, !.stage = "starting", !.status = "running"], 0)
  /\ worker' = TRUE
  /\ UNCHANGED <<history, page>>

(* The engine's next stage; an earlier backup's leftovers are collected first. *)
Following(j) ==
  LET plan == EngineStages[j.kind] IN
  IF j.stage = "starting" THEN {plan[1]} \cup (IF j.kind = "backup" THEN {"reclaim"} ELSE {})
  ELSE IF j.stage = "reclaim" THEN {plan[1]}
  ELSE LET next == Position(plan, j.stage) + 1 IN IF next > Len(plan) THEN {} ELSE {plan[next]}

(* The work of a stage is over when the next begins: its parts, or itself. *)
PartsDone(j) == IF StepsOf(j.stage) = <<>> THEN TRUE ELSE j.part = Last(StepsOf(j.stage))
Finished(j) == IF StepsOf(j.stage) = <<>> THEN j.ran \cup {j.stage} ELSE j.ran \cup Range(StepsOf(j.stage))

NextStage ==
  /\ worker /\ IsActive /\ ~job.failing
  /\ PartsDone(job)
  /\ \E stage \in Following(job) :
       Write([Entered(job, stage) EXCEPT !.ran = Finished(job)], 0)
  /\ UNCHANGED <<worker, history, page>>

(* substage(): no timeline entry; what is read first says what the job works on,
   and the expectation is read then, once. *)
Substage ==
  /\ worker /\ IsActive /\ ~job.failing
  /\ ~PartsDone(job)
  /\ LET next == StepsOf(job.stage)[Position(StepsOf(job.stage), job.part) + 1] IN
       Write([job EXCEPT !.part = next,
                         !.ran = IF job.part = "" THEN @ ELSE @ \cup {job.part},
                         !.expect = IF @ = Unknown THEN RunningExpectation(job.kind, history) ELSE @],
             Kept(job))
  /\ UNCHANGED <<worker, history, page>>

ReportCount ==
  /\ worker /\ IsActive /\ ~job.failing
  /\ job.stage \in {"volumes", "put volumes"}
  /\ job.progress.done < Total
  /\ Write(job, job.progress.done + 1)
  /\ UNCHANGED <<worker, history, page>>

(* A backup that fails once the apps are paused, or a restore once they are
   stopped, still runs its last stage; one that fails earlier is over. *)
Paused(j) ==
  \/ j.kind = "backup" /\ j.stage \in {"pause", "state", "volumes", "manifest"}
  \/ j.kind = "restore" /\ j.stage \in {"stop", "rescue", "put state", "put volumes", "rebuild", "verify"}

FailsInside ==
  /\ worker /\ IsActive /\ ~job.failing
  /\ Paused(job)
  /\ Write([Entered(job, Last(EngineStages[job.kind])) EXCEPT !.failing = TRUE], 0)
  /\ UNCHANGED <<worker, history, page>>

(* clear(): best effort, like publishing. *)
Clear ==
  \/ /\ file' = NoProgress
     /\ age' = 0
     /\ UNCHANGED count
  \/ /\ count.mishaps < MaxMishaps
     /\ count' = [count EXCEPT !.mishaps = @ + 1]
     /\ UNCHANGED <<file, age>>

Over(status) ==
  /\ job' = [job EXCEPT !.stage = IF status = "succeeded" THEN "completed" ELSE "failed", !.status = status]
  /\ worker' = FALSE
  /\ Clear

JobSucceeds ==
  /\ worker /\ IsActive /\ ~job.failing
  /\ job.stage # "starting" /\ PartsDone(job) /\ Following(job) = {}
  /\ Over("succeeded")
  /\ history' = history \cup {[id |-> job.id, kind |-> job.kind, timeline |-> job.timeline]}
  /\ UNCHANGED page

JobFails ==
  /\ worker /\ IsActive
  /\ job.failing \/ ~Paused(job)
  /\ Over("failed")
  /\ UNCHANGED <<history, page>>

KillWorker ==
  /\ worker
  /\ count.mishaps < MaxMishaps
  /\ worker' = FALSE
  /\ count' = [count EXCEPT !.mishaps = @ + 1]
  /\ UNCHANGED <<job, file, age, history, page>>

(* reconcileCurrentJob: the agent finds a job its worker abandoned. *)
MarkLost ==
  /\ IsActive /\ ~worker
  /\ Over("failed")
  /\ UNCHANGED <<history, page>>

Tick ==
  /\ count.ticks < MaxTicks
  /\ count' = [count EXCEPT !.ticks = @ + 1]
  /\ age' = age + 1
  /\ job' = IF IsActive /\ job.timeline # <<>>
            THEN [job EXCEPT !.timeline[Len(job.timeline)].ticks = @ + 1] ELSE job
  /\ UNCHANGED <<worker, file, history, page>>

-----------------------------------------------------------------------------
(* The busy page: it is built once for a shape and repainted after that; a group
   opens as it becomes the running one and folds as it stops being it. *)
States(p) == [g \in DOMAIN Plan(p) |-> Plan(p)[g].state]
Shape(p) == <<p.kind, [g \in DOMAIN Plan(p) |-> Len(Plan(p)[g].lines)]>>
Folding(p) == {g \in DOMAIN Plan(p) : Plan(p)[g].lines # <<>>}

Painted(pg, p) ==
  LET same == pg.shown # NoProgress /\ Shape(pg.shown) = Shape(p)
      before == IF same THEN States(pg.shown) ELSE [g \in DOMAIN Plan(p) |-> ""]
      open == IF same THEN pg.details ELSE {}
      changed == {g \in Folding(p) : before[g] # States(p)[g]}
  IN [pg EXCEPT !.visible = TRUE, !.shown = p,
                !.details = (open \ changed) \cup {g \in changed : States(p)[g] = "now"}]

Stale == age > StaleAge
PageOpens ==
  /\ Watched
  /\ ~page.open
  /\ page' = FreshPage
  /\ UNCHANGED <<job, worker, file, age, history, count>>

(* Nothing published, or a file nobody wrote to for long, hides the section; the
   groups built for it stay in the page. *)
Poll ==
  /\ page.open
  /\ page' = IF file = NoProgress \/ Stale THEN [page EXCEPT !.visible = FALSE]
             ELSE Painted(page, file)
  /\ UNCHANGED <<job, worker, file, age, history, count>>

(* The page asks the browser to load it again every 15 seconds. *)
Refresh ==
  /\ page.open
  /\ page' = FreshPage
  /\ UNCHANGED <<job, worker, file, age, history, count>>

OwnerToggles ==
  /\ page.visible
  /\ count.toggles < MaxToggles
  /\ \E g \in Folding(page.shown) :
       page' = [page EXCEPT !.details = IF g \in @ THEN @ \ {g} ELSE @ \cup {g}]
  /\ count' = [count EXCEPT !.toggles = @ + 1]
  /\ UNCHANGED <<job, worker, file, age, history>>

Next ==
  \/ \E kind \in Kinds : StartJob(kind)
  \/ NextStage
  \/ Substage
  \/ ReportCount
  \/ FailsInside
  \/ JobSucceeds
  \/ JobFails
  \/ KillWorker
  \/ MarkLost
  \/ Tick
  \/ PageOpens
  \/ Poll
  \/ Refresh
  \/ OwnerToggles

Spec == Init /\ [][Next]_vars

-----------------------------------------------------------------------------
(* While a job goes well, the lines ticked are exactly the stages and the parts
   it has been through, and the step is the group it is in: "step 2 of 4" is a
   fact about the job. *)
InPlan(j) == {l.line : l \in UNION {Range(Plan(j.progress)[g].lines) : g \in DOMAIN Plan(j.progress)}}
TicksAreTrue ==
  IsActive /\ ~job.failing => Ticked(job.progress) = job.ran \cap InPlan(job)

(* The same, for a job that failed and is putting the apps back. *)
UnreachedIsNotTicked == IsActive => Ticked(job.progress) \subseteq job.ran

(* What the page comes to show was written less than half an hour ago: a restore
   that lost power is not shown as running for longer. *)
ShowsNothingOld ==
  page'.visible /\ (page'.shown # page.shown \/ ~page.visible) => age <= StaleAge
NothingOldIsShown == [][ShowsNothingOld]_vars

(* An expectation said to be measured lies between the shortest and the longest
   that this machine took for such a job. *)
Whole(j) == SumFunction([i \in DOMAIN j.timeline |-> j.timeline[i].ticks])
MeasuredIsMeasured ==
  job.expect.basis = "measured" =>
    LET checks == {s.seconds : s \in StageSamples(history, {"validate", "restore"}, "check")}
        longest == Max({Whole(j) : j \in {x \in history : x.kind = "restore"}} \cup {0})
    IN IF job.kind = "validate" THEN job.expect.seconds \in Min(checks)..Max(checks)
       ELSE job.expect.seconds <= longest + Max(checks)
              /\ (checks = {0} => job.expect.seconds <= longest)

ProgressIsSound == TicksAreTrue /\ MeasuredIsMeasured

(* Within one job nothing shown goes back: not the step, not a ticked line. *)
Advances ==
  job'.id = job.id /\ job'.status = "running" =>
    /\ job'.progress.step >= job.progress.step
    /\ job.progress.kind # "" => Ticked(job.progress) \subseteq Ticked(job'.progress)
GoesForward == [][Advances]_vars

(* A group the owner opened stays open until the job has moved past or into it. *)
KeepsOpen ==
  page.visible /\ page'.shown # NoProgress /\ count'.toggles = count.toggles
    /\ page'.shown.of = page.shown.of =>
    \A g \in page.details : States(page.shown)[g] = States(page'.shown)[g] => g \in page'.details
OpenedStaysOpen == [][KeepsOpen]_vars

(* The same over a whole visit: the page loads itself again and forgets it. *)
OpenedIsKept ==
  [][page.visible /\ count'.toggles = count.toggles /\ file = page.shown /\ age <= StaleAge =>
       page.details \subseteq page'.details]_vars
=============================================================================
