-------------------------- MODULE HostUpdateProofs --------------------------
(****************************************************************************)
(* Theorems about HostUpdate for any commits, services and tracks: what a    *)
(* reported success leaves, and what is served however an update is cut off. *)
(****************************************************************************)
EXTENDS HostUpdate, TLAPS

------------------------------------------------------------------------------
(* The inductive invariant. *)

Builds == [of : Commits, whole : BOOLEAN]
Steps == {"none", "clean", "check", "checkout", "deps", "installing", "build", "building",
          "pages", "binary", "host", "units", "door", "restart", "finish"}

Disks == [head : Commits, deps : Commits \cup {NoCommit}, next : Builds \cup {NoBuild},
          dist : Builds, caddy : Commits, engine : Commits, units : Commits, door : Commits,
          dirty : BOOLEAN]
Jobs == [step : Steps, status : {"none", "running", "failed", "succeeded"},
         target : Commits \cup {NoCommit}, left : Seq(ServiceSet)]
Counts == [publishes : Nat, switches : Nat, updates : Nat, failures : Nat, crashes : Nat,
           reboots : Nat]

HostTypeOK ==
  /\ origin \in [Tracks -> Commits] /\ track \in Tracks
  /\ disk \in Disks /\ job \in Jobs /\ count \in Counts
  /\ runs \in [ServiceSet -> Commits \cup {NoCommit}]

\* The commit an update is about to check out is one that the check named.
TargetIsNamed == AtStep("checkout") => job.target \in Commits

\* The new pages are the served ones, or wait whole for Suite Manager to start.
PagesServed == disk.next = NoBuild /\ disk.dist = Build(disk.head)
PagesReady  == disk.next = Build(disk.head) \/ PagesServed

\* A service that runs the commit that was checked out; Suite Manager has the new pages too.
Current(s) == runs[s] = disk.head /\ (s = "manager" => PagesServed)
Waiting(s) == \E i \in 1 .. Len(job.left) : job.left[i] = s

\* What the worker has done by each of its steps, whatever crashes behind it.
WorkIsDone ==
  Active =>
    /\ job.step \in {"build", "building", "pages", "binary", "host", "units", "door", "restart", "finish"}
         => disk.deps = disk.head
    /\ job.step \in {"pages", "binary", "host", "units", "door", "restart", "finish"} => PagesReady
    /\ job.step \in {"host", "units", "door", "restart", "finish"} => disk.caddy = disk.head
    /\ job.step \in {"door", "restart", "finish"} => disk.units = disk.head
    /\ job.step \in {"restart", "finish"} => disk.door = disk.head
    /\ job.step = "restart" => \A s \in ServiceSet : Waiting(s) \/ Current(s)
    /\ job.step = "finish" => \A s \in ServiceSet : Current(s)

\* On one track the checkout only moves forward, and everything made from it follows.
OneTrackGoesForward ==
  count.switches = 0 =>
    /\ disk.head <= origin[track]
    /\ AtStep("checkout") => disk.head <= job.target /\ job.target <= origin[track]
    /\ disk.door <= disk.caddy /\ disk.caddy <= disk.head
    /\ disk.dist.of <= disk.head
    /\ disk.next # NoBuild => disk.next.of <= disk.head

HostInv == /\ HostTypeOK /\ TargetIsNamed /\ WorkIsDone /\ OneTrackGoesForward
           /\ SuccessIsWhole /\ PagesAreWhole /\ PagesAreNotNewer
------------------------------------------------------------------------------
(* Lemmas. *)

\* The steps of the worker, one after the other.
LEMMA StepsInOrder ==
  /\ After("clean") = "check"
  /\ After("check") = "checkout"
  /\ After("checkout") = "deps"
  /\ After("deps") = "installing"
  /\ After("installing") = "build"
  /\ After("build") = "building"
  /\ After("building") = "pages"
  /\ After("pages") = "binary"
  /\ After("binary") = "host"
  /\ After("host") = "units"
  /\ After("units") = "door"
  /\ After("door") = "restart"
  /\ After("restart") = "finish"
<1>1. /\ Len(Order) = 14
      /\ \A i, k \in 1 .. 14 : Order[i] = Order[k] => i = k
  BY DEF Order
<1>2. ASSUME NEW i \in 1 .. 13 PROVE After(Order[i]) = Order[i + 1]
  <2>1. (CHOOSE k \in 1 .. Len(Order) : Order[k] = Order[i]) = i BY <1>1
  <2> QED BY <2>1 DEF After
<1> QED BY <1>2 DEF Order

\* Starting a service moves nothing but the build that waits, and that one only when whole.
LEMMA StartingMoves ==
  ASSUME NEW d \in Disks, NEW s
  PROVE  /\ Promoted(d) \in Disks
         /\ \A f \in {"head", "deps", "caddy", "engine", "units", "door", "dirty"} :
              Promoted(d)[f] = d[f]
         /\ \/ Promoted(d) = d /\ (d.next = NoBuild \/ ~ d.next.whole)
            \/ /\ d.next \in Builds /\ d.next.whole
               /\ Promoted(d).dist = d.next /\ Promoted(d).next = NoBuild
         /\ Starts(s, d) \in Commits \cup {NoCommit}
<1>1. Starts(s, d) \in Commits \cup {NoCommit} BY DEF Disks, Starts
<1>2. CASE d.next = NoBuild \/ ~ d.next.whole
  BY <1>1, <1>2 DEF Promoted, Complete
<1>3. CASE d.next # NoBuild /\ d.next.whole
  <2>1. Promoted(d) = [d EXCEPT !.dist = d.next, !.next = NoBuild] /\ d.next \in Builds
    BY <1>3 DEF Promoted, Complete, Disks
  <2> QED BY <1>1, <1>3, <2>1 DEF Disks
<1> QED BY <1>2, <1>3

\* What a crash, a start or a restart does.
LEMMA RestartMoves ==
  ASSUME HostTypeOK, NEW s \in ServiceSet, Restarted(s)
  PROVE  /\ disk' \in {disk, Promoted(disk)} /\ (s = "manager" => disk' = Promoted(disk))
         /\ runs' \in [ServiceSet -> Commits \cup {NoCommit}]
         /\ runs'[s] = Starts(s, disk)
         /\ \A t \in ServiceSet \ {s} : runs'[t] = runs[t]
         /\ disk' \in Disks
<1>1. disk \in Disks BY DEF HostTypeOK
<1> QED BY <1>1, StartingMoves DEF Restarted, DiskAfter, HostTypeOK

\* A worker that goes on is at its next step; one that fails stays where it was.
LEMMA JobMoves ==
  ASSUME job \in Jobs
  PROVE  /\ [job EXCEPT !.status = "failed"] \in Jobs
         /\ [job EXCEPT !.status = "succeeded", !.step = "none"] \in Jobs
         /\ job.step \notin {"none", "finish"} =>
              /\ Advanced \in Jobs /\ Advanced.step = After(job.step)
              /\ Advanced.status = job.status /\ Advanced.target = job.target
              /\ Advanced.left = job.left
<1>1. job.step \notin {"none", "finish"} => After(job.step) \in Steps
  BY StepsInOrder DEF Jobs, Steps
<1> QED BY <1>1 DEF Jobs, Steps, Advanced

\* A step that may fail is counted, and no other bound with it.
LEMMA FailuresCounted ==
  ASSUME count \in Counts, NEW fails \in BOOLEAN
  PROVE  /\ [count EXCEPT !.failures = Failures(fails)] \in Counts
         /\ [count EXCEPT !.failures = Failures(fails)].switches = count.switches
<1>1. Failures(fails) \in Nat BY DEF Failures, Counts
<1> QED BY <1>1 DEF Counts

\* The variables keep their types.
LEMMA TypeKept ==
  ASSUME HostTypeOK, TargetIsNamed, [Next]_updateVars
  PROVE  HostTypeOK' /\ TargetIsNamed'
<1> USE JobMoves, StepsInOrder DEF HostTypeOK, TargetIsNamed, AtStep, Active
<1>1. CASE UNCHANGED updateVars
  BY <1>1 DEF updateVars
<1>2. CASE \E t \in Tracks, c \in Commits : Publish(t, c)
  BY <1>2 DEF Publish, Counts
<1>3. ASSUME NEW fails \in BOOLEAN, CheckAgain(fails) PROVE HostTypeOK' /\ TargetIsNamed'
  BY <1>3, FailuresCounted DEF CheckAgain
<1>4. ASSUME NEW t \in Tracks, SwitchTrack(t) PROVE HostTypeOK' /\ TargetIsNamed'
  BY <1>4 DEF SwitchTrack, WriteUpdateTrack, Counts
<1>5. CASE StartUpdate
  <2>1. NoJob \in Jobs BY DEF NoJob, Jobs, Steps
  <2>2. job' \in Jobs /\ job'.step = "clean"
    BY <1>5, <2>1, ZenonT(30) DEF StartUpdate, Jobs, Steps
  <2> QED BY <1>5, <2>2 DEF StartUpdate, Counts
<1>6. CASE Fail
  <2>1. job' \in Jobs /\ ~ Active' BY <1>6 DEF Fail, FailJob, Jobs
  <2> QED BY <1>6, <2>1 DEF Fail, Counts
<1>7. CASE EnsureCleanWorkingTree
  BY <1>7 DEF EnsureCleanWorkingTree, Proceeds, Disks
<1>8. ASSUME NEW fails \in BOOLEAN, CheckBeforeApply(fails) PROVE HostTypeOK' /\ TargetIsNamed'
  <2>1. CASE CollectStatus(fails).available = "yes"
    <3>1. CollectStatus(fails).latest \in Commits
      BY <2>1 DEF CollectStatus, StatusOf, Lookup, CheckFailed
    <3>2. job' = [Advanced EXCEPT !.target = CollectStatus(fails).latest] /\ job.step = "check"
      BY <1>8, <2>1 DEF CheckBeforeApply
    <3>3. job' \in Jobs /\ job'.target \in Commits
      BY <3>1, <3>2 DEF Jobs
    <3> QED BY <1>8, <3>3, FailuresCounted DEF CheckBeforeApply
  <2>2. CASE CollectStatus(fails).available # "yes"
    <3>1. job' \in Jobs /\ ~ Active'
      BY <1>8, <2>2 DEF CheckBeforeApply, FailJob, Jobs
    <3> QED BY <1>8, <3>1, FailuresCounted DEF CheckBeforeApply
  <2> QED BY <2>1, <2>2
<1>9. CASE Checkout
  BY <1>9 DEF Checkout, Fetched, Disks, Jobs
<1>10. CASE InstallBegins
  BY <1>10 DEF InstallBegins, Proceeds, Disks
<1>11. CASE InstallEnds
  BY <1>11 DEF InstallEnds, Proceeds, Disks
<1>12. CASE BuildBegins
  BY <1>12 DEF BuildBegins, Proceeds, OutDir, Partial, Disks, Builds
<1>13. CASE BuildEnds
  BY <1>13 DEF BuildEnds, Proceeds, OutDir, Build, Disks, Builds
<1>14. ASSUME NEW s \in ServiceSet, CrashService(s) PROVE HostTypeOK' /\ TargetIsNamed'
  BY <1>14, RestartMoves DEF CrashService, Counts
<1>15. ASSUME NEW s \in ServiceSet, StartAgain(s) PROVE HostTypeOK' /\ TargetIsNamed'
  BY <1>15, RestartMoves DEF StartAgain
<1>16. CASE Reboot
  <2>1. disk' \in Disks /\ runs' \in [ServiceSet -> Commits \cup {NoCommit}]
    BY <1>16, StartingMoves DEF Reboot
  <2>2. job' \in Jobs /\ ~ Active'
    <3>1. CASE Active
      BY <1>16, <3>1 DEF Reboot, Jobs
    <3>2. CASE ~ Active
      BY <1>16, <3>2 DEF Reboot
    <3> QED BY <3>1, <3>2
  <2> QED BY <1>16, <2>1, <2>2 DEF Reboot, Counts
<1>17. CASE ReconcilePages
  <2>1. CASE MissingPages
    <3>1. job' \in Jobs /\ ~ Active'
      BY <1>17, <2>1 DEF ReconcilePages, FailJob, Jobs
    <3> QED BY <1>17, <3>1 DEF ReconcilePages
  <2>2. CASE ~ MissingPages
    BY <1>17, <2>2 DEF ReconcilePages, Proceeds
  <2> QED BY <2>1, <2>2
<1>18. CASE RefreshCaddyBinary
  BY <1>18 DEF RefreshCaddyBinary, Proceeds, Disks
<1>19. ASSUME NEW fails \in BOOLEAN, RefreshHost(fails) PROVE HostTypeOK' /\ TargetIsNamed'
  <2>1. disk' \in Disks BY <1>19 DEF RefreshHost, Disks
  <2> QED BY <1>19, <2>1, FailuresCounted DEF RefreshHost, Proceeds
<1>20. CASE WriteUnits
  BY <1>20 DEF WriteUnits, Proceeds, Disks
<1>21. CASE RenderInstalledCaddyfile
  BY <1>21, ServicesAssumption, ZenonT(30) DEF RenderInstalledCaddyfile, Disks, Jobs
<1>22. CASE RestartNext
  <2>1. job.left \in Seq(ServiceSet) /\ job.left # <<>> /\ job.step = "restart"
    BY <1>22 DEF RestartNext, Jobs
  <2>2. Head(job.left) \in ServiceSet /\ Tail(job.left) \in Seq(ServiceSet)
    BY <2>1
  <2>3. disk' \in Disks /\ runs' \in [ServiceSet -> Commits \cup {NoCommit}]
    BY <1>22, <2>2, RestartMoves DEF RestartNext
  <2>4. job' \in Jobs /\ job'.step # "checkout"
    <3>1. CASE Len(job.left) = 1
      <4>1. job' = [Advanced EXCEPT !.left = <<>>] /\ <<>> \in Seq(ServiceSet)
        BY <1>22, <3>1 DEF RestartNext
      <4> QED BY <2>1, <4>1 DEF Jobs
    <3>2. CASE Len(job.left) # 1
      BY <1>22, <2>1, <2>2, <3>2 DEF RestartNext, Jobs
    <3> QED BY <3>1, <3>2
  <2> QED BY <1>22, <2>3, <2>4 DEF RestartNext
<1>23. ASSUME NEW fails \in BOOLEAN, Finish(fails) PROVE HostTypeOK' /\ TargetIsNamed'
  <2>1. job' \in Jobs /\ job'.step = "none" BY <1>23 DEF Finish, Jobs
  <2> QED BY <1>23, <2>1, FailuresCounted DEF Finish
<1>24. CASE Poll \/ Reconnect \/ Dismiss
  BY <1>24 DEF Poll, Reconnect, Dismiss
<1>25. ASSUME NEW unread \in BOOLEAN, Reload(unread) PROVE HostTypeOK' /\ TargetIsNamed'
  BY <1>25, FailuresCounted DEF Reload
<1> QED BY <1>1, <1>2, <1>3, <1>4, <1>5, <1>6, <1>7, <1>8, <1>9, <1>10, <1>11, <1>12, <1>13, <1>14,
     <1>15, <1>16, <1>17, <1>18, <1>19, <1>20, <1>21, <1>22, <1>23, <1>24, <1>25 DEF Next

------------------------------------------------------------------------------
(* What the worker has done stays done. *)

\* A service that starts leaves what was current so, and is current itself once its packages,
\* its binary and its pages are there.
LEMMA RestartKeepsCurrent ==
  ASSUME HostTypeOK, NEW s \in ServiceSet, Restarted(s)
  PROVE  /\ \A f \in {"head", "deps", "caddy", "units", "door"} : disk'[f] = disk[f]
         /\ PagesReady => PagesReady'
         /\ \A t \in ServiceSet \ {s} : Current(t) => Current(t)'
         /\ disk.deps = disk.head /\ disk.caddy = disk.head /\ PagesReady => Current(s)'
<1> USE DEF HostTypeOK
<1>1. \A f \in {"head", "deps", "caddy", "units", "door"} : disk'[f] = disk[f]
  BY RestartMoves, StartingMoves
<1>a. /\ disk' = disk \/ /\ disk.next \in Builds /\ disk.next.whole
                         /\ disk'.dist = disk.next /\ disk'.next = NoBuild
      /\ s = "manager" /\ disk' = disk => disk.next = NoBuild \/ ~ disk.next.whole
      /\ disk'.head = disk.head /\ ~ NoBuild.whole
  <2>2. \/ Promoted(disk) = disk /\ (disk.next = NoBuild \/ ~ disk.next.whole)
        \/ /\ disk.next \in Builds /\ disk.next.whole
           /\ Promoted(disk).dist = disk.next /\ Promoted(disk).next = NoBuild
    BY StartingMoves
  <2>3. disk'.head = disk.head BY <1>1
  <2>4. disk' \in {disk, Promoted(disk)} /\ (s = "manager" => disk' = Promoted(disk))
    BY RestartMoves
  <2>5. disk.next \in Builds /\ disk.next.whole => disk.next # NoBuild
    BY DEF NoBuild
  <2> QED BY <2>2, <2>3, <2>4, <2>5 DEF NoBuild
<1>2. PagesReady => PagesReady' BY <1>a DEF PagesReady, PagesServed
<1>3. PagesServed => PagesServed' BY <1>a DEF PagesServed
<1>4. \A t \in ServiceSet \ {s} : Current(t) => Current(t)'
  BY <1>1, <1>3, RestartMoves DEF Current
<1>5. ASSUME disk.deps = disk.head, disk.caddy = disk.head, PagesReady PROVE Current(s)'
  <2>1. runs'[s] = disk.head
    BY <1>5, RestartMoves, CommitsAssumption DEF Starts, Disks
  <2>2. s = "manager" => PagesServed'
    BY <1>5, <1>a DEF PagesReady, PagesServed, Build
  <2> QED BY <1>1, <2>1, <2>2 DEF Current
<1> QED BY <1>1, <1>2, <1>4, <1>5

\* All of them started at once.
LEMMA RebootKeepsCurrent ==
  ASSUME HostTypeOK, Reboot
  PROVE  /\ \A f \in {"head", "deps", "caddy", "units", "door"} : disk'[f] = disk[f]
         /\ disk.deps = disk.head /\ disk.caddy = disk.head /\ PagesServed =>
              PagesServed' /\ \A s \in ServiceSet : runs'[s] = disk.head
<1> USE DEF HostTypeOK
<1>1. \A f \in {"head", "deps", "caddy", "units", "door"} : disk'[f] = disk[f]
  BY StartingMoves DEF Reboot
<1>2. PagesServed => PagesServed'
  <2>1. disk.next = NoBuild => disk' = disk
    BY StartingMoves DEF Reboot, NoBuild
  <2> QED BY <2>1 DEF PagesServed
<1>3. ASSUME disk.deps = disk.head, disk.caddy = disk.head, NEW s \in ServiceSet
      PROVE  runs'[s] = disk.head
  BY <1>3, CommitsAssumption DEF Reboot, Starts, Disks
<1> QED BY <1>1, <1>2, <1>3

\* A success, said of the parts that follow the commit.
LEMMA SuccessIsCurrent ==
  SuccessIsWhole <=> (job.status = "succeeded" =>
    /\ \A s \in ServiceSet : Current(s)
    /\ PagesServed /\ disk.deps = disk.head
    /\ disk.caddy = disk.head /\ disk.units = disk.head /\ disk.door = disk.head)
PROOF
BY DEF SuccessIsWhole, Current, PagesServed

\* What each step relies on has been done by the steps before it, and a success rests on all.
LEMMA WorkKept ==
  ASSUME HostTypeOK, WorkIsDone, SuccessIsWhole, [Next]_updateVars
  PROVE  WorkIsDone' /\ SuccessIsWhole'
<1> DEFINE Whole == /\ \A s \in ServiceSet : Current(s)
                    /\ PagesServed /\ disk.deps = disk.head
                    /\ disk.caddy = disk.head /\ disk.units = disk.head /\ disk.door = disk.head
<1> USE JobMoves, StepsInOrder DEF HostTypeOK, AtStep, Active
<1>a. SuccessIsWhole <=> (job.status = "succeeded" => Whole)
  BY SuccessIsCurrent
<1>b. SuccessIsWhole' <=> (job.status = "succeeded" => Whole)'
  BY SuccessIsCurrent, PTL
<1> HIDE DEF Whole
<1>1. ASSUME UNCHANGED <<disk, runs, job>> PROVE WorkIsDone' /\ SuccessIsWhole'
  BY <1>1 DEF WorkIsDone, PagesReady, PagesServed, Current, Waiting, SuccessIsWhole
<1>2. ASSUME ~ Active', job'.status # "succeeded" PROVE WorkIsDone' /\ SuccessIsWhole'
  BY <1>2 DEF WorkIsDone, SuccessIsWhole
<1>3. ASSUME job'.status = "running",
             job'.step \in {"clean", "check", "checkout", "deps", "installing"}
      PROVE  WorkIsDone' /\ SuccessIsWhole'
  BY <1>3 DEF WorkIsDone, SuccessIsWhole
<1>4. ASSUME UNCHANGED updateVars
      PROVE  WorkIsDone' /\ SuccessIsWhole'
  BY <1>1, <1>4 DEF updateVars
<1>5. ASSUME \/ \E t \in Tracks, c \in Commits : Publish(t, c)
             \/ \E fails \in BOOLEAN : CheckAgain(fails)
             \/ \E t \in Tracks : SwitchTrack(t)
             \/ Poll \/ Reconnect \/ (\E unread \in BOOLEAN : Reload(unread)) \/ Dismiss
      PROVE  WorkIsDone' /\ SuccessIsWhole'
  BY <1>1, <1>5 DEF Publish, CheckAgain, SwitchTrack, Poll, Reconnect, Reload, Dismiss
<1>6. CASE StartUpdate
  BY <1>3, <1>6 DEF StartUpdate, NoJob
<1>7. CASE Fail
  BY <1>2, <1>7 DEF Fail, FailJob, Jobs
<1>8. CASE EnsureCleanWorkingTree \/ Checkout \/ InstallBegins
  BY <1>3, <1>8 DEF EnsureCleanWorkingTree, Checkout, InstallBegins, Proceeds, Jobs
<1>9. ASSUME NEW fails \in BOOLEAN, CheckBeforeApply(fails) PROVE WorkIsDone' /\ SuccessIsWhole'
  <2>1. CASE CollectStatus(fails).available = "yes"
    <3>1. job' = [Advanced EXCEPT !.target = CollectStatus(fails).latest] /\ job.step = "check"
      BY <1>9, <2>1 DEF CheckBeforeApply
    <3>2. job'.step = "checkout" /\ job'.status = "running"
      BY <1>9, <3>1 DEF Jobs, CheckBeforeApply
    <3> QED BY <1>3, <3>2
  <2>2. CASE CollectStatus(fails).available # "yes"
    <3>1. job'.status = "failed"
      BY <1>9, <2>2 DEF CheckBeforeApply, FailJob, Jobs
    <3> QED BY <1>2, <3>1
  <2> QED BY <2>1, <2>2
<1>10. CASE InstallEnds
  <2>1. job'.status = "running" /\ job'.step = "build"
    BY <1>10 DEF InstallEnds, Proceeds
  <2>2. disk'.deps = disk'.head BY <1>10 DEF InstallEnds, Disks
  <2> QED BY <2>1, <2>2 DEF WorkIsDone, SuccessIsWhole
<1>11. CASE BuildBegins
  <2>1. job'.status = "running" /\ job'.step = "building"
    BY <1>11 DEF BuildBegins, Proceeds
  <2>2. disk'.deps = disk'.head
    BY <1>11 DEF BuildBegins, WorkIsDone, OutDir, Disks
  <2> QED BY <2>1, <2>2 DEF WorkIsDone, SuccessIsWhole
<1>12. CASE BuildEnds
  <2>1. job'.status = "running" /\ job'.step = "pages"
    BY <1>12 DEF BuildEnds, Proceeds
  <2>2. disk'.deps = disk'.head /\ disk'.next = Build(disk'.head)
    BY <1>12 DEF BuildEnds, WorkIsDone, OutDir, Disks
  <2> QED BY <2>1, <2>2 DEF WorkIsDone, SuccessIsWhole, PagesReady
<1>13. ASSUME NEW s \in ServiceSet, Restarted(s), UNCHANGED job PROVE WorkIsDone' /\ SuccessIsWhole'
  <2>1. WorkIsDone'
    BY <1>13, RestartKeepsCurrent DEF WorkIsDone, Waiting
  <2>2. SuccessIsWhole'
    <3>1. Whole => Whole'
      <4>1. \A t \in ServiceSet : Whole => Current(t)'
        BY <1>13, RestartKeepsCurrent DEF Whole, PagesReady
      <4>2. Whole => PagesServed'
        BY <4>1, ServicesAssumption DEF Current
      <4> QED BY <1>13, <4>1, <4>2, RestartKeepsCurrent DEF Whole
    <3> QED BY <1>13, <1>a, <1>b, <3>1
  <2> QED BY <2>1, <2>2
<1>14. ASSUME NEW s \in ServiceSet, CrashService(s) \/ StartAgain(s)
       PROVE  WorkIsDone' /\ SuccessIsWhole'
  BY <1>13, <1>14 DEF CrashService, StartAgain
<1>15. CASE Reboot
  <2>1. CASE Active
    BY <1>2, <1>15, <2>1 DEF Reboot, Jobs
  <2>2. CASE ~ Active
    <3>1. Whole => Whole'
      BY <1>15, RebootKeepsCurrent DEF Whole, Current
    <3>2. job' = job BY <1>15, <2>2 DEF Reboot
    <3> QED BY <1>a, <1>b, <2>2, <3>1, <3>2 DEF WorkIsDone
  <2> QED BY <2>1, <2>2
<1>16. CASE ReconcilePages
  <2>1. CASE MissingPages
    BY <1>2, <1>16, <2>1 DEF ReconcilePages, FailJob, Jobs
  <2>2. CASE ~ MissingPages
    <3>1. job'.status = "running" /\ job'.step = "binary" /\ disk' = disk
      BY <1>16, <2>2 DEF ReconcilePages, Proceeds
    <3>2. disk.deps = disk.head /\ PagesReady
      BY <1>16 DEF ReconcilePages, WorkIsDone
    <3> QED BY <3>1, <3>2 DEF WorkIsDone, SuccessIsWhole, PagesReady, PagesServed
  <2> QED BY <2>1, <2>2
<1>17. CASE RefreshCaddyBinary
  <2>1. job'.status = "running" /\ job'.step = "host"
    BY <1>17 DEF RefreshCaddyBinary, Proceeds
  <2>2. disk.deps = disk.head /\ PagesReady
    BY <1>17 DEF RefreshCaddyBinary, WorkIsDone
  <2>3. disk'.deps = disk'.head /\ PagesReady' /\ disk'.caddy = disk'.head
    BY <1>17, <2>2 DEF RefreshCaddyBinary, Disks, PagesReady, PagesServed
  <2> QED BY <2>1, <2>3 DEF WorkIsDone, SuccessIsWhole
<1>18. ASSUME NEW fails \in BOOLEAN, RefreshHost(fails) PROVE WorkIsDone' /\ SuccessIsWhole'
  <2>1. job'.status = "running" /\ job'.step = "units"
    BY <1>18 DEF RefreshHost, Proceeds
  <2>2. disk.deps = disk.head /\ PagesReady /\ disk.caddy = disk.head
    BY <1>18 DEF RefreshHost, WorkIsDone
  <2>3. disk'.deps = disk'.head /\ PagesReady' /\ disk'.caddy = disk'.head
    BY <1>18, <2>2 DEF RefreshHost, Disks, PagesReady, PagesServed
  <2> QED BY <2>1, <2>3 DEF WorkIsDone, SuccessIsWhole
<1>19. CASE WriteUnits
  <2>1. job'.status = "running" /\ job'.step = "door"
    BY <1>19 DEF WriteUnits, Proceeds
  <2>2. disk.deps = disk.head /\ PagesReady /\ disk.caddy = disk.head
    BY <1>19 DEF WriteUnits, WorkIsDone
  <2>3. disk'.deps = disk'.head /\ PagesReady' /\ disk'.caddy = disk'.head /\ disk'.units = disk'.head
    BY <1>19, <2>2 DEF WriteUnits, Disks, PagesReady, PagesServed
  <2> QED BY <2>1, <2>3 DEF WorkIsDone, SuccessIsWhole
<1>20. CASE RenderInstalledCaddyfile
  <2>1. job'.status = "running" /\ job'.step = "restart" /\ job'.left = Services
    BY <1>20 DEF RenderInstalledCaddyfile, Jobs
  <2>2. disk.deps = disk.head /\ PagesReady /\ disk.caddy = disk.head /\ disk.units = disk.head
    BY <1>20 DEF RenderInstalledCaddyfile, WorkIsDone
  <2>3. /\ disk'.deps = disk'.head /\ PagesReady' /\ disk'.caddy = disk'.head
        /\ disk'.units = disk'.head /\ disk'.door = disk'.head
    BY <1>20, <2>2 DEF RenderInstalledCaddyfile, Disks, PagesReady, PagesServed
  <2>4. \A s \in ServiceSet : Waiting(s)'
    BY <2>1 DEF Waiting, ServiceSet
  <2> QED BY <2>1, <2>3, <2>4 DEF WorkIsDone, SuccessIsWhole
<1>21. CASE RestartNext
  <2>0. job.left \in Seq(ServiceSet) /\ job.left # <<>> /\ job.step = "restart"
    BY <1>21 DEF RestartNext, Jobs
  <2> PICK s \in ServiceSet : s = Head(job.left)
    BY <2>0
  <2>1. job.left \in Seq(ServiceSet) /\ job.left # <<>> /\ s = Head(job.left) /\ job.step = "restart"
    BY <2>0
  <2>2. /\ disk.deps = disk.head /\ PagesReady /\ disk.caddy = disk.head
        /\ disk.units = disk.head /\ disk.door = disk.head
        /\ \A t \in ServiceSet : Waiting(t) \/ Current(t)
    BY <1>21 DEF RestartNext, WorkIsDone
  <2>3. /\ disk'.deps = disk'.head /\ PagesReady' /\ disk'.caddy = disk'.head
        /\ disk'.units = disk'.head /\ disk'.door = disk'.head
        /\ Current(s)' /\ \A t \in ServiceSet \ {s} : Current(t) => Current(t)'
    BY <1>21, <2>1, <2>2, RestartKeepsCurrent DEF RestartNext
  <2>4. CASE Len(job.left) = 1
    <3>1. job' = [Advanced EXCEPT !.left = <<>>]
      BY <1>21, <2>4 DEF RestartNext
    <3>2. job'.status = "running" /\ job'.step = "finish"
      BY <1>21, <2>1, <3>1 DEF RestartNext, Jobs
    <3>3. \A t \in ServiceSet : Waiting(t) => t = s
      BY <2>1, <2>4 DEF Waiting
    <3>4. \A t \in ServiceSet : Current(t)' BY <2>2, <2>3, <3>3
    <3> QED BY <2>3, <3>2, <3>4 DEF WorkIsDone, SuccessIsWhole
  <2>5. CASE Len(job.left) # 1
    <3>1. job' = [job EXCEPT !.left = Tail(job.left)]
      BY <1>21, <2>5 DEF RestartNext
    <3>2. job'.status = "running" /\ job'.step = "restart" /\ job'.left = Tail(job.left)
      BY <1>21, <2>1, <3>1 DEF RestartNext, Jobs
    <3>3. \A t \in ServiceSet : Waiting(t) => t = s \/ Waiting(t)'
      <4>1. SUFFICES ASSUME NEW i \in 1 .. Len(job.left), i # 1
                     PROVE  i - 1 \in 1 .. Len(Tail(job.left)) /\ Tail(job.left)[i - 1] = job.left[i]
        BY <2>1, <3>2 DEF Waiting
      <4> QED BY <2>1, <4>1
    <3>4. \A t \in ServiceSet : Waiting(t)' \/ Current(t)'
      BY <2>2, <2>3, <3>3
    <3> QED BY <2>3, <3>2, <3>4 DEF WorkIsDone, SuccessIsWhole
  <2> QED BY <2>4, <2>5
<1>22. ASSUME NEW fails \in BOOLEAN, Finish(fails) PROVE WorkIsDone' /\ SuccessIsWhole'
  <2>1. job'.status = "succeeded" /\ disk' = disk /\ runs' = runs
    BY <1>22 DEF Finish, Jobs
  <2>2. Whole
    BY <1>22, ServicesAssumption DEF Finish, WorkIsDone, Whole, Current
  <2>3. Whole' BY <2>1, <2>2 DEF Whole, Current, PagesServed
  <2> QED BY <1>b, <2>1, <2>3 DEF WorkIsDone
<1> QED
  BY <1>4, <1>5, <1>6, <1>7, <1>8, <1>9, <1>10, <1>11, <1>12, <1>14, <1>15, <1>16, <1>17, <1>18,
     <1>19, <1>20, <1>21, <1>22 DEF Next

------------------------------------------------------------------------------
(* What is served is whole, and on one track nothing runs ahead. *)

PagesInv == OneTrackGoesForward /\ PagesAreWhole /\ PagesAreNotNewer

\* A step that leaves the checkout, what was made from it and the services alone keeps all of
\* that, unless it is the check that names the commit to check out.
LEMMA PagesKeptAside ==
  ASSUME HostTypeOK, TargetIsNamed, PagesInv, UNCHANGED <<track, disk, runs>>, count'.switches = count.switches,
         HostTypeOK', origin[track] <= origin'[track],
         AtStep("checkout")' => (AtStep("checkout") /\ job'.target = job.target)
  PROVE  PagesInv'
<1>1. origin[track] \in Nat /\ origin'[track] \in Nat
  BY CommitsAssumption DEF HostTypeOK
<1>2. OneTrackGoesForward'
  <2>1. SUFFICES ASSUME count.switches = 0
                 PROVE  disk.head <= origin'[track] /\
                        (AtStep("checkout")' => disk.head <= job.target /\ job.target <= origin'[track])
    BY DEF PagesInv, OneTrackGoesForward
  <2>2. disk.head <= origin[track] /\ disk.head \in Nat
    BY <2>1, CommitsAssumption DEF PagesInv, OneTrackGoesForward, HostTypeOK, Disks
  <2>3. CASE AtStep("checkout")'
    <3>1. disk.head <= job.target /\ job.target <= origin[track] /\ job.target \in Commits
      BY <2>1, <2>3 DEF PagesInv, OneTrackGoesForward, TargetIsNamed
    <3>2. job.target \in Nat BY <3>1, CommitsAssumption
    <3>3. disk.head <= origin'[track] /\ job.target <= origin'[track]
      BY <1>1, <2>2, <3>1, <3>2
    <3> QED BY <3>1, <3>3
  <2>4. CASE ~ AtStep("checkout")'
    BY <1>1, <2>2, <2>4
  <2> QED BY <2>3, <2>4
<1>3. PagesAreWhole' /\ PagesAreNotNewer'
  BY DEF PagesInv, PagesAreWhole, PagesAreNotNewer, Serves
<1> QED BY <1>2, <1>3 DEF PagesInv

\* A service that starts serves no pages newer than it is.
LEMMA PagesKeptByStarting ==
  ASSUME HostTypeOK, PagesInv, HostTypeOK', UNCHANGED <<origin, track>>,
         count'.switches = count.switches,
         disk' \in {disk, Promoted(disk)},
         \/ disk' = disk /\ runs'["manager"] = runs["manager"]
         \/ runs'["manager"] = Starts("manager", disk),
         AtStep("checkout")' => (AtStep("checkout") /\ job'.target = job.target)
  PROVE  PagesInv'
<1> USE CommitsAssumption DEF HostTypeOK
<1>1. \A f \in {"head", "deps", "caddy", "units", "door"} : disk'[f] = disk[f]
  BY StartingMoves
<1>2. /\ disk'.head = disk.head /\ disk'.caddy = disk.caddy /\ disk'.door = disk.door
      /\ \/ disk' = disk
         \/ /\ disk.next \in Builds /\ disk.next.whole /\ disk.next # NoBuild
            /\ disk'.dist = disk.next /\ disk'.next = NoBuild
  <2>1. \/ Promoted(disk) = disk
        \/ /\ disk.next \in Builds /\ disk.next.whole
           /\ Promoted(disk).dist = disk.next /\ Promoted(disk).next = NoBuild
    BY StartingMoves
  <2>2. disk'.head = disk.head /\ disk'.caddy = disk.caddy /\ disk'.door = disk.door
    BY <1>1
  <2>3. disk.next.whole => disk.next # NoBuild BY DEF NoBuild
  <2> QED BY <2>1, <2>2, <2>3
<1>3. OneTrackGoesForward' BY <1>2 DEF PagesInv, OneTrackGoesForward
<1>4. PagesAreWhole' BY <1>2 DEF PagesInv, PagesAreWhole
<1>5. PagesAreNotNewer'
  <2>1. CASE disk' = disk /\ runs'["manager"] = runs["manager"]
    BY <2>1 DEF PagesInv, PagesAreNotNewer, Serves
  <2>2. CASE runs'["manager"] = Starts("manager", disk)
    BY <1>2, <1>3, <2>2 DEF PagesAreNotNewer, Serves, Starts, OneTrackGoesForward
  <2> QED BY <2>1, <2>2
<1> QED BY <1>3, <1>4, <1>5 DEF PagesInv

\* Every step keeps it.
LEMMA PagesKept ==
  ASSUME HostTypeOK, TargetIsNamed, WorkIsDone, PagesInv, [Next]_updateVars
  PROVE  PagesInv'
<1>a. HostTypeOK'
  BY TypeKept
<1>b. /\ origin[track] \in Commits /\ disk.head \in Commits /\ disk.caddy \in Commits
      /\ disk.door \in Commits /\ disk.dist \in Builds /\ disk.next \in Builds \cup {NoBuild}
      /\ job \in Jobs /\ count.switches \in Nat /\ Commits \subseteq Nat \ {0}
  BY CommitsAssumption DEF HostTypeOK, Disks, Counts
<1> USE <1>a, <1>b, StepsInOrder, JobMoves
<1>1. ASSUME UNCHANGED updateVars PROVE PagesInv'
  BY <1>1, PagesKeptAside DEF updateVars, AtStep, Active
<1>2. ASSUME NEW t \in Tracks, NEW c \in Commits, Publish(t, c) PROVE PagesInv'
  <2>1. origin[track] <= origin'[track] BY <1>2 DEF Publish, HostTypeOK
  <2>2. count'.switches = count.switches
    BY <1>2 DEF Publish, HostTypeOK, Counts
  <2> QED BY <1>2, <2>1, <2>2, PagesKeptAside DEF Publish, AtStep, Active
<1>3. ASSUME NEW fails \in BOOLEAN, CheckAgain(fails) \/ Finish(fails) PROVE PagesInv'
  <2>1. count'.switches = count.switches
    BY <1>3, FailuresCounted DEF CheckAgain, Finish, HostTypeOK
  <2>2. AtStep("checkout")' => job' = job
    BY <1>3 DEF CheckAgain, Finish, AtStep, Active, Jobs
  <2> QED BY <1>3, <2>1, <2>2, PagesKeptAside DEF CheckAgain, Finish, AtStep, Active
<1>4. ASSUME NEW t \in Tracks, SwitchTrack(t) PROVE PagesInv'
  <2>1. count'.switches # 0 /\ disk' = disk
    BY <1>4 DEF SwitchTrack, HostTypeOK, Counts
  <2> QED BY <2>1 DEF PagesInv, OneTrackGoesForward, PagesAreWhole, PagesAreNotNewer
<1>5. CASE StartUpdate
  <2>1. count'.switches = count.switches /\ job'.step = "clean"
    BY <1>5 DEF StartUpdate, HostTypeOK, Counts, NoJob
  <2> QED BY <1>5, <2>1, PagesKeptAside DEF StartUpdate, AtStep
<1>6. CASE Fail
  <2>1. count'.switches = count.switches /\ job'.status = "failed"
    BY <1>6 DEF Fail, FailJob, HostTypeOK, Counts, Jobs
  <2> QED BY <1>6, <2>1, PagesKeptAside DEF Fail, AtStep, Active
<1>7. ASSUME NEW fails \in BOOLEAN, CheckBeforeApply(fails) PROVE PagesInv'
  <2>1. count'.switches = count.switches
    BY <1>7, FailuresCounted DEF CheckBeforeApply, HostTypeOK
  <2>2. CASE CollectStatus(fails).available = "yes"
    <3>1. CollectStatus(fails).latest = origin[track]
      BY <2>2 DEF CollectStatus, StatusOf, Lookup, CheckFailed
    <3>2. job' = [Advanced EXCEPT !.target = origin[track]] /\ job.step = "check"
      BY <1>7, <2>2, <3>1 DEF CheckBeforeApply, AtStep
    <3>3. job'.target = origin[track] BY <3>2 DEF Jobs
    <3> QED BY <1>7, <2>1, <3>3 DEF CheckBeforeApply, PagesInv, OneTrackGoesForward, PagesAreWhole,
                                   PagesAreNotNewer, Serves
  <2>3. CASE CollectStatus(fails).available # "yes"
    <3>1. job'.status = "failed"
      BY <1>7, <2>3 DEF CheckBeforeApply, FailJob, Jobs
    <3> QED BY <1>7, <2>1, <3>1, PagesKeptAside DEF CheckBeforeApply, AtStep, Active
  <2> QED BY <2>2, <2>3
<1>8. CASE Checkout
  <2>1. disk' = [disk EXCEPT !.head = Fetched] /\ job'.step = "deps"
    BY <1>8 DEF Checkout, AtStep, Active, Jobs
  <2>2. /\ Fetched \in Commits
        /\ count.switches = 0 => disk.head <= Fetched /\ Fetched <= origin[track]
    BY <1>8 DEF Checkout, Fetched, TargetIsNamed, PagesInv, OneTrackGoesForward
  <2>3. /\ disk'.head = Fetched /\ disk'.caddy = disk.caddy /\ disk'.door = disk.door
        /\ disk'.dist = disk.dist /\ disk'.next = disk.next
    BY <2>1 DEF HostTypeOK, Disks
  <2>4. OneTrackGoesForward'
    <3>1. SUFFICES ASSUME count.switches = 0
                   PROVE  /\ Fetched <= origin[track] /\ disk.door <= disk.caddy
                          /\ disk.caddy <= Fetched /\ disk.dist.of <= Fetched
                          /\ disk.next # NoBuild => disk.next.of <= Fetched
      BY <1>8, <2>1, <2>3 DEF Checkout, OneTrackGoesForward, AtStep
    <3>2. /\ disk.head <= Fetched /\ Fetched <= origin[track] /\ disk.door <= disk.caddy
          /\ disk.caddy <= disk.head /\ disk.dist.of <= disk.head
          /\ disk.next # NoBuild => disk.next.of <= disk.head
      BY <2>2, <3>1 DEF PagesInv, OneTrackGoesForward
    <3>3. disk.dist.of \in Nat /\ (disk.next # NoBuild => disk.next.of \in Nat) /\ Fetched \in Nat
      BY <2>2 DEF Builds
    <3> QED BY <3>2, <3>3
  <2>5. PagesAreWhole' /\ PagesAreNotNewer'
    BY <1>8, <2>3 DEF Checkout, PagesInv, PagesAreWhole, PagesAreNotNewer, Serves
  <2> QED BY <2>4, <2>5 DEF PagesInv
<1>9. ASSUME UNCHANGED <<origin, track, runs, count>>, job'.step # "checkout" \/ job'.status # "running",
             disk'.head = disk.head, disk'.dist = disk.dist,
             disk'.next \in {disk.next, Build(disk.head), Partial(disk.head)},
             \/ disk'.caddy = disk.caddy /\ disk'.door = disk.door
             \/ disk'.caddy = disk.head /\ disk'.door = disk.door
             \/ disk'.caddy = disk.caddy /\ disk.caddy = disk.head /\ disk'.door = disk.head
      PROVE  PagesInv'
  <2>1. OneTrackGoesForward'
    BY <1>9 DEF PagesInv, OneTrackGoesForward, AtStep, Active, Build, Partial
  <2>2. PagesAreWhole'
    BY <1>9 DEF PagesInv, PagesAreWhole, OneTrackGoesForward
  <2>3. PagesAreNotNewer' BY <1>9 DEF PagesInv, PagesAreNotNewer, Serves
  <2> QED BY <2>1, <2>2, <2>3 DEF PagesInv
<1>10. CASE EnsureCleanWorkingTree
  <2>1. job'.step = "check"
    BY <1>10 DEF EnsureCleanWorkingTree, Proceeds, AtStep
  <2> QED BY <1>9, <1>10, <2>1 DEF EnsureCleanWorkingTree, HostTypeOK, Disks
<1>11. CASE InstallBegins \/ InstallEnds
  <2>1. job'.step # "checkout"
    BY <1>11 DEF InstallBegins, InstallEnds, Proceeds, AtStep
  <2> QED BY <1>9, <1>11, <2>1 DEF InstallBegins, InstallEnds, HostTypeOK, Disks
<1>12. CASE BuildBegins \/ BuildEnds
  <2>1. job'.step # "checkout"
    BY <1>12 DEF BuildBegins, BuildEnds, Proceeds, AtStep
  <2> QED BY <1>9, <1>12, <2>1 DEF BuildBegins, BuildEnds, OutDir, HostTypeOK, Disks
<1>13. CASE RefreshCaddyBinary \/ WriteUnits
  <2>1. job'.step # "checkout"
    BY <1>13 DEF RefreshCaddyBinary, WriteUnits, Proceeds, AtStep
  <2> QED BY <1>9, <1>13, <2>1 DEF RefreshCaddyBinary, WriteUnits, HostTypeOK, Disks
<1>14. CASE ReconcilePages
  <2>1. job'.step # "checkout" \/ job'.status # "running"
    BY <1>14 DEF ReconcilePages, Proceeds, AtStep, FailJob, Jobs
  <2> QED BY <1>9, <1>14, <2>1 DEF ReconcilePages
<1>15. CASE RenderInstalledCaddyfile
  <2>1. job'.step # "checkout" /\ disk.caddy = disk.head
    BY <1>15 DEF RenderInstalledCaddyfile, AtStep, WorkIsDone, Jobs
  <2> QED BY <1>9, <1>15, <2>1 DEF RenderInstalledCaddyfile, HostTypeOK, Disks
<1>16. ASSUME NEW fails \in BOOLEAN, RefreshHost(fails) PROVE PagesInv'
  <2>1. count'.switches = count.switches /\ job'.step = "units"
    BY <1>16, FailuresCounted DEF RefreshHost, HostTypeOK, Proceeds, AtStep
  <2>2. /\ disk'.head = disk.head /\ disk'.dist = disk.dist /\ disk'.next = disk.next
        /\ disk'.caddy = disk.caddy /\ disk'.door = disk.door
    BY <1>16 DEF RefreshHost, HostTypeOK, Disks
  <2> QED BY <1>16, <2>1, <2>2 DEF RefreshHost, PagesInv, OneTrackGoesForward, AtStep, PagesAreWhole,
                                  PagesAreNotNewer, Serves
<1>17. ASSUME NEW s \in ServiceSet, Restarted(s), UNCHANGED <<origin, track>>,
              count'.switches = count.switches,
              AtStep("checkout")' => (AtStep("checkout") /\ job'.target = job.target)
       PROVE  PagesInv'
  <2>1. disk' \in {disk, Promoted(disk)} BY <1>17, RestartMoves
  <2>2. \/ disk' = disk /\ runs'["manager"] = runs["manager"]
        \/ runs'["manager"] = Starts("manager", disk)
    BY <1>17, RestartMoves, ServicesAssumption DEF Restarted, DiskAfter
  <2> QED BY <1>17, <2>1, <2>2, PagesKeptByStarting
<1>18. ASSUME NEW s \in ServiceSet, CrashService(s) \/ StartAgain(s) PROVE PagesInv'
  <2>1. count'.switches = count.switches
    BY <1>18 DEF CrashService, StartAgain, HostTypeOK, Counts
  <2> QED BY <1>17, <1>18, <2>1 DEF CrashService, StartAgain, AtStep, Active
<1>19. CASE RestartNext
  <2>1. job.left \in Seq(ServiceSet) /\ job.left # <<>> /\ job.step = "restart"
    BY <1>19 DEF RestartNext, Jobs, AtStep
  <2>2. Head(job.left) \in ServiceSet BY <2>1
  <2>3. job'.step # "checkout"
    <3>1. CASE Len(job.left) = 1
      <4>1. job' = [Advanced EXCEPT !.left = <<>>]
        BY <1>19, <3>1 DEF RestartNext
      <4> QED BY <2>1, <4>1 DEF Jobs
    <3>2. CASE Len(job.left) # 1
      BY <1>19, <2>1, <3>2 DEF RestartNext, Jobs
    <3> QED BY <3>1, <3>2
  <2> QED BY <1>17, <1>19, <2>2, <2>3 DEF RestartNext, AtStep
<1>20. CASE Reboot
  <2>1. count'.switches = count.switches /\ runs'["manager"] = Starts("manager", disk)
    BY <1>20, ServicesAssumption DEF Reboot, HostTypeOK, Counts
  <2>2. ~ Active' BY <1>20 DEF Reboot, Active, Jobs
  <2> QED BY <1>20, <2>1, <2>2, PagesKeptByStarting DEF Reboot, AtStep
<1>21. CASE Poll \/ Reconnect \/ Dismiss
  BY <1>21, PagesKeptAside DEF Poll, Reconnect, Dismiss, AtStep, Active
<1>22. ASSUME NEW unread \in BOOLEAN, Reload(unread) PROVE PagesInv'
  BY <1>22, FailuresCounted, PagesKeptAside DEF Reload, AtStep, Active, HostTypeOK
<1> QED
  BY <1>1, <1>2, <1>3, <1>4, <1>5, <1>6, <1>7, <1>8, <1>10, <1>11, <1>12, <1>13, <1>14, <1>15, <1>16,
     <1>18, <1>19, <1>20, <1>21, <1>22 DEF Next

------------------------------------------------------------------------------
\* A machine as it was installed.
LEMMA HostInitially == Init => HostInv
<1> SUFFICES ASSUME Init PROVE HostInv
  OBVIOUS
<1> PICK c \in Commits : /\ c = CHOOSE first \in Commits : \A d \in Commits : first <= d
                        /\ \A d \in Commits : c <= d
  BY CommitsAssumption
<1>1. /\ origin = [t \in Tracks |-> c] /\ track \in Tracks
      /\ disk = [head |-> c, deps |-> c, next |-> NoBuild, dist |-> Build(c),
                 caddy |-> c, engine |-> c, units |-> c, door |-> c, dirty |-> FALSE]
      /\ runs = [s \in ServiceSet |-> c] /\ job = NoJob
      /\ count = [publishes |-> 0, switches |-> 0, updates |-> 0, failures |-> 0, crashes |-> 0,
                  reboots |-> 0]
  BY DEF Init
<1>2. HostTypeOK
  <2>1. disk \in Disks BY <1>1 DEF Disks, Builds, Build
  <2>2. job \in Jobs BY <1>1 DEF Jobs, NoJob, Steps
  <2>3. count \in Counts BY <1>1 DEF Counts
  <2> QED BY <1>1, <2>1, <2>2, <2>3 DEF HostTypeOK
<1>3. TargetIsNamed /\ WorkIsDone /\ SuccessIsWhole
  BY <1>1 DEF TargetIsNamed, WorkIsDone, SuccessIsWhole, AtStep, Active, NoJob
<1>4. OneTrackGoesForward /\ PagesAreWhole /\ PagesAreNotNewer
  BY <1>1, CommitsAssumption, ServicesAssumption
     DEF OneTrackGoesForward, PagesAreWhole, PagesAreNotNewer, AtStep, Active, NoJob, Build, NoBuild
<1> QED BY <1>2, <1>3, <1>4 DEF HostInv

LEMMA HostInvHolds == Spec => []HostInv
<1>1. HostInv /\ [Next]_updateVars => HostInv'
  BY TypeKept, WorkKept, PagesKept DEF HostInv, PagesInv
<1> QED BY <1>1, HostInitially, PTL DEF Spec

\* However services crash, steps fail, the power goes and the tracks move on between two steps
\* of the worker: an update that reports success has every service, the pages and what the host
\* was given at one commit (reconcile-system.cjs, update/worker); the pages being served are
\* whole and never newer than Suite Manager, and on one track Caddy never has a file rendered by
\* a later commit than its binary's (frontend-release.cjs).
THEOREM MachineStaysSound == Spec => []MachineIsSound
<1>1. HostInv => MachineIsSound BY DEF HostInv, MachineIsSound
<1> QED BY <1>1, HostInvHolds, PTL
=============================================================================
