----------------------------- MODULE AppScreens -----------------------------
(***************************************************************************)
(* The Apps screen of one tab, with the detail page of the app selected,   *)
(* and the server's apps and jobs it follows.  The screen knows the server *)
(* by its list, read by requests that overlap and may arrive in any order; *)
(* an update is reviewed as a comparison, applied with its token, and      *)
(* followed as the job that started at the moment the server said.         *)
(***************************************************************************)
EXTENDS Naturals, Sequences, SequencesExt, FiniteSets

CONSTANTS
  Apps,
  NoApp,
  MaxVersion,  \* versions an app's source publishes
  MaxJobs,     \* jobs the server starts
  MaxOps,      \* install and lifecycle requests of this tab
  MaxReads,    \* reads of the list that follow no request
  MaxMoves     \* moves from one app's page to another

VARIABLES
  srv,         \* the server: per app its versions, instance and job
  list,        \* packages, as last read
  answers,     \* list requests in flight
  page,        \* the detail page: selected app, comparison and job followed
  menuRequest, \* install or lifecycle request in flight, and the app it names
  installing,  \* installingId
  reviewed,    \* ghost: pairs an owner was shown
  done,        \* ghost: jobs that succeeded
  count

screensVars == <<srv, list, answers, page, menuRequest, installing, reviewed, done, count>>

NoAppJob == [at |-> 0, kind |-> "none", status |-> "none"]
NoPair == [app |-> NoApp, from |-> 0, to |-> 0]
NoPage == [app |-> NoApp, asking |-> NoApp, comparison |-> NoPair, posting |-> 0, startedAt |-> 0]
Fresh(app) == [NoPage EXCEPT !.app = app]

Fact(a) == [installed |-> srv[a].installed, offered |-> srv[a].offered,
            instance |-> srv[a].instance, job |-> srv[a].job]
Packages == [a \in Apps |-> Fact(a)]

ScreensInit ==
  /\ \E one \in Apps :
       srv = [a \in Apps |-> [installed |-> IF a = one THEN 1 ELSE 0, offered |-> 1,
                              instance |-> IF a = one THEN "ready" ELSE "none",
                              job |-> NoAppJob, token |-> NoPair]]
  /\ list = Packages
  /\ answers = <<>>
  /\ page = NoPage
  /\ menuRequest = NoApp
  /\ installing = NoApp
  /\ reviewed = {} /\ done = {}
  /\ count = [jobs |-> 0, ops |-> 0, reads |-> 0, moves |-> 0]

Running(job) == job.status = "running"

-----------------------------------------------------------------------------
(* The list: on opening, every minute, every 1.5 s while a job is seen running,
   and after every request; only the latter may end what the screen shows busy. *)
Reads(ends) ==
  /\ Len(answers) < 2
  /\ answers' = Append(answers, [packages |-> [a \in Apps |-> [installed |-> srv'[a].installed,
                   offered |-> srv'[a].offered, instance |-> srv'[a].instance, job |-> srv'[a].job]],
                   ends |-> ends])

Load ==
  /\ count.reads < MaxReads
  /\ srv' = srv
  /\ Reads(FALSE)
  /\ count' = [count EXCEPT !.reads = @ + 1]
  /\ UNCHANGED <<list, page, menuRequest, installing, reviewed, done>>

DialogJob(packages) ==
  IF page.startedAt # 0 /\ packages[page.app].job.at = page.startedAt
  THEN packages[page.app].job ELSE NoAppJob

(* The dialog closes itself as the job it started is seen to have succeeded. *)
Followed(packages) ==
  IF page.app # NoApp /\ DialogJob(packages).status = "succeeded"
  THEN [page EXCEPT !.comparison = NoPair, !.startedAt = 0] ELSE page

Loaded(i) ==
  /\ list' = answers[i].packages
  /\ page' = Followed(answers[i].packages)
  /\ answers' = RemoveAt(answers, i)
  /\ installing' = IF answers[i].ends THEN NoApp ELSE installing
  /\ UNCHANGED <<srv, menuRequest, reviewed, done, count>>

LoadFails(i) ==
  /\ answers' = RemoveAt(answers, i)
  /\ installing' = IF answers[i].ends THEN NoApp ELSE installing
  /\ UNCHANGED <<srv, list, page, menuRequest, reviewed, done, count>>

-----------------------------------------------------------------------------
(* Another app shown in the same page resets it, but not the comparison asked
   for; closing takes the page away and what it had asked for is dropped. *)
Select(app) ==
  /\ app # page.app
  /\ count.moves < MaxMoves
  /\ count' = [count EXCEPT !.moves = @ + 1]
  /\ page.comparison = NoPair \/ page.posting = 0
  /\ page' = IF app = NoApp \/ page.app = NoApp THEN Fresh(app)
             ELSE [Fresh(app) EXCEPT !.asking = page.asking, !.posting = page.posting]
  /\ UNCHANGED <<srv, list, answers, menuRequest, installing, reviewed, done>>

UpdateWaiting(a) == list[a].instance = "ready" /\ list[a].offered > list[a].installed

PrepareUpdate ==
  /\ page.app # NoApp
  /\ UpdateWaiting(page.app) /\ ~Running(list[page.app].job)
  /\ page.asking = NoApp
  /\ page' = [page EXCEPT !.asking = page.app]
  /\ UNCHANGED <<srv, list, answers, menuRequest, installing, reviewed, done, count>>

Prepared ==
  LET pair == [app |-> page.asking, from |-> srv[page.asking].installed, to |-> srv[page.asking].offered] IN
  /\ page.asking # NoApp
  /\ page' = [page EXCEPT !.asking = NoApp, !.comparison = pair]
  /\ reviewed' = reviewed \cup {pair}
  /\ UNCHANGED <<srv, list, answers, menuRequest, installing, done, count>>

CancelReview ==
  /\ page.comparison # NoPair
  /\ page.posting = 0
  /\ page' = [page EXCEPT !.comparison = NoPair]
  /\ UNCHANGED <<srv, list, answers, menuRequest, installing, reviewed, done, count>>

(* One job of an app at a time; what it was given to do is checked as it starts. *)
Starts(a, kind, token) ==
  /\ count.jobs < MaxJobs
  /\ srv' = [srv EXCEPT ![a].job = [at |-> count.jobs + 1, kind |-> kind, status |-> "running"],
                        ![a].token = token,
                        ![a].instance = IF kind = "install" THEN "incomplete" ELSE @]
  /\ count' = [count EXCEPT !.jobs = @ + 1]

CanApplyUpdate ==
  /\ page.comparison # NoPair
  /\ page.comparison.to > page.comparison.from
  /\ page.posting = 0 /\ ~Running(list[page.app].job)

ApplyUpdate ==
  /\ page.app # NoApp
  /\ CanApplyUpdate
  /\ ~Running(srv[page.app].job)
  /\ Starts(page.app, "update", page.comparison)
  /\ page' = [page EXCEPT !.posting = count.jobs + 1]
  /\ UNCHANGED <<list, answers, menuRequest, installing, reviewed, done>>

UpdateStarted ==
  /\ page.posting # 0
  /\ srv' = srv
  /\ Reads(FALSE)
  /\ page' = [page EXCEPT !.posting = 0, !.startedAt = page.posting]
  /\ UNCHANGED <<list, menuRequest, installing, reviewed, done, count>>

(* Another tab reviewed and started the same app's update. *)
OtherTabUpdates(a) ==
  LET pair == [app |-> a, from |-> srv[a].installed, to |-> srv[a].offered] IN
  /\ srv[a].instance = "ready" /\ pair.to > pair.from
  /\ ~Running(srv[a].job)
  /\ Starts(a, "update", pair)
  /\ reviewed' = reviewed \cup {pair}
  /\ UNCHANGED <<list, answers, page, menuRequest, installing, done>>

-----------------------------------------------------------------------------
(* Installing, and the requests of the menu; each ends with a read of the list. *)
Performs(a) ==
  /\ count.ops < MaxOps
  /\ menuRequest = NoApp
  /\ menuRequest' = a /\ installing' = a

PerformInstall ==
  /\ page.app # NoApp
  /\ list[page.app].instance \in {"none", "incomplete"}
  /\ installing # page.app /\ ~Running(list[page.app].job)
  /\ Performs(page.app)
  /\ IF srv[page.app].instance \in {"none", "incomplete"} /\ ~Running(srv[page.app].job)
     THEN /\ count.jobs < MaxJobs
          /\ srv' = [srv EXCEPT ![page.app].job = [at |-> count.jobs + 1, kind |-> "install", status |-> "running"],
                                ![page.app].instance = "incomplete"]
          /\ count' = [count EXCEPT !.jobs = @ + 1, !.ops = @ + 1]
     ELSE /\ srv' = srv
          /\ count' = [count EXCEPT !.ops = @ + 1]
  /\ UNCHANGED <<list, answers, page, reviewed, done>>

Outcome(a, action) ==
  CASE action = "stop" /\ srv[a].instance = "ready"      -> [srv[a] EXCEPT !.instance = "disabled"]
    [] action = "enable" /\ srv[a].instance = "disabled" -> [srv[a] EXCEPT !.instance = "ready"]
    [] action = "uninstall"                              -> [srv[a] EXCEPT !.instance = "none", !.installed = 0,
                                                                          !.job = NoAppJob, !.token = NoPair]
    [] OTHER                                             -> srv[a]

PerformLifecycle(action) ==
  /\ page.app # NoApp
  /\ list[page.app].instance # "none"
  /\ installing = NoApp
  /\ Performs(page.app)
  /\ srv' = IF Running(srv[page.app].job) THEN srv ELSE [srv EXCEPT ![page.app] = Outcome(page.app, action)]
  /\ count' = [count EXCEPT !.ops = @ + 1]
  /\ UNCHANGED <<list, answers, page, reviewed, done>>

RequestAnswered ==
  /\ menuRequest # NoApp
  /\ menuRequest' = NoApp
  /\ srv' = srv
  /\ Reads(TRUE)
  /\ UNCHANGED <<list, page, installing, reviewed, done, count>>

-----------------------------------------------------------------------------
Publish(a) ==
  /\ srv[a].offered < MaxVersion
  /\ srv' = [srv EXCEPT ![a].offered = @ + 1]
  /\ UNCHANGED <<list, answers, page, menuRequest, installing, reviewed, done, count>>

(* The update compares both packages again before it does anything. *)
StillReviewedLoosely(a) == TRUE
StillReviewed(a) == srv[a].token = [app |-> a, from |-> srv[a].installed, to |-> srv[a].offered]

JobSucceeds(a) ==
  /\ Running(srv[a].job)
  /\ srv[a].job.kind = "update" => StillReviewed(a)
  /\ srv' = [srv EXCEPT ![a].job.status = "succeeded", ![a].instance = "ready",
                        ![a].installed = srv[a].offered]
  /\ done' = done \cup {srv[a].job.at}
  /\ UNCHANGED <<list, answers, page, menuRequest, installing, reviewed, count>>

JobFails(a) ==
  /\ Running(srv[a].job)
  /\ srv' = [srv EXCEPT ![a].job.status = "failed"]
  /\ UNCHANGED <<list, answers, page, menuRequest, installing, reviewed, done, count>>

ScreensNext ==
  \/ Load
  \/ \E i \in DOMAIN answers : Loaded(i)
  \/ \E i \in DOMAIN answers : LoadFails(i)
  \/ \E app \in Apps \cup {NoApp} : Select(app)
  \/ PrepareUpdate
  \/ Prepared
  \/ CancelReview
  \/ ApplyUpdate
  \/ UpdateStarted
  \/ PerformInstall
  \/ \E action \in {"stop", "enable", "uninstall"} : PerformLifecycle(action)
  \/ RequestAnswered
  \/ \E a \in Apps : OtherTabUpdates(a)
  \/ \E a \in Apps : Publish(a)
  \/ \E a \in Apps : JobSucceeds(a)
  \/ \E a \in Apps : JobFails(a)

ScreensSpec == ScreensInit /\ [][ScreensNext]_screensVars

-----------------------------------------------------------------------------
(* An installed app only ever moves to a version that was shown, from the very
   one it was compared with, whatever page the answer came to stand on. *)
AppliesTheReviewed ==
  \A a \in Apps : srv[a].installed # 0 /\ srv'[a].installed > srv[a].installed =>
    [app |-> a, from |-> srv[a].installed, to |-> srv'[a].installed] \in reviewed
OnlyTheReviewed == [][AppliesTheReviewed]_screensVars

(* The review closes itself only for the update it started, never for one that
   another tab started or that ended earlier. *)
ClosesWhenDone ==
  page.startedAt # 0 /\ page'.startedAt = 0 /\ page'.app = page.app => page.startedAt \in done
ClosesOnItsOwn == [][ClosesWhenDone]_screensVars

(* What the screen shows of an app's jobs never goes back in time. *)
ListGoesForward == [][\A a \in Apps : list'[a].job.at >= list[a].job.at \/ list'[a].instance = "none"]_screensVars

=============================================================================
