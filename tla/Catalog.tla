------------------------------ MODULE Catalog ------------------------------
(***************************************************************************)
(* The official app catalog and its advisory feed: the refresh that reads  *)
(* both from one resolved commit, the cache kept in memory and on disk,    *)
(* the push of the signed feed to the update agent, which writes the       *)
(* host's package holds, and the candidate downloads bound to the commit.  *)
(***************************************************************************)
EXTENDS Naturals, FiniteSets

CONSTANTS
  Refs,          \* refs a server may follow, strings; "main" is the release track's
  MaxCommits,    \* bound: commits ever published, numbered in order
  MaxRefreshes,  \* bound: refreshes begun
  MaxFailures,   \* bound: requests that fail
  MaxRestarts,   \* bound: restarts of Suite Manager
  MaxDownloads   \* candidate downloads allowed at once (the limiter's cap)

VARIABLES
  tip,        \* per ref: its newest commit
  commits,    \* per published commit: what its catalog and its feed are
  track,      \* the ref this server follows, as the update agent answers
  cache,      \* the cache in memory
  disk,       \* official-app-catalog.json
  refresh,    \* the one refresh in flight
  lastError,  \* whether the last attempt failed
  push,       \* the pushes of the feed to the update agent
  pushed,     \* the revision last pushed by this process
  holds,      \* the feed the host's hold file was written from
  lost,       \* an answer of the update agent was lost since this process started
  downloads,  \* the commits of the candidate downloads in flight
  spent       \* how much of each bound is used

catalogVars == <<tip, commits, track, cache, disk, refresh, lastError, push, pushed, holds, lost, downloads, spent>>
hostVars    == <<tip, commits, track, holds, lost>>

None     == 0
Commits  == 1..MaxCommits
NoCache  == [ref |-> "none", revision |-> None, feed |-> None, feedRevision |-> None, feedError |-> FALSE]
Idle     == [pc |-> "idle", ref |-> "none", revision |-> None]
At(pc)   == refresh.pc = pc
Goes(pc) == refresh' = [refresh EXCEPT !.pc = pc]
Spend(what) == spent' = [spent EXCEPT ![what] = @ + 1]
Fails    == spent.fail < MaxFailures /\ Spend("fail")

CatalogTypeOK ==
  /\ cache.revision \in 0..MaxCommits /\ cache.feed \in 0..MaxCommits
  /\ disk.revision \in 0..MaxCommits /\ holds \in 0..MaxCommits /\ pushed \in 0..MaxCommits
  /\ Cardinality(downloads) <= MaxDownloads

\* A commit's catalog may be one this release cannot read; its feed may be absent.
Published == [catalog : {"good", "skew"}, feed : {"signed", "none"}]
Good      == [catalog |-> "good", feed |-> "signed"]

CatalogInit ==
  /\ tip = [r \in Refs |-> 1] /\ commits = <<Good>> /\ track = "main"
  /\ cache = NoCache /\ disk = NoCache /\ refresh = Idle /\ lastError = FALSE
  /\ push = {} /\ pushed = None /\ holds = None /\ lost = FALSE /\ downloads = {}
  /\ spent = [refresh |-> 0, fail |-> 0, restart |-> 0, switch |-> 0]

(***************************************************************************)
(* Outside: commits are published, the owner switches track.               *)
(***************************************************************************)
Publish(r) == \E c \in Published :
  /\ Cardinality(DOMAIN commits) < MaxCommits
  /\ commits' = [n \in 1..(Cardinality(DOMAIN commits) + 1) |->
                  IF n \in DOMAIN commits THEN commits[n] ELSE c]
  /\ tip' = [tip EXCEPT ![r] = Cardinality(DOMAIN commits) + 1]
  /\ UNCHANGED <<track, cache, disk, refresh, lastError, push, pushed, holds, lost, downloads, spent>>

SwitchTrack(r) ==
  /\ r # track /\ spent.switch = 0 /\ Spend("switch") /\ track' = r
  /\ UNCHANGED <<tip, commits, cache, disk, refresh, lastError, push, pushed, holds, lost, downloads>>

(***************************************************************************)
(* The refresh: one at a time, begun by the timer or by the owner.  A      *)
(* recent success is answered from the cache, which changes nothing.       *)
(***************************************************************************)
RefreshBegins ==
  /\ At("idle") /\ spent.refresh < MaxRefreshes /\ Spend("refresh")
  /\ refresh' = [Idle EXCEPT !.pc = "ref"]
  /\ UNCHANGED <<hostVars, cache, disk, lastError, push, pushed, downloads>>

\* The cache keeps serving, and both copies note the error.
RefreshFails ==
  /\ refresh' = Idle /\ lastError' = TRUE
  /\ disk' = IF cache.ref = "none" THEN disk ELSE cache
  /\ UNCHANGED <<hostVars, push, pushed, downloads>>

\* A catalog fetched for another ref is not this ref's answer.
ResolvesRef ==
  /\ At("ref")
  /\ \/ /\ cache' = IF cache.ref \notin {"none", track} THEN NoCache ELSE cache
        /\ refresh' = [refresh EXCEPT !.pc = "commit", !.ref = track]
        /\ UNCHANGED <<hostVars, disk, lastError, push, pushed, downloads, spent>>
     \/ Fails /\ RefreshFails /\ UNCHANGED cache

ResolvesCommit ==
  /\ At("commit")
  /\ \/ /\ refresh' = [refresh EXCEPT !.pc = "catalog", !.revision = tip[refresh.ref]]
        /\ UNCHANGED <<hostVars, cache, disk, lastError, push, pushed, downloads, spent>>
     \/ Fails /\ RefreshFails /\ UNCHANGED cache

\* Nothing new, or signed bytes of this release's shape.
FetchesCatalog ==
  /\ At("catalog")
  /\ \/ /\ commits[refresh.revision].catalog = "good"
        /\ cache' = IF cache.revision = refresh.revision THEN [cache EXCEPT !.ref = refresh.ref]
                    ELSE [NoCache EXCEPT !.ref = refresh.ref, !.revision = refresh.revision]
        /\ lastError' = FALSE /\ Goes("feed")
        /\ UNCHANGED <<hostVars, disk, push, pushed, downloads, spent>>
     \/ commits[refresh.revision].catalog = "skew" /\ RefreshFails /\ UNCHANGED <<cache, spent>>
     \/ Fails /\ RefreshFails /\ UNCHANGED cache

\* The feed of the same commit; one that cannot be had fails nothing.
FetchesFeed ==
  /\ At("feed") /\ Goes("write")
  /\ \/ /\ cache.feedRevision = refresh.revision /\ UNCHANGED <<cache, spent>>
     \/ /\ cache.feedRevision # refresh.revision /\ UNCHANGED spent
        /\ cache' = [cache EXCEPT !.feedRevision = refresh.revision, !.feedError = FALSE,
             !.feed = IF commits[refresh.revision].feed = "signed" THEN refresh.revision ELSE None]
     \/ /\ cache.feedRevision # refresh.revision /\ Fails
        /\ cache' = [cache EXCEPT !.feedError = TRUE]
  /\ UNCHANGED <<hostVars, disk, lastError, push, pushed, downloads>>

\* What the update agent is asked to write the holds from; requests reach it in their order.
Push == [feed |-> cache.feed, revision |-> cache.feedRevision, nth |-> spent.refresh, at |-> "sent"]

\* Written, and whoever follows a refresh is told without being waited for.
RefreshEndsForgetful ==   \* mutant: the push is counted before it is answered
  /\ At("write") /\ disk' = cache /\ refresh' = Idle
  /\ IF cache.feedRevision = pushed \/ cache.feed = None THEN UNCHANGED <<push, pushed>>
     ELSE push' = push \cup {Push}
          /\ pushed' = cache.feedRevision
  /\ UNCHANGED <<hostVars, cache, lastError, downloads, spent>>
RefreshEnds ==
  /\ At("write") /\ disk' = cache /\ refresh' = Idle
  /\ push' = IF cache.feedRevision = pushed \/ cache.feed = None THEN push
             ELSE push \cup {Push}
  /\ UNCHANGED <<hostVars, cache, lastError, pushed, downloads, spent>>

pushRest == <<tip, commits, track, cache, disk, refresh, lastError, downloads>>

\* The update agent checks the signature itself before it writes; it answers afterwards.
HoldsWritten(p) ==
  /\ p \in push /\ p.at = "sent" /\ \A q \in push : q.nth < p.nth => q.at = "written"
  /\ holds' = p.feed /\ push' = (push \ {p}) \cup {[p EXCEPT !.at = "written"]}
  /\ UNCHANGED <<pushRest, pushed, lost, spent>>
PushAnswered(p) ==
  /\ p \in push /\ p.at = "written" /\ \A q \in push : p.nth <= q.nth
  /\ push' = push \ {p} /\ pushed' = p.revision
  /\ UNCHANGED <<pushRest, holds, lost, spent>>

\* Refused, not reached, or no answer within the client's 30 seconds: whether the agent had
\* written the holds is not known here.
PushFails(p) ==
  /\ p \in push /\ Fails /\ push' = push \ {p}
  /\ lost' = (lost \/ p.at = "written")
  /\ UNCHANGED <<pushRest, pushed, holds>>

(***************************************************************************)
(* A candidate download holds on to the commit its catalog entry came from *)
(***************************************************************************)
DownloadBegins ==
  /\ cache.revision # None /\ Cardinality(downloads) < MaxDownloads
  /\ downloads' = downloads \cup {cache.revision}
  /\ UNCHANGED <<hostVars, cache, disk, refresh, lastError, push, pushed, spent>>
DownloadEnds(d) ==
  /\ d \in downloads /\ downloads' = downloads \ {d}
  /\ UNCHANGED <<hostVars, cache, disk, refresh, lastError, push, pushed, spent>>

\* The cache is verified again on the way in; the count of pushes starts over.
Restart ==
  /\ spent.restart < MaxRestarts /\ Spend("restart")
  /\ cache' = disk /\ refresh' = Idle /\ push' = {} /\ pushed' = None
  /\ lastError' = FALSE /\ downloads' = {} /\ lost' = FALSE
  /\ UNCHANGED <<tip, commits, track, holds, disk>>

CatalogNext ==
  \/ \E r \in Refs : Publish(r) \/ SwitchTrack(r)
  \/ RefreshBegins \/ ResolvesRef \/ ResolvesCommit \/ FetchesCatalog \/ FetchesFeed \/ RefreshEnds
  \/ \E p \in push : HoldsWritten(p) \/ PushAnswered(p) \/ PushFails(p)
  \/ DownloadBegins \/ \E d \in downloads : DownloadEnds(d)
  \/ Restart

CatalogSpec == CatalogInit /\ [][CatalogNext]_catalogVars

(***************************************************************************)
(* Properties.                                                             *)
(***************************************************************************)
\* While no push is in flight, a process that counts a revision as pushed has the host's holds
\* written from that feed.  On one track this stands whatever fails, answers lost after the agent
\* wrote included: the next refresh pushes again.  Once the track was switched it stands only
\* while no answer was lost since the process started: a server that goes back to a revision it
\* had pushed, after an answer lost in between, does not push it again (services.cjs onRefreshed).
HoldsFollowTheFeed ==
  push = {} /\ pushed # None /\ pushed = cache.feedRevision /\ cache.feed # None
    /\ (spent.switch = 0 \/ ~lost)
      => holds = cache.feed

\* A feed once held is only given up for a commit that publishes none, or with
\* the catalog of a track the server has left: a feed that cannot be fetched
\* keeps the one before (official-catalog-service.cjs performRefresh: "A
\* malformed or unreachable feed keeps the last-known-good advisories").
FeedIsKept == [][
  At("feed") /\ refresh.ref = disk.ref /\ disk.feed # None /\ cache'.feed = None
    => commits[refresh.revision].feed = "none"]_catalogVars
=============================================================================
