------------------------------ MODULE Buckets ------------------------------
(***************************************************************************)
(* OwnArchives in one bucket: the catalog that names them, each archive's     *)
(* repository and restore points, and what this server holds about both in *)
(* files that the agent and its worker, two processes, share.  A request   *)
(* to the bucket may fail, a process may die, and a reading of the catalog *)
(* or of an archive lands after whatever the worker writes meanwhile.      *)
(***************************************************************************)
EXTENDS Naturals, FiniteSets

CONSTANTS
  OwnArchives,   \* names an archive of this server may be given
  ForeignHere,   \* whether the bucket holds another server's archive
  MaxJobs,       \* bound: backups and deletes
  MaxFailures,   \* bound: requests that fail
  MaxDeaths,     \* bound: deaths of the agent or the worker
  MaxExpiries    \* bound: times the held lists outlive their two minutes

VARIABLES
  bucket,       \* what the bucket holds
  catalogFile,  \* the catalog as last saved by either process
  indexFile,    \* each archive's index as last saved by either process
  failedAt,     \* archives whose last answer to the agent was an error
  reading,      \* the agent's reading of the catalog under way, and what it has read
  listing,      \* the agent's listing under way, and what it has read
  worker,       \* the worker's step
  misled,       \* history: whether a job chose its archive from lists the bucket had outgrown
  bucketJobs    \* counters of the bounds, and the point the last job wrote

bucketVars == <<bucket, catalogFile, indexFile, failedAt, reading, listing, worker, misled, bucketJobs>>

NoFile == [held |-> FALSE, fresh |-> FALSE]
NoReading == [begun |-> FALSE]
NoListing == [of |-> "none"]
NoWork == [pc |-> "none"]
Foreign == "foreign"
Names == OwnArchives \cup (IF ForeignHere THEN {Foreign} ELSE {})
NoArchives == {}

Catalog(names) == [held |-> TRUE, names |-> names, fresh |-> TRUE]
Index(points, repository) ==
  [held |-> TRUE, points |-> points, repository |-> repository, fresh |-> TRUE]
EmptyIndex == Index({}, FALSE)

BucketTypeOK ==
  /\ bucket.catalog \subseteq Names /\ bucket.repositories \subseteq Names
  /\ \A n \in OwnArchives : bucket.points[n] \subseteq bucket.contents[n] \cup 1 .. MaxJobs
  /\ catalogFile.held => catalogFile.names \subseteq Names
  /\ failedAt \subseteq Names \cup {"catalog"}
  /\ reading.begun => reading.names \subseteq Names
  /\ listing.of \in Names \cup {"none"}
  /\ worker.pc \in {"none", "target", "catalog-entry", "catalog-saved", "repository", "contents",
                    "manifest", "remember", "find", "forget-manifest", "forget-point",
                    "forget-contents"}

BucketInit ==
  /\ bucket = [catalog |-> Names \ OwnArchives, repositories |-> Names \ OwnArchives,
               points |-> [n \in OwnArchives |-> {}], contents |-> [n \in OwnArchives |-> {}]]
  /\ catalogFile = NoFile /\ indexFile = [n \in OwnArchives |-> NoFile]
  /\ failedAt = NoArchives /\ reading = NoReading /\ listing = NoListing
  /\ worker = NoWork /\ misled = FALSE
  /\ bucketJobs = [jobs |-> 0, failures |-> 0, deaths |-> 0, expiries |-> 0]

MayFail == bucketJobs.failures < MaxFailures
Failed(k) == bucketJobs' = [bucketJobs EXCEPT !.failures = @ + k]

(***************************************************************************)
(* The catalog.  Its archives are this server's own, but for Foreign.      *)
(***************************************************************************)
CatalogFresh == catalogFile.fresh
FetchCatalog == catalogFile' = Catalog(bucket.catalog)

\* The agent's survey reads it when it holds none or an old one.  It saves what it read
\* over whatever has been saved since.
BeginReading ==
  /\ reading = NoReading /\ ~CatalogFresh
  /\ reading' = [begun |-> TRUE, names |-> bucket.catalog]
  /\ UNCHANGED <<bucket, catalogFile, indexFile, failedAt, listing, worker, misled, bucketJobs>>

EndReading ==
  /\ reading.begun /\ reading' = NoReading
  /\ \/ /\ catalogFile' = Catalog(reading.names)
        /\ failedAt' = failedAt \ {"catalog"} /\ UNCHANGED bucketJobs
     \/ MayFail /\ Failed(1) /\ failedAt' = failedAt \cup {"catalog"} /\ UNCHANGED catalogFile
  /\ UNCHANGED <<bucket, indexFile, listing, worker, misled>>

(***************************************************************************)
(* An archive's index.  A listing takes its time: it saves what it read as *)
(* it began over whatever has been saved since.                            *)
(***************************************************************************)
IndexDue(n) == ~indexFile[n].fresh
ListedIndex(n) == Index(bucket.points[n], TRUE)
ReadIndex(n) == IF n \in bucket.repositories THEN ListedIndex(n) ELSE EmptyIndex

BeginListing(n) ==
  /\ listing = NoListing /\ catalogFile.held /\ n \in catalogFile.names \cap OwnArchives
  /\ IndexDue(n)
  /\ listing' = [of |-> n, read |-> ReadIndex(n)]
  /\ UNCHANGED <<bucket, catalogFile, indexFile, failedAt, reading, worker, misled, bucketJobs>>

EndListing ==
  /\ listing # NoListing /\ listing' = NoListing
  /\ \/ /\ indexFile' = [indexFile EXCEPT ![listing.of] = listing.read]
        /\ failedAt' = failedAt \ {listing.of} /\ UNCHANGED bucketJobs
     \/ /\ MayFail /\ Failed(1) /\ failedAt' = failedAt \cup {listing.of}
        /\ UNCHANGED indexFile
  /\ UNCHANGED <<bucket, catalogFile, worker, reading, misled>>

RememberPoint(n, p) ==
  indexFile' = [indexFile EXCEPT ![n] =
    IF @.held THEN [@ EXCEPT !.points = @ \cup {p}, !.repository = TRUE]
    ELSE [Index({p}, TRUE) EXCEPT !.fresh = FALSE]]
ForgetPoint(n, p) ==
  indexFile' = [indexFile EXCEPT ![n] = IF @.held THEN [@ EXCEPT !.points = @ \ {p}] ELSE @]

\* The two minutes for which a held list is trusted.
ListsExpire ==
  /\ bucketJobs.expiries < MaxExpiries
  /\ bucketJobs' = [bucketJobs EXCEPT !.expiries = @ + 1]
  /\ catalogFile' = IF catalogFile.held THEN [catalogFile EXCEPT !.fresh = FALSE] ELSE catalogFile
  /\ indexFile' = [n \in OwnArchives |-> IF indexFile[n].held
                                      THEN [indexFile[n] EXCEPT !.fresh = FALSE] ELSE indexFile[n]]
  /\ UNCHANGED <<bucket, failedAt, reading, listing, worker, misled>>

(***************************************************************************)
(* What the agent says of an archive, and of the bucket: one that did not  *)
(* answer the last time makes the place unreachable.                       *)
(***************************************************************************)
KeyState(n, errors) ==
  IF n = Foreign THEN "locked"
  ELSE IF ~indexFile[n].held \/ n \in errors THEN "unknown"
  ELSE IF indexFile[n].repository THEN "own" ELSE "empty"

PlaceReady ==
  /\ catalogFile.held /\ "catalog" \notin failedAt
  /\ \A n \in catalogFile.names : KeyState(n, failedAt) # "unknown"

(***************************************************************************)
(* A backup.  The worker is a process of its own: it shares the files, and *)
(* not what the agent remembers of errors.                                 *)
(***************************************************************************)
NextPoint == bucketJobs.jobs + 1
StartJob(pc, n, p) ==
  /\ worker = NoWork /\ bucketJobs.jobs < MaxJobs
  /\ worker' = [pc |-> pc, archive |-> n, point |-> p]
  /\ bucketJobs' = [bucketJobs EXCEPT !.jobs = @ + 1]
  /\ UNCHANGED <<bucket, catalogFile, indexFile, failedAt, reading, listing, misled>>

StartBucketBackup == PlaceReady /\ StartJob("target", "none", NextPoint)

Step(pc) == worker' = [worker EXCEPT !.pc = pc]
EndJob == worker' = NoWork

\* Where the backup goes: this server's own archive, else one it began and never
\* finished, else a new one.  An archive without an index is asked now; a stale index
\* is read again in the background, which BeginListing and EndListing stand for.
Chosen(names, index) ==
  LET own == {n \in names \cap OwnArchives : index[n].held /\ index[n].repository}
      unfinished == {n \in names \cap OwnArchives : index[n].held /\ ~index[n].repository} IN
  IF own # {} THEN own ELSE IF unfinished # {} THEN unfinished ELSE OwnArchives \ names

\* What it chooses from is not what the bucket holds, or an archive did not answer.
Outgrown(names, index) ==
  \/ names # bucket.catalog
  \/ \E n \in names \cap OwnArchives :
       ~index[n].held \/ index[n].repository # (n \in bucket.repositories)

WorkerTargets ==
  /\ worker.pc = "target"
  /\ \/ /\ IF CatalogFresh THEN UNCHANGED catalogFile ELSE FetchCatalog
        /\ LET names == IF CatalogFresh THEN catalogFile.names ELSE bucket.catalog
               asked == {n \in names \cap OwnArchives : ~indexFile[n].held} IN
           \E silent \in SUBSET asked :
             /\ Cardinality(silent) + bucketJobs.failures <= MaxFailures
             /\ Failed(Cardinality(silent))
             /\ indexFile' = [n \in OwnArchives |->
                  IF n \in asked \ silent THEN ReadIndex(n) ELSE indexFile[n]]
             /\ misled' = (misled \/ Outgrown(names, indexFile'))
             /\ \E n \in Chosen(names, indexFile') :
                  worker' = [worker EXCEPT !.pc = "catalog-entry", !.archive = n]
     \/ ~CatalogFresh /\ MayFail /\ Failed(1) /\ EndJob
        /\ UNCHANGED <<catalogFile, indexFile, misled>>
  /\ UNCHANGED <<bucket, failedAt, reading, listing>>

\* The catalog names the archive before its repository exists.
EnterCatalogLast == \* mutant: the repository first, the catalog entry with the manifest
  /\ worker.pc = "catalog-entry" /\ Step("repository")
  /\ UNCHANGED <<bucket, catalogFile, indexFile, failedAt, reading, listing, misled, bucketJobs>>

EnterCatalog ==
  \/ /\ worker.pc = "catalog-entry"
     /\ IF CatalogFresh THEN UNCHANGED catalogFile ELSE FetchCatalog
     /\ IF worker.archive \in catalogFile'.names
        THEN Step("repository") /\ UNCHANGED bucket
        ELSE Step("catalog-saved") /\ bucket' = [bucket EXCEPT !.catalog = @ \cup {worker.archive}]
     /\ UNCHANGED <<indexFile, failedAt, reading, listing, misled, bucketJobs>>
  \/ /\ worker.pc = "catalog-saved" /\ Step("repository")
     /\ catalogFile' = IF catalogFile.held
                       THEN [catalogFile EXCEPT !.names = @ \cup {worker.archive}]
                       ELSE [Catalog({worker.archive}) EXCEPT !.fresh = FALSE]
     /\ UNCHANGED <<bucket, indexFile, failedAt, reading, listing, misled, bucketJobs>>

CreateRepository ==
  /\ worker.pc = "repository" /\ Step("contents")
  /\ bucket' = [bucket EXCEPT !.repositories = @ \cup {worker.archive}]
  /\ UNCHANGED <<catalogFile, indexFile, failedAt, reading, listing, misled, bucketJobs>>

WriteContents ==
  /\ worker.pc = "contents" /\ Step("manifest")
  /\ bucket' = [bucket EXCEPT !.contents[worker.archive] = @ \cup {worker.point}]
  /\ UNCHANGED <<catalogFile, indexFile, failedAt, reading, listing, misled, bucketJobs>>

\* The manifest is a snapshot in the bucket, then a line of the index.
WriteManifest ==
  \/ /\ worker.pc = "manifest" /\ Step("remember")
     /\ bucket' = [bucket EXCEPT !.points[worker.archive] = @ \cup {worker.point}]
     /\ UNCHANGED <<catalogFile, indexFile, failedAt, reading, listing, misled, bucketJobs>>
  \/ /\ worker.pc = "remember" /\ EndJob /\ RememberPoint(worker.archive, worker.point)
     /\ UNCHANGED <<bucket, catalogFile, failedAt, reading, listing, misled, bucketJobs>>

(***************************************************************************)
(* A delete of a listed point.                                             *)
(***************************************************************************)
StartBucketDelete ==
  \E n \in OwnArchives : indexFile[n].held /\ \E p \in indexFile[n].points : StartJob("find", n, p)

\* The manifest is read: from the index, or from the bucket before it is missing.
FindPoint ==
  /\ worker.pc = "find"
  /\ LET n == worker.archive
         known == indexFile[n].held /\ worker.point \in indexFile[n].points IN
     \/ known /\ Step("forget-manifest") /\ UNCHANGED indexFile
     \/ /\ ~known /\ indexFile' = [indexFile EXCEPT ![n] = ReadIndex(n)]
        /\ IF worker.point \in bucket.points[n] THEN Step("forget-manifest") ELSE EndJob
  /\ UNCHANGED <<bucket, catalogFile, failedAt, reading, listing, misled, bucketJobs>>

\* What to forget is looked up in the index once more.
ForgetManifest ==
  /\ worker.pc = "forget-manifest" /\ Step("forget-point")
  /\ LET n == worker.archive IN
     bucket' = IF indexFile[n].held /\ worker.point \in indexFile[n].points
               THEN [bucket EXCEPT !.points[n] = @ \ {worker.point}] ELSE bucket
  /\ UNCHANGED <<catalogFile, indexFile, failedAt, reading, listing, misled, bucketJobs>>

ForgetFromIndex ==
  /\ worker.pc = "forget-point" /\ Step("forget-contents")
  /\ ForgetPoint(worker.archive, worker.point)
  /\ UNCHANGED <<bucket, catalogFile, failedAt, reading, listing, misled, bucketJobs>>

ForgetContents ==
  /\ worker.pc = "forget-contents" /\ EndJob
  /\ bucket' = [bucket EXCEPT !.contents[worker.archive] = @ \ {worker.point}]
  /\ UNCHANGED <<catalogFile, indexFile, failedAt, reading, listing, misled, bucketJobs>>

\* Any request of the worker may fail, which ends its job: a bucket's archive is
\* left as it is.
WorkerFails ==
  /\ worker # NoWork /\ MayFail /\ Failed(1) /\ EndJob
  /\ UNCHANGED <<bucket, catalogFile, indexFile, failedAt, reading, listing, misled>>

Dies == bucketJobs.deaths < MaxDeaths
        /\ bucketJobs' = [bucketJobs EXCEPT !.deaths = @ + 1]
WorkerDies ==
  /\ worker # NoWork /\ Dies /\ EndJob
  /\ UNCHANGED <<bucket, catalogFile, indexFile, failedAt, reading, listing, misled>>
AgentDies ==
  /\ Dies /\ reading' = NoReading /\ listing' = NoListing /\ failedAt' = NoArchives
  /\ UNCHANGED <<bucket, catalogFile, indexFile, worker, misled>>

BucketNext ==
  \/ BeginReading \/ EndReading \/ \E n \in OwnArchives : BeginListing(n)
  \/ EndListing \/ ListsExpire
  \/ StartBucketBackup \/ WorkerTargets \/ EnterCatalog \/ CreateRepository
  \/ WriteContents \/ WriteManifest
  \/ StartBucketDelete \/ FindPoint \/ ForgetManifest \/ ForgetFromIndex \/ ForgetContents
  \/ WorkerFails \/ WorkerDies \/ AgentDies

BucketSpec == BucketInit /\ [][BucketNext]_bucketVars

(***************************************************************************)
(* Properties.                                                             *)
(***************************************************************************)
\* "a backup cut off before its repository existed is finished rather than started
\* again beside it": however backups are cut and requests fail, a bucket has one archive
\* of this server, unless a job chose from lists that the bucket had outgrown.
OneArchiveOfThisServer == ~misled => Cardinality(bucket.catalog \cap OwnArchives) <= 1

\* The same without the condition.  A backup that dies between the catalog entry and the
\* note of it, or a reading that lands on that note, begins a second archive.
StartedIsFinished == Cardinality(bucket.repositories \cap OwnArchives) <= 1

\* What the catalog does not name is not found again: no repository without it.
RepositoriesAreNamed == bucket.repositories \subseteq bucket.catalog

\* "the other order would leave a backup still listed and offered for restore with its
\* contents already gone": a listing that lands in the midst of a delete does the same.
ListedHasContents == \A n \in OwnArchives : bucket.points[n] \subseteq bucket.contents[n]

\* "How long a bucket's index of its own restore points is trusted without asking
\* again; only a second machine writing into the same bucket could stale it
\* sooner": a fresh index lists what the bucket holds, when no job is running.
FreshIndexIsCurrent ==
  worker = NoWork =>
    \A n \in OwnArchives : indexFile[n].held /\ indexFile[n].fresh
                          => indexFile[n].points = bucket.points[n]
=============================================================================
