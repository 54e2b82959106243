--------------------------- MODULE DriveArchives ---------------------------
(***************************************************************************)
(* Archives on one drive: which of them this server's next backup goes to, *)
(* how an archive and a restore point come to be on a drive that may be    *)
(* pulled at any step, and the move of what MOS 0.22 kept at the root of   *)
(* MOS-backups into an archive.  The move runs in the agent on every look  *)
(* at the drive; the backup is a worker's, a process of its own.           *)
(***************************************************************************)
EXTENDS Naturals, FiniteSets

CONSTANTS
  Folders,        \* names an archive of this server may be given
  ForeignArchive, \* whether another server keeps an archive on the drive
  MaxDriveBackups,\* bound: backups
  MaxMoveFails,   \* bound: renames of the move that fail
  MaxProbeFails,  \* bound: times the engine gives no answer
  MaxPulls        \* bound: times the drive is pulled, or its worker dies

VARIABLES
  drive,   \* each folder's descriptor, repository and restore points
  atRoot,  \* what lies where 0.22 kept it
  soft,    \* folders whose descriptor the drive may not hold yet
  manifest,\* each restore point's manifest and digest files
  job,     \* the worker's step
  tries    \* counters of the bounds

driveVars == <<drive, atRoot, soft, manifest, job, tries>>

Legacy == 0 \* the restore points 0.22 made
Theirs == "theirs"
Archives == Folders \cup (IF ForeignArchive THEN {Theirs} ELSE {})
NoFolder == [sidecar |-> "none", repository |-> "none", points |-> {}]
NoJob == [pc |-> "none"]
NoManifest == [staged |-> FALSE, digest |-> FALSE, named |-> FALSE]

DriveTypeOK ==
  /\ \A n \in Archives :
       /\ drive[n].sidecar \in {"none", "ours", "0.22", "torn", "theirs"}
       /\ drive[n].repository \in {"none", "dir", "ours", "0.22", "theirs"}
       /\ drive[n].points \subseteq 0 .. MaxDriveBackups
  /\ soft \subseteq Folders
  /\ job.pc \in {"none", "target", "describe", "probe", "init", "contents", "staged", "digest",
                 "named", "discard"}

DriveInit ==
  /\ drive \in {[n \in Archives |-> IF n = Theirs
                   THEN [sidecar |-> s, repository |-> "theirs", points |-> {}] ELSE NoFolder] :
                s \in {"theirs", "torn"}}
  /\ atRoot \in {[sidecar |-> here, points |-> here, repository |-> here] : here \in BOOLEAN}
  /\ soft = {} /\ manifest = [p \in 1 .. MaxDriveBackups |-> NoManifest]
  /\ job = NoJob /\ tries = [backups |-> 0, moves |-> 0, probes |-> 0, pulls |-> 0]

Spend(k) == tries' = [tries EXCEPT ![k] = @ + 1]

(***************************************************************************)
(* The move from 0.22's layout, on every look at the drive: descriptor,    *)
(* restore points, repository, each a rename that may fail.  A failure is  *)
(* logged and what asked for the look goes on.                             *)
(***************************************************************************)
Repositoryless == {n \in Folders : drive[n] # NoFolder /\ drive[n].repository = "none"}
UnfinishedArchive == IF Cardinality(Repositoryless) = 1 THEN Repositoryless
                     ELSE {n \in Folders : drive[n] = NoFolder}

\* What is on the drive once the first `done` of the three renames are through.
MovedInto(n, done) ==
  [drive EXCEPT ![n].sidecar = IF done > 0 /\ atRoot.sidecar THEN "0.22" ELSE @,
                ![n].points = IF done > 1 /\ atRoot.points THEN @ \cup {Legacy} ELSE @,
                ![n].repository = IF done > 2 THEN "0.22" ELSE @]
LeftAtRoot(done) == [sidecar |-> atRoot.sidecar /\ done = 0, points |-> atRoot.points /\ done < 2,
                     repository |-> done < 3]

\* A rename fails where a folder of the name already holds something.
AdoptLayout ==
  /\ atRoot.repository
  /\ \E n \in UnfinishedArchive, done \in 0 .. 3 :
       /\ (done > 1 /\ atRoot.points) => drive[n].points = {}
       /\ drive' = MovedInto(n, done) /\ atRoot' = LeftAtRoot(done)
       /\ IF done < 3 THEN tries.moves < MaxMoveFails /\ Spend("moves") ELSE UNCHANGED tries
       /\ soft' = IF done > 0 /\ atRoot.sidecar THEN soft \ {n} ELSE soft
  /\ UNCHANGED <<manifest, job>>

(***************************************************************************)
(* Whose an archive is.  An engine that gives no answer is taken for this  *)
(* server's key opening it.                                                *)
(***************************************************************************)
ArchiveNames == {n \in Archives : drive[n].sidecar # "none"
                                  \/ drive[n].repository \notin {"none", "dir"}}
Descriptor(n) == IF drive[n].sidecar = "torn" THEN "none" ELSE drive[n].sidecar
MadeHere(n) == Descriptor(n) = "ours"
RepositoryExists(n) == drive[n].repository \notin {"none", "dir"}
Health(n, answers) ==
  IF ~RepositoryExists(n) THEN "empty"
  ELSE IF ~answers THEN "own"
  ELSE IF drive[n].repository = "theirs" THEN "locked" ELSE "own"

\* Where the next backup goes, {} where MOS refuses to choose.
Newest(own) ==
  LET last(n) == IF drive[n].points = {} THEN 0
                 ELSE CHOOSE p \in drive[n].points : \A q \in drive[n].points : q <= p
  IN {n \in own : \A m \in own : last(m) <= last(n)}
Target(answers) ==
  LET state == [n \in ArchiveNames |-> Health(n, answers)]
      own == {n \in ArchiveNames : state[n] = "own"}
      unfinished == {n \in ArchiveNames : state[n] = "empty" /\ MadeHere(n)}
      undescribed == {n \in ArchiveNames : state[n] = "locked" /\ Descriptor(n) = "none"}
  IN IF own # {} THEN Newest(own)
     ELSE IF undescribed # {} THEN {}
     ELSE IF unfinished # {} THEN unfinished
     ELSE {n \in Folders : drive[n] = NoFolder}

(***************************************************************************)
(* A backup.                                                               *)
(***************************************************************************)
StartDriveBackup ==
  /\ job = NoJob /\ tries.backups < MaxDriveBackups /\ Spend("backups")
  /\ job' = [pc |-> "target", archive |-> "none", point |-> tries.backups + 1, created |-> FALSE]
  /\ UNCHANGED <<drive, atRoot, soft, manifest>>

Goto(pc) == job' = [job EXCEPT !.pc = pc]
FinishJob == job' = NoJob

\* The archive must open with this server's key, or be empty, before anything is
\* written to it.
ChooseTarget ==
  /\ job.pc = "target"
  /\ \E answers \in BOOLEAN :
       /\ IF answers THEN UNCHANGED tries
          ELSE tries.probes < MaxProbeFails /\ Spend("probes")
       /\ IF Target(answers) = {} THEN FinishJob
          ELSE \E n \in Target(answers) :
                 IF Health(n, answers) = "locked" THEN FinishJob
                 ELSE job' = [job EXCEPT !.pc = "describe", !.archive = n]
  /\ UNCHANGED <<drive, atRoot, soft, manifest>>

\* The descriptor is on the drive before the repository is created.
Describe ==
  /\ job.pc = "describe" /\ Goto("probe")
  /\ IF Descriptor(job.archive) = "none" /\ job.archive \in Folders
     THEN drive' = [drive EXCEPT ![job.archive].sidecar = "ours"] /\ soft' = soft \cup {job.archive}
     ELSE UNCHANGED <<drive, soft>>
  /\ UNCHANGED <<atRoot, manifest, tries>>

\* A refusal that is not "there is nothing here" never creates a repository.
ProbeRepository ==
  /\ job.pc = "probe"
  /\ \/ /\ RepositoryExists(job.archive)
        /\ IF Health(job.archive, TRUE) = "locked" THEN FinishJob ELSE Goto("contents")
        /\ UNCHANGED <<drive, tries>>
     \/ /\ ~RepositoryExists(job.archive) /\ Goto("init") /\ UNCHANGED tries
        /\ drive' = [drive EXCEPT ![job.archive].repository = IF @ = "none" THEN "dir" ELSE @]
     \/ /\ tries.probes < MaxProbeFails /\ Spend("probes") /\ FinishJob /\ UNCHANGED drive
  /\ UNCHANGED <<atRoot, soft, manifest>>

InitRepository ==
  /\ job.pc = "init"
  /\ \/ /\ ~RepositoryExists(job.archive)
        /\ drive' = [drive EXCEPT ![job.archive].repository = "ours"]
        /\ job' = [job EXCEPT !.pc = "contents", !.created = TRUE]
     \/ FinishJob /\ UNCHANGED drive
  /\ UNCHANGED <<atRoot, soft, manifest, tries>>

\* The contents, then the manifest: staged and its digest, both on the drive before
\* the rename that names it.
StageManifest ==
  /\ job.pc = "contents" /\ Goto("staged")
  /\ manifest' = [manifest EXCEPT ![job.point].staged = TRUE]
  /\ UNCHANGED <<drive, atRoot, soft, tries>>
WriteDigest ==
  /\ job.pc = "staged" /\ Goto("digest")
  /\ manifest' = [manifest EXCEPT ![job.point].digest = TRUE]
  /\ UNCHANGED <<drive, atRoot, soft, tries>>
NameManifest ==
  /\ job.pc = "digest" /\ Goto("named")
  /\ manifest' = [manifest EXCEPT ![job.point] = [@ EXCEPT !.named = TRUE, !.staged = FALSE]]
  /\ drive' = [drive EXCEPT ![job.archive].points = @ \cup {job.point}]
  /\ UNCHANGED <<atRoot, soft, tries>>
BackupSucceeds ==
  /\ job.pc = "named" /\ FinishJob
  /\ UNCHANGED <<drive, atRoot, soft, manifest, tries>>

\* A failed backup leaves nothing listed, and takes away the archive it made.
DiscardWhole(n, created) == [drive EXCEPT ![n] = NoFolder] \* mutant: whoever made it
Discarded(n, created) ==
  [drive EXCEPT ![n] = IF created THEN NoFolder ELSE [@ EXCEPT !.points = drive[n].points \ {job.point}]]
BackupFails ==
  /\ job.pc \in {"contents", "staged", "digest", "named"} /\ FinishJob
  /\ manifest' = [manifest EXCEPT ![job.point] = NoManifest]
  /\ drive' = Discarded(job.archive, job.created)
  /\ soft' = IF job.created THEN soft \ {job.archive} ELSE soft
  /\ UNCHANGED <<atRoot, tries>>

(***************************************************************************)
(* The drive pulled, which also ends the worker.  A descriptor was not     *)
(* made to last and may be lost or torn; the rename of a manifest may not  *)
(* have reached the drive.                                                 *)
(***************************************************************************)
DrivePulled ==
  /\ tries.pulls < MaxPulls /\ Spend("pulls")
  /\ \E lost \in SUBSET soft, hurt \in {"torn", "none"}, unnamed \in BOOLEAN :
       LET undo == unnamed /\ job.pc = "named" IN
       /\ drive' = [n \in Archives |->
            [drive[n] EXCEPT !.sidecar = IF n \in lost THEN hurt ELSE @,
                             !.points = IF undo /\ n = job.archive THEN @ \ {job.point} ELSE @]]
       /\ manifest' = IF undo THEN [manifest EXCEPT ![job.point] =
                                      [@ EXCEPT !.named = FALSE, !.staged = TRUE]]
                      ELSE manifest
  /\ soft' = {} /\ job' = NoJob /\ UNCHANGED atRoot

DriveNext ==
  \/ AdoptLayout \/ StartDriveBackup \/ ChooseTarget \/ Describe \/ ProbeRepository
  \/ InitRepository \/ StageManifest \/ WriteDigest \/ NameManifest \/ BackupSucceeds
  \/ BackupFails \/ DrivePulled

DriveSpec == DriveInit /\ [][DriveNext]_driveVars

-----------------------------------------------------------------------------
\* Whatever dies or is pulled and whenever the engine gives no answer, this server
\* makes no second repository on a drive beside one of its own (destinations.cjs
\* target and health, and the descriptor written before the repository).
OneRepositoryOfOurs ==
  Cardinality({n \in Folders : drive[n].repository = "ours"}) <= 1

\* A restore point that is listed has its digest and the repository its data is in:
\* neither a failed backup's clean-up nor a pulled drive leaves one without
\* (writeRestorePoint, discardFailedBackup).
ListedPointsVerify ==
  \A n \in Folders : \A p \in drive[n].points \ {Legacy} :
    /\ manifest[p].named /\ manifest[p].digest
    /\ drive[n].repository \in {"ours", "0.22"}

\* "The repository itself is removed only when this job created it, so a mount check that
\* reports wrongly can never delete backups that were already on the drive": a restore point
\* goes only with the job that wrote it, as long as no rename of the move has failed.
OnlyItsOwnPointGoes ==
  \A n \in Folders : \A p \in drive[n].points :
    p \in drive'[n].points \/ (job # NoJob /\ job.point = p)
PointsOutliveOtherJobs == [][tries'.moves = 0 => OnlyItsOwnPointGoes]_driveVars

\* The same without the condition: a move that fails before its last rename leaves the
\* restore points 0.22 made in an archive that a backup under way creates the repository
\* of, and takes away again when it fails.
MovedPointsOutliveJobs == [][OnlyItsOwnPointGoes]_driveVars

\* "a move cut short still shows the repository at the root and is finished into the
\* one archive folder without one" (carry-over.cjs:105-106): once what 0.22 kept has left
\* the root, its repository and its restore points are in one archive.
MoveEndsInOneArchive ==
  ~atRoot.repository /\ (\E n \in Folders : drive[n].repository = "0.22") =>
    \E n \in Folders : drive[n].repository = "0.22" /\ Legacy \in drive[n].points
=============================================================================
