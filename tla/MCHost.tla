-------------------------------- MODULE MCHost --------------------------------
(***************************************************************************)
(* The parts of the host that keep data, checked side by side: the backup   *)
(* schedule, a bucket, a backup drive, the drive of the owner's files, an   *)
(* upload, the vault, the restore, and Ubuntu's own patches.  They share no *)
(* state in the code that the modules describe, so an interleaving of two   *)
(* of them is two runs of one: `part` names the one that moves, and the     *)
(* others stay as installed.                                                *)
(***************************************************************************)
EXTENDS BackupScheduler, Buckets, DriveArchives, Drives, Restore, Uploads, Vault

CONSTANTS Packages, SecurityOnes, Kernels, Units, NeverHere, OwnerHolds, Starts   \* of the patches

VARIABLES part,
          apt, record, feed, pushed, waiting, log, needed, units, check, health, patchJob, armed,
          seen, patchCount, ghost

patchVars    == <<apt, record, feed, pushed, waiting, log, needed, units, check, health, patchJob, armed,
                  seen, patchCount, ghost>>

Patches == INSTANCE HostPatches WITH
  job <- patchJob, count <- patchCount, Absent <- NeverHere

\* MOS's own files are there only where its record says so.
ASSUME StartsAreFound ==
  \A start \in Starts :
    /\ start.record = "mos" \/ (~start.apt.policy /\ start.apt.holds = {"no list"})
    /\ start.apt = [distro |-> start.apt.distro, other |-> start.apt.other, policy |-> start.apt.policy,
                    holds |-> start.apt.holds]

Found(distro, other, edits, feeds) ==
  [apt |-> [distro |-> distro, other |-> other, policy |-> FALSE, holds |-> {"no list"}],
   record |-> "unknown",
   budget |-> [updates |-> 1, edits |-> edits, feeds |-> feeds, runs |-> 1, reboots |-> 2, failures |-> 1]]

\* An owner who edits, or a feed that moves.
MCStarts == {Found("absent", "none", 1, 0), Found("stock", "after", 1, 0), Found("edited", "none", 1, 0),
             Found("absent", "none", 0, 1)}

Parts == {"scheduler", "bucket", "archive", "space", "upload", "handover", "recovery",
          "patches"}

\* Every part as installed.  What varies of a part's start varies only where it moves.
Init ==
  /\ part \in Parts
  /\ SchedInit /\ (part # "scheduler" => primary = "none")
  /\ BucketInit
  /\ DriveInit
  /\ part # "archive" => ~atRoot.repository /\ \A n \in Archives \ Folders : drive[n].sidecar = "torn"
  /\ DrivesInit
  /\ UploadInit
  /\ VaultInit /\ (part # "handover" => disk.state = "small" /\ chip = NoChip)
  /\ RestoreInit
  /\ part # "recovery" => point = [apps |-> {}, hasId |-> FALSE, foreign |-> FALSE] /\ machine.present = {}
  /\ Patches!Init /\ (part # "patches" => [apt |-> apt, record |-> record, budget |-> patchCount]
                                              = CHOOSE start \in Starts : TRUE)

SchedulerMoves ==
  /\ part = "scheduler" /\ SchedNext
  /\ UNCHANGED <<part, bucketVars, driveVars, driveSpaceVars, uploadVars, vaultVars, rvars, patchVars>>

BucketMoves ==
  /\ part = "bucket" /\ BucketNext
  /\ UNCHANGED <<part, schedVars, driveVars, driveSpaceVars, uploadVars, vaultVars, rvars, patchVars>>

ArchiveMoves ==
  /\ part = "archive" /\ DriveNext
  /\ UNCHANGED <<part, schedVars, bucketVars, driveSpaceVars, uploadVars, vaultVars, rvars, patchVars>>

SpaceMoves ==
  /\ part = "space" /\ DrivesNext
  /\ UNCHANGED <<part, schedVars, bucketVars, driveVars, uploadVars, vaultVars, rvars, patchVars>>

UploadMoves ==
  /\ part = "upload" /\ UploadNext
  /\ UNCHANGED <<part, schedVars, bucketVars, driveVars, driveSpaceVars, vaultVars, rvars, patchVars>>

HandoverMoves ==
  /\ part = "handover" /\ VaultNext
  /\ UNCHANGED <<part, schedVars, bucketVars, driveVars, driveSpaceVars, uploadVars, rvars, patchVars>>

RecoveryMoves ==
  /\ part = "recovery" /\ RestoreNext
  /\ UNCHANGED <<part, schedVars, bucketVars, driveVars, driveSpaceVars, uploadVars, vaultVars, patchVars>>

PatchMoves ==
  /\ part = "patches" /\ Patches!Next
  /\ UNCHANGED <<part, schedVars, bucketVars, driveVars, driveSpaceVars, uploadVars, vaultVars, rvars>>

Next ==
  \/ SchedulerMoves
  \/ BucketMoves
  \/ ArchiveMoves
  \/ SpaceMoves
  \/ UploadMoves
  \/ HandoverMoves
  \/ RecoveryMoves
  \/ PatchMoves

vars == <<part, schedVars, bucketVars, driveVars, driveSpaceVars, uploadVars, vaultVars, rvars,
          patchVars>>
Spec == Init /\ [][Next]_vars

\* A bucket and a drive hold one archive of this server each (a bucket, unless a job chose
\* from outgrown lists), every repository in the bucket is named and every restore point on
\* the drive has its manifest, its digest and its data, however backups are cut, requests
\* fail and drives are pulled (destinations.cjs).
ArchivesAreOurs ==
  CASE part = "bucket"  -> OneArchiveOfThisServer /\ RepositoriesAreNamed
    [] part = "archive" -> OneRepositoryOfOurs /\ ListedPointsVerify
    [] OTHER            -> TRUE

\* With nothing under way at a drive, one reported ejected is unmounted and read by no
\* container, and an app that runs reads the mount its records name (storage-service.cjs);
\* what the browser calls added is in its folder, and a file there is the one that was sent
\* unless two requests of its upload met at the agent or one went by an older copy of the
\* session (files-service.cjs, files.cjs).
OwnersFilesAreSafe ==
  CASE part = "space"  -> EjectedIsSafeToPull /\ BoundToTheMount
    [] part = "upload" -> FileIsWhole /\ AddedIsKept
    [] OTHER           -> TRUE

\* Until the owner has confirmed the recovery key the copy that opens the vault is there, and
\* a first boot cut short is finished; a restore removes nothing before a rescue copy holds it,
\* and while the machine is neither as before nor as in the backup its journal says so
\* (vault/agent-core.cjs, backup/agent-core.cjs).
RecoveryIsAtHand ==
  CASE part = "handover" -> (mishaps.rotations = 0 => HandoverWindowOpens) /\ UnfinishedIsNotUnsupported
    [] part = "recovery" -> NothingLostBeforeItIsRescued /\ JournalTellsTheTruth
    [] OTHER             -> TRUE

\* The host's own patches: nothing is written where MOS never took the policy on, the hold
\* list in force is the one pushed, the verdict and the last install shown are those of the
\* machine, and it restarts only when asked (host-patching.cjs, post-patch-check.cjs).
PatchesAreSound ==
  part = "patches" => Patches!PatchesAreSound

\* A restore point on a drive goes only with the job that wrote it, as long as no rename of
\* the move from 0.22's layout has failed, and a restore that reports success leaves the
\* apps and data of the backup (agent-core.cjs: discardFailedBackup, restore).
PointsStayTrue == PointsOutliveOtherJobs /\ SuccessIsTheBackup
================================================================================
