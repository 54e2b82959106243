------------------------------- MODULE Drives -------------------------------
(***************************************************************************)
(* One external drive and the apps that keep folders on it: the plug-in    *)
(* unit that opens it when it appears, the owner's eject, check and use,   *)
(* an app's apply, which mounts the drive and makes the app's folders, and *)
(* the file screen's changes.  The drive is pulled and plugged back at any *)
(* time; a pulled drive leaves its mount behind, and its containers keep   *)
(* the bind they were started with.                                        *)
(***************************************************************************)
EXTENDS Naturals

CONSTANTS
  DriveApps,         \* apps with folders on the drive, strings
  MaxDrivePulls,     \* bound: the drive pulled
  MaxActions,        \* bound: handlers begun
  MaxDriveRefusals   \* bound: mounts, unmounts and repairs that fail

VARIABLES
  ownDrive,   \* plugged in, its device path (a number), and if it needs a check
  mount,      \* what is mounted on the drive's folder: device, read-only, which mount
  claim,      \* the registry's entry for the drive
  boxes,      \* per app: its container, and the mount its bind points at
  astray,     \* whether something was written where the drive should have been
  work,       \* the handlers in flight
  overlap,    \* history: two handlers have been in flight together
  tally       \* how much of each bound is used

driveSpaceVars == <<ownDrive, mount, claim, boxes, astray, work, overlap, tally>>

Nowhere   == 0          \* no mount, no bind
OnSystem  == 99         \* a bind to the bare folder on the system disk
Handlers  == {"job", "plug", "apply", "files"}
Resting   == [op |-> "none", pc |-> "done", app |-> "none", stopped |-> {}]
Working(h) == work[h].pc # "done"
Mounted   == mount.source # Nowhere
OpenHere  == Mounted /\ ownDrive.plugged /\ mount.source = ownDrive.path
Remembered == claim.known /\ (claim.apps # {} \/ claim.keepOpen)

DriveState ==
  IF claim.known /\ claim.ejected THEN "ejected"
  ELSE IF ~ownDrive.plugged THEN "away"
  ELSE IF OpenHere THEN (IF mount.readOnly THEN "read-only" ELSE "ready")
  ELSE IF Remembered THEN "failed" ELSE "available"

DrivesTypeOK ==
  /\ ownDrive.plugged \in BOOLEAN /\ ownDrive.dirty \in BOOLEAN
  /\ claim.apps \subseteq DriveApps
  /\ \A a \in DriveApps : boxes[a].state \in {"none", "running", "stopped"}
  /\ \A h \in Handlers : work[h].stopped \subseteq DriveApps

NoClaim == [known |-> FALSE, apps |-> {}, ejected |-> FALSE, keepOpen |-> FALSE]

DrivesInit ==
  /\ ownDrive = [plugged |-> TRUE, path |-> 1, dirty |-> FALSE]
  /\ mount = [source |-> 1, readOnly |-> FALSE, id |-> 1]
  /\ claim = [NoClaim EXCEPT !.known = TRUE, !.apps = DriveApps]
  /\ boxes = [a \in DriveApps |-> [state |-> "running", bind |-> 1]]
  /\ astray = FALSE /\ overlap = FALSE
  /\ work = [h \in Handlers |-> Resting]
  /\ tally = [pull |-> 0, action |-> 0, refusal |-> 0]

(***************************************************************************)
(* The drive itself.  Linux gives a drive plugged back another device path *)
(* while the old mount is still there.                                     *)
(***************************************************************************)
Pull ==
  /\ ownDrive.plugged /\ tally.pull < MaxDrivePulls
  /\ tally' = [tally EXCEPT !.pull = @ + 1]
  /\ \E dirty \in BOOLEAN : ownDrive' = [ownDrive EXCEPT !.plugged = FALSE,
                              !.dirty = @ \/ (dirty /\ OpenHere /\ ~mount.readOnly)]
  /\ UNCHANGED <<mount, claim, boxes, astray, work, overlap>>

Start(h, op, app, first) ==
  /\ ~Working(h)
  /\ work' = [work EXCEPT ![h] = [Resting EXCEPT !.op = op, !.app = app, !.pc = first]]
  /\ overlap' = (overlap \/ \E other \in Handlers \ {h} : Working(other))

\* udev starts the attach unit for the drive that appeared.
PlugsIn ==
  /\ ~ownDrive.plugged
  /\ ownDrive' = [ownDrive EXCEPT !.plugged = TRUE,
                 !.path = IF mount.source = @ THEN 3 - @ ELSE @]
  /\ Start("plug", "attach", "none", "look")
  /\ UNCHANGED <<mount, claim, boxes, astray, tally>>

BeginWork(h, op, app, first) ==
  /\ tally.action < MaxActions /\ tally' = [tally EXCEPT !.action = @ + 1]
  /\ Start(h, op, app, first)
  /\ UNCHANGED <<ownDrive, mount, claim, boxes, astray>>

\* The screen offers each action only in the states it is meant for.
BeginEject == DriveState \in {"ready", "read-only"} /\ BeginWork("job", "eject", "none", "stop")
BeginCheck == DriveState \in {"read-only", "failed"} /\ BeginWork("job", "check", "none", "stop")
BeginUse   == DriveState \in {"ejected", "failed"} /\ BeginWork("job", "use", "none", "look")
BeginOpen  == DriveState \in {"ready", "read-only", "available"} /\ BeginWork("files", "open", "none", "look")
BeginApply(a)   == BeginWork("apply", "apply", a, "look")
BeginRemove(a)  == BeginWork("apply", "remove", a, "release")
BeginChange == BeginWork("files", "change", "none", "prove")

Forget ==
  /\ ~ownDrive.plugged /\ claim.known /\ claim.apps = {}
  /\ claim' = NoClaim
  /\ UNCHANGED <<ownDrive, mount, boxes, astray, work, overlap, tally>>

(***************************************************************************)
(* Opening the drive: `attach`, shared by every handler that needs it.     *)
(***************************************************************************)
Pc(h, pc)     == work' = [work EXCEPT ![h].pc = pc]
Is(h, pc)     == work[h].pc = pc
Refuse        == tally.refusal < MaxDriveRefusals /\ tally' = [tally EXCEPT !.refusal = @ + 1]

\* What a handler does once the drive is open, and once it could not be opened.
AfterAttach(h) == CASE work[h].op \in {"attach", "use"} -> "restart"
                    [] work[h].op = "eject" -> "restart"
                    [] work[h].op = "check" -> "start"
                    [] work[h].op = "apply" -> "folders"
                    [] work[h].op = "open"  -> "keep"
AttachFails(h) == work' = [work EXCEPT ![h].pc = IF work[h].op = "check" THEN "start" ELSE "done",
                                       ![h].op = IF @ = "attach" THEN "missed" ELSE @]

AttachLooks(h) ==
  /\ Is(h, "look")
  /\ \/ ~ownDrive.plugged /\ AttachFails(h)
     \/ OpenHere /\ Pc(h, AfterAttach(h))
     \/ ownDrive.plugged /\ ~OpenHere /\ Pc(h, IF Mounted THEN "clear" ELSE "mount")
  /\ UNCHANGED <<ownDrive, mount, claim, boxes, astray, overlap, tally>>

AttachClears(h) ==   \* umount --lazy of what a pulled drive left behind
  /\ Is(h, "clear") /\ Pc(h, "mount")
  /\ mount' = [mount EXCEPT !.source = Nowhere]
  /\ UNCHANGED <<ownDrive, claim, boxes, astray, overlap, tally>>

\* A drive Windows would check first opens read-only.
AttachMounts(h) ==
  /\ Is(h, "mount")
  /\ \/ /\ ownDrive.plugged /\ Pc(h, "record")
        /\ mount' = [source |-> ownDrive.path, readOnly |-> ownDrive.dirty, id |-> mount.id + 1]
        /\ UNCHANGED <<claim, tally>>
     \/ /\ claim' = [claim EXCEPT !.ejected = FALSE] /\ UNCHANGED mount
        /\ AttachFails(h)
        /\ \/ ownDrive.plugged /\ Refuse
           \/ ~ownDrive.plugged /\ UNCHANGED tally
  /\ UNCHANGED <<ownDrive, boxes, astray, overlap>>

AttachRecords(h) ==
  /\ Is(h, "record")
  /\ \/ OpenHere /\ claim' = [claim EXCEPT !.ejected = FALSE] /\ Pc(h, AfterAttach(h))
     \/ ~OpenHere /\ AttachFails(h) /\ UNCHANGED claim
  /\ UNCHANGED <<ownDrive, mount, boxes, astray, overlap, tally>>

(***************************************************************************)
(* Containers.  Those with the drive's label are stopped, started and      *)
(* restarted together; starting one binds it to what is mounted now, and   *)
(* one whose folder is not there refuses to start.                         *)
(***************************************************************************)
Labelled == {a \in DriveApps : boxes[a].state # "none"}
BindNow  == IF Mounted THEN mount.id ELSE IF astray THEN OnSystem ELSE Nowhere

Restarted(box) ==
  IF BindNow = Nowhere THEN [state |-> "stopped", bind |-> Nowhere]
  ELSE [state |-> "running", bind |-> BindNow]

RestartsOnlyStopped(h) == \* mutant: a container that still runs is left alone
  /\ Is(h, "restart") /\ Pc(h, "done")
  /\ boxes' = IF Remembered
              THEN [a \in DriveApps |-> IF a \in Labelled /\ boxes[a].state = "stopped"
                                        THEN Restarted(boxes[a]) ELSE boxes[a]]
              ELSE boxes
  /\ UNCHANGED <<ownDrive, mount, claim, astray, overlap, tally>>

RestartsContainers(h) ==
  /\ Is(h, "restart") /\ Pc(h, "done")
  /\ boxes' = IF Remembered
              THEN [a \in DriveApps |-> IF a \in Labelled THEN Restarted(boxes[a]) ELSE boxes[a]]
              ELSE boxes
  /\ UNCHANGED <<ownDrive, mount, claim, astray, overlap, tally>>

StopsContainers(h) ==
  /\ Is(h, "stop")
  /\ boxes' = [a \in DriveApps |-> IF boxes[a].state = "running"
                                   THEN [boxes[a] EXCEPT !.state = "stopped"] ELSE boxes[a]]
  /\ work' = [work EXCEPT ![h].pc = "close", ![h].stopped = Labelled]
  /\ UNCHANGED <<ownDrive, mount, claim, astray, overlap, tally>>

\* Unmounting is refused while a running container reads the drive.
InUse == \E a \in DriveApps : boxes[a].state = "running" /\ boxes[a].bind = mount.id

CloseDrive(h) ==
  /\ Is(h, "close")
  /\ \/ /\ ownDrive.plugged /\ ~(Mounted /\ InUse)
        /\ Pc(h, IF work[h].op = "eject" THEN "eject" ELSE "repair")
        /\ mount' = [mount EXCEPT !.source = Nowhere] /\ UNCHANGED tally
     \/ /\ UNCHANGED mount
        /\ \/ (~ownDrive.plugged \/ (Mounted /\ InUse)) /\ UNCHANGED tally
           \/ Refuse
        /\ Pc(h, IF work[h].op = "eject" THEN "look" ELSE "start")
  /\ UNCHANGED <<ownDrive, claim, boxes, astray, overlap>>

RecordsEject(h) ==
  /\ Is(h, "eject") /\ Pc(h, "done")
  /\ claim' = [claim EXCEPT !.ejected = claim.known]
  /\ UNCHANGED <<ownDrive, mount, boxes, astray, overlap, tally>>

Repairs(h) ==   \* ntfsfix, which may not be enough
  /\ Is(h, "repair")
  /\ \/ ownDrive' = [ownDrive EXCEPT !.dirty = FALSE] /\ UNCHANGED tally
     \/ Refuse /\ UNCHANGED ownDrive
  /\ Pc(h, "look")
  /\ UNCHANGED <<mount, claim, boxes, astray, overlap>>

StartsStopped(h) ==   \* whatever the check found, its containers are started again
  /\ Is(h, "start") /\ Pc(h, "done")
  /\ boxes' = [a \in DriveApps |-> IF a \in work[h].stopped /\ boxes[a].state = "stopped"
                                   THEN Restarted(boxes[a]) ELSE boxes[a]]
  /\ UNCHANGED <<ownDrive, mount, claim, astray, overlap, tally>>

(***************************************************************************)
(* An app's apply, its removal, and the file screen.                       *)
(***************************************************************************)
\* The drive is claimed and the app's folders made, wherever they now land.
PrepareFolders(h) ==
  /\ Is(h, "folders")
  /\ claim' = [claim EXCEPT !.known = TRUE, !.apps = @ \cup {work[h].app}]
  /\ \/ Mounted /\ Pc(h, "run") /\ UNCHANGED astray
     \/ Mounted /\ mount.readOnly /\ Pc(h, "done") /\ UNCHANGED astray   \* EROFS
     \/ ~Mounted /\ Pc(h, "run") /\ astray' = TRUE
  /\ UNCHANGED <<ownDrive, mount, boxes, overlap, tally>>

RunsContainer(h) ==
  /\ Is(h, "run") /\ Pc(h, "done")
  /\ boxes' = [boxes EXCEPT ![work[h].app] = IF BindNow = Nowhere
                 THEN [state |-> "none", bind |-> Nowhere]
                 ELSE [state |-> "running", bind |-> BindNow]]
  /\ UNCHANGED <<ownDrive, mount, claim, astray, overlap, tally>>

\* The app's containers go, and its drive is let go of but kept open.
ReleaseDrive(h) ==
  /\ Is(h, "release") /\ Pc(h, "done")
  /\ boxes' = [boxes EXCEPT ![work[h].app] = [state |-> "none", bind |-> Nowhere]]
  /\ claim' = IF work[h].app \in claim.apps
              THEN [claim EXCEPT !.apps = @ \ {work[h].app}, !.keepOpen = TRUE] ELSE claim
  /\ UNCHANGED <<ownDrive, mount, astray, overlap, tally>>

KeepsOpen(h) ==
  /\ Is(h, "keep") /\ Pc(h, "done")
  /\ claim' = [claim EXCEPT !.known = TRUE, !.keepOpen = TRUE]
  /\ UNCHANGED <<ownDrive, mount, boxes, astray, overlap, tally>>

ProvesMount(h) ==
  /\ Is(h, "prove")
  /\ Pc(h, IF Mounted /\ ~mount.readOnly THEN "root" ELSE "done")
  /\ UNCHANGED <<ownDrive, mount, claim, boxes, astray, overlap, tally>>

\* The folder all files are kept in is made where it is missing, wherever that is.
MakesRoot(h) ==
  /\ Is(h, "root") /\ Pc(h, "write")
  /\ astray' = (astray \/ ~Mounted)
  /\ UNCHANGED <<ownDrive, mount, claim, boxes, overlap, tally>>

WritesFile(h) ==   \* into that folder, or not at all
  /\ Is(h, "write") /\ Pc(h, "done")
  /\ UNCHANGED <<ownDrive, mount, claim, boxes, astray, overlap, tally>>

DriveWork(h) ==
  \/ AttachLooks(h) \/ AttachClears(h) \/ AttachMounts(h) \/ AttachRecords(h)
  \/ RestartsContainers(h) \/ StopsContainers(h) \/ CloseDrive(h) \/ RecordsEject(h)
  \/ Repairs(h) \/ StartsStopped(h)
  \/ PrepareFolders(h) \/ RunsContainer(h) \/ ReleaseDrive(h) \/ KeepsOpen(h)
  \/ ProvesMount(h) \/ MakesRoot(h) \/ WritesFile(h)

DrivesNext ==
  \/ Pull \/ PlugsIn \/ Forget
  \/ BeginEject \/ BeginCheck \/ BeginUse \/ BeginOpen \/ BeginChange
  \/ \E a \in DriveApps : BeginApply(a) \/ BeginRemove(a)
  \/ \E h \in Handlers : DriveWork(h)

DrivesSpec == DrivesInit /\ [][DrivesNext]_driveSpaceVars

(***************************************************************************)
(* Properties.                                                             *)
(***************************************************************************)
Quiet == \A h \in Handlers : ~Working(h)

\* A drive shown as ejected, with nothing in flight, has nothing mounted on it
\* and no running container that reads it, so it may be pulled.
EjectedIsSafeToPull ==
  Quiet /\ ~overlap /\ claim.known /\ claim.ejected
  => ~OpenHere /\ \A a \in DriveApps : boxes[a].state # "running"

\* With nothing in flight and the drive open, a container that runs and claims
\* the drive reads the mount that is there now, not one a pull left behind,
\* unless the drive could not be opened when it was last plugged in.
BoundToTheMount ==
  Quiet /\ ~overlap /\ OpenHere /\ work["plug"].op # "missed"
  => \A a \in claim.apps : boxes[a].state = "running" => boxes[a].bind = mount.id

\* Nothing is ever written to the system disk in the place of the drive.
NothingLandsOnTheSystemDisk == ~astray
=============================================================================
