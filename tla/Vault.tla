-------------------------------- MODULE Vault --------------------------------
(***************************************************************************)
(* The encrypted disk from its first boot on: the layout that power may    *)
(* cut short, the gate every unit holding owner data waits for, the page   *)
(* that opens a locked disk, the security chip and what it must be given,  *)
(* and the copy of the recovery key kept until the owner has saved theirs. *)
(* The gate ends before the agent starts; the agent takes one attempt at a *)
(* time; Suite Manager's requests and the owner's two tabs interleave.     *)
(***************************************************************************)
EXTENDS Naturals, FiniteSets

CONSTANTS
  Passwords,     \* passwords the owner may choose
  FirstPassword, \* the one this server was set up with
  Tabs,          \* requests of the owner's that may be under way together
  MaxCuts,       \* bound: power cuts
  MaxRefusals,   \* bound: failures of the chip, of a command, of an answer
  MaxRotations,  \* bound: rotations of the recovery key (1 .. 98)
  MaxRequests    \* bound: requests of each tab

VARIABLES
  disk,       \* the partition, the key that opens it, and whether it is open
  descriptor, \* what MOS recorded of the vault and of the chip
  chip,       \* what the chip holds, and whether the machine still measures the same
  gate,       \* how far this boot is
  escrow,     \* the key in the copy on the plaintext partition, 0 for none
  owner,      \* the password Suite Manager accepts, and whether the key was saved
  tabs,       \* what each of the owner's requests does next
  mishaps     \* counters of the bounds

vaultVars == <<disk, descriptor, chip, gate, escrow, owner, tabs, mishaps>>

NoPin == "none"
NoDescriptor == [state |-> "none", mode |-> "automatic", slot |-> "none"]
Unsupported == [NoDescriptor EXCEPT !.state = "unsupported"]
EmptyChip == [holds |-> "nothing", pin |-> NoPin, fits |-> TRUE]
NoChip == [EmptyChip EXCEPT !.holds = "absent"]
OtherKey == 99 \* a well-formed recovery key, of another server
Idle == [step |-> "idle", mode |-> "current", pin |-> NoPin, key |-> 0, done |-> 0]

\* The steps of the first boot: 1 partition, 2 format and open, 3 move the data in,
\* 4 teach the chip, 5 publish the key, 6 keep a copy of it, 7 write the descriptor.

VaultTypeOK ==
  /\ disk.state \in {"blank", "begun", "made", "small"} /\ disk.key \in 1 .. MaxRotations + 1
  /\ descriptor.state \in {"none", "unsupported", "vault"}
  /\ descriptor.mode \in {"automatic", "password"}
  /\ descriptor.slot \in {"none", "enrolled", "needs-repair"}
  /\ chip.holds \in {"absent", "nothing", "key", "key-behind-pin"} /\ chip.pin \in Passwords \cup {NoPin}
  /\ gate \in {"off", "running", "laying", "passed", "refused"} /\ disk.step \in 0 .. 7
  /\ escrow \in 0 .. MaxRotations + 1 /\ owner.password \in Passwords
  /\ \A t \in Tabs : tabs[t].step \in {"idle", "open", "reseal", "teach", "commit", "look",
                                       "repair", "switch"}

VaultInit ==
  /\ disk \in [state : {"blank", "small"}, key : {1}, open : {FALSE}, step : {0}]
  /\ descriptor = NoDescriptor /\ gate = "off" /\ escrow = 0
  /\ chip \in {EmptyChip, NoChip}
  /\ owner = [password |-> FirstPassword, saved |-> FALSE, confirmed |-> FALSE]
  /\ tabs = [t \in Tabs |-> Idle]
  /\ mishaps = [cuts |-> 0, refusals |-> 0, rotations |-> 0]

Refusal == mishaps.refusals < MaxRefusals /\ mishaps' = [mishaps EXCEPT !.refusals = @ + 1]
NoRefusal == UNCHANGED mishaps

(***************************************************************************)
(* The chip.  One enrolment replaces what the chip held; one that fails    *)
(* may have wiped it, and is followed by a wipe that may fail in turn.     *)
(***************************************************************************)
ChipOpens(pin) ==
  /\ chip.fits
  /\ chip.holds = "key" \/ (chip.holds = "key-behind-pin" /\ pin = chip.pin)
Holding(mode, pin) ==
  IF mode = "password" THEN [holds |-> "key-behind-pin", pin |-> pin, fits |-> TRUE]
  ELSE [holds |-> "key", pin |-> NoPin, fits |-> TRUE]
Wiped == [chip EXCEPT !.holds = "nothing", !.pin = NoPin]

Present == descriptor.slot # "none"
Enrolled == descriptor.slot = "enrolled"
WriteChip(mode, slot) ==
  descriptor' = [descriptor EXCEPT !.mode = mode, !.slot = slot]

\* The enrolment is authorised by a key that opens the disk, and recorded.
Enrol(key, mode, pin) ==
  \/ /\ key = disk.key /\ NoRefusal /\ chip' = Holding(mode, pin)
     /\ WriteChip(mode, "enrolled")
  \/ /\ IF key = disk.key THEN Refusal ELSE NoRefusal
     /\ chip' \in {chip, Wiped} /\ WriteChip(mode, "needs-repair")

(***************************************************************************)
(* The first boot: the layout, in this order, each step of which may fail  *)
(* or be the last before power is cut.                                     *)
(***************************************************************************)
PowerOn ==
  /\ gate = "off" /\ gate' = "running"
  /\ UNCHANGED <<disk, descriptor, chip, escrow, owner, tabs, mishaps>>

GateFails == gate' = "refused"

PlanIsNone == disk.state = "small"

CreateVault ==
  /\ gate = "running" /\ descriptor = NoDescriptor
  /\ IF PlanIsNone THEN descriptor' = Unsupported /\ gate' = "passed"
     ELSE IF disk.state = "begun" THEN GateFails /\ UNCHANGED descriptor
     ELSE gate' = "laying" /\ UNCHANGED descriptor
  /\ disk' = [disk EXCEPT !.step = 1]
  /\ UNCHANGED <<chip, escrow, owner, tabs, mishaps>>

\* The chip is taught best effort and always to open by itself; a machine without a
\* chip records none.
EnrolFirst ==
  \/ chip = EmptyChip /\ chip' = Holding("automatic", NoPin) /\ NoRefusal
  \/ chip = EmptyChip /\ Refusal /\ UNCHANGED chip
  \/ chip = NoChip /\ UNCHANGED <<chip, mishaps>>
FirstSlot == CASE chip.holds = "key" -> "enrolled" [] chip.holds = "absent" -> "none"
               [] OTHER -> "needs-repair"

LayOut ==
  /\ gate = "laying"
  /\ disk' = [disk EXCEPT !.state = IF disk.step = 7 THEN "made" ELSE "begun",
                          !.open = @ \/ disk.step > 1, !.step = @ + (IF @ < 7 THEN 1 ELSE 0)]
  /\ IF disk.step = 4 THEN EnrolFirst ELSE UNCHANGED <<chip, mishaps>>
  /\ escrow' = IF disk.step = 6 THEN disk.key ELSE escrow
  /\ IF disk.step = 7
     THEN descriptor' = [state |-> "vault", mode |-> "automatic", slot |-> FirstSlot]
     ELSE UNCHANGED descriptor
  /\ gate' = IF disk.step = 7 THEN "passed" ELSE gate
  /\ UNCHANGED <<owner, tabs>>

LayoutFails ==
  /\ gate = "laying" /\ disk.step < 7 /\ Refusal /\ GateFails
  /\ UNCHANGED <<disk, descriptor, chip, escrow, owner, tabs>>

(***************************************************************************)
(* Opening: the chip where it can answer, behind it the typed key, behind  *)
(* everything the copy.                                                    *)
(***************************************************************************)
ChipTried(pin) == Enrolled /\ (descriptor.mode = "automatic" \/ pin # NoPin)
OpensBy(key, pin) ==
  IF ChipTried(pin) /\ ChipOpens(pin) THEN "chip"
  ELSE IF key # 0 THEN (IF key = disk.key THEN "key" ELSE "refused")
  ELSE IF escrow = disk.key THEN "escrow" ELSE "refused"

\* A slot that cannot be repaired from here waits for a sign-in.
Reseal(key) ==
  IF ~Present THEN UNCHANGED <<chip, descriptor>> /\ NoRefusal
  ELSE IF descriptor.mode = "password"
  THEN WriteChip("password", "needs-repair") /\ UNCHANGED chip /\ NoRefusal
  ELSE Enrol(key, "automatic", NoPin)

\* The gate asks nobody: it opens, or leaves the disk to the page.
GateRuns ==
  /\ gate = "running" /\ descriptor # NoDescriptor
  /\ IF descriptor = Unsupported
     THEN gate' = "passed" /\ UNCHANGED <<disk, chip, descriptor, mishaps>>
     ELSE IF OpensBy(0, NoPin) = "refused"
     THEN GateFails /\ UNCHANGED <<disk, chip, descriptor, mishaps>>
     ELSE /\ gate' = "passed" /\ disk' = [disk EXCEPT !.open = TRUE]
          /\ IF OpensBy(0, NoPin) = "escrow" THEN Reseal(escrow)
             ELSE UNCHANGED <<chip, descriptor, mishaps>>
  /\ UNCHANGED <<escrow, owner, tabs>>

Up == gate \in {"passed", "refused"} /\ descriptor.state = "vault"
At(t, step) == tabs[t].step = step
TabGoes(t, step) == tabs' = [tabs EXCEPT ![t].step = step]
Ends(t) == tabs' = [tabs EXCEPT ![t] = [Idle EXCEPT !.done = tabs[t].done]]
Begin(t, step, mode, pin, key) ==
  /\ At(t, "idle") /\ tabs[t].done < MaxRequests
  /\ tabs' = [tabs EXCEPT ![t] = [step |-> step, mode |-> mode, pin |-> pin, key |-> key,
                                  done |-> @.done + 1]]

\* The page: a password, or a recovery key, which then authorises the reseal.  A disk
\* that is open already asks for neither.
Submit(key, pin) ==
  IF disk.open THEN UNCHANGED <<disk, gate>>
  ELSE /\ OpensBy(key, pin) # "refused"
       /\ disk' = [disk EXCEPT !.open = TRUE] /\ gate' = "passed"
SubmitPassword(t) ==
  /\ Up /\ At(t, "idle") /\ \E p \in Passwords : Submit(0, p)
  /\ UNCHANGED <<descriptor, chip, escrow, owner, tabs, mishaps>>
SubmitKey(t) ==
  /\ Up /\ \E key \in {disk.key, OtherKey} :
       Submit(key, NoPin) /\ Begin(t, "reseal", "current", NoPin, key)
  /\ UNCHANGED <<descriptor, chip, escrow, owner, mishaps>>
PageReseals(t) ==
  /\ Up /\ At(t, "reseal") /\ Reseal(tabs[t].key) /\ Ends(t)
  /\ UNCHANGED <<disk, gate, escrow, owner>>

(***************************************************************************)
(* Teaching the chip: `current` keeps the mode the machine is in.          *)
(***************************************************************************)
Unchanged(mode) == mode = "current" /\ (~Present \/ (descriptor.mode = "automatic" /\ Enrolled))
Wanted(mode) == IF mode = "current" THEN descriptor.mode ELSE mode

EnrolChip(mode, pin) ==
  IF Unchanged(mode) \/ (~Present /\ mode # "current")
  THEN UNCHANGED <<chip, descriptor>> /\ NoRefusal
  ELSE Enrol(disk.key, Wanted(mode), pin)

SuiteRuns == Up /\ disk.open

\* A change of the password: the chip learns it before it becomes the one that signs
\* the owner in, and a chip or an agent that will not never refuses the change.
ChangePassword(t) ==
  /\ SuiteRuns /\ \E p \in Passwords \ {owner.password} : Begin(t, "teach", "current", p, 0)
  /\ UNCHANGED <<disk, descriptor, chip, gate, escrow, owner, mishaps>>
TeachOwnerPassword(t) ==
  /\ SuiteRuns /\ At(t, "teach") /\ TabGoes(t, "commit")
  /\ \/ EnrolChip("current", tabs[t].pin)
     \/ Refusal /\ UNCHANGED <<chip, descriptor>>
  /\ UNCHANGED <<disk, gate, escrow, owner>>
CommitPassword(t) ==
  /\ SuiteRuns /\ At(t, "commit") /\ Ends(t)
  /\ owner' = [owner EXCEPT !.password = tabs[t].pin]
  /\ UNCHANGED <<disk, descriptor, chip, gate, escrow, mishaps>>

\* A sign-in, which does not wait for the repair it asks for.
SignIn(t) ==
  /\ SuiteRuns /\ Begin(t, "look", "current", owner.password, 0)
  /\ UNCHANGED <<disk, descriptor, chip, gate, escrow, owner, mishaps>>
LookAtVault(t) ==
  /\ SuiteRuns /\ At(t, "look")
  /\ IF descriptor.slot = "needs-repair" THEN TabGoes(t, "repair") ELSE Ends(t)
  /\ UNCHANGED <<disk, descriptor, chip, gate, escrow, owner, mishaps>>
RepairOnSignIn(t) ==
  /\ SuiteRuns /\ At(t, "repair") /\ Ends(t)
  /\ EnrolChip("current", tabs[t].pin)
  /\ UNCHANGED <<disk, gate, escrow, owner>>

\* The startup-password switch, refused until the owner holds the recovery key.
SetStartupPassword(t) ==
  /\ SuiteRuns
  /\ \/ Begin(t, "switch", "automatic", NoPin, 0)
     \/ escrow = 0 /\ Begin(t, "switch", "password", owner.password, 0)
  /\ UNCHANGED <<disk, descriptor, chip, gate, escrow, owner, mishaps>>
SwitchMode(t) ==
  /\ SuiteRuns /\ At(t, "switch") /\ Ends(t)
  /\ EnrolChip(tabs[t].mode, tabs[t].pin)
  /\ UNCHANGED <<disk, gate, escrow, owner>>

(***************************************************************************)
(* The recovery key: saved by the owner, replaced by a rotation, and the   *)
(* copy destroyed when the agent next hears that it was saved.             *)
(***************************************************************************)
Acknowledge ==
  /\ SuiteRuns /\ ~owner.saved
  /\ owner' = [owner EXCEPT !.saved = TRUE, !.confirmed = TRUE]
  /\ UNCHANGED <<disk, descriptor, chip, gate, escrow, tabs, mishaps>>
MaySettleAny == escrow # 0 \* mutant: the copy goes whoever asks
MaySettle == escrow # 0 /\ owner.saved
SettleHandover ==
  /\ Up /\ disk.open /\ MaySettle /\ escrow' = 0
  /\ UNCHANGED <<disk, descriptor, chip, gate, owner, tabs, mishaps>>
RotateKey ==
  /\ SuiteRuns /\ mishaps.rotations < MaxRotations
  /\ mishaps' = [mishaps EXCEPT !.rotations = @ + 1]
  /\ disk' = [disk EXCEPT !.key = @ + 1] /\ owner' = [owner EXCEPT !.saved = FALSE]
  /\ UNCHANGED <<descriptor, chip, gate, escrow, tabs>>

(***************************************************************************)
(* Power, which may go between an enrolment and its record, and firmware.  *)
(***************************************************************************)
Teaching == {Holding(Wanted(tabs[t].mode), tabs[t].pin) :
               t \in {t \in Tabs : tabs[t].step \in {"teach", "repair", "switch"} /\ Present
                                  /\ ~Unchanged(tabs[t].mode)}}
PowerCut ==
  /\ gate # "off" /\ mishaps.cuts < MaxCuts
  /\ mishaps' = [mishaps EXCEPT !.cuts = @ + 1] /\ gate' = "off"
  /\ disk' = [disk EXCEPT !.open = FALSE]
  /\ chip' \in {chip} \cup Teaching
  /\ tabs' = [t \in Tabs |-> [Idle EXCEPT !.done = tabs[t].done]]
  /\ UNCHANGED <<descriptor, escrow, owner>>
FirmwareChanges ==
  /\ gate = "off" /\ chip.holds \in {"key", "key-behind-pin"} /\ Refusal
  /\ chip' = [chip EXCEPT !.fits = FALSE]
  /\ UNCHANGED <<disk, descriptor, gate, escrow, owner, tabs>>

TabSteps(t) ==
  \/ SubmitPassword(t) \/ SubmitKey(t) \/ PageReseals(t) \/ ChangePassword(t)
  \/ TeachOwnerPassword(t) \/ CommitPassword(t) \/ SignIn(t) \/ LookAtVault(t)
  \/ RepairOnSignIn(t) \/ SetStartupPassword(t) \/ SwitchMode(t)
VaultNext ==
  \/ PowerOn \/ CreateVault \/ LayOut \/ LayoutFails \/ GateRuns \/ Acknowledge
  \/ SettleHandover \/ RotateKey \/ PowerCut \/ FirmwareChanges
  \/ \E t \in Tabs : TabSteps(t)

VaultSpec == VaultInit /\ [][VaultNext]_vaultVars

-----------------------------------------------------------------------------
\* "Until the owner has confirmed they saved the recovery key, a copy of it sits on the
\* plaintext partition and opens the vault whatever the chip does" (agent-core.cjs:33-35):
\* no cut of power during the first boot leaves a described vault without it.
HandoverWindowOpens ==
  descriptor.state = "vault" /\ ~owner.confirmed => escrow = disk.key

\* A layout that power cut short is never recorded as a disk MOS will not encrypt, which
\* would be permanent (agent-core.cjs create, planLayout).
UnfinishedIsNotUnsupported == descriptor.state = "unsupported" => disk.state = "small"

\* "a password Suite Manager accepts while the disk still wants the previous one is a
\* machine that signs its owner in and then refuses them after a power cut"
\* (setup-service.cjs:239-241): with no request under way, a chip MOS believes enrolled
\* behind a password holds the one that signs the owner in.
ChipFollowsThePassword ==
  (\A t \in Tabs : tabs[t].step = "idle") /\ Enrolled /\ descriptor.mode = "password" =>
    chip.holds = "key-behind-pin" /\ chip.pin = owner.password
=============================================================================
