------------------------- MODULE RecoveryKeysProofs -------------------------
(****************************************************************************)
(* Theorems about RecoveryKeys for any keys, archives and callers: the       *)
(* variables keep their types, and, until a change of the key begins beside  *)
(* another, a key the disk opens with is written down or the owner's.        *)
(* And about SignIn, the other secret the owner holds, for any browsers and  *)
(* passwords: the gate strands nobody and a reset takes its sessions along.  *)
(****************************************************************************)
EXTENDS RecoveryKeys, SignIn, FiniteSetTheorems, SequenceTheorems, TLAPS

USE DEF At, Opens

\* Where a handler and its request carry keys, and that a slot about to be removed
\* is there and is not the last.
Requesting ==
  \A c \in Callers :
    /\ Outstanding(c) => rekey[c].key \in Keys
    /\ ~At(c, "idle") => moving[c] \in Keys
    /\ rekey[c].step = "remove" =>
         /\ rekey[c].old \in Keys
         /\ rekey[c].old # rekey[c].key
         /\ Opens(rekey[c].old) /\ Opens(rekey[c].key)
         /\ \A other \in Callers : rekey[other].step = "remove" => other = c

TypeInv == KeyTypes /\ Requesting

LEMMA Consts ==
  /\ FirstKey \in Keys /\ NoKey \notin Keys
  /\ Generated \subseteq Keys /\ Guests \subseteq Keys
  /\ NoRequest \in RekeyRequests /\ NoRequest.step = "none"
  /\ \A answer \in RekeySteps : /\ [NoRequest EXCEPT !.step = answer] \in RekeyRequests
                                /\ [NoRequest EXCEPT !.step = answer].step = answer
BY FirstKeyAssumption, NoKeyAssumption DEF Keys, NoRequest, RekeyRequests, RekeySteps

LEMMA TypeInit == Init => TypeInv
<1> SUFFICES ASSUME Init PROVE TypeInv
  OBVIOUS
<1>1. disk \in [Keys -> 0..MaxSlots] BY MaxSlotsAssumption DEF Init
<1>2. KeyTypes BY <1>1, Consts DEF Init, KeyTypes, HandlerSteps
<1>3. Requesting BY Consts DEF Init, Requesting, Outstanding
<1> QED BY <1>2, <1>3 DEF TypeInv

\* An answer ends its request, and changes no other.
LEMMA Answering ==
  ASSUME KeyTypes, NEW c \in Callers, NEW answer \in {"ok", "refused"}, Answer(c, answer)
  PROVE  /\ rekey' \in [Callers -> RekeyRequests]
         /\ rekey'[c].step = IF At(c, "rekeying") THEN answer ELSE "none"
         /\ \A d \in Callers \ {c} : rekey'[d] = rekey[d]
<1>1. rekey \in [Callers -> RekeyRequests] BY DEF KeyTypes
<1>2. [NoRequest EXCEPT !.step = answer] \in RekeyRequests /\ NoRequest \in RekeyRequests
  BY Consts DEF RekeySteps
<1> QED BY <1>1, <1>2, Consts DEF Answer, RekeySteps

\* What a caller leaves behind is a request still under way, or none.
LEMMA Receiving ==
  ASSUME KeyTypes, NEW c \in Callers, Receive(c)
  PROVE  /\ rekey' \in [Callers -> RekeyRequests]
         /\ Outstanding(c) => rekey'[c] = rekey[c]
         /\ ~Outstanding(c) => rekey'[c].step = "none"
         /\ \A d \in Callers \ {c} : rekey'[d] = rekey[d]
BY Consts DEF Receive, KeyTypes

LEMMA ReceivingKeepsRequests ==
  ASSUME TypeInv, NEW c \in Callers, Receive(c), disk' = disk,
         \A d \in Callers : handler'[d] # "idle" => moving'[d] \in Keys
  PROVE  Requesting'
<1>1. \A d \in Callers : Outstanding(d)' => rekey'[d] = rekey[d] /\ Outstanding(d)
  BY Receiving DEF TypeInv, Outstanding
<1>2. \A d \in Callers : rekey'[d].step = "remove" => rekey[d].step = "remove"
  BY <1>1 DEF Outstanding
<1> QED BY <1>1, <1>2 DEF TypeInv, Requesting, Outstanding

\* The vault agent's steps.
LEMMA VaultKeepsTypes ==
  ASSUME TypeInv, VaultAgentDies \/ \E c \in Callers : TakeRequest(c) \/ RemoveOldKey(c)
  PROVE  TypeInv'
<1>1. CASE VaultAgentDies
  BY <1>1, Consts
  DEF VaultAgentDies, TypeInv, KeyTypes, Requesting, Outstanding, RekeySteps, fileVars,
      archiveVars, handlerVars
<1>2. ASSUME NEW c \in Callers, TakeRequest(c)
      PROVE  TypeInv'
  <2> DEFINE key == rekey[c].key
  <2>0. key \in Keys /\ keyFile \in Keys /\ rekey[c] \in RekeyRequests
    BY <1>2 DEF TakeRequest, TypeInv, KeyTypes, Requesting, Outstanding
  <2>1. CASE Answer(c, "refused") /\ UNCHANGED disk
    <3>1. KeyTypes'
      BY <1>2, <2>1, Answering DEF TakeRequest, TypeInv, KeyTypes, fileVars, archiveVars,
         handlerVars
    <3> QED
      BY <1>2, <2>1, <3>1, Answering DEF TakeRequest, TypeInv, Requesting, Outstanding,
         handlerVars
  <2>2. CASE Answer(c, "ok") /\ UNCHANGED disk
    <3>1. KeyTypes'
      BY <1>2, <2>2, Answering DEF TakeRequest, TypeInv, KeyTypes, fileVars, archiveVars,
         handlerVars
    <3> QED
      BY <1>2, <2>2, <3>1, Answering DEF TakeRequest, TypeInv, Requesting, Outstanding,
         handlerVars
  <2>3. CASE /\ keyFile # key /\ Authorises(keyFile) /\ disk[key] < MaxSlots
             /\ disk' = [disk EXCEPT ![key] = @ + 1]
             /\ rekey' = [rekey EXCEPT ![c].step = "remove", ![c].old = keyFile]
    <3>0. disk \in [Keys -> 0..MaxSlots] /\ disk[key] \in 0..MaxSlots /\ disk[keyFile] > 0
      BY <2>0, <2>3 DEF TypeInv, KeyTypes, Authorises
    <3>1. disk' \in [Keys -> 0..MaxSlots]
      <4>1. disk[key] + 1 \in 0..MaxSlots
        BY <2>3, <3>0, MaxSlotsAssumption
      <4> QED BY <2>0, <2>3, <3>0, <4>1
    <3>2. disk'[key] > 0 /\ disk'[keyFile] > 0
      BY <2>0, <2>3, <3>0, MaxSlotsAssumption
    <3>3. rekey' \in [Callers -> RekeyRequests]
      BY <2>0, <2>3 DEF TypeInv, KeyTypes, RekeyRequests, RekeySteps
    <3>4. /\ rekey'[c].step = "remove" /\ rekey'[c].old = keyFile /\ rekey'[c].key = key
          /\ \A d \in Callers \ {c} : rekey'[d] = rekey[d]
      BY <2>0, <2>3 DEF TypeInv, KeyTypes, RekeyRequests
    <3>5. \A d \in Callers : rekey[d].step # "remove"
      BY <1>2 DEF TakeRequest
    <3> QED
      BY <1>2, <2>0, <2>3, <3>1, <3>2, <3>3, <3>4, <3>5, SMTT(30)
      DEF TakeRequest, TypeInv, KeyTypes, Requesting, Outstanding, fileVars, archiveVars,
          handlerVars
  <2> QED BY <1>2, <2>1, <2>2, <2>3 DEF TakeRequest
<1>3. ASSUME NEW c \in Callers, RemoveOldKey(c)
      PROVE  TypeInv'
  <2>1. disk' \in [Keys -> 0..MaxSlots]
    <3>1. disk \in [Keys -> 0..MaxSlots] BY DEF TypeInv, KeyTypes
    <3>2. CASE disk' = [disk EXCEPT ![rekey[c].old] = @ - 1]
      <4> DEFINE old == rekey[c].old
      <4>1. old \in Keys /\ disk[old] > 0
        BY <1>3 DEF RemoveOldKey, TypeInv, Requesting
      <4>2. disk[old] - 1 \in 0..MaxSlots
        BY <3>1, <4>1, MaxSlotsAssumption
      <4> QED BY <3>1, <3>2, <4>2
    <3> QED BY <1>3, <3>1, <3>2 DEF RemoveOldKey
  <2>2. rekey' \in [Callers -> RekeyRequests]
    BY <1>3, Consts DEF RemoveOldKey, Answer, TypeInv, KeyTypes, RekeySteps
  <2>3. \A d \in Callers : rekey'[d].step # "remove"
    <3>1. rekey'[c].step # "remove"
      BY <1>3 DEF RemoveOldKey, Answer, NoRequest, TypeInv, KeyTypes, RekeyRequests, RekeySteps
    <3>2. \A d \in Callers \ {c} : rekey'[d] = rekey[d]
      BY <1>3 DEF RemoveOldKey, Answer, TypeInv, KeyTypes
    <3>3. \A d \in Callers \ {c} : rekey[d].step # "remove"
      BY <1>3 DEF RemoveOldKey, TypeInv, Requesting
    <3> QED BY <3>1, <3>2, <3>3
  <2>4. \A d \in Callers : rekey'[d].step = "queued" => rekey'[d] = rekey[d]
    BY <1>3, Consts DEF RemoveOldKey, Answer, TypeInv, KeyTypes, RekeySteps
  <2> QED
    BY <1>3, <2>1, <2>2, <2>3, <2>4
    DEF RemoveOldKey, TypeInv, KeyTypes, Requesting, Outstanding, fileVars, archiveVars,
        handlerVars
<1> QED BY <1>1, <1>2, <1>3

\* A rotation's steps, and the end of the process that takes them.
LEMMA RotationKeepsTypes ==
  ASSUME TypeInv,
         BackupAgentDies \/ \E r \in Requests :
           \/ BeginRotation(r) \/ RotationRefused(r) \/ RotateKey(r)
           \/ WriteRotatedKey(r) \/ DropStaged(r) \/ FinishRotation(r)
  PROVE  TypeInv'
<1> USE DEF TypeInv, KeyTypes, Requesting, Outstanding, HandlerSteps, RekeySteps
<1>1. CASE BackupAgentDies
  BY <1>1, Consts DEF BackupAgentDies, fileVars, archiveVars
<1>2. ASSUME NEW r \in Requests, BeginRotation(r)
      PROVE  TypeInv'
  <2>0. r \in Callers BY DEF Callers
  <2>1. PICK next \in NextKey : staged' = next /\ Send(r, next)
    BY <1>2 DEF BeginRotation
  <2>2. next \in Generated /\ next \in Keys
    BY <2>1, Consts DEF NextKey, Fresh
  <2>3. [step |-> "queued", key |-> next, old |-> NoKey] \in RekeyRequests
    BY <2>2 DEF RekeyRequests
  <2> QED BY <1>2, <2>0, <2>1, <2>2, <2>3, ZenonT(30) DEF BeginRotation, Send, archiveVars
<1>3. ASSUME NEW r \in Requests, RotationRefused(r)
      PROVE  TypeInv'
  BY <1>3, Consts DEF RotationRefused, Callers, Receive, Leave, fileVars, archiveVars
<1>4. ASSUME NEW r \in Requests, RotateKey(r)
      PROVE  TypeInv'
  <2>0. r \in Callers /\ Receive(r) BY <1>4 DEF RotateKey, Callers
  <2>1. superseded' \subseteq Keys BY <1>4 DEF RotateKey, Kept
  <2>2. handler' \in [Callers -> HandlerSteps] /\ moving' = moving
    BY <1>4 DEF RotateKey, GoTo
  <2>3. KeyTypes'
    BY <1>4, <2>0, <2>1, <2>2, Receiving DEF RotateKey, archiveVars
  <2>4. \A d \in Callers : handler'[d] # "idle" => moving'[d] \in Keys
    BY <1>4, <2>2 DEF RotateKey, GoTo
  <2>5. Requesting'
    BY <1>4, <2>0, <2>4, ReceivingKeepsRequests DEF RotateKey
  <2> QED BY <2>3, <2>5
<1>5. ASSUME NEW r \in Requests, WriteRotatedKey(r)
      PROVE  TypeInv'
  BY <1>5 DEF WriteRotatedKey, Callers, GoTo, archiveVars, vaultVars
<1>6. ASSUME NEW r \in Requests, DropStaged(r)
      PROVE  TypeInv'
  BY <1>6 DEF DropStaged, Callers, GoTo, archiveVars, vaultVars
<1>7. ASSUME NEW r \in Requests, FinishRotation(r)
      PROVE  TypeInv'
  <2>1. moving[r] \in Keys BY <1>7 DEF FinishRotation, Callers
  <2>2. acknowledged' \in BOOLEAN BY <1>7, Zenon DEF FinishRotation
  <2>3. known' \subseteq Keys BY <1>7, <2>1 DEF FinishRotation
  <2>4. /\ handler' \in [Callers -> HandlerSteps]
        /\ moving' \in [Callers -> Keys \union {NoKey}]
        /\ \A d \in Callers : handler'[d] # "idle" => handler[d] # "idle" /\ moving'[d] = moving[d]
    BY <1>7 DEF FinishRotation, Leave
  <2> QED BY <1>7, <2>2, <2>3, <2>4 DEF FinishRotation, archiveVars, vaultVars
<1> QED BY <1>1, <1>2, <1>3, <1>4, <1>5, <1>6, <1>7

\* An adoption's steps, and the end of the process that takes them.
LEMMA AdoptionKeepsTypes ==
  ASSUME TypeInv,
         \/ BeginAdoption \/ AdoptionRefused \/ AdoptKey \/ RecordAdoption
         \/ ForgetAdopted \/ RestoreDies
  PROVE  TypeInv'
<1> USE DEF TypeInv, KeyTypes, Requesting, Outstanding, HandlerSteps, RekeySteps
<1>0. Restore \in Callers BY DEF Callers
<1>1. CASE BeginAdoption
  <2>1. guest \in Keys BY <1>1, Consts DEF BeginAdoption
  <2>2. [step |-> "queued", key |-> guest, old |-> NoKey] \in RekeyRequests
    BY <2>1 DEF RekeyRequests
  <2> QED BY <1>0, <1>1, <2>1, <2>2 DEF BeginAdoption, Send, fileVars, archiveVars
<1>2. CASE AdoptionRefused
  BY <1>0, <1>2, Consts DEF AdoptionRefused, Receive, Leave, fileVars, archiveVars
<1>3. CASE AdoptKey
  BY <1>0, <1>3, Consts DEF AdoptKey, Receive, GoTo, archiveVars
<1>4. CASE RecordAdoption
  BY <1>0, <1>4 DEF RecordAdoption, GoTo, archiveVars, vaultVars
<1>5. CASE ForgetAdopted
  BY <1>0, <1>5 DEF ForgetAdopted, Leave, archiveVars, vaultVars
<1>6. CASE RestoreDies
  BY <1>0, <1>6, Consts, ZenonT(30) DEF RestoreDies, Receive, Leave, fileVars, archiveVars
<1> QED BY <1>1, <1>2, <1>3, <1>4, <1>5, <1>6

\* The owner's steps and the archives'.
LEMMA OwnerKeepsTypes ==
  ASSUME TypeInv,
         \/ \E key \in Guests : UnlockArchive(key)
         \/ ForgetGuestKey \/ RevealRecoveryKey \/ Acknowledge
         \/ \E on \in BOOLEAN : SetSchedule(on)
         \/ \E a \in Archives : MakeArchive(a) \/ MigrateArchive(a)
  PROVE  TypeInv'
<1> USE DEF TypeInv, KeyTypes, Requesting, Outstanding
<1>1. ASSUME NEW key \in Guests, UnlockArchive(key)
      PROVE  TypeInv'
  BY <1>1, Consts DEF UnlockArchive, archiveVars, handlerVars, vaultVars
<1>2. CASE ForgetGuestKey \/ RevealRecoveryKey \/ Acknowledge
  BY <1>2
  DEF ForgetGuestKey, RevealRecoveryKey, Acknowledge, fileVars, archiveVars, handlerVars,
      vaultVars
<1>3. ASSUME NEW on \in BOOLEAN, SetSchedule(on)
      PROVE  TypeInv'
  BY <1>3 DEF SetSchedule, fileVars, handlerVars, vaultVars
<1>4. ASSUME NEW a \in Archives, MakeArchive(a) \/ MigrateArchive(a)
      PROVE  TypeInv'
  <2>1. archive' \in [Archives -> SUBSET Keys]
    <3>1. archive[a] \subseteq Keys /\ {keyFile} \subseteq Keys OBVIOUS
    <3>2. CASE MakeArchive(a)
      BY <3>1, <3>2 DEF MakeArchive
    <3>3. CASE MigrateArchive(a)
      <4>1. PICK previous \in superseded \intersect archive[a] :
              archive' \in {[archive EXCEPT ![a] = @ \union {keyFile}],
                           [archive EXCEPT ![a] = (@ \ {previous}) \union {keyFile}]}
        BY <3>3 DEF MigrateArchive
      <4>2. /\ archive[a] \union {keyFile} \in SUBSET Keys
            /\ (archive[a] \ {previous}) \union {keyFile} \in SUBSET Keys
        BY <3>1
      <4>3. CASE archive' = [archive EXCEPT ![a] = @ \union {keyFile}]
        BY <4>2, <4>3
      <4>4. CASE archive' = [archive EXCEPT ![a] = (@ \ {previous}) \union {keyFile}]
        BY <4>2, <4>4
      <4> QED BY <4>1, <4>3, <4>4
    <3> QED BY <1>4, <3>2, <3>3
  <2> QED
    BY <1>4, <2>1
    DEF MakeArchive, MigrateArchive, fileVars, handlerVars, vaultVars
<1> QED BY <1>1, <1>2, <1>3, <1>4

LEMMA StepKeepsTypes == TypeInv /\ [Next]_vars => TypeInv'
<1> SUFFICES ASSUME TypeInv, [Next]_vars PROVE TypeInv'
  OBVIOUS
<1>1. CASE UNCHANGED vars
  BY <1>1 DEF vars, TypeInv, KeyTypes, Requesting, Outstanding
<1> QED
  BY <1>1, VaultKeepsTypes, RotationKeepsTypes, AdoptionKeepsTypes, OwnerKeepsTypes
  DEF Next, KeyStep

\* The files, the disk's slots and the requests of RecoveryKeys keep their types, with
\* any number of rotations and an adoption under way together.
THEOREM TypeCorrect == Spec => []TypeOK
<1>1. TypeInv => KeyTypes BY DEF TypeInv
<1>2. Init => overlapped \in BOOLEAN BY DEF Init
<1>3. overlapped \in BOOLEAN /\ [Next]_vars => (overlapped \in BOOLEAN)'
  BY Zenon DEF Next, NoteOverlaps, vars
<1> QED BY <1>1, <1>2, <1>3, TypeInit, StepKeepsTypes, PTL DEF Spec, TypeOK

------------------------------------------------------------------------------
(* The disk's key, until a change of the key begins beside another. *)

Active(c) == ~At(c, "idle") \/ Outstanding(c)

\* One caller's change of the key is under way.
Solo == \A c, d \in Callers : Active(c) /\ Active(d) => c = d

\* The key a request asks for is in somebody's hands: staged, or typed by its owner.
AskedHeld ==
  /\ \A r \in Requests : Outstanding(r) => rekey[r].key = staged
  /\ Outstanding(Restore) => rekey[Restore].key \in known
  /\ guest # NoKey => guest \in known

\* How far the disk is with the key a handler moves to.
Following ==
  \A c \in Callers :
    /\ At(c, "rekeying") /\ Outstanding(c) => rekey[c].key = moving[c]
    /\ At(c, "rekeying") /\ Answered(c) => Opens(moving[c]) \/ moving[c] = keyFile
    /\ handler[c] \notin {"idle", "rekeying"} => ~Outstanding(c)

\* How far a rotation is with the two files.
Rotating ==
  \A r \in Requests :
    /\ handler[r] \in {"rekeying", "write key", "drop staged"} => moving[r] = staged
    /\ At(r, "write key") => Opens(moving[r])
    /\ At(r, "drop staged") => keyFile = staged

HeldInv == Solo /\ AskedHeld /\ Following /\ Rotating /\ AKeyIsHeld

LEMMA HeldInit == Init => HeldInv
<1> SUFFICES ASSUME Init PROVE HeldInv
  OBVIOUS
<1>1. AKeyIsHeld BY Consts DEF Init, AKeyIsHeld
<1>2. \A c \in Callers : At(c, "idle") /\ ~Outstanding(c)
  BY Consts DEF Init, Outstanding
<1> QED
  BY <1>1, <1>2, RestoreAssumption
  DEF Init, HeldInv, Solo, Active, AskedHeld, Following, Rotating, Callers

\* The vault agent removes a slot only once the key asked for opens the disk.
LEMMA VaultKeepsHeld ==
  ASSUME TypeInv, HeldInv,
         VaultAgentDies \/ \E c \in Callers : TakeRequest(c) \/ RemoveOldKey(c)
  PROVE  HeldInv'
<1> USE DEF HeldInv, Outstanding, Answered
<1>0. /\ handler' = handler /\ moving' = moving /\ keyFile' = keyFile /\ staged' = staged
      /\ guest' = guest /\ known' = known
  BY DEF VaultAgentDies, TakeRequest, RemoveOldKey, fileVars, handlerVars
<1>1. CASE VaultAgentDies
  <2>1. /\ disk' = disk
        /\ \A c \in Callers : Outstanding(c)' => FALSE
        /\ \A c \in Callers : rekey'[c].step = "ok" => rekey[c].step = "ok"
    BY <1>1, Consts DEF VaultAgentDies, RekeySteps
  <2> QED
    BY <1>0, <2>1, RestoreAssumption
    DEF Solo, Active, AskedHeld, Following, Rotating, AKeyIsHeld, Callers
<1>2. ASSUME NEW c \in Callers, TakeRequest(c)
      PROVE  HeldInv'
  <2> DEFINE key == rekey[c].key
  <2>0. key \in Keys /\ rekey[c].step = "queued"
    BY <1>2 DEF TakeRequest, TypeInv, Requesting
  <2>1. \A k \in Keys : Opens(k) => Opens(k)'
    <3>1. CASE UNCHANGED disk
      BY <3>1
    <3>2. CASE disk' = [disk EXCEPT ![key] = @ + 1]
      <4>1. disk \in [Keys -> 0..MaxSlots] /\ disk[key] \in 0..MaxSlots
        BY <2>0 DEF TypeInv, KeyTypes
      <4>2. disk[key] + 1 > 0 BY <4>1, MaxSlotsAssumption
      <4> QED BY <2>0, <3>2, <4>1, <4>2
    <3> QED BY <1>2, <3>1, <3>2 DEF TakeRequest
  <2>2. \A d \in Callers \ {c} : rekey'[d] = rekey[d]
    BY <1>2, Answering DEF TakeRequest, TypeInv, KeyTypes
  <2>3. /\ rekey'[c].step \in {"none", "refused", "ok", "remove"}
        /\ rekey'[c].step = "ok" => keyFile = key \/ Opens(key)
        /\ rekey'[c].step = "remove" => rekey'[c].key = key
    <3>1. CASE Answer(c, "refused")
      BY <3>1, Answering DEF TypeInv
    <3>2. CASE Answer(c, "ok") /\ (keyFile = key \/ (~Authorises(keyFile) /\ Opens(key)))
      BY <3>2, Answering DEF TypeInv
    <3>3. CASE rekey' = [rekey EXCEPT ![c].step = "remove", ![c].old = keyFile]
      BY <3>3 DEF TypeInv, KeyTypes, RekeyRequests
    <3> QED BY <1>2, <3>1, <3>2, <3>3 DEF TakeRequest
  <2>4. AKeyIsHeld'
    BY <1>0, <2>1, Consts DEF AKeyIsHeld, TypeInv, KeyTypes
  <2>5. Solo' /\ AskedHeld'
    BY <1>0, <2>0, <2>2, <2>3, RestoreAssumption DEF Solo, Active, AskedHeld, Callers
  <2>6. Following'
    <3>1. \A d \in Callers : ~At(d, "idle") => moving[d] \in Keys
      BY DEF TypeInv, Requesting
    <3>2. At(c, "rekeying") => key = moving[c] BY <2>0 DEF Following
    <3> QED BY <1>0, <2>0, <2>1, <2>2, <2>3, <3>1, <3>2 DEF Following
  <2>7. Rotating'
    BY <1>0, <2>1 DEF Rotating, TypeInv, Requesting, Callers
  <2> QED BY <2>4, <2>5, <2>6, <2>7
<1>3. ASSUME NEW c \in Callers, RemoveOldKey(c)
      PROVE  HeldInv'
  <2> DEFINE key == rekey[c].key
             old == rekey[c].old
  <2>0. /\ key \in Keys /\ old \in Keys /\ old # key /\ Opens(key)
        /\ rekey[c].step = "remove"
    BY <1>3 DEF RemoveOldKey, TypeInv, Requesting
  <2>1. \A k \in Keys \ {old} : disk'[k] = disk[k]
    BY <1>3, <2>0 DEF RemoveOldKey, TypeInv, KeyTypes
  <2>2. /\ \A d \in Callers \ {c} : rekey'[d] = rekey[d]
        /\ rekey'[c].step \in {"none", "refused", "ok"}
    BY <1>3, Answering DEF RemoveOldKey, TypeInv
  <2>3. \A d \in Callers \ {c} : At(d, "idle") /\ ~Outstanding(d)
    BY <2>0 DEF Solo, Active
  <2>4. key = staged \/ key \in known BY <2>0 DEF AskedHeld, Callers
  <2>5. AKeyIsHeld' BY <1>0, <2>0, <2>1, <2>4, Consts DEF AKeyIsHeld
  <2>6. Solo' /\ AskedHeld'
    BY <1>0, <2>2, <2>3, RestoreAssumption DEF Solo, Active, AskedHeld, Callers
  <2>7. At(c, "rekeying") => key = moving[c] BY <2>0 DEF Following
  <2>8. handler[c] \in {"idle", "rekeying"} BY <2>0 DEF Following
  <2>9. Following'
    BY <1>0, <2>0, <2>1, <2>2, <2>3, <2>7, <2>8 DEF Following
  <2>10. Rotating'
    <3>1. \A r \in Requests : handler[r] \notin {"write key", "drop staged"}
      BY <2>3, <2>8 DEF Callers
    <3> QED BY <1>0, <3>1 DEF Rotating
  <2> QED BY <2>5, <2>6, <2>9, <2>10
<1> QED BY <1>1, <1>2, <1>3

\* A rotation stages its key, moves the disk, writes the key file, and only then
\* lets the staged key go.
LEMMA RotationKeepsHeld ==
  ASSUME TypeInv, HeldInv, NoteOverlaps, ~overlapped',
         BackupAgentDies \/ \E r \in Requests :
           \/ BeginRotation(r) \/ RotationRefused(r) \/ RotateKey(r)
           \/ WriteRotatedKey(r) \/ DropStaged(r) \/ FinishRotation(r)
  PROVE  HeldInv'
<1> USE DEF HeldInv, Outstanding, Answered
<1>1. CASE BackupAgentDies
  <2>1. /\ disk' = disk /\ keyFile' = keyFile /\ staged' = staged /\ guest' = guest
        /\ known' = known
        /\ \A r \in Requests : handler'[r] = "idle"
        /\ handler'[Restore] = handler[Restore] /\ moving'[Restore] = moving[Restore]
        /\ rekey'[Restore] = rekey[Restore]
        /\ \A c \in Callers : Outstanding(c)' => rekey'[c] = rekey[c] /\ Outstanding(c)
    BY <1>1, Consts, RestoreAssumption
    DEF BackupAgentDies, fileVars, Callers
  <2>3. Solo' BY <2>1 DEF Solo, Active, Callers
  <2>4. AskedHeld' BY <2>1 DEF AskedHeld, Callers
  <2>5. Following' BY <2>1 DEF Following, Callers
  <2>6. Rotating' BY <2>1 DEF Rotating, Callers
  <2>7. AKeyIsHeld' BY <2>1 DEF AKeyIsHeld
  <2> QED BY <2>3, <2>4, <2>5, <2>6, <2>7
<1>2. ASSUME NEW r \in Requests, BeginRotation(r)
      PROVE  HeldInv'
  <2>0. r \in Callers /\ r # Restore BY RestoreAssumption DEF Callers
  <2>1. PICK next \in NextKey : staged' = next /\ Send(r, next)
    BY <1>2 DEF BeginRotation
  <2>2. \A c \in Callers : At(c, "idle") /\ ~Outstanding(c)
    <3>1. Begins(r)
      BY <1>2, <2>0, <2>1 DEF BeginRotation, Begins, Send, TypeInv, KeyTypes
    <3> QED BY <2>0, <3>1 DEF NoteOverlaps, Alone
  <2>3. /\ disk' = disk /\ keyFile' = keyFile /\ guest' = guest /\ known' = known
        /\ \A c \in Callers \ {r} : /\ handler'[c] = handler[c] /\ rekey'[c] = rekey[c]
                                   /\ moving'[c] = moving[c]
        /\ handler'[r] = "rekeying" /\ moving'[r] = next
        /\ rekey'[r].step = "queued" /\ rekey'[r].key = next
    BY <1>2, <2>0, <2>1 DEF BeginRotation, Send, TypeInv, KeyTypes
  <2>4. staged = NoKey \/ next = staged BY <2>1 DEF NextKey
  <2>5. AKeyIsHeld' BY <2>1, <2>3, <2>4 DEF AKeyIsHeld
  <2> QED
    BY <2>0, <2>1, <2>2, <2>3, <2>5, ZenonT(30) DEF Solo, Active, AskedHeld, Following, Rotating, Callers
<1>3. ASSUME NEW r \in Requests, RotationRefused(r)
      PROVE  HeldInv'
  <2>0. r \in Callers /\ r # Restore /\ Receive(r)
    BY <1>3, RestoreAssumption DEF RotationRefused, Callers
  <2>1. /\ disk' = disk /\ keyFile' = keyFile /\ staged' = staged /\ guest' = guest
        /\ known' = known
        /\ \A c \in Callers \ {r} : /\ handler'[c] = handler[c] /\ rekey'[c] = rekey[c]
                                   /\ moving'[c] = moving[c]
        /\ handler'[r] = "idle"
        /\ Outstanding(r)' => rekey'[r] = rekey[r] /\ Outstanding(r)
    BY <1>3, <2>0, Receiving DEF RotationRefused, Leave, fileVars, TypeInv, KeyTypes
  <2>3. Solo' BY <2>0, <2>1 DEF Solo, Active, Callers
  <2>4. AskedHeld' BY <2>0, <2>1 DEF AskedHeld, Callers
  <2>5. Following' BY <2>0, <2>1 DEF Following, Callers
  <2>6. Rotating' BY <2>0, <2>1 DEF Rotating, Callers
  <2>7. AKeyIsHeld' BY <2>0, <2>1 DEF AKeyIsHeld
  <2> QED BY <2>3, <2>4, <2>5, <2>6, <2>7
<1>4. ASSUME NEW r \in Requests, RotateKey(r)
      PROVE  HeldInv'
  <2>0. r \in Callers /\ r # Restore /\ Receive(r)
    BY <1>4, RestoreAssumption DEF RotateKey, Callers
  <2>1. /\ disk' = disk /\ keyFile' = keyFile /\ staged' = staged /\ guest' = guest
        /\ known' = known /\ moving' = moving
        /\ \A c \in Callers \ {r} : handler'[c] = handler[c] /\ rekey'[c] = rekey[c]
        /\ handler'[r] = IF moving[r] = keyFile THEN "drop staged" ELSE "write key"
        /\ ~Outstanding(r)'
    BY <1>4, <2>0, Receiving DEF RotateKey, GoTo, TypeInv, KeyTypes
  <2>2. moving[r] = staged /\ (Opens(moving[r]) \/ moving[r] = keyFile)
    BY <1>4, <2>0 DEF RotateKey, Following, Rotating
  <2> QED
    BY <1>4, <2>0, <2>1, <2>2
    DEF RotateKey, Solo, Active, AskedHeld, Following, Rotating, AKeyIsHeld, Callers
<1>5. ASSUME NEW r \in Requests, WriteRotatedKey(r)
      PROVE  HeldInv'
  <2>0. r \in Callers /\ r # Restore BY RestoreAssumption DEF Callers
  <2>1. /\ disk' = disk /\ keyFile' = moving[r] /\ staged' = staged /\ guest' = guest
        /\ known' = known /\ moving' = moving /\ rekey' = rekey
        /\ \A c \in Callers \ {r} : handler'[c] = handler[c]
        /\ handler'[r] = "drop staged"
    BY <1>5, <2>0 DEF WriteRotatedKey, GoTo, vaultVars, TypeInv, KeyTypes
  <2>2. moving[r] = staged /\ Opens(moving[r]) /\ moving[r] \in Keys /\ ~Outstanding(r)
    BY <1>5, <2>0 DEF WriteRotatedKey, Following, Rotating, TypeInv, Requesting
  <2>3. \A c \in Callers \ {r} : At(c, "idle") /\ ~Outstanding(c)
    BY <1>5, <2>0 DEF WriteRotatedKey, Solo, Active
  <2> QED
    BY <2>0, <2>1, <2>2, <2>3, Consts, ZenonT(30)
    DEF Solo, Active, AskedHeld, Following, Rotating, AKeyIsHeld, Callers
<1>6. ASSUME NEW r \in Requests, DropStaged(r)
      PROVE  HeldInv'
  <2>0. r \in Callers /\ r # Restore BY RestoreAssumption DEF Callers
  <2>1. /\ disk' = disk /\ keyFile' = keyFile /\ staged' = NoKey /\ guest' = guest
        /\ known' = known /\ moving' = moving /\ rekey' = rekey
        /\ \A c \in Callers \ {r} : handler'[c] = handler[c]
        /\ handler'[r] = "carry"
    BY <1>6, <2>0 DEF DropStaged, GoTo, vaultVars, TypeInv, KeyTypes
  <2>2. keyFile = staged /\ ~Outstanding(r)
    BY <1>6, <2>0 DEF DropStaged, Following, Rotating
  <2>3. \A c \in Callers \ {r} : At(c, "idle") /\ ~Outstanding(c)
    BY <1>6, <2>0 DEF DropStaged, Solo, Active
  <2> QED
    BY <2>0, <2>1, <2>2, <2>3, ZenonT(30)
    DEF Solo, Active, AskedHeld, Following, Rotating, AKeyIsHeld, Callers
<1>7. ASSUME NEW r \in Requests, FinishRotation(r)
      PROVE  HeldInv'
  <2>0. r \in Callers /\ r # Restore BY RestoreAssumption DEF Callers
  <2>1. /\ disk' = disk /\ keyFile' = keyFile /\ staged' = staged /\ guest' = guest
        /\ known \subseteq known' /\ rekey' = rekey
        /\ \A c \in Callers \ {r} : handler'[c] = handler[c] /\ moving'[c] = moving[c]
        /\ handler'[r] = "idle"
    BY <1>7, <2>0 DEF FinishRotation, Leave, vaultVars, TypeInv, KeyTypes
  <2> QED
    BY <2>0, <2>1, ZenonT(30) DEF Solo, Active, AskedHeld, Following, Rotating, AKeyIsHeld, Callers
<1> QED BY <1>1, <1>2, <1>3, <1>4, <1>5, <1>6, <1>7

\* An adoption moves the disk to a key its owner has typed.
LEMMA AdoptionKeepsHeld ==
  ASSUME TypeInv, HeldInv, NoteOverlaps, ~overlapped',
         \/ BeginAdoption \/ AdoptionRefused \/ AdoptKey \/ RecordAdoption
         \/ ForgetAdopted \/ RestoreDies
  PROVE  HeldInv'
<1> USE DEF HeldInv, Outstanding, Answered
<1>0. Restore \in Callers /\ \A r \in Requests : r # Restore /\ r \in Callers
  BY RestoreAssumption DEF Callers
<1>1. CASE BeginAdoption
  <2>1. \A c \in Callers : At(c, "idle") /\ ~Outstanding(c)
    <3>1. Begins(Restore)
      BY <1>0, <1>1 DEF BeginAdoption, Begins, Send, TypeInv, KeyTypes
    <3> QED BY <1>0, <3>1 DEF NoteOverlaps, Alone
  <2>2. /\ disk' = disk /\ keyFile' = keyFile /\ staged' = staged /\ guest' = guest
        /\ known' = known
        /\ \A c \in Callers \ {Restore} : handler'[c] = handler[c] /\ rekey'[c] = rekey[c]
        /\ handler'[Restore] = "rekeying" /\ moving'[Restore] = guest
        /\ rekey'[Restore].step = "queued" /\ rekey'[Restore].key = guest
    BY <1>0, <1>1 DEF BeginAdoption, Send, fileVars, TypeInv, KeyTypes
  <2> QED
    BY <1>0, <1>1, <2>1, <2>2
    DEF BeginAdoption, Solo, Active, AskedHeld, Following, Rotating, AKeyIsHeld, Callers
<1>2. CASE AdoptionRefused \/ RestoreDies
  <2>1. /\ disk' = disk /\ keyFile' = keyFile /\ staged' = staged /\ guest' = guest
        /\ known' = known
        /\ \A c \in Callers \ {Restore} : /\ handler'[c] = handler[c] /\ rekey'[c] = rekey[c]
                                         /\ moving'[c] = moving[c]
        /\ handler'[Restore] = "idle"
        /\ Outstanding(Restore)' => rekey'[Restore] = rekey[Restore] /\ Outstanding(Restore)
    BY <1>0, <1>2, Receiving
    DEF AdoptionRefused, RestoreDies, Leave, fileVars, TypeInv, KeyTypes
  <2>3. Solo' BY <1>0, <2>1 DEF Solo, Active, Callers
  <2>4. AskedHeld' BY <1>0, <2>1 DEF AskedHeld, Callers
  <2>5. Following' BY <1>0, <2>1 DEF Following, Callers
  <2>6. Rotating' BY <1>0, <2>1 DEF Rotating, Callers
  <2>7. AKeyIsHeld' BY <1>0, <2>1 DEF AKeyIsHeld
  <2> QED BY <2>3, <2>4, <2>5, <2>6, <2>7
<1>3. CASE AdoptKey
  <2>1. /\ disk' = disk /\ keyFile' = moving[Restore] /\ staged' = staged /\ guest' = guest
        /\ known' = known /\ moving' = moving
        /\ \A c \in Callers \ {Restore} : handler'[c] = handler[c] /\ rekey'[c] = rekey[c]
        /\ handler'[Restore] = "record" /\ ~Outstanding(Restore)'
    BY <1>0, <1>3, Receiving DEF AdoptKey, GoTo, TypeInv, KeyTypes
  <2>2. Opens(moving[Restore]) \/ moving[Restore] = keyFile
    BY <1>0, <1>3 DEF AdoptKey, Following
  <2>3. \A c \in Callers \ {Restore} : At(c, "idle") /\ ~Outstanding(c)
    BY <1>0, <1>3 DEF AdoptKey, Solo, Active
  <2>4. moving[Restore] \in Keys
    BY <1>0, <1>3 DEF AdoptKey, TypeInv, Requesting
  <2> QED
    BY <1>0, <2>1, <2>2, <2>3, <2>4, Consts
    DEF Solo, Active, AskedHeld, Following, Rotating, AKeyIsHeld, Callers
<1>4. CASE RecordAdoption \/ ForgetAdopted
  <2>1. /\ disk' = disk /\ keyFile' = keyFile /\ staged' = staged /\ rekey' = rekey
        /\ known' = known /\ (guest' = guest \/ guest' = NoKey)
        /\ \A c \in Callers \ {Restore} : handler'[c] = handler[c] /\ moving'[c] = moving[c]
        /\ handler'[Restore] \in {"forget", "idle"} /\ handler[Restore] \in {"record", "forget"}
    BY <1>0, <1>4
    DEF RecordAdoption, ForgetAdopted, GoTo, Leave, vaultVars, TypeInv, KeyTypes
  <2> QED BY <1>0, <2>1 DEF Solo, Active, AskedHeld, Following, Rotating, AKeyIsHeld, Callers
<1> QED BY <1>1, <1>2, <1>3, <1>4

\* What the owner learns is never unlearned, and the archives are not the disk.
LEMMA OwnerKeepsHeld ==
  ASSUME TypeInv, HeldInv,
         \/ \E key \in Guests : UnlockArchive(key)
         \/ ForgetGuestKey \/ RevealRecoveryKey \/ Acknowledge
         \/ \E on \in BOOLEAN : SetSchedule(on)
         \/ \E a \in Archives : MakeArchive(a) \/ MigrateArchive(a)
         \/ UNCHANGED vars
  PROVE  HeldInv'
<1>1. /\ disk' = disk /\ keyFile' = keyFile /\ staged' = staged /\ rekey' = rekey
      /\ handler' = handler /\ moving' = moving /\ known \subseteq known'
      /\ guest' \in {guest, NoKey} \union known'
  BY DEF UnlockArchive, ForgetGuestKey, RevealRecoveryKey, Acknowledge, SetSchedule,
         MakeArchive, MigrateArchive, vars, fileVars, archiveVars, handlerVars, vaultVars
<1> QED
  BY <1>1
  DEF HeldInv, Outstanding, Answered, Solo, Active, AskedHeld, Following, Rotating, AKeyIsHeld

\* Until a change begins beside another, every step keeps what the one change is at.
LEMMA StepKeepsHeld ==
  TypeInv /\ (~overlapped => HeldInv) /\ [Next]_vars => (~overlapped => HeldInv)'
<1> SUFFICES ASSUME TypeInv, ~overlapped => HeldInv, [Next]_vars, ~overlapped' PROVE HeldInv'
  OBVIOUS
<1>1. HeldInv BY DEF Next, NoteOverlaps, vars
<1>2. CASE UNCHANGED vars
  BY <1>1, <1>2, OwnerKeepsHeld
<1>3. CASE KeyStep /\ NoteOverlaps
  BY <1>1, <1>3, VaultKeepsHeld, RotationKeepsHeld, AdoptionKeepsHeld, OwnerKeepsHeld
  DEF KeyStep
<1> QED BY <1>2, <1>3 DEF Next

\* Whatever is interrupted - the vault agent, the backup agent or a restore, between any
\* two steps of a rotation or an adoption - a key the disk opens with is in the key file,
\* staged for the rotation to resume, or known to the owner, up to the first change of the
\* key that begins while another is under way, which nothing prevents.
THEOREM DiskKeyNeverLost == Spec => []DiskKeyHeld
<1>1. (~overlapped => HeldInv) => DiskKeyHeld
  BY DEF HeldInv, DiskKeyHeld
<1>2. Init => (~overlapped => HeldInv) BY HeldInit
<1> QED BY <1>1, <1>2, TypeInit, StepKeepsTypes, StepKeepsHeld, PTL DEF Spec
------------------------------------------------------------------------------
(* The archives, until a change of the key begins beside another. *)

\* The key a rotation moves to was never replaced by one, and the key it replaces is
\* written down before the key file is overwritten.
Replaced ==
  /\ staged \notin superseded
  /\ \A r \in Requests : At(r, "write key") => keyFile \in superseded

\* The only steps that write what Replaced and EveryArchiveOpens speak of.
LEMMA OthersKeepArchives ==
  ASSUME Replaced, EveryArchiveOpens,
         UNCHANGED <<keyFile, staged, superseded, dropped, archive>>,
         \A r \in Requests : handler'[r] = "write key" => handler[r] = "write key"
  PROVE  Replaced' /\ EveryArchiveOpens'
BY DEF Replaced, EveryArchiveOpens

\* A rotation keeps every key it replaces; a key it goes back to is none of those.
LEMMA RotationKeepsArchives ==
  ASSUME TypeInv, HeldInv, Replaced, EveryArchiveOpens,
         BackupAgentDies \/ \E r \in Requests :
           \/ BeginRotation(r) \/ RotationRefused(r) \/ RotateKey(r)
           \/ WriteRotatedKey(r) \/ DropStaged(r) \/ FinishRotation(r)
  PROVE  Replaced' /\ EveryArchiveOpens'
<1>1. CASE BackupAgentDies
  <2>1. \A r \in Requests : handler'[r] = "idle"
    BY <1>1 DEF BackupAgentDies, Callers
  <2> QED BY <1>1, <2>1, OthersKeepArchives DEF BackupAgentDies, fileVars, archiveVars
<1>2. ASSUME NEW r \in Requests, BeginRotation(r)
      PROVE  Replaced' /\ EveryArchiveOpens'
  <2>1. staged' \notin superseded
    BY <1>2 DEF BeginRotation, NextKey, Fresh, Replaced
  <2>2. \A q \in Requests : handler'[q] = "write key" => handler[q] = "write key"
    BY <1>2 DEF BeginRotation, Send, TypeInv, KeyTypes, Callers
  <2> QED BY <1>2, <2>1, <2>2 DEF BeginRotation, archiveVars, Replaced, EveryArchiveOpens
<1>3. ASSUME NEW r \in Requests, RotationRefused(r) \/ FinishRotation(r)
      PROVE  Replaced' /\ EveryArchiveOpens'
  <2>1. \A q \in Requests : handler'[q] = "write key" => handler[q] = "write key"
    BY <1>3 DEF RotationRefused, FinishRotation, Leave, TypeInv, KeyTypes, Callers
  <2> QED
    BY <1>3, <2>1, OthersKeepArchives DEF RotationRefused, FinishRotation, fileVars, archiveVars
<1>4. ASSUME NEW r \in Requests, RotateKey(r)
      PROVE  Replaced' /\ EveryArchiveOpens'
  <2>1. r \in Callers /\ moving[r] = staged
    BY <1>4 DEF RotateKey, HeldInv, Rotating, Callers
  <2>2. CASE moving[r] = keyFile
    <3>1. UNCHANGED <<keyFile, staged, superseded, dropped, archive>>
      BY <1>4, <2>2 DEF RotateKey, archiveVars
    <3>2. \A q \in Requests : handler'[q] = "write key" => handler[q] = "write key"
      BY <1>4, <2>2 DEF RotateKey, GoTo, TypeInv, KeyTypes, Callers
    <3> QED BY <3>1, <3>2, OthersKeepArchives
  <2>3. CASE moving[r] # keyFile
    <3>1. superseded' = superseded \union {keyFile}
      BY <1>4, <2>1, <2>3 DEF RotateKey, Kept, Replaced
    <3>2. UNCHANGED <<keyFile, staged, dropped, archive>>
      BY <1>4 DEF RotateKey, archiveVars
    <3> QED BY <2>1, <2>3, <3>1, <3>2 DEF Replaced, EveryArchiveOpens
  <2> QED BY <2>2, <2>3
<1>5. ASSUME NEW r \in Requests, WriteRotatedKey(r)
      PROVE  Replaced' /\ EveryArchiveOpens'
  <2>1. \A q \in Requests : handler'[q] # "write key"
    <3>1. \A q \in Requests \ {r} : handler[q] # "write key"
      BY <1>5 DEF WriteRotatedKey, HeldInv, Solo, Active, Callers
    <3> QED BY <1>5, <3>1 DEF WriteRotatedKey, GoTo, TypeInv, KeyTypes, Callers
  <2>2. keyFile \in superseded /\ UNCHANGED <<staged, superseded, dropped, archive>>
    BY <1>5 DEF WriteRotatedKey, archiveVars, Replaced
  <2>3. EveryArchiveOpens' BY <2>2 DEF EveryArchiveOpens
  <2> QED BY <2>1, <2>2, <2>3 DEF Replaced
<1>6. ASSUME NEW r \in Requests, DropStaged(r)
      PROVE  Replaced' /\ EveryArchiveOpens'
  <2>1. staged' \notin superseded
    BY <1>6, Consts DEF DropStaged, TypeInv, KeyTypes
  <2>2. \A q \in Requests : handler'[q] = "write key" => handler[q] = "write key"
    BY <1>6 DEF DropStaged, GoTo, TypeInv, KeyTypes, Callers
  <2> QED BY <1>6, <2>1, <2>2 DEF DropStaged, archiveVars, Replaced, EveryArchiveOpens
<1> QED BY <1>1, <1>2, <1>3, <1>4, <1>5, <1>6

\* An adoption drops the key it overwrites, and runs beside no rotation.
LEMMA AdoptionKeepsArchives ==
  ASSUME TypeInv, HeldInv, Replaced, EveryArchiveOpens,
         \/ BeginAdoption \/ AdoptionRefused \/ AdoptKey \/ RecordAdoption
         \/ ForgetAdopted \/ RestoreDies
  PROVE  Replaced' /\ EveryArchiveOpens'
<1>1. \A q \in Requests : handler'[q] = handler[q]
  BY RestoreAssumption
  DEF BeginAdoption, Send, AdoptionRefused, AdoptKey, RecordAdoption, ForgetAdopted, RestoreDies,
      GoTo, Leave, TypeInv, KeyTypes, Callers
<1>2. CASE ~AdoptKey
  <2>1. UNCHANGED <<keyFile, staged, superseded, dropped, archive>>
    BY <1>2 DEF BeginAdoption, AdoptionRefused, RecordAdoption, ForgetAdopted, RestoreDies,
                fileVars, archiveVars
  <2> QED BY <1>1, <2>1, OthersKeepArchives
<1>3. CASE AdoptKey
  <2>1. \A q \in Requests : handler[q] # "write key"
    <3>1. \A q \in Requests : q \in Callers /\ q # Restore /\ Restore \in Callers
      BY RestoreAssumption DEF Callers
    <3>2. handler[Restore] = "rekeying" BY <1>3 DEF AdoptKey
    <3> QED BY <3>1, <3>2 DEF HeldInv, Solo, Active
  <2>2. keyFile \in {keyFile'} \union dropped' /\ dropped \subseteq dropped'
    BY <1>3 DEF AdoptKey
  <2>3. UNCHANGED <<staged, superseded, archive>>
    BY <1>3 DEF AdoptKey, archiveVars
  <2> QED BY <1>1, <2>1, <2>2, <2>3 DEF Replaced, EveryArchiveOpens
<1> QED BY <1>2, <1>3

\* An archive is made with the key file's key, and moved only to it.
LEMMA OwnerKeepsArchives ==
  ASSUME TypeInv, Replaced, EveryArchiveOpens,
         \/ \E key \in Guests : UnlockArchive(key)
         \/ ForgetGuestKey \/ RevealRecoveryKey \/ Acknowledge
         \/ \E on \in BOOLEAN : SetSchedule(on)
         \/ \E a \in Archives : MakeArchive(a) \/ MigrateArchive(a)
         \/ UNCHANGED vars
  PROVE  Replaced' /\ EveryArchiveOpens'
<1>1. UNCHANGED <<handler, keyFile, staged, superseded, dropped>>
  BY DEF UnlockArchive, ForgetGuestKey, RevealRecoveryKey, Acknowledge, SetSchedule,
         MakeArchive, MigrateArchive, vars, fileVars, handlerVars
<1>2. ASSUME NEW a \in Archives, MakeArchive(a) \/ MigrateArchive(a)
      PROVE  Replaced' /\ EveryArchiveOpens'
  <2>1. keyFile \in archive'[a] /\ \A b \in Archives \ {a} : archive'[b] = archive[b]
    <3>1. archive \in [Archives -> SUBSET Keys] BY DEF TypeInv, KeyTypes
    <3>2. \E keys : archive' = [archive EXCEPT ![a] = keys \union {keyFile}]
      BY <1>2, <3>1 DEF MakeArchive, MigrateArchive
    <3> QED BY <3>1, <3>2
  <2> QED BY <1>1, <2>1 DEF Replaced, EveryArchiveOpens
<1>3. CASE UNCHANGED archive
  BY <1>1, <1>3, OthersKeepArchives
<1> QED
  BY <1>2, <1>3
  DEF UnlockArchive, ForgetGuestKey, RevealRecoveryKey, Acknowledge, SetSchedule, vars, fileVars,
      archiveVars

\* An archive of this server always opens with the key file, with a key a rotation kept
\* for it, or with one an adoption overwrote, wherever a rotation or an adoption was
\* interrupted, up to the first change of the key that begins while another is under way.
THEOREM RotationStrandsNoArchive == Spec => []ArchivesOpen
<1> DEFINE Safe == ~overlapped => Replaced /\ EveryArchiveOpens
<1>1. Init => Safe BY DEF Init, Replaced, EveryArchiveOpens, Callers
<1>2. TypeInv /\ (~overlapped => HeldInv) /\ Safe /\ [Next]_vars => Safe'
  <2> SUFFICES ASSUME TypeInv, ~overlapped => HeldInv, Safe, [Next]_vars, ~overlapped'
               PROVE  Replaced' /\ EveryArchiveOpens'
    OBVIOUS
  <2>1. HeldInv /\ Replaced /\ EveryArchiveOpens
    BY DEF Next, NoteOverlaps, vars
  <2>2. CASE VaultAgentDies \/ \E c \in Callers : TakeRequest(c) \/ RemoveOldKey(c)
    BY <2>1, <2>2, OthersKeepArchives
    DEF VaultAgentDies, TakeRequest, RemoveOldKey, fileVars, archiveVars, handlerVars
  <2> QED
    BY <2>1, <2>2, RotationKeepsArchives, AdoptionKeepsArchives, OwnerKeepsArchives
    DEF Next, KeyStep
<1>3. Safe => ArchivesOpen BY DEF ArchivesOpen
<1>4. Init => (~overlapped => HeldInv) BY HeldInit
<1> QED BY <1>1, <1>2, <1>3, <1>4, TypeInit, StepKeepsTypes, StepKeepsHeld, PTL DEF Spec

------------------------------------------------------------------------------
(* The owner's account. *)

(* The gate: who is in it, whatever the requests are.                        *)

\* The browsers of w, each once, hash or wait behind a full gate.
Admits(g, w) ==
  /\ g \in [active : SUBSET Browsers, queue : Seq(Browsers)] /\ IsFiniteSet(g.active)
  /\ Cardinality(g.active) <= MaxConcurrent
  /\ g.queue # <<>> => Cardinality(g.active) = MaxConcurrent
  /\ \A b \in Browsers : b \in w <=> (b \in g.active \/ \E i \in 1 .. Len(g.queue) : g.queue[i] = b)
  /\ \A i \in 1 .. Len(g.queue) : g.queue[i] \notin g.active
  /\ \A i, j \in 1 .. Len(g.queue) : g.queue[i] = g.queue[j] => i = j

InGate(g, b) ==
  IF Cardinality(g.active) < MaxConcurrent
  THEN [g EXCEPT !.active = @ \cup {b}]
  ELSE [g EXCEPT !.queue = Append(@, b)]

LEMMA AdmitsOneMore ==
  ASSUME MaxConcurrent \in Nat, NEW g, NEW w, NEW b \in Browsers, Admits(g, w), b \notin w
  PROVE  Admits(InGate(g, b), w \cup {b})
<1> DEFINE h == InGate(g, b)
<1> SUFFICES Admits(h, w \cup {b})
  OBVIOUS
<1>0. /\ Cardinality(g.active) \in Nat /\ b \notin g.active /\ Len(g.queue) \in Nat
      /\ \A i \in 1 .. Len(g.queue) : g.queue[i] # b /\ g.queue[i] \in Browsers
  BY FS_CardinalityType DEF Admits
<1>1. CASE Cardinality(g.active) < MaxConcurrent
  <2>0. g.queue = <<>> /\ g \in [active : SUBSET Browsers, queue : Seq(Browsers)]
    BY <1>1, <1>0 DEF Admits
  <2>1. h = [active |-> g.active \cup {b}, queue |-> g.queue] /\ g.queue = <<>>
    BY <1>1, <2>0 DEF InGate
  <2>2. IsFiniteSet(g.active \cup {b}) /\ Cardinality(g.active \cup {b}) = Cardinality(g.active) + 1
    BY <1>0, FS_AddElement DEF Admits
  <2>3. h.active = g.active \cup {b} /\ h.queue = <<>> /\ Len(h.queue) = 0
    BY <2>1
  <2>4. h \in [active : SUBSET Browsers, queue : Seq(Browsers)]
    BY <2>1 DEF Admits
  <2>5. ~ \E i \in 1 .. 0 : TRUE OBVIOUS
  <2> HIDE DEF h
  <2>6. \A x \in Browsers : x \in w <=> x \in g.active
    BY <2>1, <2>5 DEF Admits
  <2>7. Cardinality(h.active) <= MaxConcurrent BY <1>0, <1>1, <2>2, <2>3
  <2> QED
    <3>1. h.queue = <<>> BY <2>3
    <3>2. \A x \in Browsers : x \in w \cup {b} <=> (x \in h.active \/ \E i \in 1 .. Len(h.queue) : h.queue[i] = x)
      BY <2>3, <2>5, <2>6
    <3>3. \A i \in 1 .. Len(h.queue) : FALSE BY <2>3, <2>5
    <3>4. IsFiniteSet(h.active) BY <2>2, <2>3
    <3> QED BY ONLY <3>1, <3>2, <3>3, <3>4, <2>4, <2>7 DEF Admits
<1>2. CASE ~(Cardinality(g.active) < MaxConcurrent)
  <2>0. Cardinality(g.active) = MaxConcurrent /\ g \in [active : SUBSET Browsers, queue : Seq(Browsers)]
    BY <1>2, <1>0 DEF Admits
  <2>1. h = [active |-> g.active, queue |-> Append(g.queue, b)] /\ Cardinality(g.active) = MaxConcurrent
    BY <1>2, <2>0 DEF InGate
  <2> DEFINE q == Append(g.queue, b)
  <2>2. /\ q \in Seq(Browsers) /\ Len(q) = Len(g.queue) + 1 /\ q[Len(q)] = b
        /\ \A i \in 1 .. Len(g.queue) : q[i] = g.queue[i]
    BY DEF Admits
  <2>3. \A i \in 1 .. Len(q) : i = Len(q) \/ i \in 1 .. Len(g.queue)
    BY <2>2, <1>0
  <2>4. /\ h.active = g.active /\ h.queue = q
        /\ h \in [active : SUBSET Browsers, queue : Seq(Browsers)]
    BY <2>1, <2>2 DEF Admits
  <2> HIDE DEF h, q
  <2>5. ASSUME NEW x \in Browsers
        PROVE  (\E i \in 1 .. Len(q) : q[i] = x) <=> (x = b \/ \E i \in 1 .. Len(g.queue) : g.queue[i] = x)
    <3>1. \A i \in 1 .. Len(g.queue) : i \in 1 .. Len(q) BY <1>0, <2>2
    <3>2. Len(q) \in 1 .. Len(q) BY <1>0, <2>2
    <3>3. ASSUME NEW i \in 1 .. Len(q), q[i] = x, x # b
          PROVE  i \in 1 .. Len(g.queue) /\ g.queue[i] = x
      BY <2>2, <2>3, <3>3
    <3> QED BY <2>2, <3>1, <3>2, <3>3
  <2>6. \A i, j \in 1 .. Len(q) : q[i] = q[j] => i = j
    <3> SUFFICES ASSUME NEW i \in 1 .. Len(q), NEW j \in 1 .. Len(q), q[i] = q[j] PROVE i = j
      OBVIOUS
    <3> QED BY <1>0, <2>2, <2>3 DEF Admits
  <2>7. \A i \in 1 .. Len(q) : q[i] \notin g.active
    BY <1>0, <2>2, <2>3 DEF Admits
  <2>8. \A x \in Browsers : x \in w \cup {b} <=> (x \in h.active \/ \E i \in 1 .. Len(h.queue) : h.queue[i] = x)
    BY <2>4, <2>5 DEF Admits
  <2> QED BY <2>1, <2>2, <2>4, <2>6, <2>7, <2>8 DEF Admits
<1> QED BY <1>1, <1>2

LEMMA AdmitsOneLess ==
  ASSUME MaxConcurrent \in Nat, NEW g, NEW w, NEW b \in Browsers, Admits(g, w), b \in g.active
  PROVE  Admits(Left(g, b), w \ {b})
<1>0. /\ Cardinality(g.active) \in Nat /\ Len(g.queue) \in Nat
      /\ \A i \in 1 .. Len(g.queue) : g.queue[i] # b /\ g.queue[i] \in Browsers
      /\ IsFiniteSet(g.active \ {b}) /\ Cardinality(g.active \ {b}) = Cardinality(g.active) - 1
  BY FS_CardinalityType, FS_RemoveElement DEF Admits
<1> DEFINE h == Left(g, b)
<1> SUFFICES Admits(h, w \ {b})
  OBVIOUS
<1>1. CASE g.queue = <<>>
  <2>1. h = [active |-> g.active \ {b}, queue |-> <<>>]
    BY <1>1 DEF Left, Admits
  <2>2. h.active = g.active \ {b} /\ h.queue = <<>> /\ Len(h.queue) = 0
    BY <2>1
  <2>3. h \in [active : SUBSET Browsers, queue : Seq(Browsers)]
    BY <2>1 DEF Admits
  <2>4. ~ \E i \in 1 .. 0 : TRUE OBVIOUS
  <2> HIDE DEF h
  <2>5. \A x \in Browsers : x \in w <=> x \in g.active
    BY <1>1, <2>4 DEF Admits
  <2>6. Cardinality(h.active) <= MaxConcurrent /\ IsFiniteSet(h.active)
    BY <1>0, <2>2 DEF Admits
  <2> QED BY <2>2, <2>3, <2>4, <2>5, <2>6 DEF Admits
<1>2. CASE g.queue # <<>>
  <2> DEFINE c == Head(g.queue)
             q == Tail(g.queue)
  <2>1. h = [active |-> (g.active \ {b}) \cup {c}, queue |-> q]
    BY <1>2 DEF Left
  <2>2. /\ c = g.queue[1] /\ c \in Browsers /\ q \in Seq(Browsers) /\ Len(q) = Len(g.queue) - 1
        /\ \A i \in 1 .. Len(q) : q[i] = g.queue[i + 1]
        /\ 1 \in 1 .. Len(g.queue)
    BY <1>0, <1>2 DEF Admits
  <2>3. /\ \A i \in 1 .. Len(q) : i + 1 \in 1 .. Len(g.queue) /\ i + 1 # 1
        /\ \A k \in 1 .. Len(g.queue) : k # 1 => k - 1 \in 1 .. Len(q) /\ (k - 1) + 1 = k
    BY <1>0, <2>2
  <2>a. /\ h.active = (g.active \ {b}) \cup {c} /\ h.queue = q
        /\ h \in [active : SUBSET Browsers, queue : Seq(Browsers)]
    BY <2>1, <2>2 DEF Admits
  <2> HIDE DEF h, c, q
  <2>4. c \notin g.active /\ c # b BY <1>0, <2>2 DEF Admits
  <2>5. IsFiniteSet(h.active) /\ Cardinality(h.active) = Cardinality(g.active)
    <3>1. /\ IsFiniteSet((g.active \ {b}) \cup {c})
          /\ Cardinality((g.active \ {b}) \cup {c}) = Cardinality(g.active \ {b}) + 1
      BY <1>0, <2>4, FS_AddElement
    <3> QED BY <3>1, <1>0, <2>a
  <2>6. \A x \in Browsers : (\E i \in 1 .. Len(g.queue) : g.queue[i] = x)
                             <=> (x = c \/ \E i \in 1 .. Len(q) : q[i] = x)
    <3> TAKE x \in Browsers
    <3>1. ASSUME NEW i \in 1 .. Len(g.queue), g.queue[i] = x, x # c
          PROVE  \E k \in 1 .. Len(q) : q[k] = x
      <4>1. i # 1 /\ i - 1 \in 1 .. Len(q) /\ q[i - 1] = g.queue[i]
        BY <3>1, <2>2, <2>3
      <4> QED BY <3>1, <4>1
    <3> QED BY <3>1, <2>2, <2>3
  <2>7. \A i \in 1 .. Len(q) : q[i] # c /\ q[i] # b /\ q[i] \notin g.active
    <3> TAKE i \in 1 .. Len(q)
    <3>1. q[i] = g.queue[i + 1] /\ i + 1 \in 1 .. Len(g.queue) /\ i + 1 # 1
      BY <2>2, <2>3
    <3>2. g.queue[i + 1] # g.queue[1] BY <2>2, <3>1 DEF Admits
    <3> QED BY <1>0, <2>2, <3>1, <3>2 DEF Admits
  <2>8. \A x \in Browsers : x \in w \ {b} <=> (x \in h.active \/ \E i \in 1 .. Len(h.queue) : h.queue[i] = x)
    BY <2>a, <2>4, <2>6, <2>7 DEF Admits
  <2>9. \A i, j \in 1 .. Len(q) : q[i] = q[j] => i = j
    <3> SUFFICES ASSUME NEW i \in 1 .. Len(q), NEW j \in 1 .. Len(q), q[i] = q[j] PROVE i = j
      OBVIOUS
    <3>1. i + 1 = j + 1 BY <2>2, <2>3 DEF Admits
    <3> QED BY <3>1
  <2> QED BY <1>0, <1>2, <2>a, <2>2, <2>5, <2>7, <2>8, <2>9 DEF Admits
<1> QED BY <1>1, <1>2
------------------------------------------------------------------------------
(* The inductive invariant. *)

Accounts == [password : Passwords, hash : Nat, weak : BOOLEAN, set : Nat, by : Browsers]
Creations == [kind : {"create"}, step : {"hash"}, password : Passwords, secure : BOOLEAN]
Logins == [kind : {"login"}, step : {"verify", "upgrade"}, password : Passwords,
           secure : BOOLEAN, read : Accounts, known : BOOLEAN]
Changes == [kind : {"change"}, step : {"verify", "compare", "teach", "hash"},
            password : Passwords, next : Passwords, secure : BOOLEAN, read : Accounts]
Sessions == [token : Nat, browser : Browsers, password : Passwords, asked : Nat,
             opened : Nat, seen : {"fresh", "due", "over"}]

SignInTypeOK ==
  /\ owner \in Accounts \cup {NoOwner}
  /\ sessions \subseteq Sessions
  /\ jar \in [Browsers -> [https : Nat, http : Nat]]
  /\ request \in [Browsers -> {None} \cup Creations \cup Logins \cup Changes]
  /\ begun \in [Browsers -> {"none", "https", "http"}]
  /\ used \in [issued : Nat, hashes : Nat, restarts : Nat, agings : Nat]

\* The requests that hash or wait for it are the ones in the gate.
Hashing == {b \in Browsers : request[b] # None /\ request[b].step # "teach"}
GateIsFair == Admits(gate, Hashing)

\* A hash says which password it was made of: a request that read an account in force is of
\* the password in force, and one that is to renew a hash is of the password it verified.
AccountIsKnown ==
  /\ owner = NoOwner => sessions = {}
  /\ owner # NoOwner => owner.hash <= used.hashes /\ owner.set <= used.hashes
  /\ \A b \in Browsers :
       request[b].kind \in {"login", "change"} =>
         /\ owner # NoOwner
         /\ request[b].read.hash <= used.hashes /\ request[b].read.set <= used.hashes
         /\ request[b].read.hash = owner.hash => request[b].read.password = owner.password
         /\ request[b].read.set = owner.set => request[b].read.password = owner.password
         /\ request[b].step = "upgrade" => request[b].password = request[b].read.password

\* A token is one browser's, and the cookie a sign-in left behind is of a row that is not over.
CookiesAreOnesOwn ==
  /\ \A s \in sessions : s.token \in 1 .. used.issued
  /\ \A b \in Browsers : jar[b].https <= used.issued /\ jar[b].http <= used.issued
  /\ \A s \in sessions, b \in Browsers :
       s.token = jar[b].https \/ s.token = jar[b].http => s.browser = b
  /\ \A b \in Browsers :
       /\ begun[b] = "https" => \E s \in sessions : s.token = jar[b].https /\ s.seen # "over"
       /\ begun[b] = "http" => \E s \in sessions : s.token = jar[b].http /\ s.seen # "over"

SignInInv ==
  SignInTypeOK /\ GateIsFair /\ AccountIsKnown /\ PasswordTakesItsSessions /\ CookiesAreOnesOwn

LEMMA RequestsHaveKinds ==
  ASSUME SignInTypeOK, NEW b \in Browsers
  PROVE  /\ None.kind = "none"
         /\ request[b] = None <=> request[b].kind = "none"
         /\ request[b].kind = "create" => request[b] \in Creations
         /\ request[b].kind = "login" => request[b] \in Logins
         /\ request[b].kind = "change" => request[b] \in Changes
         /\ request[b].kind \in {"none", "create", "login", "change"}
BY DEF SignInTypeOK, None, Creations, Logins, Changes

\* A request that starts to hash enters the gate, one that has its hash leaves it.
LEMMA RequestEnters ==
  ASSUME MaxConcurrent \in Nat, GateIsFair, SignInTypeOK, NEW b \in Browsers, NEW r,
         request[b] = None \/ request[b].step = "teach", r # None, r.step # "teach",
         request' = [request EXCEPT ![b] = r], gate' = Entered(b)
  PROVE  GateIsFair'
<1>1. Hashing' = Hashing \cup {b} /\ b \notin Hashing
  BY DEF Hashing, SignInTypeOK
<1>2. gate' = InGate(gate, b) BY DEF Entered, InGate
<1> QED BY <1>1, <1>2, AdmitsOneMore DEF GateIsFair

LEMMA RequestLeaves ==
  ASSUME MaxConcurrent \in Nat, GateIsFair, SignInTypeOK, NEW b \in Browsers, NEW r,
         b \in gate.active, r = None \/ r.step = "teach",
         request' = [request EXCEPT ![b] = r], gate' = Left(gate, b)
  PROVE  GateIsFair'
<1>1. Hashing' = Hashing \ {b} BY DEF Hashing, SignInTypeOK
<1> QED BY <1>1, AdmitsOneLess DEF GateIsFair

LEMMA RequestEntersAgain ==
  ASSUME MaxConcurrent \in Nat, GateIsFair, SignInTypeOK, NEW b \in Browsers, NEW r,
         b \in gate.active, r # None, r.step # "teach",
         request' = [request EXCEPT ![b] = r], gate' = LeftAndEntered(b)
  PROVE  GateIsFair'
<1>1. Hashing' = (Hashing \ {b}) \cup {b} BY DEF Hashing, SignInTypeOK
<1>2. Admits(Left(gate, b), Hashing \ {b})
  BY AdmitsOneLess DEF GateIsFair
<1>3. gate' = InGate(Left(gate, b), b) BY DEF LeftAndEntered, InGate
<1>4. Admits(gate', (Hashing \ {b}) \cup {b})
  BY <1>2, <1>3, AdmitsOneMore
<1> QED BY <1>1, <1>4 DEF GateIsFair

LEMMA SignInStarts ==
  ASSUME MaxConcurrent \in Nat, SignInInit
  PROVE  SignInInv
<1>1. SignInTypeOK BY DEF SignInInit, SignInTypeOK
<1>2. \A b \in Browsers : request[b] = None BY DEF SignInInit
<1>3. GateIsFair
  <2>1. gate.active = {} /\ gate.queue = <<>> /\ Len(gate.queue) = 0 /\ Hashing = {}
    BY <1>2 DEF SignInInit, Hashing
  <2>2. gate \in [active : SUBSET Browsers, queue : Seq(Browsers)]
    BY DEF SignInInit
  <2>3. IsFiniteSet({}) /\ Cardinality({}) = 0 BY FS_EmptySet
  <2> QED BY <2>1, <2>2, <2>3 DEF GateIsFair, Admits
<1>4. AccountIsKnown
  BY <1>2, RequestsHaveKinds, <1>1 DEF SignInInit, AccountIsKnown
<1>5. PasswordTakesItsSessions /\ CookiesAreOnesOwn
  BY DEF SignInInit, PasswordTakesItsSessions, CookiesAreOnesOwn
<1> QED BY <1>1, <1>3, <1>4, <1>5 DEF SignInInv

\* A request that starts changes the request, the gate and the mark of the last sign-in.
LEMMA RequestBegins ==
  ASSUME MaxConcurrent \in Nat, SignInInv, NEW b \in Browsers, NEW r, Waits(b, r),
         r \in Creations \cup Logins \cup Changes, r.step # "teach", r.step # "upgrade",
         r.kind \in {"login", "change"} => owner # NoOwner /\ r.read = owner,
         UNCHANGED <<owner, sessions, jar, used>>
  PROVE  SignInInv'
<1>0. r # None /\ r.kind # "none"
  BY DEF None, Creations, Logins, Changes
<1>1. SignInTypeOK' BY DEF SignInInv, SignInTypeOK, Waits
<1>2. GateIsFair' BY <1>0, RequestEnters DEF SignInInv, Waits
<1>3. AccountIsKnown'
  <2>1. /\ request'[b] = r
        /\ \A x \in Browsers \ {b} : request'[x] = request[x]
    BY DEF SignInInv, SignInTypeOK, Waits
  <2> QED BY <2>1 DEF SignInInv, AccountIsKnown
<1>4. PasswordTakesItsSessions'
  BY DEF SignInInv, PasswordTakesItsSessions
<1>5. CookiesAreOnesOwn'
  <2>1. /\ begun'[b] = "none"
        /\ \A x \in Browsers \ {b} : begun'[x] = begun[x]
    BY DEF SignInInv, SignInTypeOK, Waits
  <2> QED BY <2>1 DEF SignInInv, CookiesAreOnesOwn
<1> QED BY <1>1, <1>2, <1>3, <1>4, <1>5 DEF SignInInv

LEMMA AskingKeeps ==
  ASSUME MaxConcurrent \in Nat, SignInInv, NEW b \in Browsers, NEW p \in Passwords,
         NEW q \in Passwords, NEW secure \in BOOLEAN,
         AskCreate(b, p, secure) \/ AskLogin(b, p, secure) \/ AskChange(b, p, q, secure)
  PROVE  SignInInv'
<1>1. CASE AskCreate(b, p, secure)
  <2> DEFINE r == [kind |-> "create", step |-> "hash", password |-> p, secure |-> secure]
  <2>1. r \in Creations /\ r.step = "hash" /\ r.kind = "create"
    BY DEF Creations
  <2>2. Waits(b, r) /\ UNCHANGED <<owner, sessions, jar, used>>
    BY <1>1 DEF AskCreate
  <2> HIDE DEF r
  <2> QED BY <2>1, <2>2, RequestBegins
<1>2. CASE AskLogin(b, p, secure)
  <2> DEFINE r == [kind |-> "login", step |-> "verify", password |-> p, secure |-> secure,
                   read |-> owner, known |-> Contains(knownBrowsers, b)]
  <2>1. owner # NoOwner /\ owner \in Accounts
    BY <1>2 DEF AskLogin, SignInInv, SignInTypeOK
  <2>a. Contains(knownBrowsers, b) \in BOOLEAN
    BY DEF Contains
  <2>2. r \in Logins /\ r.step = "verify" /\ r.kind = "login" /\ r.read = owner
    BY <2>1, <2>a DEF Logins
  <2>3. Waits(b, r) /\ UNCHANGED <<owner, sessions, jar, used>>
    BY <1>2 DEF AskLogin
  <2> HIDE DEF r
  <2> QED BY <2>1, <2>2, <2>3, RequestBegins
<1>3. CASE AskChange(b, p, q, secure)
  <2> DEFINE r == [kind |-> "change", step |-> "verify", password |-> p, next |-> q,
                   secure |-> secure, read |-> owner]
  <2>1. owner # NoOwner /\ owner \in Accounts
    BY <1>3 DEF AskChange, SignInInv, SignInTypeOK
  <2>2. r \in Changes /\ r.step = "verify" /\ r.kind = "change" /\ r.read = owner
    BY <2>1 DEF Changes
  <2>3. Waits(b, r) /\ UNCHANGED <<owner, sessions, jar, used>>
    BY <1>3 DEF AskChange
  <2> HIDE DEF r
  <2> QED BY <2>1, <2>2, <2>3, RequestBegins
<1> QED BY <1>1, <1>2, <1>3

\* What a request leaves of the others: a refusal, or the next hash of the same request.
LEMMA RequestGoesOn ==
  ASSUME SignInInv, NEW b \in Browsers, NEW r, request' = [request EXCEPT ![b] = r],
         \/ r = None
         \/ /\ r \in Logins \cup Changes /\ request[b] # None /\ request[b].kind = r.kind
            /\ r.read = request[b].read
            /\ r.step = "upgrade" => r.password = r.read.password,
         request[b].kind # "create" \/ r = None,
         UNCHANGED <<owner, sessions, jar, begun, used>>
  PROVE  SignInTypeOK' /\ AccountIsKnown' /\ PasswordTakesItsSessions' /\ CookiesAreOnesOwn'
<1>0. /\ None.kind = "none"
      /\ request'[b] = r
      /\ \A x \in Browsers \ {b} : request'[x] = request[x]
  BY DEF None, SignInInv, SignInTypeOK
<1>1. SignInTypeOK' BY DEF SignInInv, SignInTypeOK
<1>2. AccountIsKnown'
  <2>1. CASE r = None
    BY <1>0, <2>1 DEF SignInInv, AccountIsKnown
  <2>2. CASE r # None
    <3>1. request[b].kind \in {"login", "change"}
      BY <2>2 DEF Logins, Changes
    <3> QED BY <1>0, <2>2, <3>1 DEF SignInInv, AccountIsKnown
  <2> QED BY <2>1, <2>2
<1>3. PasswordTakesItsSessions'
  BY DEF SignInInv, PasswordTakesItsSessions
<1>4. CookiesAreOnesOwn' BY DEF SignInInv, CookiesAreOnesOwn
<1> QED BY <1>1, <1>2, <1>3, <1>4

\* A sign-in: a row under a new token, and the cookie of its transport names it.
OpensSession(b, secure, s, kept) ==
  /\ s.token = used.issued + 1 /\ s.browser = b /\ s.seen = "fresh"
  /\ sessions' = kept \cup {s}
  /\ SetCookie(b, secure, used.issued + 1)
  /\ used' \in [issued : Nat, hashes : Nat, restarts : Nat, agings : Nat]
  /\ used'.issued = used.issued + 1
  /\ begun' \in [Browsers -> {"none", "https", "http"}]
  /\ begun'[b] = IF secure THEN "https" ELSE "http"
  /\ \A x \in Browsers \ {b} :
       \/ begun'[x] = "none"
       \/ begun'[x] = begun[x] /\ \A y \in sessions : y.seen # "over" => y \in kept

LEMMA SessionOpens ==
  ASSUME SignInInv, NEW b \in Browsers, NEW secure \in BOOLEAN, NEW s \in Sessions,
         NEW kept \in SUBSET sessions, OpensSession(b, secure, s, kept)
  PROVE  /\ jar' \in [Browsers -> [https : Nat, http : Nat]]
         /\ CookiesAreOnesOwn'
<1>0. /\ jar \in [Browsers -> [https : Nat, http : Nat]] /\ sessions \subseteq Sessions
      /\ used.issued \in Nat /\ used'.issued \in Nat
  BY DEF SignInInv, SignInTypeOK, OpensSession
<1>a. /\ s.token = used.issued + 1 /\ s.browser = b /\ s.seen = "fresh"
      /\ sessions' = kept \cup {s} /\ SetCookie(b, secure, used.issued + 1)
      /\ used'.issued = used.issued + 1
  BY DEF OpensSession
<1>b. /\ begun'[b] = IF secure THEN "https" ELSE "http"
      /\ \A x \in Browsers \ {b} :
           begun'[x] = "none" \/ (begun'[x] = begun[x] /\ \A y \in sessions : y.seen # "over" => y \in kept)
  BY DEF OpensSession
<1>1. /\ jar' \in [Browsers -> [https : Nat, http : Nat]]
      /\ \A x \in Browsers \ {b} : jar'[x] = jar[x]
      /\ secure => jar'[b].https = used.issued + 1 /\ jar'[b].http = jar[b].http
      /\ ~secure => jar'[b].http = used.issued + 1 /\ jar'[b].https = jar[b].https
  <2>1. CASE secure
    <3>1. jar' = [jar EXCEPT ![b] = [jar[b] EXCEPT !.https = used.issued + 1]]
      BY <1>a, <2>1 DEF SetCookie
    <3> QED BY <1>0, <2>1, <3>1
  <2>2. CASE ~secure
    <3>1. jar' = [jar EXCEPT ![b] = [jar[b] EXCEPT !.http = used.issued + 1]]
      BY <1>a, <2>2 DEF SetCookie
    <3> QED BY <1>0, <2>2, <3>1
  <2> QED BY <2>1, <2>2
<1>2. /\ \A y \in sessions : y.token \in Nat /\ y.token # used.issued + 1 /\ y.token \in 1 .. used.issued
      /\ \A x \in Browsers : jar[x].https # used.issued + 1 /\ jar[x].http # used.issued + 1
                             /\ jar[x].https <= used.issued /\ jar[x].http <= used.issued
                             /\ jar[x].https \in Nat /\ jar[x].http \in Nat
  BY <1>0 DEF SignInInv, CookiesAreOnesOwn, Sessions
<1>3. \A y \in sessions' : y.token \in 1 .. used'.issued
  BY <1>0, <1>a, <1>2
<1>4. \A x \in Browsers : jar'[x].https <= used'.issued /\ jar'[x].http <= used'.issued
  <2> TAKE x \in Browsers
  <2>1. CASE x # b
    BY <1>0, <1>a, <1>1, <1>2, <2>1
  <2>2. CASE x = b
    BY <1>0, <1>a, <1>1, <1>2, <2>2
  <2> QED BY <2>1, <2>2
<1>5. \A y \in sessions', x \in Browsers :
        y.token = jar'[x].https \/ y.token = jar'[x].http => y.browser = x
  <2> TAKE y \in sessions', x \in Browsers
  <2>1. CASE y = s
    BY <1>0, <1>a, <1>1, <1>2, <2>1
  <2>2. CASE y \in sessions
    BY <1>0, <1>a, <1>1, <1>2, <2>2 DEF SignInInv, CookiesAreOnesOwn
  <2> QED BY <1>a, <2>1, <2>2
<1>6. ASSUME NEW x \in Browsers
      PROVE  /\ begun'[x] = "https" => \E y \in sessions' : y.token = jar'[x].https /\ y.seen # "over"
             /\ begun'[x] = "http" => \E y \in sessions' : y.token = jar'[x].http /\ y.seen # "over"
  <2>1. CASE x = b
    BY <1>a, <1>b, <1>1, <2>1
  <2>2. CASE x # b
    BY <1>a, <1>b, <1>1, <2>2 DEF SignInInv, CookiesAreOnesOwn
  <2> QED BY <2>1, <2>2
<1> QED BY <1>1, <1>3, <1>4, <1>5, <1>6 DEF CookiesAreOnesOwn

LEMMA CreatingKeeps ==
  ASSUME MaxConcurrent \in Nat, NoOwner \notin Accounts, SignInInv, NEW b \in Browsers, CreateOwner(b)
  PROVE  SignInInv'
<1>0. /\ request[b] \in Creations /\ request[b] # None
      /\ request'= [request EXCEPT ![b] = None] /\ gate' = Left(gate, b) /\ b \in gate.active
  BY RequestsHaveKinds DEF CreateOwner, Refuse, Answers, SignInInv
<1>1. GateIsFair' BY <1>0, RequestLeaves DEF SignInInv
<1>2. CASE owner # NoOwner
  BY <1>0, <1>1, <1>2, RequestGoesOn DEF CreateOwner, Inserts, Refuse, SignInInv
<1>3. CASE owner = NoOwner
  <2> DEFINE s == NewSession(b, request[b].password, used.hashes + 1, used.hashes + 1)
             o == [password |-> request[b].password, hash |-> used.hashes + 1, weak |-> FALSE,
                   set |-> used.hashes + 1, by |-> b]
             r == request[b]
  <2>1. /\ owner' = o /\ sessions' = sessions \cup {s}
        /\ used' = [used EXCEPT !.issued = @ + 1, !.hashes = @ + 1]
    BY <1>3 DEF CreateOwner, Inserts
  <2>p. PICK secure \in BOOLEAN :
          /\ SetCookie(b, secure, used.issued + 1)
          /\ begun' = [begun EXCEPT ![b] = IF secure THEN "https" ELSE "http"]
    BY <1>0, <1>3 DEF CreateOwner, Inserts, Answers, Creations
  <2>2. /\ used \in [issued : Nat, hashes : Nat, restarts : Nat, agings : Nat]
        /\ sessions = {} /\ r.password \in Passwords
        /\ begun \in [Browsers -> {"none", "https", "http"}]
    BY <1>0, <1>3 DEF SignInInv, SignInTypeOK, AccountIsKnown, Creations
  <2>3. /\ used' \in [issued : Nat, hashes : Nat, restarts : Nat, agings : Nat]
        /\ used'.issued = used.issued + 1 /\ used'.hashes = used.hashes + 1
    <3>1. used' = [issued |-> used.issued + 1, hashes |-> used.hashes + 1,
                   restarts |-> used.restarts, agings |-> used.agings]
      BY <2>1, <2>2
    <3>2. used.issued + 1 \in Nat /\ used.hashes + 1 \in Nat /\ used.restarts \in Nat /\ used.agings \in Nat
      BY <2>2
    <3> QED BY <3>1, <3>2
  <2>4. /\ s \in Sessions /\ s.token = used.issued + 1 /\ s.browser = b /\ s.seen = "fresh"
        /\ s.password = r.password /\ s.opened = used.hashes + 1
    BY <2>2 DEF NewSession, Sessions
  <2>5. o \in Accounts /\ o.password = r.password /\ o.hash = used.hashes + 1 /\ o.set = used.hashes + 1
    BY <2>2 DEF Accounts
  <2>6. /\ begun' \in [Browsers -> {"none", "https", "http"}]
        /\ begun'[b] = IF secure THEN "https" ELSE "http"
        /\ \A x \in Browsers \ {b} : begun'[x] = begun[x]
    BY <2>p, <2>2
  <2> HIDE DEF s, o
  <2>7. /\ jar' \in [Browsers -> [https : Nat, http : Nat]] /\ CookiesAreOnesOwn'
    <3>1. sessions \in SUBSET sessions OBVIOUS
    <3>2. \A x \in Browsers \ {b} :
            begun'[x] = "none" \/ (begun'[x] = begun[x] /\ \A y \in sessions : y.seen # "over" => y \in sessions)
      BY <2>6
    <3>3. OpensSession(b, secure, s, sessions)
      BY <2>1, <2>p, <2>3, <2>4, <2>6, <3>1, <3>2 DEF OpensSession
    <3> QED BY <2>4, <3>1, <3>3, SessionOpens
  <2>8. SignInTypeOK'
    BY <1>0, <2>1, <2>2, <2>3, <2>4, <2>5, <2>6, <2>7 DEF SignInInv, SignInTypeOK
  <2>9. AccountIsKnown'
    <3>1. \A x \in Browsers : request'[x].kind \notin {"login", "change"}
      <4> TAKE x \in Browsers
      <4>1. None.kind = "none" BY DEF None
      <4>2. request'[x] = IF x = b THEN None ELSE request[x]
        BY <1>0 DEF SignInInv, SignInTypeOK
      <4> QED BY <1>3, <4>1, <4>2 DEF SignInInv, AccountIsKnown
    <3> QED BY <2>1, <2>2, <2>3, <2>5, <3>1 DEF AccountIsKnown
  <2>10. PasswordTakesItsSessions'
    BY <2>1, <2>2, <2>4, <2>5 DEF PasswordTakesItsSessions
  <2> QED BY <1>1, <2>7, <2>8, <2>9, <2>10 DEF SignInInv
<1> QED BY <1>2, <1>3

\* A sign-in that verified its password ends with a session, of whatever hash it leaves.
LEMMA LoginLands ==
  ASSUME MaxConcurrent \in Nat, NoOwner \notin Accounts, SignInInv, NEW b \in Browsers,
         request[b].kind = "login", request[b].password = request[b].read.password,
         b \in gate.active, gate' = Left(gate, b), StartSession(b),
         used' \in [issued : Nat, hashes : Nat, restarts : Nat, agings : Nat],
         used'.issued = used.issued + 1, used.hashes <= used'.hashes,
         owner \in Accounts, owner' \in Accounts, owner'.password = owner.password, owner'.set = owner.set,
         owner'.hash <= used'.hashes,
         \A x \in Browsers : request[x].kind \in {"login", "change"} /\ request[x].read.hash = owner'.hash
                               => request[x].read.password = owner'.password
  PROVE  SignInInv'
<1> DEFINE r == request[b]
<1>0. r \in Logins /\ request' = [request EXCEPT ![b] = None]
  BY RequestsHaveKinds DEF SignInInv, StartSession, Answers
<1>1. PICK s \in Sessions, secure \in BOOLEAN :
        /\ s.token = used.issued + 1 /\ s.browser = b /\ s.seen = "fresh" /\ s.password = r.password
        /\ s.asked = r.read.set /\ s.opened = owner.set
        /\ sessions' = Swept(sessions) \cup {s}
        /\ SetCookie(b, secure, used.issued + 1)
        /\ begun' = [begun EXCEPT ![b] = IF secure THEN "https" ELSE "http"]
  <2> DEFINE s == NewSession(b, r.password, r.read.set, owner.set)
  <2>1. /\ used.issued + 1 \in Nat /\ r.password \in Passwords /\ r.secure \in BOOLEAN
        /\ r.read.set \in Nat /\ owner.set \in Nat
    BY <1>0 DEF SignInInv, SignInTypeOK, Logins, Accounts
  <2>2. /\ s \in Sessions /\ s.token = used.issued + 1 /\ s.browser = b /\ s.seen = "fresh"
        /\ s.password = r.password /\ s.asked = r.read.set /\ s.opened = owner.set
    BY <2>1 DEF NewSession, Sessions
  <2>3. /\ sessions' = Swept(sessions) \cup {s}
        /\ SetCookie(b, r.secure, used.issued + 1)
        /\ begun' = [begun EXCEPT ![b] = IF r.secure THEN "https" ELSE "http"]
    BY DEF StartSession, Answers
  <2> HIDE DEF r, s
  <2> QED BY <2>1, <2>2, <2>3
<1>2. GateIsFair' BY <1>0, RequestLeaves DEF SignInInv
<1>3. /\ jar' \in [Browsers -> [https : Nat, http : Nat]] /\ CookiesAreOnesOwn'
  <2>1. PICK kept \in SUBSET sessions :
          kept = Swept(sessions) /\ \A y \in sessions : y.seen # "over" => y \in kept
    BY DEF Swept
  <2>2. /\ begun' \in [Browsers -> {"none", "https", "http"}]
        /\ begun'[b] = IF secure THEN "https" ELSE "http"
        /\ \A x \in Browsers \ {b} : begun'[x] = begun[x]
    BY <1>1 DEF SignInInv, SignInTypeOK
  <2>3. \A x \in Browsers \ {b} :
          begun'[x] = "none" \/ (begun'[x] = begun[x] /\ \A y \in sessions : y.seen # "over" => y \in kept)
    BY <2>1, <2>2
  <2>4. /\ s.token = used.issued + 1 /\ s.browser = b /\ s.seen = "fresh"
        /\ sessions' = kept \cup {s}
        /\ SetCookie(b, secure, used.issued + 1)
    BY <1>1, <2>1, Zenon
  <2>5. used' \in [issued : Nat, hashes : Nat, restarts : Nat, agings : Nat] /\ used'.issued = used.issued + 1
    OBVIOUS
  <2>6. OpensSession(b, secure, s, kept)
    BY ONLY <2>2, <2>3, <2>4, <2>5 DEF OpensSession
  <2> QED BY <2>6, SessionOpens
<1>4. SignInTypeOK'
  <2>1. begun' \in [Browsers -> {"none", "https", "http"}]
    BY <1>1 DEF SignInInv, SignInTypeOK
  <2>2. sessions' \subseteq Sessions
    BY <1>1 DEF SignInInv, SignInTypeOK, Swept
  <2> QED BY <1>0, <1>3, <2>1, <2>2 DEF SignInInv, SignInTypeOK
<1>5. AccountIsKnown'
  <2>1. \A x \in Browsers : request'[x] = IF x = b THEN None ELSE request[x]
    BY <1>0 DEF SignInInv, SignInTypeOK
  <2>2. None.kind = "none" BY DEF None
  <2>3. used.hashes \in Nat /\ used'.hashes \in Nat
    BY DEF SignInInv, SignInTypeOK
  <2>4. ASSUME NEW x \in Browsers, request'[x].kind \in {"login", "change"}
        PROVE  /\ owner' # NoOwner
               /\ request'[x].read.hash <= used'.hashes /\ request'[x].read.set <= used'.hashes
               /\ request'[x].read.hash = owner'.hash => request'[x].read.password = owner'.password
               /\ request'[x].read.set = owner'.set => request'[x].read.password = owner'.password
               /\ request'[x].step = "upgrade" => request'[x].password = request'[x].read.password
    <3>1. request'[x] = request[x] BY <2>1, <2>2, <2>4
    <3>2. request[x].read.hash \in Nat /\ request[x].read.set \in Nat
      BY <3>1, <2>4, RequestsHaveKinds DEF SignInInv, Logins, Changes, Accounts
    <3> QED BY <2>3, <2>4, <3>1, <3>2 DEF SignInInv, AccountIsKnown
  <2>5. owner'.set <= used'.hashes
    BY <2>3 DEF SignInInv, AccountIsKnown, Accounts
  <2> QED BY <2>4, <2>5 DEF AccountIsKnown
<1>6. PasswordTakesItsSessions'
  <2>1. \A y \in sessions : y.opened = owner.set /\ (y.asked = owner.set => y.password = owner.password)
    BY DEF SignInInv, PasswordTakesItsSessions
  <2>2. s.opened = owner.set /\ (s.asked = owner.set => s.password = owner.password)
    BY <1>1 DEF SignInInv, AccountIsKnown
  <2>3. \A y \in sessions' : y \in sessions \/ y = s BY <1>1 DEF Swept
  <2> QED BY <2>1, <2>2, <2>3, Zenon DEF PasswordTakesItsSessions
<1> QED BY <1>2, <1>3, <1>4, <1>5, <1>6 DEF SignInInv

LEMMA VerifyingKeeps ==
  ASSUME MaxConcurrent \in Nat, NoOwner \notin Accounts, SignInInv, NEW b \in Browsers, VerifyLogin(b)
  PROVE  SignInInv'
<1> DEFINE r == request[b]
<1>0. /\ r \in Logins /\ r # None /\ r.kind = "login" /\ r.step = "verify" /\ b \in gate.active
      /\ owner # NoOwner /\ owner \in Accounts
      /\ used \in [issued : Nat, hashes : Nat, restarts : Nat, agings : Nat]
  BY RequestsHaveKinds DEF VerifyLogin, SignInInv, SignInTypeOK, AccountIsKnown
<1>1. CASE r.password # r.read.password
  <2>1. gate' = Left(gate, b) /\ Refuse(b) BY <1>1 DEF VerifyLogin
  <2>2. GateIsFair' BY <1>0, <2>1, RequestLeaves DEF SignInInv, Refuse
  <2> QED BY <1>0, <2>1, <2>2, RequestGoesOn DEF SignInInv, Refuse
<1>2. CASE r.password = r.read.password /\ ~r.read.weak
  <2>1. /\ gate' = Left(gate, b) /\ StartSession(b) /\ owner' = owner
        /\ used' = [used EXCEPT !.issued = @ + 1]
    BY <1>2 DEF VerifyLogin
  <2>2. /\ used' \in [issued : Nat, hashes : Nat, restarts : Nat, agings : Nat]
        /\ used'.issued = used.issued + 1 /\ used.hashes <= used'.hashes /\ used'.hashes = used.hashes
    BY <1>0, <2>1
  <2>3. /\ owner.hash <= used'.hashes
        /\ \A x \in Browsers : request[x].kind \in {"login", "change"} /\ request[x].read.hash = owner.hash
                                 => request[x].read.password = owner.password
    BY <1>0, <2>2 DEF SignInInv, AccountIsKnown
  <2> QED BY <1>0, <1>2, <2>1, <2>2, <2>3, LoginLands
<1>3. CASE r.password = r.read.password /\ r.read.weak
  <2> DEFINE u == [r EXCEPT !.step = "upgrade"]
  <2>1. /\ gate' = LeftAndEntered(b) /\ request' = [request EXCEPT ![b] = u]
        /\ UNCHANGED <<owner, sessions, knownBrowsers, jar, begun, used>>
    BY <1>3 DEF VerifyLogin
  <2>2. u \in Logins /\ u.kind = "login" /\ u.read = r.read /\ u.password = r.password /\ u.step = "upgrade"
    BY <1>0 DEF Logins
  <2>3. u # None BY <2>2 DEF None
  <2> HIDE DEF u
  <2>4. GateIsFair'
    BY <1>0, <2>1, <2>2, <2>3, RequestEntersAgain DEF SignInInv
  <2> QED BY <1>0, <1>3, <2>1, <2>2, <2>4, RequestGoesOn DEF SignInInv
<1> QED BY <1>1, <1>2, <1>3

LEMMA UpgradingKeeps ==
  ASSUME MaxConcurrent \in Nat, NoOwner \notin Accounts, SignInInv, NEW b \in Browsers, UpgradeLogin(b)
  PROVE  SignInInv' /\ owner'.password = owner.password /\ owner' # NoOwner /\ owner'.by = owner.by
<1> DEFINE r == request[b]
<1>0. /\ r \in Logins /\ r.kind = "login" /\ b \in gate.active /\ gate' = Left(gate, b) /\ StartSession(b)
      /\ r.password = r.read.password
      /\ r.read.hash = owner.hash => r.password = owner.password
      /\ owner # NoOwner /\ owner \in Accounts
      /\ used \in [issued : Nat, hashes : Nat, restarts : Nat, agings : Nat]
      /\ used' = [used EXCEPT !.issued = @ + 1, !.hashes = @ + 1]
  BY RequestsHaveKinds DEF UpgradeLogin, SignInInv, SignInTypeOK, AccountIsKnown
<1>1. /\ used' \in [issued : Nat, hashes : Nat, restarts : Nat, agings : Nat]
      /\ used'.issued = used.issued + 1 /\ used'.hashes = used.hashes + 1 /\ used.hashes <= used'.hashes
      /\ used.hashes \in Nat
  <2>1. used' = [issued |-> used.issued + 1, hashes |-> used.hashes + 1,
                 restarts |-> used.restarts, agings |-> used.agings]
    BY <1>0
  <2>2. used.issued + 1 \in Nat /\ used.hashes + 1 \in Nat /\ used.restarts \in Nat /\ used.agings \in Nat
    BY <1>0
  <2> QED BY <1>0, <2>1, <2>2
<1>2. /\ owner' \in Accounts /\ owner'.password = owner.password /\ owner'.by = owner.by
      /\ owner'.set = owner.set
      /\ owner' = owner \/ owner'.hash = used.hashes + 1
  <2>1. CASE UpgradeLands(r.read)
    <3> DEFINE o == [password |-> r.password, hash |-> used.hashes + 1, weak |-> FALSE,
                   set |-> owner.set, by |-> owner.by]
    <3>1. owner' = o BY <1>0, <2>1 DEF UpgradeLogin, Accounts
    <3>2. o \in Accounts /\ o.password = r.password /\ o.by = owner.by /\ o.hash = used.hashes + 1
          /\ o.set = owner.set
      BY <1>0, <1>1 DEF Accounts, Logins
    <3> HIDE DEF o
    <3> QED BY <1>0, <2>1, <3>1, <3>2 DEF UpgradeLands
  <2>2. CASE ~UpgradeLands(r.read)
    BY <1>0, <2>2 DEF UpgradeLogin
  <2> QED BY <2>1, <2>2
<1>3. \A x \in Browsers : request[x].kind \in {"login", "change"} =>
        /\ request[x].read.hash \in Nat /\ request[x].read.hash <= used.hashes
        /\ request[x].read.hash = owner.hash => request[x].read.password = owner.password
  BY RequestsHaveKinds DEF SignInInv, AccountIsKnown, Logins, Changes, Accounts
<1>4. /\ owner'.hash <= used'.hashes
      /\ \A x \in Browsers : request[x].kind \in {"login", "change"} /\ request[x].read.hash = owner'.hash
                               => request[x].read.password = owner'.password
  <2>1. CASE owner' = owner
    <3>1. owner.hash <= used.hashes /\ owner.hash \in Nat
      BY <1>0 DEF SignInInv, AccountIsKnown, Accounts
    <3> QED BY <1>1, <1>3, <2>1, <3>1
  <2>2. CASE owner'.hash = used.hashes + 1
    BY <1>1, <1>3, <2>2
  <2> QED BY <1>2, <2>1, <2>2
<1> QED BY <1>0, <1>1, <1>2, <1>4, LoginLands

LEMMA ChangingKeeps ==
  ASSUME MaxConcurrent \in Nat, SignInInv, NEW b \in Browsers, CheckChange(b) \/ TeachVault(b)
  PROVE  SignInInv' /\ owner' = owner
<1> DEFINE r == request[b]
<1>0. /\ r \in Changes /\ r # None /\ r.kind = "change" /\ request[b].kind # "create"
      /\ owner' = owner /\ UNCHANGED <<owner, sessions, jar, begun, used>>
  BY RequestsHaveKinds DEF CheckChange, TeachVault, Refuse, SignInInv
<1>1. ASSUME request' = [request EXCEPT ![b] = None], GateIsFair'
      PROVE  SignInInv'
  BY <1>0, <1>1, RequestGoesOn DEF SignInInv
<1>2. ASSUME NEW step \in {"compare", "teach", "hash"}, request' = [request EXCEPT ![b].step = step]
      PROVE  \E u \in Changes :
               /\ u.step = step /\ u # None
               /\ request' = [request EXCEPT ![b] = u]
               /\ SignInTypeOK' /\ AccountIsKnown' /\ PasswordTakesItsSessions' /\ CookiesAreOnesOwn'
  <2> DEFINE u == [r EXCEPT !.step = step]
  <2>1. request' = [request EXCEPT ![b] = u] BY <1>2
  <2>2. u \in Changes /\ u.kind = "change" /\ u.read = r.read /\ u.step = step
    BY <1>0 DEF Changes
  <2>3. u # None /\ step # "upgrade" BY <2>2 DEF None
  <2> HIDE DEF u
  <2>4. SignInTypeOK' /\ AccountIsKnown' /\ PasswordTakesItsSessions' /\ CookiesAreOnesOwn'
    BY <1>0, <2>1, <2>2, <2>3, RequestGoesOn
  <2> QED BY <2>1, <2>2, <2>3, <2>4
<1>3. CASE CheckChange(b)
  <2>0. b \in gate.active BY <1>3 DEF CheckChange
  <2>1. CASE gate' = Left(gate, b) /\ Refuse(b)
    <3>1. GateIsFair' BY <2>0, <2>1, RequestLeaves DEF SignInInv, Refuse
    <3> QED BY <1>0, <1>1, <2>1, <3>1 DEF Refuse
  <2>2. CASE gate' = LeftAndEntered(b) /\ request' = [request EXCEPT ![b].step = "compare"]
    <3>1. PICK u \in Changes :
            /\ u.step = "compare" /\ u # None
            /\ request' = [request EXCEPT ![b] = u]
            /\ SignInTypeOK' /\ AccountIsKnown' /\ PasswordTakesItsSessions' /\ CookiesAreOnesOwn'
      BY <1>2, <2>2
    <3>2. GateIsFair'
      BY <2>0, <2>2, <3>1, RequestEntersAgain DEF SignInInv
    <3> QED BY <1>0, <3>1, <3>2 DEF SignInInv
  <2>3. CASE gate' = Left(gate, b) /\ request' = [request EXCEPT ![b].step = "teach"]
    <3>1. PICK u \in Changes :
            /\ u.step = "teach" /\ u # None
            /\ request' = [request EXCEPT ![b] = u]
            /\ SignInTypeOK' /\ AccountIsKnown' /\ PasswordTakesItsSessions' /\ CookiesAreOnesOwn'
      BY <1>2, <2>3
    <3>2. GateIsFair' BY <2>0, <2>3, <3>1, RequestLeaves DEF SignInInv
    <3> QED BY <1>0, <3>1, <3>2 DEF SignInInv
  <2> QED BY <1>3, <2>1, <2>2, <2>3 DEF CheckChange
<1>4. CASE TeachVault(b)
  <2>0. r.step = "teach" BY <1>4 DEF TeachVault
  <2>1. CASE gate' = Entered(b) /\ request' = [request EXCEPT ![b].step = "hash"]
    <3>1. PICK u \in Changes :
            /\ u.step = "hash" /\ u # None
            /\ request' = [request EXCEPT ![b] = u]
            /\ SignInTypeOK' /\ AccountIsKnown' /\ PasswordTakesItsSessions' /\ CookiesAreOnesOwn'
      BY <1>2, <2>1
    <3>2. GateIsFair' BY <2>0, <2>1, <3>1, RequestEnters DEF SignInInv
    <3> QED BY <1>0, <3>1, <3>2 DEF SignInInv
  <2>2. CASE gate' = gate /\ Refuse(b)
    <3>1. Hashing' = Hashing
      BY <1>0, <2>0, <2>2 DEF Refuse, Hashing, SignInInv, SignInTypeOK
    <3>2. GateIsFair' BY <2>2, <3>1 DEF GateIsFair, SignInInv
    <3> QED BY <1>0, <1>1, <2>2, <3>2 DEF Refuse
  <2> QED BY <1>4, <2>1, <2>2 DEF TeachVault
<1> QED BY <1>0, <1>3, <1>4

LEMMA ReplacingKeeps ==
  ASSUME MaxConcurrent \in Nat, NoOwner \notin Accounts, SignInInv, NEW b \in Browsers, ReplacePassword(b)
  PROVE  /\ SignInInv' /\ owner' # NoOwner /\ owner'.by = owner.by
         /\ owner'.password = request[b].next /\ request'[b] = None
<1> DEFINE r == request[b]
<1>0. /\ r \in Changes /\ r.kind = "change" /\ b \in gate.active /\ gate' = Left(gate, b)
      /\ owner # NoOwner /\ owner \in Accounts /\ r.next \in Passwords
      /\ used \in [issued : Nat, hashes : Nat, restarts : Nat, agings : Nat]
      /\ used' = [used EXCEPT !.issued = @ + 1, !.hashes = @ + 1]
      /\ request' = [request EXCEPT ![b] = None]
      /\ request'[b] = None
  BY RequestsHaveKinds
  DEF ReplacePassword, SignInInv, SignInTypeOK, AccountIsKnown, Answers, Changes
<1>1. /\ used' \in [issued : Nat, hashes : Nat, restarts : Nat, agings : Nat]
      /\ used'.issued = used.issued + 1 /\ used'.hashes = used.hashes + 1
      /\ used.hashes \in Nat /\ used.issued \in Nat
  <2>1. used' = [issued |-> used.issued + 1, hashes |-> used.hashes + 1,
                 restarts |-> used.restarts, agings |-> used.agings]
    BY <1>0
  <2>2. /\ used.issued + 1 \in Nat /\ used.hashes + 1 \in Nat /\ used.restarts \in Nat
        /\ used.agings \in Nat /\ used.hashes \in Nat /\ used.issued \in Nat
    BY <1>0
  <2> QED BY <2>1, <2>2
<1>2. /\ owner' \in Accounts /\ owner'.password = r.next /\ owner'.by = owner.by
      /\ owner'.hash = used.hashes + 1 /\ owner'.set = used.hashes + 1
  <2> DEFINE o == [password |-> r.next, hash |-> used.hashes + 1, weak |-> FALSE,
                   set |-> used.hashes + 1, by |-> owner.by]
  <2>1. owner' = o BY <1>0 DEF ReplacePassword, Accounts
  <2>2. o \in Accounts /\ o.password = r.next /\ o.by = owner.by /\ o.hash = used.hashes + 1
        /\ o.set = used.hashes + 1
    BY <1>0, <1>1 DEF Accounts
  <2> HIDE DEF o
  <2> QED BY <2>1, <2>2
<1>3. PICK s \in Sessions, secure \in BOOLEAN :
        /\ s.token = used.issued + 1 /\ s.browser = b /\ s.seen = "fresh" /\ s.password = r.next
        /\ s.opened = used.hashes + 1 /\ sessions' = {} \cup {s}
        /\ SetCookie(b, secure, used.issued + 1)
        /\ begun' = [x \in Browsers |-> IF x # b THEN "none" ELSE IF secure THEN "https" ELSE "http"]
  <2> DEFINE s == NewSession(b, r.next, used.hashes + 1, used.hashes + 1)
  <2>1. s \in Sessions /\ s.token = used.issued + 1 /\ s.browser = b /\ s.seen = "fresh" /\ s.password = r.next
        /\ s.opened = used.hashes + 1
    BY <1>0, <1>1 DEF NewSession, Sessions
  <2>2. r.secure \in BOOLEAN BY <1>0 DEF Changes
  <2>3. /\ sessions' = {} \cup {s}
        /\ SetCookie(b, r.secure, used.issued + 1)
        /\ begun' = [x \in Browsers |-> IF x # b THEN "none" ELSE IF r.secure THEN "https" ELSE "http"]
    BY <1>2 DEF ReplacePassword, Answers, SurvivorsOf
  <2> HIDE DEF r, s
  <2> QED BY <2>1, <2>2, <2>3
<1>4. /\ begun' \in [Browsers -> {"none", "https", "http"}]
      /\ begun'[b] = IF secure THEN "https" ELSE "http"
      /\ \A x \in Browsers \ {b} : begun'[x] = "none"
  BY <1>3
<1>5. /\ jar' \in [Browsers -> [https : Nat, http : Nat]] /\ CookiesAreOnesOwn'
  <2>1. PICK kept \in SUBSET sessions : kept = {}
    OBVIOUS
  <2>2. sessions' = kept \cup {s} BY <1>3, <2>1
  <2>3. \A x \in Browsers \ {b} :
          begun'[x] = "none" \/ (begun'[x] = begun[x] /\ \A y \in sessions : y.seen # "over" => y \in kept)
    BY <1>4
  <2>4. /\ s.token = used.issued + 1 /\ s.browser = b /\ s.seen = "fresh"
        /\ SetCookie(b, secure, used.issued + 1)
    BY <1>3, Zenon
  <2>5. used' \in [issued : Nat, hashes : Nat, restarts : Nat, agings : Nat] /\ used'.issued = used.issued + 1
    BY <1>1
  <2>6. OpensSession(b, secure, s, kept)
    BY ONLY <1>4, <2>2, <2>3, <2>4, <2>5 DEF OpensSession
  <2> QED BY <2>6, SessionOpens
<1>6. GateIsFair' BY <1>0, RequestLeaves DEF SignInInv
<1>7. SignInTypeOK'
  <2>1. sessions' \subseteq Sessions BY <1>3
  <2> QED BY <1>0, <1>1, <1>2, <1>4, <1>5, <2>1 DEF SignInInv, SignInTypeOK
<1>8. AccountIsKnown'
  <2>1. \A x \in Browsers : request'[x] = IF x = b THEN None ELSE request[x]
    BY <1>0 DEF SignInInv, SignInTypeOK
  <2>2. None.kind = "none" BY DEF None
  <2>3. ASSUME NEW x \in Browsers, request'[x].kind \in {"login", "change"}
        PROVE  /\ owner' # NoOwner
               /\ request'[x].read.hash <= used'.hashes /\ request'[x].read.set <= used'.hashes
               /\ request'[x].read.hash # owner'.hash /\ request'[x].read.set # owner'.set
               /\ request'[x].step = "upgrade" => request'[x].password = request'[x].read.password
    <3>1. request'[x] = request[x] BY <2>1, <2>2, <2>3
    <3>2. /\ request[x].read.hash \in Nat /\ request[x].read.hash <= used.hashes
          /\ request[x].read.set \in Nat /\ request[x].read.set <= used.hashes
      BY <3>1, <2>3, RequestsHaveKinds DEF SignInInv, AccountIsKnown, Logins, Changes, Accounts
    <3> QED BY <1>1, <1>2, <2>3, <3>1, <3>2 DEF SignInInv, AccountIsKnown
  <2> QED BY <1>1, <1>2, <2>3 DEF AccountIsKnown
<1>9. PasswordTakesItsSessions'
  BY <1>2, <1>3 DEF PasswordTakesItsSessions
<1> QED BY <1>0, <1>2, <1>5, <1>6, <1>7, <1>8, <1>9 DEF SignInInv

\* Signing out, a request that is served, time and a restart.
LEMMA LeavingKeeps ==
  ASSUME MaxConcurrent \in Nat, SignInInv, NEW b \in Browsers, NEW secure \in BOOLEAN,
         Logout(b, secure)
  PROVE  SignInInv'
<1> DEFINE t == Sent(b, secure)
<1>0. /\ sessions' = {s \in sessions : s.token # t}
      /\ begun' = [begun EXCEPT ![b] = "none"] /\ t # 0
      /\ UNCHANGED <<owner, request, gate, used>>
      /\ t = jar[b].https \/ t = jar[b].http
  BY DEF Logout, Sent
<1>1. /\ jar' \in [Browsers -> [https : Nat, http : Nat]]
      /\ \A x \in Browsers \ {b} : jar'[x] = jar[x]
      /\ jar'[b].https \in {0, jar[b].https} /\ jar'[b].http \in {0, jar[b].http}
  <2>1. CASE secure
    BY <2>1 DEF Logout, SignInInv, SignInTypeOK
  <2>2. CASE ~secure
    BY <2>2 DEF Logout, SignInInv, SignInTypeOK
  <2> QED BY <2>1, <2>2
<1> HIDE DEF t
<1>2. SignInTypeOK' BY <1>0, <1>1 DEF SignInInv, SignInTypeOK
<1>3. GateIsFair' BY <1>0 DEF SignInInv, GateIsFair, Hashing
<1>4. AccountIsKnown' /\ PasswordTakesItsSessions'
  BY <1>0 DEF SignInInv, AccountIsKnown, PasswordTakesItsSessions
<1>5. CookiesAreOnesOwn'
  <2>0. \A s \in sessions : s.token \in 1 .. used.issued /\ s.token # 0
    BY DEF SignInInv, CookiesAreOnesOwn
  <2>1. \A x \in Browsers : jar'[x].https <= used.issued /\ jar'[x].http <= used.issued
    BY <1>1 DEF SignInInv, CookiesAreOnesOwn, SignInTypeOK
  <2>2. \A s \in sessions', x \in Browsers :
          s.token = jar'[x].https \/ s.token = jar'[x].http => s.browser = x
    BY <1>0, <1>1, <2>0 DEF SignInInv, CookiesAreOnesOwn
  <2>3. ASSUME NEW x \in Browsers, x # b
        PROVE  /\ begun'[x] = "https" => \E s \in sessions' : s.token = jar'[x].https /\ s.seen # "over"
               /\ begun'[x] = "http" => \E s \in sessions' : s.token = jar'[x].http /\ s.seen # "over"
    <3>1. begun'[x] = begun[x] /\ jar'[x] = jar[x]
      BY <1>0, <1>1, <2>3 DEF SignInInv, SignInTypeOK
    <3>2. \A s \in sessions : s.token = jar[x].https \/ s.token = jar[x].http => s \in sessions'
      BY <1>0, <2>3 DEF SignInInv, CookiesAreOnesOwn
    <3> QED BY <3>1, <3>2 DEF SignInInv, CookiesAreOnesOwn
  <2>4. begun'[b] = "none" BY <1>0 DEF SignInInv, SignInTypeOK
  <2> QED BY <1>0, <2>0, <2>1, <2>2, <2>3, <2>4 DEF CookiesAreOnesOwn
<1> QED BY <1>2, <1>3, <1>4, <1>5 DEF SignInInv

LEMMA SeenKeeps ==
  ASSUME SignInInv, NEW s \in sessions, NEW age \in {"fresh", "due", "over"},
         sessions' = (sessions \ {s}) \cup {[s EXCEPT !.seen = age]},
         used' \in [issued : Nat, hashes : Nat, restarts : Nat, agings : Nat],
         used'.issued = used.issued, used'.hashes = used.hashes,
         begun' = IF age = "over" THEN [begun EXCEPT ![s.browser] = "none"] ELSE begun,
         UNCHANGED <<owner, jar, request, gate>>
  PROVE  SignInInv'
<1> DEFINE u == [s EXCEPT !.seen = age]
<1>1. /\ u \in Sessions /\ u.token = s.token /\ u.browser = s.browser /\ u.password = s.password
      /\ u.seen = age /\ u.asked = s.asked /\ u.opened = s.opened /\ s.browser \in Browsers
  BY DEF SignInInv, SignInTypeOK, Sessions
<1>2. sessions' = (sessions \ {s}) \cup {u} OBVIOUS
<1> HIDE DEF u
<1>3. SignInTypeOK'
  <2>1. begun' \in [Browsers -> {"none", "https", "http"}]
    BY <1>1 DEF SignInInv, SignInTypeOK
  <2>2. sessions' \subseteq Sessions
    BY <1>1, <1>2 DEF SignInInv, SignInTypeOK
  <2> QED BY <2>1, <2>2 DEF SignInInv, SignInTypeOK
<1>4. GateIsFair' BY DEF SignInInv, GateIsFair, Hashing
<1>5. AccountIsKnown' BY DEF SignInInv, AccountIsKnown
<1>6. PasswordTakesItsSessions'
  <2>1. \A y \in sessions : y.opened = owner.set /\ (y.asked = owner.set => y.password = owner.password)
    BY DEF SignInInv, PasswordTakesItsSessions
  <2>2. u.opened = owner.set /\ (u.asked = owner.set => u.password = owner.password)
    BY <1>1, <2>1, Zenon
  <2>3. \A y \in sessions' : y \in sessions \/ y = u BY <1>2
  <2> QED BY <2>1, <2>2, <2>3, Zenon DEF PasswordTakesItsSessions
<1>7. CookiesAreOnesOwn'
  <2>0. u.token = s.token /\ u.browser = s.browser /\ u.seen = age /\ s.browser \in Browsers
    BY <1>1, Zenon
  <2>1. \A y \in sessions' : y.token \in 1 .. used'.issued
    BY <2>0, <1>2 DEF SignInInv, CookiesAreOnesOwn
  <2>2. \A y \in sessions', x \in Browsers :
          y.token = jar'[x].https \/ y.token = jar'[x].http => y.browser = x
    BY <2>0, <1>2 DEF SignInInv, CookiesAreOnesOwn
  <2>3. ASSUME NEW x \in Browsers, begun'[x] # "none"
        PROVE  begun'[x] = begun[x] /\ (x = s.browser => u.seen # "over")
    BY <2>0, <2>3 DEF SignInInv, SignInTypeOK
  <2>4. ASSUME NEW x \in Browsers, NEW y \in sessions, y.seen # "over", begun'[x] # "none",
               y.token = jar[x].https \/ y.token = jar[x].http
        PROVE  \E z \in sessions' : z.token = y.token /\ z.seen # "over"
    <3>1. y.browser = x BY <2>4 DEF SignInInv, CookiesAreOnesOwn
    <3> QED BY <1>2, <2>0, <2>3, <2>4, <3>1
  <2>5. \A x \in Browsers :
          /\ begun'[x] = "https" => \E y \in sessions' : y.token = jar'[x].https /\ y.seen # "over"
          /\ begun'[x] = "http" => \E y \in sessions' : y.token = jar'[x].http /\ y.seen # "over"
    BY <2>3, <2>4 DEF SignInInv, CookiesAreOnesOwn
  <2> QED BY <2>1, <2>2, <2>5 DEF SignInInv, CookiesAreOnesOwn
<1> QED BY <1>3, <1>4, <1>5, <1>6, <1>7 DEF SignInInv

LEMMA PassingKeeps ==
  ASSUME SignInInv, SessionAges \/ \E b \in Browsers, secure \in BOOLEAN : MarkSeen(b, secure)
  PROVE  SignInInv' /\ owner' = owner
<1>1. CASE SessionAges
  <2>1. PICK s \in sessions, age \in {"due", "over"} :
          /\ sessions' = (sessions \ {s}) \cup {[s EXCEPT !.seen = age]}
          /\ begun' = IF age = "over" THEN [begun EXCEPT ![s.browser] = "none"] ELSE begun
    BY <1>1 DEF SessionAges
  <2>2. /\ used' = [used EXCEPT !.agings = @ + 1] /\ UNCHANGED <<owner, jar, request, gate>>
        /\ used \in [issued : Nat, hashes : Nat, restarts : Nat, agings : Nat]
    BY <1>1 DEF SessionAges, SignInInv, SignInTypeOK
  <2>3. /\ used' \in [issued : Nat, hashes : Nat, restarts : Nat, agings : Nat]
        /\ used'.issued = used.issued /\ used'.hashes = used.hashes
    BY <2>2
  <2> QED BY <2>1, <2>2, <2>3, SeenKeeps
<1>2. ASSUME NEW b \in Browsers, NEW secure \in BOOLEAN, MarkSeen(b, secure)
      PROVE  SignInInv' /\ owner' = owner
  <2>1. PICK s \in sessions : sessions' = (sessions \ {s}) \cup {[s EXCEPT !.seen = "fresh"]}
    BY <1>2 DEF MarkSeen
  <2>2. UNCHANGED <<owner, jar, request, gate, begun, used>>
    BY <1>2 DEF MarkSeen
  <2>3. /\ used' \in [issued : Nat, hashes : Nat, restarts : Nat, agings : Nat]
        /\ used'.issued = used.issued /\ used'.hashes = used.hashes
    BY <2>2 DEF SignInInv, SignInTypeOK
  <2>4. begun' = IF "fresh" = "over" THEN [begun EXCEPT ![s.browser] = "none"] ELSE begun
    BY <2>2
  <2> QED BY <2>1, <2>2, <2>3, <2>4, SeenKeeps
<1> QED BY <1>1, <1>2

LEMMA RestartingKeeps ==
  ASSUME MaxConcurrent \in Nat, NoOwner \notin Accounts, SignInInv, Restart
  PROVE  /\ SignInInv'
         /\ owner # NoOwner => owner' # NoOwner /\ owner'.by = owner.by /\ owner'.password = owner.password
<1>0. /\ used' = [used EXCEPT !.restarts = @ + 1]
      /\ used \in [issued : Nat, hashes : Nat, restarts : Nat, agings : Nat]
      /\ request' = [b \in Browsers |-> None] /\ gate' = [active |-> {}, queue |-> <<>>]
      /\ UNCHANGED <<sessions, jar, begun>>
  BY DEF Restart, SignInInv, SignInTypeOK
<1>1. /\ used' \in [issued : Nat, hashes : Nat, restarts : Nat, agings : Nat]
      /\ used'.issued = used.issued /\ used'.hashes = used.hashes
  BY <1>0
<1>3. ASSUME owner # NoOwner
      PROVE  /\ owner' \in Accounts /\ owner'.by = owner.by /\ owner'.password = owner.password
             /\ owner'.hash = owner.hash /\ owner'.set = owner.set
  <2>0. owner \in Accounts BY <1>3 DEF SignInInv, SignInTypeOK
  <2>1. CASE owner' = owner
    BY <2>0, <2>1
  <2>2. CASE owner' = [owner EXCEPT !.weak = TRUE]
    BY <2>0, <2>2 DEF Accounts
  <2> QED BY <1>3, <2>1, <2>2 DEF Restart
<1>4. owner = NoOwner => owner' = NoOwner BY DEF Restart
<1>5. SignInTypeOK'
  BY <1>0, <1>1, <1>3, <1>4 DEF SignInInv, SignInTypeOK
<1>6. GateIsFair'
  <2>1. gate'.active = {} /\ gate'.queue = <<>> /\ Len(gate'.queue) = 0 /\ Hashing' = {}
    BY <1>0 DEF Hashing
  <2>2. gate' \in [active : SUBSET Browsers, queue : Seq(Browsers)]
    BY <1>0
  <2>3. IsFiniteSet({}) /\ Cardinality({}) = 0 BY FS_EmptySet
  <2> QED BY <2>1, <2>2, <2>3 DEF GateIsFair, Admits
<1>7. AccountIsKnown'
  <2>1. \A b \in Browsers : request'[b].kind = "none" BY <1>0 DEF None
  <2> QED BY <1>0, <1>1, <1>3, <1>4, <2>1 DEF SignInInv, AccountIsKnown
<1>8. PasswordTakesItsSessions'
  <2>1. CASE owner = NoOwner
    BY <1>0, <2>1 DEF SignInInv, AccountIsKnown, PasswordTakesItsSessions
  <2>2. CASE owner # NoOwner
    BY <1>0, <1>3, <2>2 DEF SignInInv, PasswordTakesItsSessions
  <2> QED BY <2>1, <2>2
<1>9. CookiesAreOnesOwn' BY <1>0, <1>1 DEF SignInInv, CookiesAreOnesOwn
<1> QED BY <1>3, <1>5, <1>6, <1>7, <1>8, <1>9 DEF SignInInv

LEMMA SignInSteps ==
  ASSUME MaxConcurrent \in Nat, NoOwner \notin Accounts, SignInInv, [SignInNext]_signInVars
  PROVE  SignInInv' /\ (OwnerDecides \/ UNCHANGED signInVars)
<1>1. CASE UNCHANGED signInVars
  BY <1>1
  DEF signInVars, SignInInv, SignInTypeOK, GateIsFair, Hashing, AccountIsKnown,
      PasswordTakesItsSessions, CookiesAreOnesOwn
<1>2. ASSUME NEW b \in Browsers, NEW p \in Passwords, NEW q \in Passwords, NEW secure \in BOOLEAN,
             AskCreate(b, p, secure) \/ AskLogin(b, p, secure) \/ AskChange(b, p, q, secure)
      PROVE  SignInInv' /\ OwnerDecides
  BY <1>2, AskingKeeps DEF AskCreate, AskLogin, AskChange, OwnerDecides
<1>3. ASSUME NEW b \in Browsers, CreateOwner(b)
      PROVE  SignInInv' /\ OwnerDecides
  <2>1. owner # NoOwner => owner' = owner
    BY <1>3 DEF CreateOwner, Inserts, Refuse
  <2> QED BY <1>3, <2>1, CreatingKeeps DEF OwnerDecides
<1>4. ASSUME NEW b \in Browsers, VerifyLogin(b)
      PROVE  SignInInv' /\ OwnerDecides
  <2>1. owner' = owner BY <1>4 DEF VerifyLogin, Refuse
  <2> QED BY <1>4, <2>1, VerifyingKeeps DEF OwnerDecides
<1>5. ASSUME NEW b \in Browsers, UpgradeLogin(b)
      PROVE  SignInInv' /\ OwnerDecides
  BY <1>5, UpgradingKeeps DEF OwnerDecides
<1>6. ASSUME NEW b \in Browsers, CheckChange(b) \/ TeachVault(b)
      PROVE  SignInInv' /\ OwnerDecides
  BY <1>6, ChangingKeeps DEF OwnerDecides
<1>7. ASSUME NEW b \in Browsers, ReplacePassword(b)
      PROVE  SignInInv' /\ OwnerDecides
  <2>1. request[b].kind = "change" BY <1>7 DEF ReplacePassword
  <2> QED BY <1>7, <2>1, ReplacingKeeps DEF OwnerDecides
<1>8. ASSUME NEW b \in Browsers, NEW secure \in BOOLEAN, Logout(b, secure)
      PROVE  SignInInv' /\ OwnerDecides
  <2>1. owner' = owner BY <1>8 DEF Logout
  <2> QED BY <1>8, <2>1, LeavingKeeps DEF OwnerDecides
<1>9. CASE SessionAges \/ \E b \in Browsers, secure \in BOOLEAN : MarkSeen(b, secure)
  BY <1>9, PassingKeeps DEF OwnerDecides
<1>10. CASE Restart
  BY <1>10, RestartingKeeps DEF OwnerDecides
<1> QED BY <1>1, <1>2, <1>3, <1>4, <1>5, <1>6, <1>7, <1>8, <1>9, <1>10 DEF SignInNext

\* What the invariant says of the gate, the sessions and the cookies.
LEMMA SignInSays ==
  ASSUME SignInInv
  PROVE  GateServesEveryone /\ PasswordTakesItsSessions /\ SignInHolds
<1>1. GateServesEveryone
  <2>1. /\ Cardinality(gate.active) <= MaxConcurrent
        /\ gate.queue # <<>> => Cardinality(gate.active) = MaxConcurrent
    BY DEF SignInInv, GateIsFair, Admits
  <2>2. ASSUME NEW b \in Browsers, request[b] # None, request[b].step # "teach"
        PROVE  (b \in gate.active) # Contains(gate.queue, b)
    <3>1. b \in Hashing BY <2>2 DEF Hashing
    <3>2. /\ b \in gate.active \/ \E i \in 1 .. Len(gate.queue) : gate.queue[i] = b
          /\ \A i \in 1 .. Len(gate.queue) : gate.queue[i] \notin gate.active
      BY <3>1 DEF SignInInv, GateIsFair, Admits
    <3>3. Contains(gate.queue, b) <=> \E i \in 1 .. Len(gate.queue) : gate.queue[i] = b
      BY DEF Contains
    <3>4. b \in gate.active <=> ~Contains(gate.queue, b) BY <3>2, <3>3
    <3> QED BY <3>4
  <2> QED BY <2>1, <2>2 DEF GateServesEveryone
<1>2. SignInHolds
  <2> SUFFICES ASSUME NEW b \in Browsers
               PROVE  /\ begun[b] = "https" => SignedIn(b, TRUE)
                      /\ begun[b] = "http" => SignedIn(b, FALSE)
    BY DEF SignInHolds
  <2>1. ASSUME begun[b] = "https" PROVE SignedIn(b, TRUE)
    <3>1. PICK s \in sessions : s.token = jar[b].https /\ s.seen # "over" /\ s.token \in 1 .. used.issued
      BY <2>1 DEF SignInInv, CookiesAreOnesOwn
    <3>2. jar[b].https # 0 BY <3>1
    <3> QED BY <3>1, <3>2 DEF SignedIn, Live, Sent
  <2>2. ASSUME begun[b] = "http" PROVE SignedIn(b, FALSE)
    <3>1. PICK s \in sessions : s.token = jar[b].http /\ s.seen # "over"
      BY <2>2 DEF SignInInv, CookiesAreOnesOwn
    <3> QED BY <3>1 DEF SignedIn, Live, Sent
  <2> QED BY <2>1, <2>2
<1> QED BY <1>1, <1>2 DEF SignInInv

\* However the requests of any browsers overlap at the hash gate and at the vault: nobody waits
\* beside a free slot, no session outlives a change of the password, none that a sign-in which read
\* the account since then opened is of an earlier password, and a browser that signed in stays signed in over
\* that transport (setup-service.cjs, cookies.cjs).
THEOREM SignInStaysSound ==
  ASSUME MaxConcurrent \in Nat, NoOwner \notin Accounts
  PROVE  SignInSpec => [](GateServesEveryone /\ PasswordTakesItsSessions /\ SignInHolds)
<1>1. SignInInit => SignInInv BY SignInStarts
<1>2. SignInInv /\ [SignInNext]_signInVars => SignInInv' BY SignInSteps
<1>3. SignInInv => GateServesEveryone /\ PasswordTakesItsSessions /\ SignInHolds
  BY SignInSays
<1> QED BY <1>1, <1>2, <1>3, PTL DEF SignInSpec

\* The account keeps its owner for good, and its password changes only by a change the owner
\* asked for: never by a hash upgrade or a creation that was still computing
\* (upgradeOwnerPasswordHash, insertOwner).
THEOREM PasswordStaysTheOwners ==
  ASSUME MaxConcurrent \in Nat, NoOwner \notin Accounts
  PROVE  SignInSpec => PasswordIsTheOwners
<1>1. SignInInit => SignInInv BY SignInStarts
<1>2. SignInInv /\ [SignInNext]_signInVars => SignInInv' /\ [OwnerDecides]_signInVars
  BY SignInSteps
<1> QED BY <1>1, <1>2, PTL DEF SignInSpec, PasswordIsTheOwners
=============================================================================
