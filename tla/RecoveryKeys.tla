---------------------------- MODULE RecoveryKeys ----------------------------
(****************************************************************************)
(* The one key that opens the encrypted disk and the backups this server     *)
(* writes, and the two ways it changes: a rotation asked for by the owner     *)
(* (backup/key-rotation.cjs and engine-restic.cjs) and the adoption at the    *)
(* end of a restore of another server's backup (assumeArchiveKey in           *)
(* backup/agent.cjs, in the restore's own process).  Both ask the vault agent *)
(* (vault/agent-core.cjs, system-adapter.cjs) to move the disk first and      *)
(* write the key file after it; each of the three processes may die between   *)
(* two steps, and an answer of the vault agent may never arrive.  The machine *)
(* is one with an encrypted disk.                                             *)
(****************************************************************************)
EXTENDS Naturals, TLC

CONSTANTS Generated,    \* keys generate() may draw (a bound on the rotations)
          Guests,       \* keys of other servers, as their owner types them
          FirstKey,     \* the key this server was installed with
          NoKey,
          Archives,     \* archives this server makes
          Requests,     \* rotation requests that may be under way together
          Restore,      \* the restore that adopts a key, as a caller of the vault
          MaxSlots      \* how often a key may be on the disk (a bound)

ASSUME FirstKeyAssumption == FirstKey \in Generated
ASSUME NoKeyAssumption == NoKey \notin Generated \union Guests
ASSUME RestoreAssumption == Restore \notin Requests
ASSUME MaxSlotsAssumption == MaxSlots \in Nat \ {0}

Keys == Generated \union Guests
Callers == Requests \union {Restore}

VARIABLES disk,         \* how many slots of the disk each key opens
          keyFile,      \* the key this server uses
          staged,       \* the key a rotation is moving to
          superseded,   \* keys a rotation replaced, kept for archives that were away
          guest,        \* the key entered for another server's archive
          acknowledged, \* the record says the owner has saved the key
          scheduled,    \* backups are taken by the schedule as well
          archive,      \* the keys that open each archive this server made
          handler,      \* what each rotation, and the restore's adoption, does next
          moving,       \* the key each of them moves to
          rekey,        \* each caller's request at the vault agent
          known,        \* keys the owner was shown or has typed
          dropped,      \* keys an adoption overwrote
          overlapped    \* a change of the key has begun beside another (history)

fileVars == <<keyFile, staged, superseded, guest, acknowledged>>
archiveVars == <<archive, scheduled>>
handlerVars == <<handler, moving>>
vaultVars == <<disk, rekey>>
vars == <<disk, keyFile, staged, superseded, guest, acknowledged, scheduled, archive,
          handler, moving, rekey, known, dropped, overlapped>>

HandlerSteps == {"idle", "rekeying", "write", "write key", "drop staged", "carry",
                 "record", "forget"}
RekeySteps == {"none", "queued", "remove", "ok", "refused"}

\* A request carries the key to move to and, once that opens the disk, the one to remove.
RekeyRequests == [step : RekeySteps, key : Keys \union {NoKey}, old : Keys \union {NoKey}]
NoRequest == [step |-> "none", key |-> NoKey, old |-> NoKey]

KeyTypes ==
  /\ disk \in [Keys -> 0..MaxSlots]
  /\ keyFile \in Keys
  /\ staged \in Generated \union {NoKey}
  /\ superseded \subseteq Keys
  /\ guest \in Guests \union {NoKey}
  /\ acknowledged \in BOOLEAN
  /\ scheduled \in BOOLEAN
  /\ archive \in [Archives -> SUBSET Keys]
  /\ handler \in [Callers -> HandlerSteps]
  /\ moving \in [Callers -> Keys \union {NoKey}]
  /\ rekey \in [Callers -> RekeyRequests]
  /\ known \subseteq Keys
  /\ dropped \subseteq Keys

TypeOK == KeyTypes /\ overlapped \in BOOLEAN

Init ==
  /\ disk = [k \in Keys |-> IF k = FirstKey THEN 1 ELSE 0]
  /\ keyFile = FirstKey
  /\ staged = NoKey
  /\ superseded = {}
  /\ guest = NoKey
  /\ acknowledged = FALSE
  /\ scheduled = FALSE
  /\ archive = [a \in Archives |-> {}]
  /\ handler = [c \in Callers |-> "idle"]
  /\ moving = [c \in Callers |-> NoKey]
  /\ rekey = [c \in Callers |-> NoRequest]
  /\ known = {}
  /\ dropped = {}
  /\ overlapped = FALSE

At(c, step) == handler[c] = step
GoTo(c, step) == handler' = [handler EXCEPT ![c] = step] /\ UNCHANGED moving
Leave(c) == handler' = [handler EXCEPT ![c] = "idle"] /\ moving' = [moving EXCEPT ![c] = NoKey]
Opens(key) == disk[key] > 0

------------------------------------------------------------------------------
(* The vault agent: one request after another.                               *)

Outstanding(c) == rekey[c].step \in {"queued", "remove"}
Answered(c) == rekey[c].step = "ok"

\* A caller sends its key; its last request has ended.
Send(c, key) ==
  /\ ~Outstanding(c)
  /\ rekey' = [rekey EXCEPT ![c] = [step |-> "queued", key |-> key, old |-> NoKey]]
  /\ handler' = [handler EXCEPT ![c] = "rekeying"]
  /\ moving' = [moving EXCEPT ![c] = key]

\* An answer nobody waits for is lost.
Answer(c, answer) ==
  rekey' = [rekey EXCEPT ![c] = IF At(c, "rekeying") THEN [NoRequest EXCEPT !.step = answer]
                                                     ELSE NoRequest]

\* A caller goes on; the vault agent finishes a request it no longer waits for.
Receive(c) == rekey' = [rekey EXCEPT ![c] = IF Outstanding(c) THEN @ ELSE NoRequest]

\* Mutant: the new key goes in whatever the old one opens.
AuthorisesAnything(key) == TRUE

\* luksAddKey: a key that opens the disk lets another in.
Authorises(key) == Opens(key)

\* rekey: the key in the key file authorises the new one.  A disk that refuses it
\* and opens with the new one was moved before; a disk not mounted refuses.
TakeRequest(c) ==
  LET key == rekey[c].key IN
  /\ rekey[c].step = "queued"
  /\ \A other \in Callers : rekey[other].step # "remove"
  /\ \/ Answer(c, "refused") /\ UNCHANGED disk
     \/ /\ keyFile = key \/ (~Authorises(keyFile) /\ Opens(key))
        /\ Answer(c, "ok")
        /\ UNCHANGED disk
     \/ /\ keyFile # key /\ Authorises(keyFile) /\ disk[key] < MaxSlots
        /\ disk' = [disk EXCEPT ![key] = @ + 1]
        /\ rekey' = [rekey EXCEPT ![c].step = "remove", ![c].old = keyFile]
  /\ UNCHANGED <<fileVars, archiveVars, handlerVars, known, dropped>>

\* One slot of the old key goes; one that cannot be removed is reported.
RemoveOldKey(c) ==
  /\ rekey[c].step = "remove"
  /\ \/ /\ disk' = [disk EXCEPT ![rekey[c].old] = @ - 1]
        /\ Answer(c, "ok")
     \/ Answer(c, "refused") /\ UNCHANGED disk
  /\ UNCHANGED <<fileVars, archiveVars, handlerVars, known, dropped>>

\* The vault agent dies in a request, having made any part of its change.
VaultAgentDies ==
  /\ \E c \in Callers : Outstanding(c)
  /\ rekey' = [c \in Callers |->
       IF ~Outstanding(c) THEN rekey[c]
       ELSE IF At(c, "rekeying") THEN [NoRequest EXCEPT !.step = "refused"] ELSE NoRequest]
  /\ UNCHANGED <<disk, fileVars, archiveVars, handlerVars, known, dropped>>

------------------------------------------------------------------------------
(* A rotation, in the backup agent.                                          *)

\* Between two awaits the agent serves nobody else.
AgentFree == \A r \in Requests : handler[r] \in {"idle", "rekeying", "carry"}

\* A key nobody has had before.
Fresh == {k \in Generated : /\ k \notin {keyFile, staged} \union superseded \union known
                                         \union dropped
                            /\ ~Opens(k)
                            /\ \A c \in Callers : k \notin {moving[c], rekey[c].key}}

\* Mutant: a rotation that was stopped is started again.
NextKeyAfresh == Fresh

\* A rotation that was stopped is resumed with its key.
NextKey == IF staged = NoKey THEN Fresh ELSE {staged}

\* The key is staged before the disk is asked to move to it.
BeginRotation(r) ==
  /\ At(r, "idle") /\ AgentFree
  /\ \E next \in NextKey :
       staged' = next /\ Send(r, next)
  /\ UNCHANGED <<disk, keyFile, superseded, guest, acknowledged, archiveVars, known,
                 dropped>>

\* A refusal, an error and an answer that never comes all leave the key staged.
RotationRefused(r) ==
  /\ At(r, "rekeying") /\ ~Answered(r) /\ AgentFree
  /\ Receive(r) /\ Leave(r)
  /\ UNCHANGED <<disk, fileVars, archiveVars, known, dropped>>

\* Mutant: only the last key is kept.
KeptLast(next) == {keyFile} \ {next}

\* Every key replaced so far, for the archives that still answer to it.
Kept(next) == (superseded \union {keyFile}) \ {next}

\* The key it replaces is written down first; a key already in place only clears up.
RotateKey(r) ==
  /\ At(r, "rekeying") /\ Answered(r) /\ AgentFree
  /\ Receive(r)
  /\ IF moving[r] = keyFile
       THEN GoTo(r, "drop staged") /\ UNCHANGED superseded
       ELSE /\ superseded' = Kept(moving[r])
            /\ GoTo(r, "write key")
  /\ UNCHANGED <<disk, keyFile, staged, guest, acknowledged, archiveVars, known, dropped>>

WriteRotatedKey(r) ==
  /\ At(r, "write key")
  /\ keyFile' = moving[r]
  /\ GoTo(r, "drop staged")
  /\ UNCHANGED <<staged, superseded, guest, acknowledged, archiveVars, vaultVars,
                 known, dropped>>

DropStaged(r) ==
  /\ At(r, "drop staged")
  /\ staged' = NoKey
  /\ GoTo(r, "carry")
  /\ UNCHANGED <<keyFile, superseded, guest, acknowledged, archiveVars, vaultVars,
                 known, dropped>>

\* Archives within reach are probed; a survey that fails ends the request there.  Then
\* the record asks for a new acknowledgement, and the kit is shown if it can be made.
FinishRotation(r) ==
  /\ At(r, "carry") /\ AgentFree
  /\ Leave(r)
  /\ \/ UNCHANGED <<acknowledged, known>>
     \/ acknowledged' = FALSE /\ known' \in {known, known \union {moving[r]}}
  /\ UNCHANGED <<keyFile, staged, superseded, guest, archiveVars, vaultVars,
                 dropped>>

\* The agent dies or is restarted: every request it was serving is gone.
BackupAgentDies ==
  /\ \E r \in Requests : ~At(r, "idle")
  /\ handler' = [c \in Callers |-> IF c \in Requests THEN "idle" ELSE handler[c]]
  /\ moving' = [c \in Callers |-> IF c \in Requests THEN NoKey ELSE moving[c]]
  /\ rekey' = [c \in Callers |-> IF c \in Requests /\ ~Outstanding(c) THEN NoRequest
                                                                    ELSE rekey[c]]
  /\ UNCHANGED <<disk, fileVars, archiveVars, known, dropped>>

------------------------------------------------------------------------------
(* An adoption, in the process of a restore.                                 *)

BeginAdoption ==
  /\ At(Restore, "idle")
  /\ guest # NoKey
  /\ Send(Restore, guest)
  /\ UNCHANGED <<disk, fileVars, archiveVars, known, dropped>>

AdoptionRefused ==
  /\ At(Restore, "rekeying") /\ ~Answered(Restore)
  /\ Receive(Restore) /\ Leave(Restore)
  /\ UNCHANGED <<disk, fileVars, archiveVars, known, dropped>>

\* The key file is overwritten; the key it held is not kept.
AdoptKey ==
  /\ At(Restore, "rekeying") /\ Answered(Restore)
  /\ Receive(Restore)
  /\ keyFile' = moving[Restore]
  /\ dropped' = IF keyFile = moving[Restore] THEN dropped ELSE dropped \union {keyFile}
  /\ GoTo(Restore, "record")
  /\ UNCHANGED <<disk, staged, superseded, guest, acknowledged, archiveVars, known>>

RecordAdoption ==
  /\ At(Restore, "record")
  /\ acknowledged' = TRUE
  /\ GoTo(Restore, "forget")
  /\ UNCHANGED <<keyFile, staged, superseded, guest, archiveVars, vaultVars,
                 known, dropped>>

ForgetAdopted ==
  /\ At(Restore, "forget")
  /\ guest' = NoKey
  /\ Leave(Restore)
  /\ UNCHANGED <<keyFile, staged, superseded, acknowledged, archiveVars, vaultVars,
                 known, dropped>>

RestoreDies ==
  /\ ~At(Restore, "idle")
  /\ Receive(Restore) /\ Leave(Restore)
  /\ UNCHANGED <<disk, fileVars, archiveVars, known, dropped>>

------------------------------------------------------------------------------
(* The owner, and the archives.                                              *)

\* A key that opens another server's archive is kept, and is not this server's.
UnlockArchive(key) ==
  /\ key # keyFile
  /\ guest' = key
  /\ known' = known \union {key}
  /\ UNCHANGED <<keyFile, staged, superseded, acknowledged, archiveVars, handlerVars,
                 vaultVars, dropped>>

ForgetGuestKey ==
  /\ guest # NoKey
  /\ guest' = NoKey
  /\ UNCHANGED <<keyFile, staged, superseded, acknowledged, archiveVars, handlerVars,
                 vaultVars, known, dropped>>

RevealRecoveryKey ==
  /\ AgentFree
  /\ known' = known \union {keyFile}
  /\ UNCHANGED <<fileVars, archiveVars, handlerVars, vaultVars, dropped>>

\* An owner confirms a key they were shown.
Acknowledge ==
  /\ AgentFree
  /\ keyFile \in known
  /\ acknowledged' = TRUE
  /\ UNCHANGED <<keyFile, staged, superseded, guest, archiveVars, handlerVars, vaultVars,
                 known, dropped>>

\* The gate: only what would create a backup needs the acknowledgement.
SetSchedule(on) ==
  /\ AgentFree
  /\ on => acknowledged
  /\ scheduled' = on
  /\ UNCHANGED <<fileVars, archive, handlerVars, vaultVars, known, dropped>>

\* The first backup to a place, the owner's or the schedule's; never in a restore.
MakeArchive(a) ==
  /\ archive[a] = {}
  /\ acknowledged \/ scheduled
  /\ At(Restore, "idle")
  /\ archive' = [archive EXCEPT ![a] = {keyFile}]
  /\ UNCHANGED <<scheduled, fileVars, handlerVars, vaultVars, known, dropped>>

\* probe: an archive that answers to a superseded key is given the current one; the
\* old one is removed, or stays if that fails or the process ends.
MigrateArchive(a) ==
  /\ archive[a] # {} /\ keyFile \notin archive[a]
  /\ \E previous \in superseded \intersect archive[a] :
       archive' \in {[archive EXCEPT ![a] = @ \union {keyFile}],
                     [archive EXCEPT ![a] = (@ \ {previous}) \union {keyFile}]}
  /\ UNCHANGED <<scheduled, fileVars, handlerVars, vaultVars, known, dropped>>

KeyStep ==
  \/ \E c \in Callers : TakeRequest(c) \/ RemoveOldKey(c)
  \/ \E r \in Requests :
       \/ BeginRotation(r) \/ RotationRefused(r) \/ RotateKey(r)
       \/ WriteRotatedKey(r) \/ DropStaged(r) \/ FinishRotation(r)
  \/ BeginAdoption \/ AdoptionRefused \/ AdoptKey \/ RecordAdoption \/ ForgetAdopted
  \/ VaultAgentDies \/ BackupAgentDies \/ RestoreDies
  \/ \E key \in Guests : UnlockArchive(key)
  \/ ForgetGuestKey \/ RevealRecoveryKey \/ Acknowledge
  \/ \E on \in BOOLEAN : SetSchedule(on)
  \/ \E a \in Archives : MakeArchive(a) \/ MigrateArchive(a)

\* Nothing keeps a change of the key from beginning while another is under way, or while
\* the vault agent still works on one that was given up: it is only noted.
Alone == \A c \in Callers : At(c, "idle") /\ ~Outstanding(c)
Begins(c) == At(c, "idle") /\ handler'[c] = "rekeying"
NoteOverlaps == overlapped' = (overlapped \/ (~Alone /\ \E c \in Callers : Begins(c)))

Next == KeyStep /\ NoteOverlaps

Spec == Init /\ [][Next]_vars

\* Keys nobody has yet are interchangeable.
NewKeys == Permutations(Generated \ {FirstKey})

\* A bound on the run: changes that met are followed until one of them is over.
UntilApart == overlapped => \A c \in Callers : ~At(c, "idle") \/ Outstanding(c)

------------------------------------------------------------------------------
(* Properties.                                                               *)

AKeyIsHeld == \E key \in {keyFile, staged} \union known : key # NoKey /\ Opens(key)

\* Some key the disk opens with is one the server has written down or its owner
\* holds, whatever is interrupted, until a change of the key begins beside another: the
\* reason a rotation stages its key.  Beside another it fails: the first to finish drops
\* the key the next has staged.
DiskKeyHeld == ~overlapped => AKeyIsHeld

EveryArchiveOpens ==
  \A a \in Archives :
    archive[a] # {} => archive[a] \intersect ({keyFile} \union superseded \union dropped) # {}

\* No rotation strands an archive, until a change of the key begins beside another: one
\* that was away while the key changed still opens with the key file or a key kept for
\* it, unless an adoption dropped its key.
ArchivesOpen == ~overlapped => EveryArchiveOpens

\* key-rotation.cjs tells the owner of a refused rotation: "Nothing was changed:
\* your current recovery key still opens this server and its backups."
RefusedMeansUnchanged ==
  [][\A r \in Requests : RotationRefused(r) => Opens(keyFile)]_vars

\* key-rotation.cjs: "the same gate that stood before the first backup stands again
\* until they say they have it": no acknowledgement covers a key the owner never saw.
GateStandsAgain == acknowledged /\ (\A c \in Callers : At(c, "idle")) => keyFile \in known
=============================================================================
