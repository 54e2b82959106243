--------------------------- MODULE HostDataProofs ---------------------------
(****************************************************************************)
(* Theorems about the data a host keeps, for any apps, archives, restores,   *)
(* passwords, power cuts and failures.  A restore: what it removes is in a   *)
(* rescue copy, a machine between two states says so in its journal, and a   *)
(* success is the restore point.  The vault: the copy of its key is there    *)
(* until the owner has their own, and a layout cut short is not a refusal.   *)
(* A bucket and a drive: one archive of this server, none that is not named, *)
(* and restore points that verify and that no other job takes away.  Its own *)
(* patches: MOS keeps off a policy that is the owner's, and what it says of  *)
(* the machine is so.  The last part puts them together for the host that    *)
(* the checks run.                                                           *)
(****************************************************************************)
EXTENDS MCHost, HostServicesProofs, FiniteSetTheorems, TLAPS

------------------------------------------------------------------------------
(* Counting. *)

LEMMA AtMostOne ==
  ASSUME NEW S, \A m, n \in S : m = n
  PROVE  Cardinality(S) <= 1
<1>1. CASE S = {}
  BY <1>1, FS_EmptySet
<1>2. CASE S # {}
  <2>1. PICK n \in S : TRUE
    BY <1>2
  <2>2. S = {n} BY <2>1
  <2>3. Cardinality({n}) = 1 BY FS_Singleton
  <2> QED BY <2>2, <2>3
<1> QED BY <1>1, <1>2

------------------------------------------------------------------------------
(* The inductive invariant. *)

Origin   == {"own", "backup", Gone}
Contents == SUBSET {"own", "backup"}
Machines == [store : [from : Origin, apps : SUBSET Apps], files : [Files -> Origin],
             present : SUBSET Apps, data : [Apps -> Contents],
             routes : {"own", "empty", "backup"}]
RescueCopies == [status : {"none", "partial", "complete"}, copy : Machines \cup {NoMachine}]

\* The worker's steps, by what it has done to the machine when it is at them.
Looking   == {"checking", "space", "journal"}
Rescuing  == {"rescue", "rescue-volumes"}
PuttingState == {"remove-target", "copy-target"}
PuttingVolumes == {"remove-volumes", "create-volumes"}
Starting  == {"reconcile"}
Proving   == {"verify"}
Proved    == {"assume-key", "complete"}
Touching  == {"retire"} \cup PuttingState \cup PuttingVolumes \cup Starting \cup Proving \cup Proved
Steps     == Looking \cup {"stop"} \cup Rescuing \cup Touching
             \cup {"none", "finally-ok", "finally-failed"}

Workers == [pc : Steps, todo : SUBSET (Apps \cup Targets), owned : SUBSET Apps, stopped : BOOLEAN]

In(steps) == restorer.pc \in steps

TypesHold ==
  /\ point \in [apps : SUBSET Apps, hasId : BOOLEAN, foreign : BOOLEAN]
  /\ machine \in Machines
  /\ rescues \in [RestoreIds -> RescueCopies]
  /\ restorer \in Workers
  /\ before \in [machine : Machines \cup {NoMachine}, owned : SUBSET Apps]
  /\ used \in [restores : Nat, kills : Nat, installs : Nat]
  /\ used.restores <= MaxRestores
  /\ restorer.pc # "none" => used.restores >= 1
  /\ runtime \in {"up", "down"}
  /\ journal \in RestorePhases \cup {NoJournal}
  /\ restoreJob \in {"none", "running", "failed", "succeeded"}

\* A volume that is not there holds nothing, and only what the backup puts back is removed.
NothingStray ==
  /\ \A a \in Apps \ machine.present : machine.data[a] = {}
  /\ \A f \in Files : machine.files[f] = Gone => InPoint(f)

\* A complete rescue copy of the machine as its runtime was stopped: of its state,
\* and of the volumes that were listed.
Holds(r) ==
  /\ rescues[r].status = "complete"
  /\ rescues[r].copy.store = before.machine.store
  /\ rescues[r].copy.files = before.machine.files
  /\ rescues[r].copy.data = before.machine.data
  /\ rescues[r].copy.present = before.owned

RescueGoesFirst ==
  /\ In(Rescuing \cup Touching \cup {"finally-ok"}) =>
       before.machine \in Machines /\ restorer.owned = before.owned
  /\ In(Rescuing \cup {"retire"}) => machine = before.machine
  /\ In({"rescue-volumes"}) =>
       /\ restorer.todo \subseteq before.owned
       /\ rescues[This] = [status |-> "partial",
                           copy |-> [before.machine EXCEPT !.present = before.owned \ restorer.todo]]
  /\ In(Touching \cup {"finally-ok"}) => Holds(This)
  /\ before # NoBefore => machine = before.machine \/ \E r \in RestoreIds : Holds(r)

JournalIsOpen ==
  /\ In(Looking \cup {"finally-ok"}) => journal = NoJournal
  /\ In({"stop"} \cup Rescuing \cup Touching) => journal # NoJournal
  /\ JournalTellsTheTruth

\* How far the state has been put back.
PutBack(t) ==
  IF t = "suite-manager-state" THEN machine.store = [from |-> "backup", apps |-> point.apps]
  ELSE machine.files[t] = "backup"
Missing(t) ==
  IF t = "suite-manager-state" THEN machine.store = NoStore ELSE machine.files[t] = Gone
StateProgress ==
  /\ In(PuttingState) => restorer.todo \subseteq Targets
  /\ In({"remove-target"}) =>
       \A t \in Targets \ restorer.todo : InPoint(t) => PutBack(t)
  /\ In({"copy-target"}) =>
       \E t \in Targets \ restorer.todo :
         /\ InPoint(t) /\ Missing(t)
         /\ \A u \in (Targets \ restorer.todo) \ {t} : InPoint(u) => PutBack(u)
  /\ In(PuttingVolumes \cup Starting \cup Proving \cup Proved \cup {"finally-ok"}) =>
       \A t \in Targets : InPoint(t) => PutBack(t)
  /\ In(Proving \cup Proved \cup {"finally-ok"}) => machine.routes = "backup"
  /\ In(Proved \cup {"finally-ok"}) => Verified(machine)

\* How far the volumes have.  A volume of an app that was installed after the volumes
\* were listed is not removed.
Late(a) == a \in before.machine.present \ before.owned
VolumeProgress ==
  /\ In(PuttingState) => machine.present = before.machine.present
  /\ In({"remove-volumes"}) =>
       /\ restorer.todo \subseteq Apps
       /\ machine.present \subseteq before.machine.present
       /\ \A a \in before.owned \ restorer.todo : a \notin machine.present
  /\ In({"create-volumes"}) =>
       /\ restorer.todo \subseteq point.apps
       /\ \A a \in restorer.todo : machine.data[a] = {} \/ Late(a)
       /\ \A a \in point.apps \ restorer.todo : machine.data[a] = {"backup"} \/ Late(a)
  /\ In(Starting \cup Proving \cup Proved \cup {"finally-ok"}) =>
       \A a \in point.apps : machine.data[a] = {"backup"} \/ Late(a)

RestoreInv ==
  /\ TypesHold /\ NothingStray /\ RescueGoesFirst /\ JournalIsOpen
  /\ StateProgress /\ VolumeProgress

------------------------------------------------------------------------------
(* The types. *)

LEMMA MachinesAreReal == \A m \in Machines : m # NoMachine /\ m = [m EXCEPT !.routes = m.routes]
<1>1. SUFFICES ASSUME NEW m \in Machines PROVE m # NoMachine /\ m = [m EXCEPT !.routes = m.routes]
  OBVIOUS
<1>2. "files" \in DOMAIN m /\ "files" \notin DOMAIN NoMachine
  BY DEF Machines, NoMachine
<1> QED BY <1>2 DEF Machines

\* What each step makes of a machine is a machine.
LEMMA MachineOperators ==
  ASSUME NEW m \in Machines, point.apps \in SUBSET Apps
  PROVE  /\ \A t \in Targets : Removed(m, t) \in Machines /\ Copied(m, t) \in Machines
         /\ \A a \in Apps : WithVolume(m, a) \in Machines /\ WithoutVolume(m, a) \in Machines
         /\ \A r \in {"own", "empty", "backup"} : [m EXCEPT !.routes = r] \in Machines
         /\ \A p \in SUBSET Apps : [m EXCEPT !.present = p] \in Machines
<1>1. ASSUME NEW t \in Targets PROVE Removed(m, t) \in Machines /\ Copied(m, t) \in Machines
  <2>1. CASE t = "suite-manager-state"
    BY <2>1 DEF Removed, Copied, Machines, Origin, NoStore
  <2>2. CASE t # "suite-manager-state"
    <3>1. t \in Files BY <2>2 DEF Targets
    <3> QED BY <2>2, <3>1 DEF Removed, Copied, Machines, Origin
  <2> QED BY <2>1, <2>2
<1>2. ASSUME NEW a \in Apps PROVE WithVolume(m, a) \in Machines /\ WithoutVolume(m, a) \in Machines
  <2>1. m.data \in [Apps -> Contents] /\ m.data[a] \in Contents /\ m.present \subseteq Apps
    BY DEF Machines
  <2>2. m.data[a] \cup {"backup"} \in Contents /\ {} \in Contents
    BY <2>1 DEF Contents
  <2>3. /\ [m.data EXCEPT ![a] = m.data[a] \cup {"backup"}] \in [Apps -> Contents]
        /\ [m.data EXCEPT ![a] = {}] \in [Apps -> Contents]
    BY <2>1, <2>2
  <2>4. m.present \cup {a} \in SUBSET Apps /\ m.present \ {a} \in SUBSET Apps
    BY <2>1
  <2>6. WithVolume(m, a) \in Machines
    <3>1. WithVolume(m, a) = [m EXCEPT !.present = m.present \cup {a},
                                       !.data = [m.data EXCEPT ![a] = m.data[a] \cup {"backup"}]]
      BY DEF WithVolume, Machines
    <3> QED BY <2>3, <2>4, <3>1 DEF Machines
  <2>7. WithoutVolume(m, a) \in Machines
    <3>1. WithoutVolume(m, a) = [m EXCEPT !.present = m.present \ {a},
                                          !.data = [m.data EXCEPT ![a] = {}]]
      BY DEF WithoutVolume, Machines
    <3> QED BY <2>3, <2>4, <3>1 DEF Machines
  <2> QED BY <2>6, <2>7
<1>3. ASSUME NEW r \in {"own", "empty", "backup"} PROVE [m EXCEPT !.routes = r] \in Machines
  BY DEF Machines
<1>4. ASSUME NEW p \in SUBSET Apps PROVE [m EXCEPT !.present = p] \in Machines
  BY DEF Machines
<1> QED BY <1>1, <1>2, <1>3, <1>4

LEMMA WorkerOperators ==
  /\ \A pc \in {"checking", "space", "journal", "stop", "rescue", "rescue-volumes", "retire",
                "remove-target", "copy-target", "remove-volumes", "create-volumes", "reconcile",
                "verify", "assume-key", "complete", "finally-ok", "finally-failed"} : pc \in Steps
  /\ NoWorker \in Workers
BY DEF Steps, Looking, Rescuing, Touching, PuttingState, PuttingVolumes, Starting, Proving, Proved,
       Workers, NoWorker

\* The steps of a rescue write what a rescue directory can hold.
LEMMA RescueTypes ==
  ASSUME TypesHold, SaveRescueCopy, MaxRestores \in Nat,
         In({"rescue-volumes"}) => rescues[This].copy \in Machines /\ restorer.todo \subseteq Apps
  PROVE  rescues' \in [RestoreIds -> RescueCopies]
<1>1. This \in RestoreIds
  BY DEF TypesHold, SaveRescueCopy, Rescue, AtStep, This, RestoreIds
<1>2. CASE restorer.pc = "rescue"
  <2>1. [machine EXCEPT !.present = {}] \in Machines
    BY MachineOperators DEF TypesHold
  <2>2. [status |-> "partial", copy |-> [machine EXCEPT !.present = {}]] \in RescueCopies
    BY <2>1 DEF RescueCopies
  <2>3. rescues' = [rescues EXCEPT ![This] = [status |-> "partial", copy |-> [machine EXCEPT !.present = {}]]]
    BY <1>2 DEF SaveRescueCopy, Rescue, AtStep
  <2> QED BY <1>1, <2>2, <2>3 DEF TypesHold
<1>3. CASE restorer.pc # "rescue"
  <2> DEFINE copy == rescues[This].copy
  <2>1. restorer.pc = "rescue-volumes" /\ copy \in Machines /\ rescues[This] \in RescueCopies
    BY <1>1, <1>3 DEF SaveRescueCopy, Rescue, AtStep, In, TypesHold
  <2>2. ASSUME NEW a \in restorer.todo
        PROVE  [rescues EXCEPT ![This].copy.present = @ \cup {a}] \in [RestoreIds -> RescueCopies]
    <3> DEFINE grown == [copy EXCEPT !.present = @ \cup {a}]
    <3>1. grown \in Machines BY <2>1, <2>2 DEF Machines, In
    <3>2. [rescues[This] EXCEPT !.copy = grown] \in RescueCopies
      BY <2>1, <3>1 DEF RescueCopies
    <3>3. [rescues EXCEPT ![This].copy.present = @ \cup {a}]
            = [rescues EXCEPT ![This] = [rescues[This] EXCEPT !.copy = grown]]
      BY <1>1, <2>1 DEF RescueCopies, Machines
    <3> QED BY <1>1, <3>2, <3>3 DEF TypesHold
  <2>3. [rescues EXCEPT ![This].status = "complete"] \in [RestoreIds -> RescueCopies]
    BY <1>1, <2>1 DEF RescueCopies, TypesHold
  <2> QED BY <2>1, <2>2, <2>3 DEF SaveRescueCopy, Rescue, AtStep
<1> QED BY <1>2, <1>3

LEMMA StepTypes ==
  ASSUME MaxRestores \in Nat, TypesHold, RestoreNext,
         In({"create-volumes", "remove-volumes"}) => restorer.todo \subseteq Apps,
         In({"remove-target"}) => restorer.todo \subseteq Targets,
         In({"rescue-volumes"}) => rescues[This].copy \in Machines /\ restorer.todo \subseteq Apps
  PROVE  TypesHold'
<1> USE DEF AtStep
<1>c. /\ machine \in Machines /\ restorer \in Workers /\ rescues \in [RestoreIds -> RescueCopies]
      /\ used \in [restores : Nat, kills : Nat, installs : Nat]
      /\ before \in [machine : Machines \cup {NoMachine}, owned : SUBSET Apps]
  BY DEF TypesHold
<1> DEFINE names == {"checking", "space", "journal", "stop", "rescue", "rescue-volumes", "retire",
                     "remove-target", "copy-target", "remove-volumes", "create-volumes", "reconcile",
                     "verify", "assume-key", "complete", "finally-ok", "finally-failed"}
<1>a. \A pc \in names : Then(pc) => restorer' \in Workers
  BY <1>c, WorkerOperators DEF Then, Workers
<1>b. \A pc \in names, todo \in SUBSET (Apps \cup Targets) : ThenEach(pc, todo) => restorer' \in Workers
  <2>1. SUFFICES ASSUME NEW pc \in names, NEW todo \in SUBSET (Apps \cup Targets), ThenEach(pc, todo)
                 PROVE  restorer' \in Workers
    OBVIOUS
  <2>2. pc \in Steps BY WorkerOperators
  <2> QED BY <1>c, <2>1, <2>2 DEF ThenEach, Workers
<1>0. /\ point.apps \in SUBSET Apps
      /\ restorer.todo \in SUBSET (Apps \cup Targets)
      /\ \A x : restorer.todo \ {x} \in SUBSET (Apps \cup Targets)
      /\ restorer.owned \in SUBSET (Apps \cup Targets) /\ Targets \in SUBSET (Apps \cup Targets)
      /\ point.apps \in SUBSET (Apps \cup Targets)
      /\ {"none", "stopping-runtime", "rescue", "restoring-state", "restoring-volumes",
          "reconciling-apps", "verifying"} \subseteq RestorePhases \cup {NoJournal}
  BY DEF TypesHold, Workers, RestorePhases, NoJournal
<1>1. CASE BeginRestore
  <2>1. used.restores \in Nat /\ used.restores < MaxRestores
    BY <1>1, <1>c DEF BeginRestore
  <2>2. used' \in [restores : Nat, kills : Nat, installs : Nat] /\ used'.restores = used.restores + 1
    BY <1>1, <1>c, <2>1 DEF BeginRestore
  <2>3. used'.restores <= MaxRestores /\ used'.restores >= 1
    BY <2>1, <2>2
  <2>4. restorer' \in Workers BY <1>1, <1>a DEF BeginRestore
  <2> QED BY <1>1, <2>2, <2>3, <2>4 DEF BeginRestore, TypesHold
<1>2. CASE ValidateRestorePoint \/ AssumeArchiveKey \/ Fails \/ OpenRestoreJournal \/ CompleteRestore
           \/ VerifyRestore
  <2>1. restorer' \in Workers /\ restorer.pc # "none"
    BY <1>2, <1>a DEF ValidateRestorePoint, AssumeArchiveKey, Fails, OpenRestoreJournal,
       CompleteRestore, VerifyRestore
  <2> QED
    BY <1>0, <1>2, <2>1 DEF ValidateRestorePoint, AssumeArchiveKey, Fails, OpenRestoreJournal,
       CompleteRestore, VerifyRestore, NoJournal, TypesHold
<1>3. CASE CheckSpace
  <2>1. machine.present \in SUBSET Apps BY <1>c DEF Machines
  <2>2. restorer' \in Workers
    BY <1>3, <1>c, <2>1, WorkerOperators DEF CheckSpace, Owned, Workers
  <2> QED BY <1>3, <2>2 DEF CheckSpace, TypesHold
<1>4. CASE StopRuntime
  <2>1. restorer.owned \in SUBSET Apps /\ restorer' \in Workers
    BY <1>4, <1>c, WorkerOperators DEF StopRuntime, Workers
  <2> QED BY <1>0, <1>4, <2>1 DEF StopRuntime, TypesHold
<1>5. CASE SaveRescueCopy
  <2>1. restorer' \in Workers /\ restorer.pc # "none"
    <3>1. restorer.owned \in SUBSET (Apps \cup Targets) BY <1>0
    <3>2. CASE AtStep("rescue")
      BY <1>5, <1>b, <3>1, <3>2 DEF SaveRescueCopy, Rescue
    <3>3. CASE AtStep("rescue-volumes") /\ restorer' = [restorer EXCEPT !.pc = "retire"]
      BY <1>a, <3>3 DEF Then
    <3>4. CASE \E a \in restorer.todo : restorer' = [restorer EXCEPT !.todo = @ \ {a}]
      BY <1>0, <1>5, <1>c, <3>4 DEF Workers, SaveRescueCopy, Rescue
    <3> QED BY <1>5, <3>2, <3>3, <3>4 DEF SaveRescueCopy, Rescue, Then
  <2>2. rescues' \in [RestoreIds -> RescueCopies] BY <1>5, RescueTypes
  <2> QED BY <1>5, <2>1, <2>2 DEF SaveRescueCopy, TypesHold
<1>6. CASE RetireRescues
  <2>1. restorer' \in Workers /\ restorer.pc # "none"
    <3>1. ThenEach("remove-target", Targets) => restorer' \in Workers
      BY <1>0, <1>b
    <3> QED BY <1>6, <1>c, <3>1 DEF RetireRescues
  <2>2. rescues' \in [RestoreIds -> RescueCopies]
    BY <1>6, <1>c DEF RetireRescues, RescueCopies, NoRescue
  <2>3. journal' \in RestorePhases \cup {NoJournal}
    BY <1>0, <1>6 DEF RetireRescues, TypesHold
  <2> QED BY <1>6, <2>1, <2>2, <2>3 DEF RetireRescues, TypesHold
<1>7. CASE RestoreState
  <2>1. machine' \in Machines
    <3>1. /\ \A t \in Targets : Removed(machine, t) \in Machines /\ Copied(machine, t) \in Machines
          /\ [machine EXCEPT !.routes = "empty"] \in Machines
      BY <1>0, <1>c, MachineOperators
    <3>2. CASE RestoreTarget /\ AtStep("remove-target")
      <4>1. restorer.todo \subseteq Targets BY <3>2 DEF In
      <4> QED
        <5>1. PICK t \in restorer.todo : machine' = Removed(machine, t) \/ machine' = machine
          BY <3>2 DEF RestoreTarget
        <5> QED BY <1>c, <3>1, <4>1, <5>1
    <3>3. CASE RestoreTarget /\ AtStep("copy-target")
      BY <3>1, <3>3 DEF RestoreTarget
    <3> QED BY <1>7, <3>1, <3>2, <3>3 DEF RestoreState, RestoreTarget
  <2>2. restorer' \in Workers /\ restorer.pc # "none"
    BY <1>0, <1>7, <1>a, <1>b DEF RestoreState, RestoreTarget
  <2>3. journal' \in RestorePhases \cup {NoJournal}
    BY <1>0, <1>7 DEF RestoreState, TypesHold
  <2> QED BY <1>7, <2>1, <2>2, <2>3 DEF RestoreState, TypesHold
<1>8. CASE RestoreVolumes
  <2>1. restorer.todo \subseteq Apps BY <1>8 DEF RestoreVolumes, In
  <2>2. machine' \in Machines
    <3>1. \A a \in Apps : WithVolume(machine, a) \in Machines /\ WithoutVolume(machine, a) \in Machines
      BY <1>0, <1>c, MachineOperators
    <3> QED
      <4>1. \/ machine' = machine
            \/ \E a \in restorer.todo : machine' = WithVolume(machine, a) \/ machine' = WithoutVolume(machine, a)
        BY <1>8 DEF RestoreVolumes
      <4> QED BY <1>c, <2>1, <3>1, <4>1
  <2>3. restorer' \in Workers /\ restorer.pc # "none"
    BY <1>0, <1>8, <1>a, <1>b DEF RestoreVolumes
  <2>4. journal' \in RestorePhases \cup {NoJournal}
    BY <1>0, <1>8 DEF RestoreVolumes, TypesHold
  <2> QED BY <1>8, <2>2, <2>3, <2>4 DEF RestoreVolumes, TypesHold
<1>9. CASE ReconcileApps
  <2>1. machine' \in Machines
    <3>1. \A r \in {"own", "empty", "backup"} : [machine EXCEPT !.routes = r] \in Machines
      BY <1>0, <1>c, MachineOperators
    <3> QED BY <1>9, <3>1 DEF ReconcileApps
  <2>2. restorer' \in Workers /\ restorer.pc # "none"
    BY <1>0, <1>9, <1>a DEF ReconcileApps
  <2> QED BY <1>0, <1>9, <2>1, <2>2 DEF ReconcileApps, TypesHold
<1>10. CASE Finally
  <2>1. restorer' \in Workers /\ restorer'.pc = "none"
    BY <1>10, WorkerOperators DEF Finally, NoWorker
  <2>2. before' \in [machine : Machines \cup {NoMachine}, owned : SUBSET Apps]
    BY <1>10, <1>c DEF Finally, NoBefore
  <2> QED BY <1>10, <2>1, <2>2 DEF Finally, TypesHold
<1>11. CASE KillWorker
  <2>1. used' \in [restores : Nat, kills : Nat, installs : Nat] /\ used'.restores = used.restores
    BY <1>11, <1>c DEF KillWorker
  <2>2. restorer' \in Workers /\ restorer'.pc = "none"
    BY <1>11, WorkerOperators DEF KillWorker, NoWorker
  <2> QED BY <1>11, <2>1, <2>2 DEF KillWorker, TypesHold
<1>12. CASE RestartMachine
  BY <1>12 DEF RestartMachine, TypesHold
<1>13. CASE AcknowledgeInterruptedRestore
  BY <1>13 DEF AcknowledgeInterruptedRestore, NoBefore, TypesHold
<1>14. CASE InstallApp
  <2>1. machine' \in Machines
    <3>1. PICK a \in Apps : machine' = [machine EXCEPT !.store.apps = @ \cup {a}, !.present = @ \cup {a},
                                                     !.data[a] = {"own"}]
      BY <1>14 DEF InstallApp
    <3>2. [machine.data EXCEPT ![a] = {"own"}] \in [Apps -> Contents]
      BY <1>c DEF Machines, Contents
    <3>3. [machine.store EXCEPT !.apps = @ \cup {a}] \in [from : Origin, apps : SUBSET Apps]
      BY <1>c DEF Machines
    <3>4. machine' = [machine EXCEPT !.store = [machine.store EXCEPT !.apps = @ \cup {a}],
                                     !.present = machine.present \cup {a},
                                     !.data = [machine.data EXCEPT ![a] = {"own"}]]
      BY <1>c, <3>1 DEF Machines
    <3> QED BY <1>c, <3>2, <3>3, <3>4 DEF Machines
  <2>2. used' \in [restores : Nat, kills : Nat, installs : Nat] /\ used'.restores = used.restores
    BY <1>14, <1>c DEF InstallApp
  <2> QED BY <1>14, <2>1, <2>2 DEF InstallApp, TypesHold
<1> QED
  BY <1>1, <1>2, <1>3, <1>4, <1>5, <1>6, <1>7, <1>8, <1>9, <1>10, <1>11, <1>12, <1>13, <1>14
     DEF RestoreNext, RestoreStep
------------------------------------------------------------------------------
(* What a step does to the machine. *)

LEMMA FieldsAfter ==
  ASSUME NEW m \in Machines
  PROVE  /\ \A a \in Apps :
              LET w == WithVolume(m, a) IN
                /\ w.store = m.store /\ w.files = m.files /\ w.routes = m.routes
                /\ w.present = m.present \cup {a}
                /\ w.data = [m.data EXCEPT ![a] = m.data[a] \cup {"backup"}]
         /\ \A a \in Apps :
              LET w == WithoutVolume(m, a) IN
                /\ w.store = m.store /\ w.files = m.files /\ w.routes = m.routes
                /\ w.present = m.present \ {a} /\ w.data = [m.data EXCEPT ![a] = {}]
         /\ \A t \in Targets : \A w \in {Removed(m, t), Copied(m, t)} :
                w.present = m.present /\ w.data = m.data /\ w.routes = m.routes
         /\ LET t == "suite-manager-state" IN
                /\ Removed(m, t).store = NoStore /\ Removed(m, t).files = m.files
                /\ Copied(m, t).store = [from |-> "backup", apps |-> point.apps]
                /\ Copied(m, t).files = m.files
         /\ \A t \in Files :
                /\ Removed(m, t).store = m.store /\ Removed(m, t).files = [m.files EXCEPT ![t] = Gone]
                /\ Copied(m, t).store = m.store /\ Copied(m, t).files = [m.files EXCEPT ![t] = "backup"]
<1>1. ASSUME NEW a \in Apps
      PROVE LET w == WithVolume(m, a) IN
              /\ w.store = m.store /\ w.files = m.files /\ w.routes = m.routes
              /\ w.present = m.present \cup {a}
              /\ w.data = [m.data EXCEPT ![a] = m.data[a] \cup {"backup"}]
  BY DEF WithVolume, Machines
<1>2. ASSUME NEW a \in Apps
      PROVE LET w == WithoutVolume(m, a) IN
              /\ w.store = m.store /\ w.files = m.files /\ w.routes = m.routes
              /\ w.present = m.present \ {a} /\ w.data = [m.data EXCEPT ![a] = {}]
  BY DEF WithoutVolume, Machines
<1>3. ASSUME NEW t \in Targets, NEW w \in {Removed(m, t), Copied(m, t)}
      PROVE  w.present = m.present /\ w.data = m.data /\ w.routes = m.routes
  BY DEF Removed, Copied, Machines
<1>4. LET t == "suite-manager-state" IN
        /\ Removed(m, t).store = NoStore /\ Removed(m, t).files = m.files
        /\ Copied(m, t).store = [from |-> "backup", apps |-> point.apps]
        /\ Copied(m, t).files = m.files
  BY DEF Removed, Copied, Machines
<1>5. ASSUME NEW t \in Files
      PROVE  /\ Removed(m, t).store = m.store /\ Removed(m, t).files = [m.files EXCEPT ![t] = Gone]
             /\ Copied(m, t).store = m.store /\ Copied(m, t).files = [m.files EXCEPT ![t] = "backup"]
  <2>1. t # "suite-manager-state" BY DEF Files
  <2> QED BY <2>1 DEF Removed, Copied, Machines
<1> QED BY <1>1, <1>2, <1>3, <1>4, <1>5

\* The machine is changed by the steps that put the backup back, and by an owner who
\* installs while no restore has it.
LEMMA QuietSteps ==
  ASSUME RestoreNext
  PROVE  /\ point' = point
         /\ RestoreState \/ RestoreVolumes \/ ReconcileApps \/ InstallApp \/ machine' = machine
BY DEF RestoreNext, RestoreStep, BeginRestore, ValidateRestorePoint, CheckSpace, OpenRestoreJournal,
       StopRuntime, SaveRescueCopy, RetireRescues, VerifyRestore, AssumeArchiveKey, CompleteRestore,
       Finally, Fails, KillWorker, RestartMachine, AcknowledgeInterruptedRestore, RestoreState,
       RestoreVolumes, ReconcileApps, InstallApp

LEMMA InstallFields ==
  ASSUME TypesHold, InstallApp
  PROVE  \E a \in Apps \ machine.present :
           /\ machine'.store = [machine.store EXCEPT !.apps = @ \cup {a}]
           /\ machine'.files = machine.files /\ machine'.routes = machine.routes
           /\ machine'.present = machine.present \cup {a}
           /\ machine'.data = [machine.data EXCEPT ![a] = {"own"}]
BY DEF TypesHold, InstallApp, Machines

LEMMA ReconcileFields ==
  ASSUME TypesHold, ReconcileApps
  PROVE  /\ machine'.store = machine.store /\ machine'.files = machine.files
         /\ machine'.present = machine.present /\ machine'.data = machine.data
         /\ machine'.routes = "backup"
BY DEF TypesHold, ReconcileApps, Machines

LEMMA StepNothingStray ==
  ASSUME TypesHold, TypesHold', NothingStray, StateProgress, VolumeProgress, RestoreNext
  PROVE  NothingStray'
<1>0. point' = point /\ \A f \in Files : InPoint(f)' = InPoint(f)
  BY QuietSteps DEF InPoint
<1>1. machine.data \in [Apps -> Contents] /\ machine.files \in [Files -> Origin] /\ machine \in Machines
  BY DEF TypesHold, Machines
<1>2. CASE machine' = machine
  BY <1>0, <1>2 DEF NothingStray
<1>3. CASE RestoreState
  <2>1. CASE machine'.present = machine.present /\ machine'.data = machine.data /\ machine'.files = machine.files
    BY <1>0, <2>1 DEF NothingStray
  <2>2. CASE AtStep("remove-target") /\ restorer.todo = {}
    BY <1>1, <1>3, <2>1, <2>2 DEF RestoreState, RestoreTarget, AtStep, Machines
  <2>3. CASE RestoreTarget
    <3>1. restorer.todo \subseteq Targets
      BY <2>3 DEF StateProgress, In, PuttingState, RestoreTarget, AtStep
    <3>2. PICK t \in Targets :
            \/ machine' = machine
            \/ machine' = Removed(machine, t) /\ InPoint(t)
            \/ machine' = Copied(machine, t)
      <4>1. CASE AtStep("remove-target")
        <5>1. PICK t \in restorer.todo : IF InPoint(t) THEN machine' = Removed(machine, t) ELSE UNCHANGED machine
          BY <2>3, <4>1 DEF RestoreTarget, AtStep
        <5>2. t \in Targets BY <3>1
        <5>3. (InPoint(t) => machine' = Removed(machine, t)) /\ (~InPoint(t) => machine' = machine)
          BY <5>1
        <5> QED BY <5>2, <5>3
      <4>2. CASE AtStep("copy-target")
        BY <2>3, <4>2 DEF RestoreTarget, AtStep
      <4> QED BY <2>3, <4>1, <4>2 DEF RestoreTarget
    <3>3. machine'.present = machine.present /\ machine'.data = machine.data
      BY <1>1, <3>2, FieldsAfter
    <3>4. ASSUME NEW f \in Files, machine'.files[f] = Gone PROVE InPoint(f)
      <4>1. CASE t \in Files
        <5>1. \/ machine'.files = machine.files
              \/ machine'.files = [machine.files EXCEPT ![t] = Gone] /\ InPoint(t)
              \/ machine'.files = [machine.files EXCEPT ![t] = "backup"]
          BY <1>1, <3>2, <4>1, FieldsAfter
        <5>2. CASE f = t
          BY <1>1, <3>4, <4>1, <5>1, <5>2 DEF NothingStray, Gone
        <5>3. CASE f # t
          BY <1>1, <3>4, <4>1, <5>1, <5>3 DEF NothingStray
        <5> QED BY <5>2, <5>3
      <4>2. CASE t = "suite-manager-state"
        BY <1>1, <3>2, <3>4, <4>2, FieldsAfter DEF NothingStray
      <4> QED BY <4>1, <4>2 DEF Targets
    <3> QED BY <1>0, <3>3, <3>4 DEF NothingStray
  <2> QED BY <1>3, <2>2, <2>3 DEF RestoreState
<1>4. CASE RestoreVolumes
  <2>1. restorer.todo \subseteq Apps \/ machine' = machine
    BY <1>4 DEF RestoreVolumes, VolumeProgress, In, TypesHold, AtStep
  <2>2. CASE \E a \in Apps : machine' = WithVolume(machine, a)
    <3>1. PICK a \in Apps : machine' = WithVolume(machine, a)
      BY <2>2
    <3>2. /\ machine'.files = machine.files /\ machine'.present = machine.present \cup {a}
          /\ machine'.data = [machine.data EXCEPT ![a] = machine.data[a] \cup {"backup"}]
      BY <1>1, <3>1, FieldsAfter
    <3> QED BY <1>0, <1>1, <3>2 DEF NothingStray
  <2>3. CASE \E a \in Apps : machine' = WithoutVolume(machine, a)
    <3>1. PICK a \in Apps : machine' = WithoutVolume(machine, a)
      BY <2>3
    <3>2. /\ machine'.files = machine.files /\ machine'.present = machine.present \ {a}
          /\ machine'.data = [machine.data EXCEPT ![a] = {}]
      BY <1>1, <3>1, FieldsAfter
    <3> QED BY <1>0, <1>1, <3>2 DEF NothingStray
  <2> QED BY <1>2, <1>4, <2>1, <2>2, <2>3 DEF RestoreVolumes
<1>5. CASE ReconcileApps
  BY <1>0, <1>5, ReconcileFields DEF NothingStray
<1>6. CASE InstallApp
  BY <1>0, <1>1, <1>6, InstallFields DEF NothingStray
<1> QED BY <1>2, <1>3, <1>4, <1>5, <1>6, QuietSteps
------------------------------------------------------------------------------
(* Rescue before removal. *)

LEMMA StepRescueGoesFirst ==
  ASSUME MaxRestores \in Nat, TypesHold, TypesHold', RescueGoesFirst, RestoreNext
  PROVE  RescueGoesFirst'
<1> USE DEF In, Rescuing, Touching, PuttingState, PuttingVolumes, Starting, Proving, Proved, AtStep
<1>0. restorer \in Workers /\ This \in Nat /\ (restorer.pc # "none" => This \in RestoreIds)
  BY DEF TypesHold, This, RestoreIds
<1>1. CASE BeginRestore \/ ValidateRestorePoint \/ CheckSpace \/ OpenRestoreJournal \/ RestartMachine
  <2>1. machine' = machine /\ rescues' = rescues /\ before' = before
    BY <1>1 DEF BeginRestore, ValidateRestorePoint, CheckSpace, OpenRestoreJournal, RestartMachine
  <2>2. restorer'.pc \in Looking \cup {"stop", "none"}
    <3>1. CASE BeginRestore \/ ValidateRestorePoint \/ OpenRestoreJournal
      BY <1>0, <3>1 DEF BeginRestore, ValidateRestorePoint, OpenRestoreJournal, Then, Looking, Workers
    <3>2. CASE CheckSpace
      BY <1>0, <3>2 DEF CheckSpace, Looking, Workers
    <3>3. CASE RestartMachine
      BY <3>3 DEF RestartMachine, NoWorker
    <3> QED BY <1>1, <3>1, <3>2, <3>3
  <2> QED BY <2>1, <2>2 DEF RescueGoesFirst, Looking, Holds
<1>2. CASE StopRuntime
  <2>1. /\ before' = [machine |-> machine, owned |-> restorer.owned] /\ machine' = machine
        /\ restorer'.pc = "rescue" /\ restorer'.owned = restorer.owned
    BY <1>0, <1>2 DEF StopRuntime, Workers
  <2> QED BY <2>1 DEF RescueGoesFirst, TypesHold
<1>3. CASE SaveRescueCopy
  <2>1. /\ machine' = machine /\ before' = before /\ This' = This /\ before.machine = machine
        /\ restorer.owned = before.owned /\ restorer'.owned = restorer.owned
        /\ restorer'.pc \in Rescuing \cup {"retire"}
    BY <1>0, <1>3 DEF SaveRescueCopy, Rescue, RescueGoesFirst, Then, ThenEach, Workers, This
  <2>2. This \in RestoreIds /\ This \in DOMAIN rescues
    BY <1>0, <1>3 DEF SaveRescueCopy, Rescue, TypesHold
  <2>3. CASE restorer.pc = "rescue"
    <3>1. /\ restorer'.pc = "rescue-volumes" /\ restorer'.todo = before.owned
          /\ rescues'[This] = [status |-> "partial", copy |-> [machine EXCEPT !.present = {}]]
      BY <1>0, <1>3, <2>1, <2>2, <2>3 DEF SaveRescueCopy, Rescue, ThenEach, Workers
    <3>2. before.owned \ restorer'.todo = {} BY <3>1
    <3> QED BY <2>1, <3>1, <3>2 DEF RescueGoesFirst, TypesHold
  <2>4. CASE restorer.pc = "rescue-volumes"
    <3> DEFINE copy == [before.machine EXCEPT !.present = before.owned \ restorer.todo]
    <3>1. rescues[This] = [status |-> "partial", copy |-> copy] /\ restorer.todo \subseteq before.owned
      BY <2>4 DEF RescueGoesFirst
    <3> DEFINE grown(a) == [rescues EXCEPT ![This].copy.present = @ \cup {a}]
    <3>2. CASE \E a \in restorer.todo : rescues' = grown(a) /\ restorer' = [restorer EXCEPT !.todo = @ \ {a}]
      <4>1. PICK a \in restorer.todo : rescues' = grown(a) /\ restorer' = [restorer EXCEPT !.todo = @ \ {a}]
        BY <3>2
      <4>2. restorer'.todo = restorer.todo \ {a} /\ restorer'.pc = "rescue-volumes"
        BY <1>0, <2>4, <4>1 DEF Workers
      <4>3. before.owned \ restorer'.todo = (before.owned \ restorer.todo) \cup {a}
        BY <3>1, <4>1, <4>2
      <4>4. copy.present = before.owned \ restorer.todo
        BY <2>1 DEF TypesHold, Machines
      <4>5. [copy EXCEPT !.present = @ \cup {a}] = [before.machine EXCEPT !.present = before.owned \ restorer'.todo]
        BY <2>1, <4>3, <4>4 DEF TypesHold, Machines
      <4>6. rescues'[This] = [status |-> "partial", copy |-> [copy EXCEPT !.present = @ \cup {a}]]
        <5>1. rescues'[This] = [rescues[This] EXCEPT !.copy = [rescues[This].copy EXCEPT !.present = @ \cup {a}]]
          BY <2>2, <4>1 DEF TypesHold
        <5>2. rescues[This].copy = copy /\ rescues[This] = [status |-> "partial", copy |-> copy]
          BY <3>1
        <5> HIDE DEF copy
        <5> QED BY <5>1, <5>2
      <4> QED BY <2>1, <3>1, <4>2, <4>5, <4>6 DEF RescueGoesFirst, TypesHold
    <3>3. CASE restorer.todo = {} /\ rescues' = [rescues EXCEPT ![This].status = "complete"] /\ Then("retire")
      <4>1. rescues'[This] = [status |-> "complete", copy |-> copy]
        <5>1. rescues'[This] = [rescues[This] EXCEPT !.status = "complete"]
          BY <2>2, <3>3 DEF TypesHold
        <5> HIDE DEF copy
        <5> QED BY <3>1, <5>1
      <4>2. /\ copy.store = machine.store /\ copy.files = machine.files /\ copy.data = machine.data
            /\ copy.present = before.owned
        BY <2>1, <3>3 DEF TypesHold, Machines
      <4>3. Holds(This)'
        <5>1. rescues'[This].status = "complete" /\ rescues'[This].copy = copy
          BY <4>1
        <5> HIDE DEF copy
        <5> QED BY <2>1, <4>2, <5>1 DEF Holds
      <4>4. restorer'.pc = "retire" BY <1>0, <3>3 DEF Then, Workers
      <4> QED BY <2>1, <4>3, <4>4 DEF RescueGoesFirst, TypesHold
    <3> QED BY <1>3, <2>4, <3>2, <3>3 DEF SaveRescueCopy, Rescue
  <2> QED BY <1>3, <2>3, <2>4 DEF SaveRescueCopy, Rescue
<1>4. CASE RetireRescues
  <2>1. /\ machine' = machine /\ before' = before /\ This' = This /\ Holds(This)
        /\ machine = before.machine /\ restorer.owned = before.owned /\ restorer'.owned = restorer.owned
        /\ restorer'.pc \in {"retire", "remove-target"}
    BY <1>0, <1>4 DEF RetireRescues, RescueGoesFirst, ThenEach, Workers, This
  <2>2. rescues'[This] = rescues[This]
    BY <1>0, <1>4 DEF RetireRescues, TypesHold
  <2> QED BY <2>1, <2>2 DEF RescueGoesFirst, Holds, TypesHold
<1>5. CASE \/ RestoreState \/ RestoreVolumes \/ ReconcileApps \/ VerifyRestore
           \/ AssumeArchiveKey \/ CompleteRestore
  <2>1. rescues' = rescues /\ before' = before /\ used' = used /\ restorer.pc \in Touching \ {"retire"}
    BY <1>5 DEF RestoreState, RestoreTarget, RestoreVolumes, ReconcileApps, VerifyRestore,
                AssumeArchiveKey, CompleteRestore
  <2>2. restorer'.pc \in (Touching \ {"retire"}) \cup {"finally-ok"} /\ restorer'.owned = restorer.owned
    BY <1>0, <1>5 DEF RestoreState, RestoreTarget, RestoreVolumes, ReconcileApps, VerifyRestore,
                AssumeArchiveKey, CompleteRestore, Then, ThenEach, Workers
  <2>3. Holds(This) /\ before.machine \in Machines /\ restorer.owned = before.owned /\ This \in RestoreIds
    BY <1>0, <2>1 DEF RescueGoesFirst
  <2>4. Holds(This)' BY <2>1, <2>3 DEF Holds, This
  <2> QED BY <2>1, <2>2, <2>3, <2>4 DEF RescueGoesFirst, This
<1>6. CASE Finally \/ Fails \/ KillWorker \/ AcknowledgeInterruptedRestore
  <2>1. machine' = machine /\ rescues' = rescues /\ (before' = before \/ before' = NoBefore)
    BY <1>6 DEF Finally, Fails, KillWorker, AcknowledgeInterruptedRestore
  <2>2. restorer'.pc \in {"none", "finally-failed"}
    BY <1>0, <1>6 DEF Finally, Fails, KillWorker, AcknowledgeInterruptedRestore, Then, NoWorker, Workers
  <2> QED BY <2>1, <2>2 DEF RescueGoesFirst, Holds
<1>7. CASE InstallApp
  <2>1. before' = NoBefore /\ restorer' = restorer /\ before = NoBefore
    BY <1>7 DEF InstallApp
  <2>2. before.machine \notin Machines
    BY <2>1, MachinesAreReal DEF NoBefore
  <2> QED BY <2>1, <2>2 DEF RescueGoesFirst
<1> QED BY <1>1, <1>2, <1>3, <1>4, <1>5, <1>6, <1>7 DEF RestoreNext, RestoreStep
------------------------------------------------------------------------------
(* The journal. *)

\* What is proved has been put back.
LEMMA ProvedIsRestored ==
  ASSUME StateProgress, In(Proved \cup {"finally-ok"})
  PROVE  Restored
<1>1. \A t \in Targets : InPoint(t) => PutBack(t)
  BY DEF StateProgress, In
<1>2. machine.routes = "backup" /\ Verified(machine)
  BY DEF StateProgress, In
<1>3. /\ "suite-manager-state" \in Targets /\ InPoint("suite-manager-state")
      /\ \A f \in Files : f \in Targets /\ f # "suite-manager-state"
  BY DEF Targets, Files, InPoint, KeptWhenAbsent
<1> QED BY <1>1, <1>2, <1>3 DEF Restored, PutBack

LEMMA StepJournalIsOpen ==
  ASSUME TypesHold, TypesHold', RescueGoesFirst, JournalIsOpen, StateProgress, RestoreNext
  PROVE  JournalIsOpen'
<1> USE DEF In, Looking, Rescuing, Touching, PuttingState, PuttingVolumes, Starting, Proving, Proved, AtStep
<1>0. restorer \in Workers /\ point' = point BY QuietSteps DEF TypesHold
<1>1. machine' = machine /\ before' = before => Untouched' = Untouched /\ Restored' = Restored
  BY <1>0 DEF Untouched, Restored, InPoint, Verified, Installed, Owned
<1>2. CASE BeginRestore \/ ValidateRestorePoint \/ CheckSpace \/ RestartMachine \/ Fails
           \/ SaveRescueCopy \/ VerifyRestore \/ AssumeArchiveKey
  <2>1. machine' = machine /\ before' = before /\ journal' = journal
    BY <1>2 DEF BeginRestore, ValidateRestorePoint, CheckSpace, RestartMachine, Fails, SaveRescueCopy,
                VerifyRestore, AssumeArchiveKey
  <2>2. JournalTellsTheTruth'
    BY <1>1, <2>1 DEF JournalIsOpen, JournalTellsTheTruth
  <2>3. CASE BeginRestore
    <3>1. restorer'.pc = "checking" /\ journal = NoJournal
      BY <1>0, <2>3 DEF BeginRestore, Then, Workers
    <3> QED BY <2>1, <2>2, <3>1 DEF JournalIsOpen
  <2>4. CASE ValidateRestorePoint \/ CheckSpace
    <3>1. restorer'.pc \in {"space", "journal"} /\ journal = NoJournal
      BY <1>0, <2>4 DEF ValidateRestorePoint, CheckSpace, Then, Workers, JournalIsOpen
    <3> QED BY <2>1, <2>2, <3>1 DEF JournalIsOpen
  <2>5. CASE RestartMachine \/ Fails
    <3>1. restorer'.pc \in {"none", "finally-failed"}
      BY <1>0, <2>5 DEF RestartMachine, Fails, Then, Workers, NoWorker
    <3> QED BY <2>1, <2>2, <3>1 DEF JournalIsOpen
  <2>6. CASE SaveRescueCopy \/ VerifyRestore \/ AssumeArchiveKey
    <3>1. restorer'.pc \in Rescuing \cup Touching /\ restorer.pc \in Rescuing \cup Touching
      BY <1>0, <2>6 DEF SaveRescueCopy, Rescue, VerifyRestore, AssumeArchiveKey, Then, ThenEach, Workers
    <3>2. journal # NoJournal BY <3>1 DEF JournalIsOpen
    <3> QED BY <2>1, <2>2, <3>1, <3>2 DEF JournalIsOpen
  <2> QED BY <1>2, <2>3, <2>4, <2>5, <2>6
<1>3. CASE OpenRestoreJournal
  <2>1. journal' # NoJournal /\ restorer'.pc = "stop"
    BY <1>0, <1>3 DEF OpenRestoreJournal, NoJournal, Then, Workers
  <2> QED BY <2>1 DEF JournalIsOpen, JournalTellsTheTruth
<1>4. CASE StopRuntime
  <2>1. journal' # NoJournal /\ restorer'.pc = "rescue"
    BY <1>0, <1>4 DEF StopRuntime, NoJournal, Workers
  <2> QED BY <2>1 DEF JournalIsOpen, JournalTellsTheTruth
<1>5. CASE RetireRescues \/ RestoreState \/ RestoreVolumes \/ ReconcileApps
  <2>1. restorer.pc \in Touching
    BY <1>5 DEF RetireRescues, RestoreState, RestoreTarget, RestoreVolumes, ReconcileApps
  <2>2. journal' # NoJournal
    BY <1>5, <2>1 DEF RetireRescues, RestoreState, RestoreVolumes, ReconcileApps, JournalIsOpen, NoJournal
  <2>3. restorer'.pc \in Touching
    BY <1>0, <1>5 DEF RetireRescues, RestoreState, RestoreTarget, RestoreVolumes, ReconcileApps, Then,
                      ThenEach, Workers
  <2> QED BY <2>2, <2>3 DEF JournalIsOpen, JournalTellsTheTruth
<1>6. CASE CompleteRestore
  <2>1. machine' = machine /\ before' = before /\ restorer'.pc = "finally-ok" /\ journal' = NoJournal
    BY <1>0, <1>6 DEF CompleteRestore, Then, Workers
  <2>2. Restored BY <1>6, ProvedIsRestored DEF CompleteRestore
  <2> QED BY <1>1, <2>1, <2>2 DEF JournalIsOpen, JournalTellsTheTruth
<1>7. CASE Finally \/ KillWorker \/ AcknowledgeInterruptedRestore
  <2>1. restorer'.pc = "none"
    BY <1>7 DEF Finally, KillWorker, AcknowledgeInterruptedRestore, NoWorker
  <2>2. machine' = machine /\ ((before' = before /\ journal' = journal) \/ before' = NoBefore)
    BY <1>7 DEF Finally, KillWorker, AcknowledgeInterruptedRestore
  <2> QED BY <1>1, <2>1, <2>2 DEF JournalIsOpen, JournalTellsTheTruth
<1>8. CASE InstallApp
  <2>1. before' = NoBefore /\ restorer' = restorer /\ journal' = journal
    BY <1>8 DEF InstallApp
  <2> QED BY <2>1 DEF JournalIsOpen, JournalTellsTheTruth
<1> QED BY <1>2, <1>3, <1>4, <1>5, <1>6, <1>7, <1>8 DEF RestoreNext, RestoreStep

------------------------------------------------------------------------------
(* The state put back, one target after another. *)

LEMMA StepStateProgress ==
  ASSUME TypesHold, TypesHold', NothingStray, RescueGoesFirst, StateProgress, RestoreNext
  PROVE  StateProgress'
<1> USE DEF In, Looking, Rescuing, Touching, PuttingState, PuttingVolumes, Starting, Proving, Proved, AtStep
<1>0. restorer \in Workers /\ point' = point /\ machine \in Machines
      /\ \A t : InPoint(t)' = InPoint(t)
  BY QuietSteps DEF TypesHold, InPoint
<1>1. machine' = machine => \A t : PutBack(t)' = PutBack(t) /\ Missing(t)' = Missing(t)
  BY <1>0 DEF PutBack, Missing
<1>2. CASE \/ BeginRestore \/ ValidateRestorePoint \/ CheckSpace \/ RestartMachine \/ Fails
           \/ SaveRescueCopy \/ OpenRestoreJournal \/ StopRuntime \/ Finally \/ KillWorker
           \/ AcknowledgeInterruptedRestore \/ InstallApp
  <2>1. restorer'.pc \in Looking \cup Rescuing \cup {"none", "stop", "retire", "finally-failed"}
    <3>1. CASE BeginRestore \/ ValidateRestorePoint \/ CheckSpace \/ Fails \/ OpenRestoreJournal
      BY <1>0, <3>1 DEF BeginRestore, ValidateRestorePoint, CheckSpace, Fails, OpenRestoreJournal, Then,
                        Workers
    <3>2. CASE SaveRescueCopy \/ StopRuntime
      BY <1>0, <3>2 DEF SaveRescueCopy, Rescue, StopRuntime, Then, ThenEach, Workers
    <3>3. CASE RestartMachine \/ Finally \/ KillWorker \/ AcknowledgeInterruptedRestore
      BY <3>3 DEF RestartMachine, Finally, KillWorker, AcknowledgeInterruptedRestore, NoWorker
    <3>4. CASE InstallApp
      <4>1. before = NoBefore /\ restorer' = restorer
        BY <3>4 DEF InstallApp
      <4>2. ~In(Rescuing \cup Touching \cup {"finally-ok"})
        BY <4>1, MachinesAreReal DEF NoBefore, RescueGoesFirst
      <4> QED BY <1>0, <4>1, <4>2 DEF Workers, Steps
    <3> QED BY <1>2, <3>1, <3>2, <3>3, <3>4
  <2> QED BY <2>1 DEF StateProgress
<1>3. CASE RetireRescues
  <2>1. restorer'.pc = "retire" \/ (restorer'.pc = "remove-target" /\ restorer'.todo = Targets)
    BY <1>0, <1>3 DEF RetireRescues, ThenEach, Workers
  <2> QED BY <2>1 DEF StateProgress
<1>4. CASE RestoreState /\ AtStep("remove-target") /\ restorer.todo # {}
  <2>1. PICK t \in restorer.todo :
          IF InPoint(t) THEN machine' = Removed(machine, t) /\ ThenEach("copy-target", restorer.todo \ {t})
          ELSE UNCHANGED machine /\ ThenEach("remove-target", restorer.todo \ {t})
    BY <1>4 DEF RestoreState, RestoreTarget
  <2>2. restorer.todo \subseteq Targets /\ t \in Targets
    BY <1>4 DEF StateProgress
  <2>3. CASE ~InPoint(t)
    <3>1. machine' = machine /\ restorer'.pc = "remove-target" /\ restorer'.todo = restorer.todo \ {t}
      BY <1>0, <2>1, <2>3 DEF ThenEach, Workers
    <3> QED BY <1>0, <1>1, <1>4, <2>2, <2>3, <3>1 DEF StateProgress
  <2>4. CASE InPoint(t)
    <3>1. machine' = Removed(machine, t) /\ restorer'.pc = "copy-target" /\ restorer'.todo = restorer.todo \ {t}
      BY <1>0, <2>1, <2>4 DEF ThenEach, Workers
    <3>2. Missing(t)' /\ \A u \in Targets \ {t} : PutBack(u) => PutBack(u)'
      <4>1. CASE t = "suite-manager-state"
        BY <1>0, <3>1, <4>1, FieldsAfter DEF Missing, PutBack
      <4>2. CASE t \in Files
        <5>1. machine'.store = machine.store /\ machine'.files = [machine.files EXCEPT ![t] = Gone]
          BY <1>0, <3>1, <4>2, FieldsAfter
        <5>2. t # "suite-manager-state" /\ machine.files \in [Files -> Origin]
          BY <1>0, <4>2 DEF Files, Machines
        <5> QED BY <1>0, <4>2, <5>1, <5>2 DEF Missing, PutBack, Targets
      <4> QED BY <2>2, <4>1, <4>2 DEF Targets
    <3>3. \A u \in (Targets \ restorer'.todo) \ {t} : InPoint(u)' => PutBack(u)'
      BY <1>0, <1>4, <3>1, <3>2 DEF StateProgress
    <3> QED BY <1>0, <2>2, <2>4, <3>1, <3>2, <3>3 DEF StateProgress
  <2> QED BY <2>3, <2>4
<1>5. CASE RestoreState /\ AtStep("copy-target")
  <2>1. PICK t \in Targets \ restorer.todo :
          /\ \/ t = "suite-manager-state" /\ machine.store = NoStore
             \/ t \in Files /\ machine.files[t] = Gone
          /\ machine' = Copied(machine, t) /\ Then("remove-target")
    BY <1>5 DEF RestoreState, RestoreTarget
  <2>2. PICK s \in Targets \ restorer.todo :
          /\ InPoint(s) /\ Missing(s)
          /\ \A u \in (Targets \ restorer.todo) \ {s} : InPoint(u) => PutBack(u)
    BY <1>5 DEF StateProgress
  <2>3. s = t
    <3>1. InPoint(t) BY <2>1 DEF NothingStray, InPoint, KeptWhenAbsent
    <3>2. ~PutBack(t) BY <2>1 DEF PutBack, NoStore, Gone, Files
    <3> QED BY <2>1, <2>2, <3>1, <3>2
  <2>4. restorer'.pc = "remove-target" /\ restorer'.todo = restorer.todo /\ restorer.todo \subseteq Targets
    BY <1>0, <1>5, <2>1 DEF Then, Workers, StateProgress
  <2>5. PutBack(t)' /\ \A u \in Targets \ {t} : PutBack(u) => PutBack(u)'
    <3>1. CASE t = "suite-manager-state"
      BY <1>0, <2>1, <3>1, FieldsAfter DEF PutBack
    <3>2. CASE t \in Files
      <4>1. machine'.store = machine.store /\ machine'.files = [machine.files EXCEPT ![t] = "backup"]
        BY <1>0, <2>1, <3>2, FieldsAfter
      <4>2. t # "suite-manager-state" /\ machine.files \in [Files -> Origin]
        BY <1>0, <3>2 DEF Files, Machines
      <4> QED BY <1>0, <3>2, <4>1, <4>2 DEF PutBack, Targets
    <3> QED BY <2>1, <3>1, <3>2
  <2> QED BY <1>0, <2>2, <2>3, <2>4, <2>5 DEF StateProgress
<1>6. CASE RestoreState /\ AtStep("remove-target") /\ restorer.todo = {}
  <2>1. machine' = [machine EXCEPT !.routes = "empty"] /\ restorer'.pc = "remove-volumes"
    BY <1>0, <1>6 DEF RestoreState, RestoreTarget, ThenEach, Workers
  <2>2. machine'.store = machine.store /\ machine'.files = machine.files
    BY <1>0, <2>1 DEF Machines
  <2>3. \A t \in Targets : InPoint(t) => PutBack(t)
    BY <1>6 DEF StateProgress
  <2> QED BY <1>0, <2>1, <2>2, <2>3 DEF StateProgress, PutBack
<1>7. CASE RestoreVolumes
  <2>1. machine'.store = machine.store /\ machine'.files = machine.files
    <3>1. CASE machine' = machine
      BY <3>1
    <3>2. CASE machine' # machine
      <4>1. PICK a \in restorer.todo : machine' = WithVolume(machine, a) \/ machine' = WithoutVolume(machine, a)
        BY <1>7, <3>2 DEF RestoreVolumes
      <4> QED BY <1>0, <4>1 DEF WithVolume, WithoutVolume, Machines
    <3> QED BY <3>1, <3>2
  <2>2. restorer'.pc \in {"remove-volumes", "create-volumes", "reconcile"} /\ restorer.pc \in PuttingVolumes
    BY <1>0, <1>7 DEF RestoreVolumes, Then, ThenEach, Workers
  <2> QED BY <1>0, <2>1, <2>2 DEF StateProgress, PutBack
<1>8. CASE ReconcileApps
  <2>1. restorer'.pc = "verify" /\ restorer.pc = "reconcile"
    BY <1>0, <1>8 DEF ReconcileApps, Then, Workers
  <2> QED BY <1>0, <1>8, <2>1, ReconcileFields DEF StateProgress, PutBack
<1>9. CASE VerifyRestore \/ AssumeArchiveKey \/ CompleteRestore
  <2>1. /\ machine' = machine /\ restorer.pc \in Proving \cup Proved
        /\ restorer'.pc \in Proved \cup {"finally-ok"}
    BY <1>0, <1>9 DEF VerifyRestore, AssumeArchiveKey, CompleteRestore, Then, Workers
  <2>2. Verified(machine)
    BY <1>9 DEF VerifyRestore, AssumeArchiveKey, CompleteRestore, StateProgress
  <2>3. Verified(machine)'
    BY <1>0, <2>1, <2>2 DEF Verified, Installed, Owned
  <2> QED BY <1>0, <1>1, <2>1, <2>3 DEF StateProgress
<1> QED
  BY <1>2, <1>3, <1>4, <1>5, <1>6, <1>7, <1>8, <1>9
     DEF RestoreNext, RestoreStep, RestoreState, RestoreTarget
------------------------------------------------------------------------------
(* The volumes put back, one app after another. *)

LEMMA StepVolumeProgress ==
  ASSUME TypesHold, TypesHold', NothingStray, RescueGoesFirst, VolumeProgress, RestoreNext
  PROVE  VolumeProgress'
<1> USE DEF In, Looking, Rescuing, Touching, PuttingState, PuttingVolumes, Starting, Proving, Proved, AtStep
<1>0. /\ restorer \in Workers /\ point' = point /\ machine \in Machines
      /\ point.apps \subseteq Apps /\ machine.data \in [Apps -> Contents]
  BY QuietSteps DEF TypesHold, Machines
<1>1. CASE \/ BeginRestore \/ ValidateRestorePoint \/ CheckSpace \/ RestartMachine \/ Fails
           \/ SaveRescueCopy \/ OpenRestoreJournal \/ StopRuntime \/ Finally \/ KillWorker
           \/ AcknowledgeInterruptedRestore \/ InstallApp
  <2>1. restorer'.pc \in Looking \cup Rescuing \cup {"none", "stop", "retire", "finally-failed"}
    <3>1. CASE BeginRestore \/ ValidateRestorePoint \/ CheckSpace \/ Fails \/ OpenRestoreJournal
      BY <1>0, <3>1 DEF BeginRestore, ValidateRestorePoint, CheckSpace, Fails, OpenRestoreJournal, Then,
                        Workers
    <3>2. CASE SaveRescueCopy \/ StopRuntime
      BY <1>0, <3>2 DEF SaveRescueCopy, Rescue, StopRuntime, Then, ThenEach, Workers
    <3>3. CASE RestartMachine \/ Finally \/ KillWorker \/ AcknowledgeInterruptedRestore
      BY <3>3 DEF RestartMachine, Finally, KillWorker, AcknowledgeInterruptedRestore, NoWorker
    <3>4. CASE InstallApp
      <4>1. before = NoBefore /\ restorer' = restorer
        BY <3>4 DEF InstallApp
      <4>2. ~In(Rescuing \cup Touching \cup {"finally-ok"})
        BY <4>1, MachinesAreReal DEF NoBefore, RescueGoesFirst
      <4> QED BY <1>0, <4>1, <4>2 DEF Workers, Steps
    <3> QED BY <1>1, <3>1, <3>2, <3>3, <3>4
  <2> QED BY <2>1 DEF VolumeProgress
<1>2. CASE RetireRescues
  <2>1. machine' = machine /\ before' = before /\ machine = before.machine
    BY <1>2 DEF RetireRescues, RescueGoesFirst
  <2>2. restorer'.pc \in {"retire", "remove-target"}
    BY <1>0, <1>2 DEF RetireRescues, ThenEach, Workers
  <2> QED BY <2>1, <2>2 DEF VolumeProgress
<1>3. CASE RestoreState
  <2>1. before' = before /\ restorer'.owned = restorer.owned
    BY <1>0, <1>3 DEF RestoreState, RestoreTarget, ThenEach, Then, Workers
  <2>2. machine'.present = machine.present
    <3>1. CASE \E t : machine' = Removed(machine, t) \/ machine' = Copied(machine, t)
      BY <1>0, <3>1 DEF Removed, Copied, Machines
    <3>2. CASE machine' = machine \/ machine' = [machine EXCEPT !.routes = "empty"]
      BY <1>0, <3>2 DEF Machines
    <3> QED BY <1>3, <3>1, <3>2 DEF RestoreState, RestoreTarget
  <2>3. machine.present = before.machine.present
    BY <1>3 DEF VolumeProgress, RestoreState, RestoreTarget
  <2>4. \/ restorer'.pc \in PuttingState
        \/ restorer'.pc = "remove-volumes" /\ restorer'.todo = restorer.owned
    BY <1>0, <1>3 DEF RestoreState, RestoreTarget, ThenEach, Then, Workers
  <2>5. restorer.owned = before.owned /\ before.owned \subseteq Apps
    BY <1>3 DEF RescueGoesFirst, RestoreState, RestoreTarget, TypesHold
  <2> QED BY <2>1, <2>2, <2>3, <2>4, <2>5 DEF VolumeProgress
<1>4. CASE RestoreVolumes /\ AtStep("remove-volumes") /\ restorer.todo # {}
  <2>1. PICK a \in restorer.todo :
          machine' = WithoutVolume(machine, a) /\ ThenEach("remove-volumes", restorer.todo \ {a})
    BY <1>4 DEF RestoreVolumes
  <2>2. restorer.todo \subseteq Apps /\ before' = before
    BY <1>4 DEF VolumeProgress, RestoreVolumes
  <2>3. machine'.present = machine.present \ {a}
    BY <1>0, <2>1, <2>2, FieldsAfter
  <2>4. restorer'.pc = "remove-volumes" /\ restorer'.todo = restorer.todo \ {a}
    BY <1>0, <2>1 DEF ThenEach, Workers
  <2> QED BY <1>4, <2>2, <2>3, <2>4 DEF VolumeProgress
<1>5. CASE RestoreVolumes /\ AtStep("remove-volumes") /\ restorer.todo = {}
  <2>1. machine' = machine /\ before' = before /\ ThenEach("create-volumes", point.apps)
    BY <1>5 DEF RestoreVolumes
  <2>2. restorer'.pc = "create-volumes" /\ restorer'.todo = point.apps
    BY <1>0, <2>1 DEF ThenEach, Workers
  <2>3. ASSUME NEW a \in point.apps PROVE machine.data[a] = {} \/ Late(a)
    <3>1. a \in machine.present => a \in before.machine.present /\ a \notin before.owned
      BY <1>5 DEF VolumeProgress
    <3> QED BY <1>0, <3>1 DEF NothingStray, Late
  <2> QED BY <1>0, <2>1, <2>2, <2>3 DEF VolumeProgress, Late
<1>6. CASE RestoreVolumes /\ AtStep("create-volumes") /\ restorer.todo # {}
  <2>1. PICK a \in restorer.todo :
          machine' = WithVolume(machine, a) /\ ThenEach("create-volumes", restorer.todo \ {a})
    BY <1>6 DEF RestoreVolumes
  <2>2. restorer.todo \subseteq point.apps /\ before' = before /\ a \in Apps
    BY <1>0, <1>6, <2>1 DEF VolumeProgress, RestoreVolumes
  <2>3. machine'.data = [machine.data EXCEPT ![a] = machine.data[a] \cup {"backup"}]
    BY <1>0, <2>1, <2>2, FieldsAfter
  <2>4. restorer'.pc = "create-volumes" /\ restorer'.todo = restorer.todo \ {a}
    BY <1>0, <2>1 DEF ThenEach, Workers
  <2>5. \A b \in Apps \ {a} : machine'.data[b] = machine.data[b]
    BY <1>0, <2>3
  <2>6. machine'.data[a] = {"backup"} \/ Late(a)
    <3>1. machine.data[a] = {} \/ Late(a) BY <1>6 DEF VolumeProgress
    <3>2. machine'.data[a] = machine.data[a] \cup {"backup"}
      BY <1>0, <2>2, <2>3
    <3> QED BY <3>1, <3>2
  <2>7. \A b : Late(b)' = Late(b) BY <2>2 DEF Late
  <2>8. \A b \in restorer'.todo : machine'.data[b] = {} \/ Late(b)'
    BY <1>0, <1>6, <2>2, <2>4, <2>5, <2>7 DEF VolumeProgress
  <2>9. \A b \in point.apps \ restorer'.todo : machine'.data[b] = {"backup"} \/ Late(b)'
    BY <1>0, <1>6, <2>2, <2>4, <2>5, <2>6, <2>7 DEF VolumeProgress
  <2> QED BY <1>0, <2>2, <2>4, <2>8, <2>9 DEF VolumeProgress
<1>7. CASE RestoreVolumes /\ AtStep("create-volumes") /\ restorer.todo = {}
  <2>1. machine' = machine /\ before' = before /\ Then("reconcile")
    BY <1>7 DEF RestoreVolumes
  <2>2. restorer'.pc = "reconcile" BY <1>0, <2>1 DEF Then, Workers
  <2> QED BY <1>0, <1>7, <2>1, <2>2 DEF VolumeProgress, Late
<1>8. CASE ReconcileApps \/ VerifyRestore \/ AssumeArchiveKey \/ CompleteRestore
  <2>1. /\ restorer.pc \in Starting \cup Proving \cup Proved /\ before' = before
        /\ restorer'.pc \in Proving \cup Proved \cup {"finally-ok"}
    BY <1>0, <1>8 DEF ReconcileApps, VerifyRestore, AssumeArchiveKey, CompleteRestore, Then, Workers
  <2>2. machine'.data = machine.data
    BY <1>8, ReconcileFields DEF VerifyRestore, AssumeArchiveKey, CompleteRestore
  <2> QED BY <1>0, <2>1, <2>2 DEF VolumeProgress, Late
<1> QED
  BY <1>1, <1>2, <1>3, <1>4, <1>5, <1>6, <1>7, <1>8 DEF RestoreNext, RestoreStep, RestoreVolumes

------------------------------------------------------------------------------
(* The theorems. *)

LEMMA RestoreInvInductive ==
  ASSUME MaxRestores \in Nat
  PROVE  /\ RestoreInit => RestoreInv
         /\ RestoreInv /\ [RestoreNext]_rvars => RestoreInv'
<1>1. RestoreInit => RestoreInv
  <2>1. SUFFICES ASSUME RestoreInit PROVE RestoreInv
    OBVIOUS
  <2>2. PICK mine \in SUBSET Apps :
          machine = [store |-> [from |-> "own", apps |-> mine], files |-> [f \in Files |-> "own"],
                     present |-> mine, data |-> [a \in Apps |-> IF a \in mine THEN {"own"} ELSE {}],
                     routes |-> "own"]
    BY <2>1 DEF RestoreInit
  <2>3. /\ point \in [apps : SUBSET Apps, hasId : BOOLEAN, foreign : BOOLEAN]
        /\ runtime = "up" /\ journal = NoJournal /\ rescues = [r \in RestoreIds |-> NoRescue]
        /\ restorer = NoWorker /\ restoreJob = "none" /\ before = NoBefore
        /\ used = [restores |-> 0, kills |-> 0, installs |-> 0]
    BY <2>1 DEF RestoreInit
  <2>4. machine \in Machines
    <3>1. [a \in Apps |-> IF a \in mine THEN {"own"} ELSE {}] \in [Apps -> Contents]
      BY DEF Contents
    <3>2. [f \in Files |-> "own"] \in [Files -> Origin] BY DEF Origin
    <3> QED BY <2>2, <3>1, <3>2 DEF Machines, Origin
  <2>5. TypesHold
    BY <2>3, <2>4, WorkerOperators DEF TypesHold, NoRescue, RescueCopies, NoWorker, NoBefore, NoJournal
  <2>6. NothingStray BY <2>2 DEF NothingStray, Gone
  <2> QED
    BY <2>3, <2>5, <2>6 DEF RestoreInv, RescueGoesFirst, JournalIsOpen, JournalTellsTheTruth,
       StateProgress, VolumeProgress, In, NoWorker, Looking, Rescuing, Touching, PuttingState,
       PuttingVolumes, Starting, Proving, Proved
<1>2. ASSUME RestoreInv, RestoreNext PROVE RestoreInv'
  <2>1. TypesHold'
    <3>1. In({"create-volumes", "remove-volumes"}) => restorer.todo \subseteq Apps
      BY <1>2 DEF RestoreInv, VolumeProgress, In, TypesHold
    <3>2. In({"remove-target"}) => restorer.todo \subseteq Targets
      BY <1>2 DEF RestoreInv, StateProgress, In, PuttingState
    <3>3. In({"rescue-volumes"}) => rescues[This].copy \in Machines /\ restorer.todo \subseteq Apps
      <4>1. SUFFICES ASSUME In({"rescue-volumes"})
                     PROVE  rescues[This].copy \in Machines /\ restorer.todo \subseteq Apps
        OBVIOUS
      <4>2. /\ before.machine \in Machines /\ restorer.todo \subseteq before.owned
            /\ before.owned \in SUBSET Apps
            /\ rescues[This].copy = [before.machine EXCEPT !.present = before.owned \ restorer.todo]
        <5>1. /\ rescues[This] = [status |-> "partial",
                                  copy |-> [before.machine EXCEPT !.present = before.owned \ restorer.todo]]
              /\ restorer.todo \subseteq before.owned
          BY <1>2, <4>1 DEF RestoreInv, RescueGoesFirst
        <5>2. before.machine \in Machines
          BY <1>2, <4>1 DEF RestoreInv, RescueGoesFirst, In, Rescuing
        <5>3. before.owned \in SUBSET Apps
          BY <1>2 DEF RestoreInv, TypesHold
        <5> QED BY <5>1, <5>2, <5>3
      <4>3. before.owned \ restorer.todo \in SUBSET Apps BY <4>2
      <4> QED BY <4>2, <4>3 DEF Machines
    <3> QED BY <1>2, <3>1, <3>2, <3>3, StepTypes DEF RestoreInv
  <2> QED
    BY <1>2, <2>1, StepNothingStray, StepRescueGoesFirst, StepJournalIsOpen, StepStateProgress,
       StepVolumeProgress DEF RestoreInv
<1>3. ASSUME RestoreInv, UNCHANGED rvars PROVE RestoreInv'
  BY <1>3 DEF rvars, RestoreInv, TypesHold, NothingStray, RescueGoesFirst, JournalIsOpen,
     JournalTellsTheTruth, Untouched, Restored, StateProgress, VolumeProgress, In, Holds, This, InPoint,
     PutBack, Missing, Late, Verified, Installed, Owned
<1> QED BY <1>1, <1>2, <1>3

\* Whatever the machine had when its runtime was stopped for a restore is still on it, or in
\* one complete rescue copy, wherever the worker fails, is killed or loses power on its way.
THEOREM RescuedBeforeRemoved ==
  ASSUME MaxRestores \in Nat
  PROVE  RestoreSpec => []NothingLostBeforeItIsRescued
<1>1. RestoreInv => NothingLostBeforeItIsRescued
  <2>1. SUFFICES ASSUME RestoreInv, before # NoBefore
                 PROVE  \E m \in Copies \cup {machine} :
                          /\ SameStore(m) /\ SameFiles(m)
                          /\ \A a \in before.machine.present \cap before.owned : SameVolume(m, a)
    BY DEF NothingLostBeforeItIsRescued
  <2>2. CASE machine = before.machine
    BY <2>2 DEF SameStore, SameFiles, SameVolume
  <2>3. CASE \E r \in RestoreIds : Holds(r)
    <3>1. PICK r \in RestoreIds : Holds(r)
      BY <2>3
    <3>2. rescues[r].copy \in Copies BY <3>1 DEF Copies, Holds
    <3> QED BY <3>1, <3>2 DEF Holds, SameStore, SameFiles, SameVolume
  <2> QED BY <2>1, <2>2, <2>3 DEF RestoreInv, RescueGoesFirst
<1> QED BY <1>1, RestoreInvInductive, PTL DEF RestoreSpec

\* A machine that is neither as it was nor as the restore point says has an open journal,
\* until its owner dismisses it.
THEOREM InterruptedIsOnRecord ==
  ASSUME MaxRestores \in Nat
  PROVE  RestoreSpec => []JournalTellsTheTruth
<1>1. RestoreInv => JournalTellsTheTruth
  BY DEF RestoreInv, JournalIsOpen
<1> QED BY <1>1, RestoreInvInductive, PTL DEF RestoreSpec

\* A restore is reported a success only over a machine that has what the restore point has,
\* with nothing of before left in a volume that was listed.
THEOREM SuccessPutsBack ==
  ASSUME MaxRestores \in Nat
  PROVE  RestoreSpec => SuccessIsTheBackup
<1>1. ASSUME RestoreInv, RestoreNext, restoreJob' = "succeeded", restoreJob # "succeeded"
      PROVE  Restored /\ \A a \in point.apps : machine.data[a] = {"backup"} \/ Late(a)
  <2>1. AtStep("finally-ok")
    BY <1>1 DEF RestoreNext, RestoreStep, BeginRestore, ValidateRestorePoint, CheckSpace,
       OpenRestoreJournal, StopRuntime, SaveRescueCopy, RetireRescues, RestoreState, RestoreVolumes,
       ReconcileApps, VerifyRestore, AssumeArchiveKey, CompleteRestore, Finally, Fails, KillWorker,
       RestartMachine, AcknowledgeInterruptedRestore, InstallApp
  <2>2. Restored
    BY <1>1, <2>1, ProvedIsRestored DEF RestoreInv, In, AtStep
  <2>3. \A a \in point.apps : machine.data[a] = {"backup"} \/ Late(a)
    BY <1>1, <2>1 DEF RestoreInv, VolumeProgress, In, AtStep
  <2> QED BY <2>2, <2>3
<1>2. RestoreInv /\ [RestoreNext]_rvars => [ReportsTheBackup]_rvars
  BY <1>1 DEF ReportsTheBackup, Late
<1> QED BY <1>2, RestoreInvInductive, PTL DEF RestoreSpec, SuccessIsTheBackup

------------------------------------------------------------------------------
(* The vault: the copy of the recovery key, and a layout cut short. *)

VaultShapes ==
  /\ disk = [state |-> disk.state, key |-> disk.key, open |-> disk.open, step |-> disk.step]
  /\ disk.state \in {"blank", "begun", "made", "small"}
  /\ descriptor = [state |-> descriptor.state, mode |-> descriptor.mode, slot |-> descriptor.slot]
  /\ descriptor.state \in {"none", "unsupported", "vault"}
  /\ owner = [password |-> owner.password, saved |-> owner.saved, confirmed |-> owner.confirmed]
  /\ owner.saved \in BOOLEAN /\ owner.confirmed \in BOOLEAN
  /\ mishaps \in [cuts : Nat, refusals : Nat, rotations : Nat] /\ mishaps.rotations <= MaxRotations

\* While the layout runs nothing is recorded, and the copy is kept before it ends.
LayoutIsUnrecorded ==
  gate = "laying" => /\ descriptor = NoDescriptor /\ disk.step \in 1 .. 7
                     /\ disk.step = 7 => escrow = disk.key

\* The copy goes only once the owner has saved the key that is then the vault's.
CopyIsKept ==
  /\ owner.saved => owner.confirmed
  /\ mishaps.rotations = 0 => HandoverWindowOpens

VaultInv == VaultShapes /\ LayoutIsUnrecorded /\ CopyIsKept /\ UnfinishedIsNotUnsupported

\* Teaching the chip changes neither what the disk is nor who may open it.
LEMMA ChipOperators ==
  ASSUME VaultShapes,
         \/ \E key, mode, pin : Enrol(key, mode, pin)
         \/ \E key : Reseal(key)
         \/ \E mode, pin : EnrolChip(mode, pin)
         \/ UNCHANGED <<chip, descriptor>> /\ (Refusal \/ NoRefusal)
  PROVE  /\ descriptor' = [state |-> descriptor.state, mode |-> descriptor'.mode, slot |-> descriptor'.slot]
         /\ mishaps' \in [cuts : Nat, refusals : Nat, rotations : Nat]
         /\ mishaps'.rotations = mishaps.rotations
<1>1. ASSUME NEW mode, NEW slot, WriteChip(mode, slot)
      PROVE  descriptor' = [state |-> descriptor.state, mode |-> descriptor'.mode, slot |-> descriptor'.slot]
  BY <1>1 DEF WriteChip, VaultShapes
<1>2. UNCHANGED descriptor =>
        descriptor' = [state |-> descriptor.state, mode |-> descriptor'.mode, slot |-> descriptor'.slot]
  BY DEF VaultShapes
<1>3. Refusal \/ NoRefusal => /\ mishaps' \in [cuts : Nat, refusals : Nat, rotations : Nat]
                              /\ mishaps'.rotations = mishaps.rotations
  BY DEF Refusal, NoRefusal, VaultShapes
<1>4. UNCHANGED descriptor \/ \E mode, slot : WriteChip(mode, slot)
  BY DEF Enrol, Reseal, EnrolChip
<1>5. Refusal \/ NoRefusal BY DEF Enrol, Reseal, EnrolChip
<1> QED BY <1>1, <1>2, <1>3, <1>4, <1>5

LEMMA VaultStep ==
  ASSUME MaxRotations \in Nat, VaultInv, VaultNext
  PROVE  VaultInv'
<1> USE DEF VaultInv
<1>1. CASE PowerOn
  BY <1>1 DEF PowerOn, VaultShapes, LayoutIsUnrecorded, CopyIsKept, HandoverWindowOpens,
              UnfinishedIsNotUnsupported
<1>2. CASE CreateVault
  <2>1. /\ descriptor = NoDescriptor /\ disk' = [disk EXCEPT !.step = 1]
        /\ \/ descriptor' = Unsupported /\ disk.state = "small" /\ gate' = "passed"
           \/ descriptor' = descriptor /\ gate' \in {"refused", "laying"}
        /\ UNCHANGED <<escrow, owner, mishaps>>
    BY <1>2 DEF CreateVault, GateFails, PlanIsNone
  <2> QED
    BY <2>1 DEF VaultShapes, LayoutIsUnrecorded, CopyIsKept, HandoverWindowOpens,
                UnfinishedIsNotUnsupported, Unsupported, NoDescriptor
<1>3. CASE LayOut
  <2>1. /\ descriptor = NoDescriptor /\ disk.step \in 1 .. 7 /\ (disk.step = 7 => escrow = disk.key)
        /\ UNCHANGED owner
    BY <1>3 DEF LayOut, LayoutIsUnrecorded
  <2>2. mishaps' \in [cuts : Nat, refusals : Nat, rotations : Nat] /\ mishaps'.rotations = mishaps.rotations
    BY <1>3 DEF LayOut, EnrolFirst, Refusal, NoRefusal, VaultShapes
  <2>3. /\ disk'.state \in {"begun", "made"} /\ disk'.key = disk.key
        /\ disk' = [state |-> disk'.state, key |-> disk'.key, open |-> disk'.open, step |-> disk'.step]
        /\ disk'.step = disk.step + (IF disk.step < 7 THEN 1 ELSE 0)
    BY <1>3, <2>1 DEF LayOut, VaultShapes
  <2>4. CASE disk.step = 7
    BY <1>3, <2>1, <2>2, <2>3, <2>4 DEF LayOut, VaultShapes, LayoutIsUnrecorded, CopyIsKept,
       HandoverWindowOpens, UnfinishedIsNotUnsupported
  <2>5. CASE disk.step # 7
    <3>1. /\ descriptor' = descriptor /\ gate' = "laying" /\ disk'.step = disk.step + 1
          /\ disk'.step \in 1 .. 7 /\ escrow' = IF disk.step = 6 THEN disk.key ELSE escrow
      BY <1>3, <2>1, <2>3, <2>5 DEF LayOut
    <3> QED
      BY <2>1, <2>2, <2>3, <3>1 DEF VaultShapes, LayoutIsUnrecorded, CopyIsKept,
         HandoverWindowOpens, UnfinishedIsNotUnsupported, NoDescriptor
  <2> QED BY <2>4, <2>5
<1>4. CASE LayoutFails \/ FirmwareChanges
  <2>1. mishaps' \in [cuts : Nat, refusals : Nat, rotations : Nat] /\ mishaps'.rotations = mishaps.rotations
    BY <1>4 DEF LayoutFails, FirmwareChanges, Refusal, VaultShapes
  <2> QED
    BY <1>4, <2>1 DEF LayoutFails, FirmwareChanges, GateFails, VaultShapes, LayoutIsUnrecorded,
       CopyIsKept, HandoverWindowOpens, UnfinishedIsNotUnsupported
<1>5. CASE GateRuns
  <2>1. /\ gate' \in {"passed", "refused"} /\ UNCHANGED <<escrow, owner>>
        /\ disk' = disk \/ disk' = [disk EXCEPT !.open = TRUE]
    BY <1>5 DEF GateRuns, GateFails
  <2>2. /\ descriptor' = [state |-> descriptor.state, mode |-> descriptor'.mode, slot |-> descriptor'.slot]
        /\ mishaps' \in [cuts : Nat, refusals : Nat, rotations : Nat]
        /\ mishaps'.rotations = mishaps.rotations
    BY <1>5, ChipOperators DEF GateRuns, NoRefusal
  <2> QED
    BY <2>1, <2>2 DEF VaultShapes, LayoutIsUnrecorded, CopyIsKept, HandoverWindowOpens,
                      UnfinishedIsNotUnsupported
<1>6. CASE Acknowledge \/ SettleHandover
  BY <1>6 DEF Acknowledge, SettleHandover, MaySettle, SuiteRuns, Up, VaultShapes,
              LayoutIsUnrecorded, CopyIsKept, HandoverWindowOpens, UnfinishedIsNotUnsupported
<1>9. CASE PowerCut
  <2>1. /\ disk' = [disk EXCEPT !.open = FALSE] /\ gate' = "off"
        /\ UNCHANGED <<descriptor, escrow, owner>>
    BY <1>9 DEF PowerCut
  <2>2. mishaps' \in [cuts : Nat, refusals : Nat, rotations : Nat] /\ mishaps'.rotations = mishaps.rotations
    BY <1>9 DEF PowerCut, VaultShapes
  <2> QED
    BY <2>1, <2>2 DEF VaultShapes, LayoutIsUnrecorded, CopyIsKept, HandoverWindowOpens,
                      UnfinishedIsNotUnsupported
<1>7. CASE RotateKey
  <2>1. mishaps' \in [cuts : Nat, refusals : Nat, rotations : Nat]
        /\ mishaps'.rotations = mishaps.rotations + 1 /\ mishaps.rotations < MaxRotations
    BY <1>7 DEF RotateKey, VaultShapes
  <2>2. mishaps'.rotations # 0 /\ mishaps'.rotations <= MaxRotations
    BY <2>1 DEF VaultShapes
  <2> QED
    BY <1>7, <2>1, <2>2 DEF RotateKey, SuiteRuns, Up, VaultShapes, LayoutIsUnrecorded, CopyIsKept,
                            UnfinishedIsNotUnsupported
<1>8. CASE \E t \in Tabs : TabSteps(t)
  <2>1. PICK t \in Tabs : TabSteps(t)
    BY <1>8
  <2>2. /\ Up /\ UNCHANGED escrow /\ (gate' = gate \/ gate' = "passed")
        /\ disk' = disk \/ disk' = [disk EXCEPT !.open = TRUE]
        /\ owner' = owner \/ owner' = [owner EXCEPT !.password = tabs[t].pin]
    BY <2>1 DEF TabSteps, SubmitPassword, SubmitKey, Submit, PageReseals, ChangePassword,
       TeachOwnerPassword, CommitPassword, SignIn, LookAtVault, RepairOnSignIn, SetStartupPassword,
       SwitchMode, SuiteRuns
  <2>3. /\ descriptor' = [state |-> descriptor.state, mode |-> descriptor'.mode, slot |-> descriptor'.slot]
        /\ mishaps' \in [cuts : Nat, refusals : Nat, rotations : Nat]
        /\ mishaps'.rotations = mishaps.rotations
    <3>1. CASE PageReseals(t) \/ TeachOwnerPassword(t) \/ RepairOnSignIn(t) \/ SwitchMode(t)
      BY <3>1, ChipOperators DEF PageReseals, TeachOwnerPassword, RepairOnSignIn, SwitchMode
    <3>2. CASE UNCHANGED <<descriptor, mishaps>>
      BY <3>2 DEF VaultShapes
    <3> QED
      BY <2>1, <3>1, <3>2 DEF TabSteps, SubmitPassword, SubmitKey, ChangePassword,
         CommitPassword, SignIn, LookAtVault, SetStartupPassword
  <2> QED
    BY <2>2, <2>3 DEF Up, VaultShapes, LayoutIsUnrecorded, CopyIsKept, HandoverWindowOpens,
                      UnfinishedIsNotUnsupported
<1> QED BY <1>1, <1>2, <1>3, <1>4, <1>5, <1>6, <1>7, <1>8, <1>9 DEF VaultNext

LEMMA VaultInvInductive ==
  ASSUME MaxRotations \in Nat
  PROVE  /\ VaultInit => VaultInv
         /\ VaultInv /\ [VaultNext]_vaultVars => VaultInv'
<1>1. VaultInit => VaultInv
  BY DEF VaultInit, VaultInv, VaultShapes, LayoutIsUnrecorded, CopyIsKept, HandoverWindowOpens,
         UnfinishedIsNotUnsupported, NoDescriptor
<1>2. VaultInv /\ UNCHANGED vaultVars => VaultInv'
  BY DEF vaultVars, VaultInv, VaultShapes, LayoutIsUnrecorded, CopyIsKept, HandoverWindowOpens,
         UnfinishedIsNotUnsupported
<1> QED BY <1>1, <1>2, VaultStep

\* From the first boot until the owner confirms that the recovery key is saved, the copy that
\* opens a described vault is there, wherever power is cut, while the key has not been rotated.
THEOREM CopyOpensUntilConfirmed ==
  ASSUME MaxRotations \in Nat
  PROVE  VaultSpec => [](mishaps.rotations = 0 => HandoverWindowOpens)
<1>1. VaultInv => (mishaps.rotations = 0 => HandoverWindowOpens)
  BY DEF VaultInv, CopyIsKept
<1> QED BY <1>1, VaultInvInductive, PTL DEF VaultSpec

\* A disk is recorded as one that MOS will not encrypt only where there is no room for a
\* vault, and never for a layout that power cut short.
THEOREM CutLayoutIsNotUnsupported ==
  ASSUME MaxRotations \in Nat
  PROVE  VaultSpec => []UnfinishedIsNotUnsupported
<1>1. VaultInv => UnfinishedIsNotUnsupported BY DEF VaultInv
<1> QED BY <1>1, VaultInvInductive, PTL DEF VaultSpec

------------------------------------------------------------------------------
(* A bucket: one archive of this server, and none the catalog does not name. *)

BucketShapes ==
  /\ bucket = [catalog |-> bucket.catalog, repositories |-> bucket.repositories,
               points |-> bucket.points, contents |-> bucket.contents]
  /\ misled \in BOOLEAN
  /\ worker = NoWork \/ worker = [pc |-> worker.pc, archive |-> worker.archive, point |-> worker.point]
  /\ catalogFile = NoFile
     \/ catalogFile = [held |-> TRUE, names |-> catalogFile.names, fresh |-> catalogFile.fresh]
  /\ reading = NoReading \/ reading = [begun |-> TRUE, names |-> reading.names]

\* What either process holds of the catalog is of names that are in it, and the worker has
\* entered its archive there before it takes another step.
CatalogIsAhead ==
  /\ catalogFile.held => catalogFile.names \subseteq bucket.catalog
  /\ catalogFile.fresh => catalogFile.held
  /\ reading.begun => reading.names \subseteq bucket.catalog
  /\ worker.pc \in {"catalog-saved", "repository"} => worker.archive \in bucket.catalog
  /\ RepositoriesAreNamed

\* As long as no job chose from outgrown lists, one archive at most is entered, and the one
\* a job is about to enter is no other.
OneIsBegun ==
  ~misled =>
    /\ \A m, n \in bucket.catalog \cap OwnArchives : m = n
    /\ worker.pc = "catalog-entry" => bucket.catalog \cap OwnArchives \subseteq {worker.archive}

BucketInv == BucketShapes /\ CatalogIsAhead /\ OneIsBegun

\* A choice from lists that are current is of the archive that was begun.
LEMMA CurrentChoice ==
  ASSUME NEW names, NEW index, ~Outgrown(names, index), NEW n \in Chosen(names, index),
         \A k, m \in bucket.catalog \cap OwnArchives : k = m
  PROVE  bucket.catalog \cap OwnArchives \subseteq {n}
<1> DEFINE own == {k \in names \cap OwnArchives : index[k].held /\ index[k].repository}
           unfinished == {k \in names \cap OwnArchives : index[k].held /\ ~index[k].repository}
<1>1. names = bucket.catalog /\ own \cup unfinished = names \cap OwnArchives
  BY DEF Outgrown
<1>2. CASE own \cup unfinished = {}
  BY <1>1, <1>2
<1>3. CASE own \cup unfinished # {}
  <2>1. n \in own \cup unfinished BY <1>3 DEF Chosen
  <2> QED BY <1>1, <2>1
<1> QED BY <1>2, <1>3

LEMMA BucketStep ==
  ASSUME BucketInv, BucketNext
  PROVE  BucketInv'
<1> USE DEF BucketInv
<1>1. CASE BeginReading \/ EndReading \/ AgentDies
  BY <1>1 DEF BeginReading, EndReading, AgentDies, CatalogFresh, Catalog, NoReading, BucketShapes,
     CatalogIsAhead, RepositoriesAreNamed, OneIsBegun
<1>2. CASE (\E n \in OwnArchives : BeginListing(n)) \/ EndListing
  BY <1>2 DEF BeginListing, EndListing, BucketShapes, CatalogIsAhead, RepositoriesAreNamed, OneIsBegun
<1>3. CASE ListsExpire
  <2>1. /\ UNCHANGED <<bucket, reading, worker, misled>>
        /\ catalogFile' = IF catalogFile.held THEN [catalogFile EXCEPT !.fresh = FALSE] ELSE catalogFile
    BY <1>3 DEF ListsExpire
  <2>2. CASE catalogFile = NoFile
    <3>1. catalogFile' = catalogFile BY <2>1, <2>2 DEF NoFile
    <3> QED BY <2>1, <3>1 DEF BucketShapes, CatalogIsAhead, RepositoriesAreNamed, OneIsBegun
  <2>3. CASE catalogFile = [held |-> TRUE, names |-> catalogFile.names, fresh |-> catalogFile.fresh]
    <3>1. PICK names, fresh : catalogFile = [held |-> TRUE, names |-> names, fresh |-> fresh]
      BY <2>3
    <3>2. catalogFile.held /\ catalogFile.names = names BY <3>1
    <3>3. catalogFile' = [catalogFile EXCEPT !.fresh = FALSE]
      BY <2>1, <3>2
    <3>4. catalogFile' = [held |-> TRUE, names |-> names, fresh |-> FALSE]
      BY <3>1, <3>3
    <3> QED BY <2>1, <3>2, <3>4 DEF BucketShapes, CatalogIsAhead, RepositoriesAreNamed, OneIsBegun
  <2> QED BY <2>2, <2>3 DEF BucketShapes
<1>4. CASE StartBucketBackup \/ StartBucketDelete
  BY <1>4 DEF StartBucketBackup, StartBucketDelete, StartJob, BucketShapes, CatalogIsAhead,
     RepositoriesAreNamed, OneIsBegun
<1>5. CASE WorkerTargets
  <2>0. worker = [pc |-> worker.pc, archive |-> worker.archive, point |-> worker.point]
    <3>1. worker.pc = "target" BY <1>5 DEF WorkerTargets
    <3>2. worker # NoWork BY <3>1 DEF NoWork
    <3> QED BY <3>2 DEF BucketShapes
  <2>1. /\ UNCHANGED <<bucket, reading>>
        /\ catalogFile' = catalogFile \/ catalogFile' = Catalog(bucket.catalog)
    BY <1>5 DEF WorkerTargets, FetchCatalog
  <2>2. CatalogIsAhead' /\ BucketShapes'
    <3>1. worker' = NoWork \/ worker' = [pc |-> "catalog-entry", archive |-> worker'.archive,
                                         point |-> worker'.point]
      BY <1>5, <2>0 DEF WorkerTargets, EndJob
    <3>2. misled' \in BOOLEAN BY <1>5 DEF WorkerTargets, BucketShapes
    <3>3. CASE catalogFile' = Catalog(bucket.catalog)
      <4>1. catalogFile'.held /\ catalogFile'.names = bucket.catalog /\ catalogFile'.fresh
        BY <3>3 DEF Catalog
      <4>2. catalogFile' = [held |-> TRUE, names |-> catalogFile'.names, fresh |-> catalogFile'.fresh]
        BY <3>3 DEF Catalog
      <4> QED
        BY <2>1, <3>1, <3>2, <4>1, <4>2 DEF NoWork, BucketShapes, CatalogIsAhead, RepositoriesAreNamed
    <3>4. CASE catalogFile' = catalogFile
      BY <2>1, <3>1, <3>2, <3>4 DEF NoWork, BucketShapes, CatalogIsAhead, RepositoriesAreNamed
    <3> QED BY <2>1, <3>3, <3>4
  <2>3. OneIsBegun'
    <3>1. SUFFICES ASSUME ~misled'
                   PROVE  /\ \A m, n \in bucket.catalog \cap OwnArchives : m = n
                          /\ worker'.pc = "catalog-entry" =>
                               bucket.catalog \cap OwnArchives \subseteq {worker'.archive}
      BY <2>1 DEF OneIsBegun
    <3>2. ~misled BY <1>5, <3>1 DEF WorkerTargets, BucketShapes
    <3>3. CASE EndJob
      BY <3>2, <3>3 DEF EndJob, NoWork, OneIsBegun
    <3>4. CASE \E names, n : /\ n \in Chosen(names, indexFile') /\ ~Outgrown(names, indexFile')
                             /\ worker' = [worker EXCEPT !.pc = "catalog-entry", !.archive = n]
      <4>1. PICK names, n : /\ n \in Chosen(names, indexFile') /\ ~Outgrown(names, indexFile')
                            /\ worker' = [worker EXCEPT !.pc = "catalog-entry", !.archive = n]
        BY <3>4
      <4>2. bucket.catalog \cap OwnArchives \subseteq {n}
        BY <3>2, <4>1, CurrentChoice DEF OneIsBegun
      <4>3. worker'.archive = n BY <2>0, <4>1
      <4> QED BY <3>2, <4>2, <4>3 DEF OneIsBegun
    <3> QED BY <1>5, <3>1, <3>2, <3>3, <3>4 DEF WorkerTargets
  <2> QED BY <2>2, <2>3
<1>6. CASE EnterCatalog
  <2>0. worker = [pc |-> worker.pc, archive |-> worker.archive, point |-> worker.point]
    BY <1>6 DEF EnterCatalog, BucketShapes, NoWork
  <2>1. CASE worker.pc = "catalog-entry"
    <3>1. /\ UNCHANGED <<reading, misled>>
          /\ (catalogFile' = catalogFile /\ catalogFile.held) \/ catalogFile' = Catalog(bucket.catalog)
      BY <1>6, <2>1 DEF EnterCatalog, FetchCatalog, CatalogFresh, CatalogIsAhead
    <3>2. /\ catalogFile'.held /\ catalogFile'.names \subseteq bucket.catalog
          /\ catalogFile' = [held |-> TRUE, names |-> catalogFile'.names, fresh |-> catalogFile'.fresh]
      BY <3>1 DEF BucketShapes, CatalogIsAhead, Catalog, NoFile
    <3>3. CASE Step("repository") /\ UNCHANGED bucket /\ worker.archive \in catalogFile'.names
      BY <2>0, <3>1, <3>2, <3>3 DEF Step, BucketShapes, CatalogIsAhead, RepositoriesAreNamed, OneIsBegun
    <3>4. CASE Step("catalog-saved") /\ bucket' = [bucket EXCEPT !.catalog = @ \cup {worker.archive}]
      BY <2>0, <2>1, <3>1, <3>2, <3>4 DEF Step, BucketShapes, CatalogIsAhead, RepositoriesAreNamed, OneIsBegun
    <3> QED BY <1>6, <2>1, <3>3, <3>4 DEF EnterCatalog
  <2>2. CASE worker.pc = "catalog-saved"
    <3>1. /\ Step("repository") /\ UNCHANGED <<bucket, reading, misled>>
          /\ catalogFile' = IF catalogFile.held
                            THEN [catalogFile EXCEPT !.names = @ \cup {worker.archive}]
                            ELSE [Catalog({worker.archive}) EXCEPT !.fresh = FALSE]
      BY <1>6, <2>2 DEF EnterCatalog
    <3> QED
      BY <2>0, <2>2, <3>1 DEF Step, Catalog, NoFile, BucketShapes, CatalogIsAhead, RepositoriesAreNamed,
         OneIsBegun
  <2> QED BY <1>6, <2>1, <2>2 DEF EnterCatalog
<1>7. CASE CreateRepository
  BY <1>7 DEF CreateRepository, Step, NoWork, BucketShapes, CatalogIsAhead, RepositoriesAreNamed, OneIsBegun
<1>8. CASE WriteContents \/ WriteManifest \/ ForgetManifest \/ ForgetContents
  <2>1. bucket'.catalog = bucket.catalog /\ bucket'.repositories = bucket.repositories
        /\ bucket' = [catalog |-> bucket'.catalog, repositories |-> bucket'.repositories,
                      points |-> bucket'.points, contents |-> bucket'.contents]
    BY <1>8 DEF WriteContents, WriteManifest, ForgetManifest, ForgetContents, BucketShapes
  <2>2. worker' = NoWork \/ \E pc \in {"manifest", "remember", "forget-point"} : Step(pc)
    BY <1>8 DEF WriteContents, WriteManifest, ForgetManifest, ForgetContents, EndJob
  <2>3. worker # NoWork
    BY <1>8 DEF WriteContents, WriteManifest, ForgetManifest, ForgetContents, NoWork
  <2>4. UNCHANGED <<catalogFile, reading, misled>>
    BY <1>8 DEF WriteContents, WriteManifest, ForgetManifest, ForgetContents
  <2> QED
    BY <2>1, <2>2, <2>3, <2>4 DEF Step, NoWork, BucketShapes, CatalogIsAhead, RepositoriesAreNamed, OneIsBegun
<1>9. CASE FindPoint \/ ForgetFromIndex \/ WorkerFails \/ WorkerDies
  <2>1. worker' = NoWork \/ \E pc \in {"forget-manifest", "forget-contents"} : Step(pc)
    BY <1>9 DEF FindPoint, ForgetFromIndex, WorkerFails, WorkerDies, EndJob
  <2>2. worker # NoWork /\ UNCHANGED <<bucket, catalogFile, reading, misled>>
    BY <1>9 DEF FindPoint, ForgetFromIndex, WorkerFails, WorkerDies, NoWork
  <2> QED
    BY <2>1, <2>2 DEF Step, NoWork, BucketShapes, CatalogIsAhead, RepositoriesAreNamed, OneIsBegun
<1> QED BY <1>1, <1>2, <1>3, <1>4, <1>5, <1>6, <1>7, <1>8, <1>9 DEF BucketNext

LEMMA BucketInvInductive ==
  /\ BucketInit => BucketInv
  /\ BucketInv /\ [BucketNext]_bucketVars => BucketInv'
<1>1. BucketInit => BucketInv
  <2>1. SUFFICES ASSUME BucketInit
                 PROVE  BucketInv
    OBVIOUS
  <2>2. /\ bucket.catalog \cap OwnArchives = {} /\ bucket.repositories = bucket.catalog
        /\ bucket = [catalog |-> bucket.catalog, repositories |-> bucket.repositories,
                     points |-> bucket.points, contents |-> bucket.contents]
    BY <2>1 DEF BucketInit
  <2>3. /\ catalogFile = NoFile /\ ~catalogFile.held /\ ~catalogFile.fresh
        /\ reading = NoReading /\ ~reading.begun /\ worker = NoWork /\ worker.pc = "none"
        /\ misled = FALSE
    BY <2>1 DEF BucketInit, NoFile, NoReading, NoWork
  <2> QED
    BY <2>2, <2>3 DEF BucketInv, BucketShapes, CatalogIsAhead, RepositoriesAreNamed, OneIsBegun
<1>2. BucketInv /\ UNCHANGED bucketVars => BucketInv'
  BY DEF bucketVars, BucketInv, BucketShapes, CatalogIsAhead, RepositoriesAreNamed, OneIsBegun
<1> QED BY <1>1, <1>2, BucketStep

\* This server begins no archive in a bucket beside one it began, however its backups are cut,
\* requests fail and processes die, as long as its jobs choose from lists that are current.
THEOREM BegunIsFinished == BucketSpec => []OneArchiveOfThisServer
<1>1. BucketInv => OneArchiveOfThisServer
  BY AtMostOne DEF BucketInv, OneIsBegun, OneArchiveOfThisServer
<1> QED BY <1>1, BucketInvInductive, PTL DEF BucketSpec

\* A repository is in the bucket only once the catalog names it, whichever process dies.
THEOREM NoRepositoryUnnamed == BucketSpec => []RepositoriesAreNamed
<1>1. BucketInv => RepositoriesAreNamed BY DEF BucketInv, CatalogIsAhead
<1> QED BY <1>1, BucketInvInductive, PTL DEF BucketSpec
------------------------------------------------------------------------------
(* A drive: one repository of this server, and points that verify. *)

Folder == [sidecar : {"none", "ours", "0.22", "torn", "theirs"},
           repository : {"none", "dir", "ours", "0.22", "theirs"},
           points : SUBSET Nat]
BackupSteps == {"target", "describe", "probe", "init", "contents", "staged", "digest", "named"}
DriveJobs == [pc : BackupSteps, archive : Archives \cup {"none"}, point : Nat \ {0}, created : BOOLEAN]
Writing == {"contents", "staged", "digest", "named"}

DriveTypes ==
  /\ drive \in [Archives -> Folder]
  /\ atRoot \in [sidecar : BOOLEAN, points : BOOLEAN, repository : BOOLEAN]
  /\ manifest \in [1 .. MaxDriveBackups -> [staged : BOOLEAN, digest : BOOLEAN, named : BOOLEAN]]
  /\ tries \in [backups : Nat, moves : Nat, probes : Nat, pulls : Nat]
  /\ tries.backups <= MaxDriveBackups
  /\ job = NoJob \/ job \in DriveJobs
  /\ \A n \in Archives \ Folders : drive[n].repository = "theirs"

\* The job's archive: chosen before it is touched, with a repository of ours before anything
\* is written to it; a point is in the archive of the job that wrote it, once it is named.
JobIsInOrder ==
  /\ \A n \in Archives : \A p \in drive[n].points : p <= tries.backups
  /\ job # NoJob =>
       /\ job.point = tries.backups
       /\ job.pc # "target" => job.archive \in Archives
       /\ job.pc \in Writing =>
            job.archive \in Folders /\ drive[job.archive].repository \in {"ours", "0.22"}
       /\ \A n \in Archives : job.point \in drive[n].points => job.pc = "named" /\ n = job.archive
       /\ job.pc \in {"digest", "named"} => manifest[job.point].digest

\* A repository is made only where no folder of the drive has one of this server's.
OursIsOne ==
  /\ \A m, n \in Folders : drive[m].repository = "ours" /\ drive[n].repository = "ours" => m = n
  /\ job # NoJob /\ job.pc \in {"describe", "probe", "init"} =>
       RepositoryExists(job.archive) \/ \A n \in Folders : drive[n].repository # "ours"

\* What a job made holds no other job's point, unless a move has failed.
MadeByTheJob ==
  /\ job # NoJob /\ job.created =>
       /\ job.pc \in Writing /\ drive[job.archive].repository = "ours"
       /\ drive[job.archive].points \subseteq {Legacy, job.point}
  /\ tries.moves = 0 =>
       \A n \in Folders : Legacy \in drive[n].points => drive[n].repository = "0.22"

DriveInv == DriveTypes /\ JobIsInOrder /\ OursIsOne /\ ListedPointsVerify /\ MadeByTheJob

\* Writing one folder leaves the others (every step that writes to the drive).
LEMMA OneFolderChanges ==
  ASSUME drive \in [Archives -> Folder], NEW a \in Archives, NEW f \in Folder,
         drive' = [drive EXCEPT ![a] = f]
  PROVE  /\ drive' \in [Archives -> Folder] /\ drive'[a] = f
         /\ \A n \in Archives : n # a => drive'[n] = drive[n]
  OBVIOUS

LEMMA SpendCounts ==
  ASSUME tries \in [backups : Nat, moves : Nat, probes : Nat, pulls : Nat],
         NEW k \in {"backups", "moves", "probes", "pulls"}, Spend(k)
  PROVE  /\ tries' \in [backups : Nat, moves : Nat, probes : Nat, pulls : Nat]
         /\ tries'[k] = tries[k] + 1
         /\ \A l \in {"backups", "moves", "probes", "pulls"} \ {k} : tries'[l] = tries[l]
  BY DEF Spend

\* A step of a job changes its place in the program and nothing else (Goto).
LEMMA JobGoesOn ==
  ASSUME job \in DriveJobs, NEW pc \in BackupSteps, job' = [job EXCEPT !.pc = pc]
  PROVE  /\ job' \in DriveJobs /\ job' # NoJob /\ job'.pc = pc
         /\ job'.archive = job.archive /\ job'.point = job.point /\ job'.created = job.created
  <1>1. job' \in DriveJobs /\ job'.pc = pc
        /\ job'.archive = job.archive /\ job'.point = job.point /\ job'.created = job.created
    BY DEF DriveJobs
  <1> QED BY <1>1 DEF BackupSteps, NoJob

\* An archive is chosen that has a repository, or while no folder holds one of this
\* server's: with or without an answer of the engine, one of ours is taken for ours.
LEMMA TargetIsSafe ==
  ASSUME drive \in [Archives -> Folder], NEW answers \in BOOLEAN, NEW n \in Target(answers)
  PROVE  n \in Archives /\ (RepositoryExists(n) \/ \A m \in Folders : drive[m].repository # "ours")
  <1> DEFINE state == [m \in ArchiveNames |-> Health(m, answers)]
             own == {m \in ArchiveNames : state[m] = "own"}
             unfinished == {m \in ArchiveNames : state[m] = "empty" /\ MadeHere(m)}
             undescribed == {m \in ArchiveNames : state[m] = "locked" /\ Descriptor(m) = "none"}
  <1>1. Target(answers) = IF own # {} THEN Newest(own)
                          ELSE IF undescribed # {} THEN {}
                          ELSE IF unfinished # {} THEN unfinished
                          ELSE {m \in Folders : drive[m] = NoFolder}
    BY DEF Target
  <1>2. ArchiveNames \subseteq Archives /\ Folders \subseteq Archives
    BY DEF ArchiveNames, Archives
  <1>3. Newest(own) \subseteq own BY DEF Newest
  <1>4. \A m \in own : RepositoryExists(m) BY DEF Health
  <1>5. \A m \in Folders : drive[m].repository = "ours" => m \in own
    BY <1>2 DEF Health, RepositoryExists, ArchiveNames
  <1>6. own \subseteq Archives /\ unfinished \subseteq Archives BY <1>2
  <1> HIDE DEF own, unfinished, undescribed
  <1>7. CASE own = {}
    BY <1>1, <1>2, <1>5, <1>6, <1>7
  <1>8. CASE own # {}
    BY <1>1, <1>3, <1>4, <1>6, <1>8
  <1> QED BY <1>7, <1>8

\* An archive without a repository is a folder of ours, and lists no restore point but those
\* 0.22 made.
LEMMA NoRepositoryYet ==
  ASSUME DriveInv, NEW n \in Archives, drive[n].repository \notin {"ours", "0.22", "theirs"}
  PROVE  n \in Folders /\ drive[n].points \subseteq {Legacy}
  BY DEF DriveInv, DriveTypes, ListedPointsVerify

LEMMA DriveStep ==
  ASSUME MaxDriveBackups \in Nat, DriveInv, DriveNext
  PROVE  DriveInv'
<1> USE DEF DriveInv
<1>0. Folders \subseteq Archives /\ Archives \subseteq Folders \cup {Theirs}
  BY DEF Archives
<1>1. CASE StartDriveBackup
  <2>1. job = NoJob /\ UNCHANGED <<drive, atRoot, manifest>>
        /\ tries' \in [backups : Nat, moves : Nat, probes : Nat, pulls : Nat]
        /\ tries'.backups = tries.backups + 1 /\ tries'.backups <= MaxDriveBackups
        /\ tries'.moves = tries.moves
    BY <1>1 DEF StartDriveBackup, Spend, DriveTypes
  <2>2. job' \in DriveJobs /\ job' # NoJob /\ job'.pc = "target"
        /\ job'.point = tries'.backups /\ job'.created = FALSE
    BY <1>1, <2>1 DEF StartDriveBackup, DriveJobs, BackupSteps, NoJob, DriveTypes
  <2>11. DriveTypes'
    BY <1>0, <2>1, <2>2, SMTT(30)
    DEF DriveTypes, JobIsInOrder, OursIsOne, ListedPointsVerify, MadeByTheJob, Writing, RepositoryExists, Legacy, NoJob, Folder
  <2>12. JobIsInOrder'
    BY <1>0, <2>1, <2>2, SMTT(30)
    DEF DriveTypes, JobIsInOrder, OursIsOne, ListedPointsVerify, MadeByTheJob, Writing, RepositoryExists, Legacy, NoJob, Folder
  <2>13. OursIsOne'
    BY <1>0, <2>1, <2>2, SMTT(30)
    DEF DriveTypes, JobIsInOrder, OursIsOne, ListedPointsVerify, MadeByTheJob, Writing, RepositoryExists, Legacy, NoJob, Folder
  <2>14. ListedPointsVerify'
    BY <1>0, <2>1, <2>2, SMTT(30)
    DEF DriveTypes, JobIsInOrder, OursIsOne, ListedPointsVerify, MadeByTheJob, Writing, RepositoryExists, Legacy, NoJob, Folder
  <2>15. MadeByTheJob'
    BY <1>0, <2>1, <2>2, SMTT(30)
    DEF DriveTypes, JobIsInOrder, OursIsOne, ListedPointsVerify, MadeByTheJob, Writing, RepositoryExists, Legacy, NoJob, Folder
  <2> QED BY <2>11, <2>12, <2>13, <2>14, <2>15
<1>2. CASE ChooseTarget
  <2>1. job \in DriveJobs /\ job # NoJob /\ job.pc = "target" /\ ~job.created
        /\ UNCHANGED <<drive, atRoot, manifest>>
    <3>1. job.pc = "target" /\ UNCHANGED <<drive, atRoot, manifest>>
      BY <1>2 DEF ChooseTarget
    <3> QED BY <3>1 DEF DriveTypes, NoJob, MadeByTheJob, Writing, DriveJobs
  <2>2. tries' \in [backups : Nat, moves : Nat, probes : Nat, pulls : Nat]
        /\ tries'.backups = tries.backups /\ tries'.moves = tries.moves
    <3>1. UNCHANGED tries \/ Spend("probes") BY <1>2 DEF ChooseTarget
    <3> QED BY <3>1, SpendCounts DEF DriveTypes
  <2>3. \/ job' = NoJob
        \/ \E answers \in BOOLEAN : \E n \in Target(answers) :
             job' = [job EXCEPT !.pc = "describe", !.archive = n]
    BY <1>2 DEF ChooseTarget, FinishJob
  <2>4. ASSUME NEW answers \in BOOLEAN, NEW n \in Target(answers),
               job' = [job EXCEPT !.pc = "describe", !.archive = n]
        PROVE  /\ job' \in DriveJobs /\ job' # NoJob /\ job'.pc = "describe"
               /\ job'.archive = n /\ job'.point = job.point /\ job'.created = job.created
               /\ n \in Archives
               /\ RepositoryExists(n) \/ \A m \in Folders : drive[m].repository # "ours"
    <3>1. n \in Archives /\ (RepositoryExists(n) \/ \A m \in Folders : drive[m].repository # "ours")
      BY <2>4, TargetIsSafe DEF DriveTypes
    <3>2. job' \in DriveJobs /\ job'.pc = "describe" /\ job'.archive = n /\ job'.point = job.point
          /\ job'.created = job.created
      BY <2>1, <2>4, <3>1 DEF DriveJobs, BackupSteps
    <3> QED BY <3>1, <3>2 DEF NoJob
  <2>5. \/ job' = NoJob
        \/ /\ job' \in DriveJobs /\ job' # NoJob /\ job'.pc = "describe"
           /\ job'.point = job.point /\ ~job'.created /\ job'.archive \in Archives
           /\ \/ RepositoryExists(job'.archive)
              \/ \A m \in Folders : drive[m].repository # "ours"
    BY <2>1, <2>3, <2>4
  <2>11. DriveTypes'
    BY <1>0, <2>1, <2>2, <2>5, SMTT(30)
    DEF DriveTypes, JobIsInOrder, OursIsOne, ListedPointsVerify, MadeByTheJob, Writing, RepositoryExists, Legacy, NoJob
  <2>12. JobIsInOrder'
    BY <1>0, <2>1, <2>2, <2>5, SMTT(30)
    DEF DriveTypes, JobIsInOrder, OursIsOne, ListedPointsVerify, MadeByTheJob, Writing, RepositoryExists, Legacy, NoJob
  <2>13. OursIsOne'
    BY <1>0, <2>1, <2>2, <2>5, SMTT(30)
    DEF DriveTypes, JobIsInOrder, OursIsOne, ListedPointsVerify, MadeByTheJob, Writing, RepositoryExists, Legacy, NoJob
  <2>14. ListedPointsVerify'
    BY <1>0, <2>1, <2>2, <2>5, SMTT(30)
    DEF DriveTypes, JobIsInOrder, OursIsOne, ListedPointsVerify, MadeByTheJob, Writing, RepositoryExists, Legacy, NoJob
  <2>15. MadeByTheJob'
    BY <1>0, <2>1, <2>2, <2>5, SMTT(30)
    DEF DriveTypes, JobIsInOrder, OursIsOne, ListedPointsVerify, MadeByTheJob, Writing, RepositoryExists, Legacy, NoJob
  <2> QED BY <2>11, <2>12, <2>13, <2>14, <2>15
<1>3. CASE Describe
  <2>1. job \in DriveJobs /\ job # NoJob /\ job.pc = "describe" /\ job.archive \in Archives
        /\ ~job.created /\ UNCHANGED <<atRoot, manifest, tries>>
    BY <1>3 DEF Describe, DriveTypes, NoJob, MadeByTheJob, Writing, JobIsInOrder, DriveJobs
  <2>2. job' \in DriveJobs /\ job' # NoJob /\ job'.pc = "probe" /\ job'.archive = job.archive
        /\ job'.point = job.point /\ ~job'.created
    BY <1>3, <2>1, JobGoesOn DEF Describe, Goto, BackupSteps
  <2>3. /\ drive' \in [Archives -> Folder]
        /\ \A n \in Archives : /\ drive'[n].repository = drive[n].repository
                               /\ drive'[n].points = drive[n].points
    <3>1. CASE drive' = [drive EXCEPT ![job.archive].sidecar = "ours"]
      <4> DEFINE new == [drive[job.archive] EXCEPT !.sidecar = "ours"]
      <4>1. new \in Folder /\ new.repository = drive[job.archive].repository
            /\ new.points = drive[job.archive].points
        BY <2>1 DEF DriveTypes, Folder
      <4>2. drive' = [drive EXCEPT ![job.archive] = new] BY <3>1
      <4> HIDE DEF new
      <4> QED BY <2>1, <4>1, <4>2, OneFolderChanges DEF DriveTypes
    <3> QED BY <1>3, <3>1 DEF Describe, DriveTypes
  <2>11. DriveTypes'
    BY <1>0, <2>1, <2>2, <2>3, SMTT(30)
    DEF DriveTypes, JobIsInOrder, OursIsOne, ListedPointsVerify, MadeByTheJob, Writing, RepositoryExists, Legacy
  <2>12. JobIsInOrder'
    BY <1>0, <2>1, <2>2, <2>3, SMTT(30)
    DEF DriveTypes, JobIsInOrder, OursIsOne, ListedPointsVerify, MadeByTheJob, Writing, RepositoryExists, Legacy
  <2>13. OursIsOne'
    BY <1>0, <2>1, <2>2, <2>3, SMTT(30)
    DEF DriveTypes, JobIsInOrder, OursIsOne, ListedPointsVerify, MadeByTheJob, Writing, RepositoryExists, Legacy
  <2>14. ListedPointsVerify'
    BY <1>0, <2>1, <2>2, <2>3, SMTT(30)
    DEF DriveTypes, JobIsInOrder, OursIsOne, ListedPointsVerify, MadeByTheJob, Writing, RepositoryExists, Legacy
  <2>15. MadeByTheJob'
    BY <1>0, <2>1, <2>2, <2>3, SMTT(30)
    DEF DriveTypes, JobIsInOrder, OursIsOne, ListedPointsVerify, MadeByTheJob, Writing, RepositoryExists, Legacy
  <2> QED BY <2>11, <2>12, <2>13, <2>14, <2>15
<1>4. CASE ProbeRepository
  <2>1. job \in DriveJobs /\ job # NoJob /\ job.pc = "probe" /\ job.archive \in Archives
        /\ ~job.created /\ UNCHANGED <<atRoot, manifest>>
    BY <1>4 DEF ProbeRepository, DriveTypes, NoJob, MadeByTheJob, Writing, JobIsInOrder, DriveJobs
  <2>2. tries' \in [backups : Nat, moves : Nat, probes : Nat, pulls : Nat]
        /\ tries'.backups = tries.backups /\ tries'.moves = tries.moves
    <3>1. UNCHANGED tries \/ Spend("probes") BY <1>4 DEF ProbeRepository
    <3> QED BY <3>1, SpendCounts DEF DriveTypes
  <2>3. /\ drive' \in [Archives -> Folder]
        /\ \A n \in Archives :
             /\ drive'[n].points = drive[n].points
             /\ \/ drive'[n].repository = drive[n].repository
                \/ n \in Folders /\ drive[n].repository = "none" /\ drive'[n].repository = "dir"
    <3>1. ASSUME ~RepositoryExists(job.archive),
                 drive' = [drive EXCEPT ![job.archive].repository = IF @ = "none" THEN "dir" ELSE @]
          PROVE  /\ drive' \in [Archives -> Folder]
                 /\ \A n \in Archives :
                      /\ drive'[n].points = drive[n].points
                      /\ \/ drive'[n].repository = drive[n].repository
                         \/ n \in Folders /\ drive[n].repository = "none" /\ drive'[n].repository = "dir"
      <4>1. job.archive \in Folders /\ drive[job.archive] \in Folder
        BY <2>1, <3>1, NoRepositoryYet DEF RepositoryExists, DriveTypes
      <4> DEFINE r == IF drive[job.archive].repository = "none" THEN "dir"
                      ELSE drive[job.archive].repository
                 new == [drive[job.archive] EXCEPT !.repository = r]
      <4>2. drive' = [drive EXCEPT ![job.archive] = new] BY <3>1
      <4>3. r \in {"none", "dir", "ours", "0.22", "theirs"}
            /\ (r = drive[job.archive].repository
                \/ (drive[job.archive].repository = "none" /\ r = "dir"))
        BY <4>1 DEF Folder
      <4> HIDE DEF r
      <4>4. new \in Folder /\ new.repository = r /\ new.points = drive[job.archive].points
        BY <4>1, <4>3 DEF Folder
      <4> HIDE DEF new
      <4> QED BY <2>1, <4>1, <4>2, <4>3, <4>4, OneFolderChanges DEF DriveTypes
    <3> QED BY <1>4, <3>1 DEF ProbeRepository, DriveTypes
  <2>4. \/ job' = NoJob
        \/ /\ job' \in DriveJobs /\ job' # NoJob /\ job'.archive = job.archive
           /\ job'.point = job.point /\ ~job'.created
           /\ \/ /\ job'.pc = "contents" /\ drive' = drive /\ job.archive \in Folders
                 /\ drive[job.archive].repository \in {"ours", "0.22"}
              \/ job'.pc = "init" /\ ~RepositoryExists(job.archive)
    <3>1. ASSUME Goto("contents"), RepositoryExists(job.archive), drive' = drive,
                 Health(job.archive, TRUE) # "locked"
          PROVE  /\ job' \in DriveJobs /\ job' # NoJob /\ job'.archive = job.archive
                 /\ job'.point = job.point /\ ~job'.created /\ job'.pc = "contents"
                 /\ job.archive \in Folders /\ drive[job.archive].repository \in {"ours", "0.22"}
      <4>1. job.archive \in Folders /\ drive[job.archive].repository \in {"ours", "0.22"}
        BY <1>0, <2>1, <3>1 DEF Health, RepositoryExists, DriveTypes, Folder
      <4> QED BY <2>1, <3>1, <4>1, JobGoesOn DEF Goto, BackupSteps
    <3>2. ASSUME Goto("init"), ~RepositoryExists(job.archive)
          PROVE  /\ job' \in DriveJobs /\ job' # NoJob /\ job'.archive = job.archive
                 /\ job'.point = job.point /\ ~job'.created /\ job'.pc = "init"
      BY <2>1, <3>2, JobGoesOn DEF Goto, BackupSteps
    <3> QED BY <1>4, <3>1, <3>2 DEF ProbeRepository, FinishJob
  <2>11. DriveTypes'
    BY <1>0, <2>1, <2>2, <2>3, <2>4, SMTT(30)
    DEF DriveTypes, JobIsInOrder, OursIsOne, ListedPointsVerify, MadeByTheJob, Writing, RepositoryExists, Legacy, NoJob
  <2>12. JobIsInOrder'
    BY <1>0, <2>1, <2>2, <2>3, <2>4, SMTT(30)
    DEF DriveTypes, JobIsInOrder, OursIsOne, ListedPointsVerify, MadeByTheJob, Writing, RepositoryExists, Legacy, NoJob
  <2>13. OursIsOne'
    BY <1>0, <2>1, <2>2, <2>3, <2>4, SMTT(30)
    DEF DriveTypes, JobIsInOrder, OursIsOne, ListedPointsVerify, MadeByTheJob, Writing, RepositoryExists, Legacy, NoJob
  <2>14. ListedPointsVerify'
    BY <1>0, <2>1, <2>2, <2>3, <2>4, SMTT(30)
    DEF DriveTypes, JobIsInOrder, OursIsOne, ListedPointsVerify, MadeByTheJob, Writing, RepositoryExists, Legacy, NoJob
  <2>15. MadeByTheJob'
    BY <1>0, <2>1, <2>2, <2>3, <2>4, SMTT(30)
    DEF DriveTypes, JobIsInOrder, OursIsOne, ListedPointsVerify, MadeByTheJob, Writing, RepositoryExists, Legacy, NoJob
  <2> QED BY <2>11, <2>12, <2>13, <2>14, <2>15
<1>5. CASE InitRepository
  <2>1. job \in DriveJobs /\ job # NoJob /\ job.pc = "init" /\ job.archive \in Archives
        /\ ~job.created /\ UNCHANGED <<atRoot, manifest, tries>>
    BY <1>5 DEF InitRepository, DriveTypes, NoJob, MadeByTheJob, Writing, JobIsInOrder, DriveJobs
  <2>2. CASE job' = NoJob /\ UNCHANGED drive
    BY <2>1, <2>2, SMTT(30)
    DEF DriveTypes, JobIsInOrder, OursIsOne, ListedPointsVerify, MadeByTheJob, NoJob, RepositoryExists
  <2>3. ASSUME ~RepositoryExists(job.archive),
               drive' = [drive EXCEPT ![job.archive].repository = "ours"],
               job' = [job EXCEPT !.pc = "contents", !.created = TRUE]
        PROVE  DriveInv'
    <3>1. job' \in DriveJobs /\ job' # NoJob /\ job'.pc = "contents" /\ job'.created
          /\ job'.archive = job.archive /\ job'.point = job.point
      <4>1. job' \in DriveJobs /\ job'.pc = "contents" /\ job'.created = TRUE
            /\ job'.archive = job.archive /\ job'.point = job.point
        BY <2>1, <2>3 DEF DriveJobs, BackupSteps
      <4> QED BY <4>1 DEF NoJob
    <3>2. /\ job.archive \in Folders /\ drive[job.archive].points \subseteq {Legacy}
          /\ drive[job.archive].repository \notin {"ours", "0.22", "theirs"}
          /\ \A n \in Folders : drive[n].repository # "ours"
      BY <2>1, <2>3, NoRepositoryYet DEF RepositoryExists, OursIsOne
    <3>3. /\ drive' \in [Archives -> Folder]
          /\ \A n \in Archives : /\ drive'[n].points = drive[n].points
                                 /\ drive'[n].repository = IF n = job.archive THEN "ours"
                                                           ELSE drive[n].repository
      <4> DEFINE new == [drive[job.archive] EXCEPT !.repository = "ours"]
      <4>1. new \in Folder /\ new.repository = "ours" /\ new.points = drive[job.archive].points
        BY <2>1 DEF DriveTypes, Folder
      <4>2. drive' = [drive EXCEPT ![job.archive] = new] BY <2>3
      <4> HIDE DEF new
      <4> QED BY <2>1, <4>1, <4>2, OneFolderChanges DEF DriveTypes
    <3>11. DriveTypes'
      BY <1>0, <2>1, <3>1, <3>2, <3>3, SMTT(30)
      DEF DriveTypes, JobIsInOrder, OursIsOne, ListedPointsVerify, MadeByTheJob, Writing, RepositoryExists, Legacy
    <3>12. JobIsInOrder'
      BY <1>0, <2>1, <3>1, <3>2, <3>3, SMTT(30)
      DEF DriveTypes, JobIsInOrder, OursIsOne, ListedPointsVerify, MadeByTheJob, Writing, RepositoryExists, Legacy
    <3>13. OursIsOne'
      BY <1>0, <2>1, <3>1, <3>2, <3>3, SMTT(30)
      DEF DriveTypes, JobIsInOrder, OursIsOne, ListedPointsVerify, MadeByTheJob, Writing, RepositoryExists, Legacy
    <3>14. ListedPointsVerify'
      BY <1>0, <2>1, <3>1, <3>2, <3>3, SMTT(30)
      DEF DriveTypes, JobIsInOrder, OursIsOne, ListedPointsVerify, MadeByTheJob, Writing, RepositoryExists, Legacy
    <3>15. MadeByTheJob'
      BY <1>0, <2>1, <3>1, <3>2, <3>3, SMTT(30)
      DEF DriveTypes, JobIsInOrder, OursIsOne, ListedPointsVerify, MadeByTheJob, Writing, RepositoryExists, Legacy
    <3> QED BY <3>11, <3>12, <3>13, <3>14, <3>15
  <2> QED BY <1>5, <2>2, <2>3 DEF InitRepository, FinishJob
<1>6. CASE StageManifest
  <2>1. job \in DriveJobs /\ job # NoJob /\ job.pc = "contents" /\ job.archive \in Folders
        /\ UNCHANGED <<drive, atRoot, tries>>
    BY <1>6 DEF StageManifest, DriveTypes, NoJob, JobIsInOrder, Writing
  <2>2. job' \in DriveJobs /\ job' # NoJob /\ job'.pc = "staged" /\ job'.archive = job.archive
        /\ job'.point = job.point /\ job'.created = job.created
    BY <1>6, <2>1, JobGoesOn DEF StageManifest, Goto, BackupSteps
  <2>3. job.point \in 1 .. MaxDriveBackups
    BY <2>1 DEF DriveTypes, DriveJobs, JobIsInOrder
  <2>4. /\ manifest' \in [1 .. MaxDriveBackups -> [staged : BOOLEAN, digest : BOOLEAN, named : BOOLEAN]]
        /\ \A p \in 1 .. MaxDriveBackups :
             /\ manifest'[p].named = manifest[p].named
             /\ manifest'[p].digest = manifest[p].digest
    <3> DEFINE M == [staged : BOOLEAN, digest : BOOLEAN, named : BOOLEAN]
               new == [manifest[job.point] EXCEPT !.staged = TRUE]
    <3>1. new \in M /\ new.named = manifest[job.point].named /\ new.digest = manifest[job.point].digest
      BY <2>3 DEF DriveTypes
    <3>2. manifest' = [manifest EXCEPT ![job.point] = new]
      BY <1>6 DEF StageManifest
    <3>3. \A p \in 1 .. MaxDriveBackups : manifest[p].digest \in BOOLEAN
      BY DEF DriveTypes
    <3> HIDE DEF new
    <3> QED BY <2>3, <3>1, <3>2, <3>3 DEF DriveTypes
  <2>11. DriveTypes'
    BY <1>0, <2>1, <2>2, <2>3, <2>4, SMTT(30)
    DEF DriveTypes, JobIsInOrder, OursIsOne, ListedPointsVerify, MadeByTheJob, Writing, RepositoryExists, Legacy, Folder
  <2>12. JobIsInOrder'
    BY <1>0, <2>1, <2>2, <2>3, <2>4, SMTT(30)
    DEF DriveTypes, JobIsInOrder, OursIsOne, ListedPointsVerify, MadeByTheJob, Writing, RepositoryExists, Legacy, Folder
  <2>13. OursIsOne'
    BY <1>0, <2>1, <2>2, <2>3, <2>4, SMTT(30)
    DEF DriveTypes, JobIsInOrder, OursIsOne, ListedPointsVerify, MadeByTheJob, Writing, RepositoryExists, Legacy, Folder
  <2>14. ListedPointsVerify'
    BY <1>0, <2>1, <2>2, <2>3, <2>4, SMTT(30)
    DEF DriveTypes, JobIsInOrder, OursIsOne, ListedPointsVerify, MadeByTheJob, Writing, RepositoryExists, Legacy, Folder
  <2>15. MadeByTheJob'
    BY <1>0, <2>1, <2>2, <2>3, <2>4, SMTT(30)
    DEF DriveTypes, JobIsInOrder, OursIsOne, ListedPointsVerify, MadeByTheJob, Writing, RepositoryExists, Legacy, Folder
  <2> QED BY <2>11, <2>12, <2>13, <2>14, <2>15
<1>7. CASE WriteDigest
  <2>1. job \in DriveJobs /\ job # NoJob /\ job.pc = "staged" /\ job.archive \in Folders
        /\ UNCHANGED <<drive, atRoot, tries>>
    BY <1>7 DEF WriteDigest, DriveTypes, NoJob, JobIsInOrder, Writing
  <2>2. job' \in DriveJobs /\ job' # NoJob /\ job'.pc = "digest" /\ job'.archive = job.archive
        /\ job'.point = job.point /\ job'.created = job.created
    BY <1>7, <2>1, JobGoesOn DEF WriteDigest, Goto, BackupSteps
  <2>3. job.point \in 1 .. MaxDriveBackups
    BY <2>1 DEF DriveTypes, DriveJobs, JobIsInOrder
  <2>4. /\ manifest' \in [1 .. MaxDriveBackups -> [staged : BOOLEAN, digest : BOOLEAN, named : BOOLEAN]]
        /\ \A p \in 1 .. MaxDriveBackups :
             /\ manifest'[p].named = manifest[p].named
             /\ ((p = job.point \/ manifest[p].digest) => manifest'[p].digest)
    <3> DEFINE M == [staged : BOOLEAN, digest : BOOLEAN, named : BOOLEAN]
               new == [manifest[job.point] EXCEPT !.digest = TRUE]
    <3>1. new \in M /\ new.named = manifest[job.point].named /\ new.digest = TRUE
      BY <2>3 DEF DriveTypes
    <3>2. manifest' = [manifest EXCEPT ![job.point] = new]
      BY <1>7 DEF WriteDigest
    <3>3. \A p \in 1 .. MaxDriveBackups : manifest[p].digest \in BOOLEAN
      BY DEF DriveTypes
    <3> HIDE DEF new
    <3> QED BY <2>3, <3>1, <3>2, <3>3 DEF DriveTypes
  <2>11. DriveTypes'
    BY <1>0, <2>1, <2>2, <2>3, <2>4, SMTT(30)
    DEF DriveTypes, JobIsInOrder, OursIsOne, ListedPointsVerify, MadeByTheJob, Writing, RepositoryExists, Legacy, Folder
  <2>12. JobIsInOrder'
    BY <1>0, <2>1, <2>2, <2>3, <2>4, SMTT(30)
    DEF DriveTypes, JobIsInOrder, OursIsOne, ListedPointsVerify, MadeByTheJob, Writing, RepositoryExists, Legacy, Folder
  <2>13. OursIsOne'
    BY <1>0, <2>1, <2>2, <2>3, <2>4, SMTT(30)
    DEF DriveTypes, JobIsInOrder, OursIsOne, ListedPointsVerify, MadeByTheJob, Writing, RepositoryExists, Legacy, Folder
  <2>14. ListedPointsVerify'
    BY <1>0, <2>1, <2>2, <2>3, <2>4, SMTT(30)
    DEF DriveTypes, JobIsInOrder, OursIsOne, ListedPointsVerify, MadeByTheJob, Writing, RepositoryExists, Legacy, Folder
  <2>15. MadeByTheJob'
    BY <1>0, <2>1, <2>2, <2>3, <2>4, SMTT(30)
    DEF DriveTypes, JobIsInOrder, OursIsOne, ListedPointsVerify, MadeByTheJob, Writing, RepositoryExists, Legacy, Folder
  <2> QED BY <2>11, <2>12, <2>13, <2>14, <2>15
<1>8. CASE NameManifest
  <2>1. job \in DriveJobs /\ job # NoJob /\ job.pc = "digest" /\ job.archive \in Folders
        /\ drive[job.archive].repository \in {"ours", "0.22"} /\ manifest[job.point].digest
        /\ UNCHANGED <<atRoot, tries>>
    BY <1>8 DEF NameManifest, DriveTypes, NoJob, JobIsInOrder, Writing
  <2>2. job' \in DriveJobs /\ job' # NoJob /\ job'.pc = "named" /\ job'.archive = job.archive
        /\ job'.point = job.point /\ job'.created = job.created
    BY <1>8, <2>1, JobGoesOn DEF NameManifest, Goto, BackupSteps
  <2>3. job.point \in 1 .. MaxDriveBackups /\ job.point = tries.backups
    BY <2>1 DEF DriveTypes, DriveJobs, JobIsInOrder
  <2>4. /\ manifest' \in [1 .. MaxDriveBackups -> [staged : BOOLEAN, digest : BOOLEAN, named : BOOLEAN]]
        /\ \A p \in 1 .. MaxDriveBackups : /\ ((p = job.point \/ manifest[p].named) => manifest'[p].named)
                                           /\ manifest'[p].digest = manifest[p].digest
    <3> DEFINE M == [staged : BOOLEAN, digest : BOOLEAN, named : BOOLEAN]
               new == [manifest[job.point] EXCEPT !.named = TRUE, !.staged = FALSE]
    <3>1. new \in M /\ new.named = TRUE /\ new.digest = manifest[job.point].digest
      BY <2>3, ZenonT(30) DEF DriveTypes
    <3>2. manifest' = [manifest EXCEPT ![job.point] = new]
      BY <1>8 DEF NameManifest
    <3>3. \A p \in 1 .. MaxDriveBackups : manifest[p].named \in BOOLEAN
      BY DEF DriveTypes
    <3> HIDE DEF new
    <3> QED BY <2>3, <3>1, <3>2, <3>3 DEF DriveTypes
  <2>5. /\ drive' \in [Archives -> Folder]
        /\ \A n \in Archives : /\ drive'[n].repository = drive[n].repository
                               /\ n # job.archive => drive'[n] = drive[n]
        /\ drive'[job.archive].points = drive[job.archive].points \cup {job.point}
    <3> DEFINE pts == drive[job.archive].points \cup {job.point}
               new == [drive[job.archive] EXCEPT !.points = pts]
    <3>1. drive' = [drive EXCEPT ![job.archive] = new]
      BY <1>8 DEF NameManifest
    <3>2. drive[job.archive] \in Folder /\ pts \in SUBSET Nat
      BY <1>0, <2>1, <2>3 DEF DriveTypes, Folder
    <3> HIDE DEF pts
    <3>3. new \in Folder /\ new.repository = drive[job.archive].repository /\ new.points = pts
      BY <3>2 DEF Folder
    <3> HIDE DEF new
    <3>4. /\ drive' \in [Archives -> Folder] /\ drive'[job.archive] = new
          /\ \A n \in Archives : n # job.archive => drive'[n] = drive[n]
      BY <1>0, <2>1, <3>1, <3>3, OneFolderChanges DEF DriveTypes
    <3> QED BY <3>3, <3>4 DEF pts
  <2>6. job.point \in Nat /\ job.point # Legacy BY <2>3 DEF Legacy
  <2>11. DriveTypes'
    BY <1>0, <2>1, <2>2, <2>3, <2>4, <2>5, <2>6, SMTT(30)
    DEF DriveTypes, JobIsInOrder, OursIsOne, ListedPointsVerify, MadeByTheJob, Writing, RepositoryExists, Legacy, Folder
  <2>12. JobIsInOrder'
    BY <1>0, <2>1, <2>2, <2>3, <2>4, <2>5, <2>6, SMTT(30)
    DEF DriveTypes, JobIsInOrder, OursIsOne, ListedPointsVerify, MadeByTheJob, Writing, RepositoryExists, Legacy, Folder
  <2>13. OursIsOne'
    BY <1>0, <2>1, <2>2, <2>3, <2>4, <2>5, <2>6, SMTT(30)
    DEF DriveTypes, JobIsInOrder, OursIsOne, ListedPointsVerify, MadeByTheJob, Writing, RepositoryExists, Legacy, Folder
  <2>14. ListedPointsVerify'
    <3> SUFFICES ASSUME NEW n \in Folders, NEW p \in drive'[n].points, p # Legacy
                 PROVE  /\ manifest'[p].named /\ manifest'[p].digest
                        /\ drive'[n].repository \in {"ours", "0.22"}
      BY DEF ListedPointsVerify
    <3>1. CASE p \in drive[n].points
      <4>1. /\ manifest[p].named /\ manifest[p].digest
            /\ drive[n].repository \in {"ours", "0.22"}
        BY <3>1 DEF ListedPointsVerify
      <4>2. p \in 1 .. MaxDriveBackups
        BY <1>0, <3>1 DEF DriveTypes, Folder, JobIsInOrder, Legacy
      <4> QED BY <1>0, <2>4, <2>5, <4>1, <4>2
    <3>2. CASE p \notin drive[n].points
      <4>1. n = job.archive /\ p = job.point BY <1>0, <2>1, <2>5, <3>2
      <4> QED BY <1>0, <2>1, <2>3, <2>4, <2>5, <4>1
    <3> QED BY <3>1, <3>2
  <2>15. MadeByTheJob'
    <3>1. job'.created => /\ job'.pc \in Writing /\ drive'[job'.archive].repository = "ours"
                          /\ drive'[job'.archive].points \subseteq {Legacy, job'.point}
      <4>1. job.created => /\ drive[job.archive].repository = "ours"
                           /\ drive[job.archive].points \subseteq {Legacy, job.point}
        BY <2>1 DEF MadeByTheJob
      <4> QED BY <1>0, <2>1, <2>2, <2>5, <4>1 DEF Writing
    <3>2. tries'.moves = 0 =>
            \A n \in Folders : Legacy \in drive'[n].points => drive'[n].repository = "0.22"
      BY <1>0, <2>1, <2>5, <2>6 DEF MadeByTheJob
    <3> QED BY <3>1, <3>2 DEF MadeByTheJob
  <2> QED BY <2>11, <2>12, <2>13, <2>14, <2>15
<1>9. CASE BackupSucceeds
  <2>1. job' = NoJob /\ UNCHANGED <<drive, atRoot, manifest, tries>>
    BY <1>9 DEF BackupSucceeds, FinishJob
  <2> QED
    BY <2>1, SMTT(30)
    DEF DriveTypes, JobIsInOrder, OursIsOne, ListedPointsVerify, MadeByTheJob, NoJob
<1>10. CASE BackupFails
  <2>1. job \in DriveJobs /\ job # NoJob /\ job.pc \in Writing /\ job.archive \in Folders
        /\ job' = NoJob /\ UNCHANGED <<atRoot, tries>>
    BY <1>10 DEF BackupFails, DriveTypes, NoJob, JobIsInOrder, Writing, FinishJob
  <2>2. job.point \in 1 .. MaxDriveBackups
    BY <2>1 DEF DriveTypes, DriveJobs, JobIsInOrder
  <2>3. /\ manifest' \in [1 .. MaxDriveBackups -> [staged : BOOLEAN, digest : BOOLEAN, named : BOOLEAN]]
        /\ \A p \in 1 .. MaxDriveBackups : p # job.point => manifest'[p] = manifest[p]
    BY <1>10, <2>2 DEF BackupFails, NoManifest, DriveTypes
  <2>4. /\ drive' \in [Archives -> Folder]
        /\ \A n \in Archives :
             /\ drive'[n].points \subseteq drive[n].points
             /\ n = job.archive => job.point \notin drive'[n].points
             /\ \/ drive'[n].repository = drive[n].repository
                \/ n \in Folders /\ drive'[n].repository = "none" /\ drive'[n].points = {}
    <3>1. drive' = Discarded(job.archive, job.created) /\ drive[job.archive] \in Folder
      BY <1>0, <1>10, <2>1 DEF BackupFails, DriveTypes
    <3>2. CASE job.created
      <4>1. drive' = [drive EXCEPT ![job.archive] = NoFolder]
        BY <3>1, <3>2 DEF Discarded
      <4>2. NoFolder \in Folder /\ NoFolder.repository = "none" /\ NoFolder.points = {}
        BY DEF NoFolder, Folder
      <4> QED BY <1>0, <2>1, <4>1, <4>2 DEF DriveTypes
    <3>3. CASE ~job.created
      <4> DEFINE pts == drive[job.archive].points \ {job.point}
                 new == [drive[job.archive] EXCEPT !.points = pts]
      <4>1. drive' = [drive EXCEPT ![job.archive] = new]
        BY <3>1, <3>3 DEF Discarded
      <4>2. pts \in SUBSET Nat /\ pts \subseteq drive[job.archive].points /\ job.point \notin pts
        BY <3>1 DEF Folder
      <4> HIDE DEF pts
      <4>3. new \in Folder /\ new.repository = drive[job.archive].repository /\ new.points = pts
        BY <3>1, <4>2 DEF Folder
      <4> HIDE DEF new
      <4> QED
        <5>1. /\ drive' \in [Archives -> Folder] /\ drive'[job.archive] = new
              /\ \A n \in Archives : n # job.archive => drive'[n] = drive[n]
          BY <1>0, <2>1, <4>1, <4>3, OneFolderChanges DEF DriveTypes
        <5> QED BY <4>2, <4>3, <5>1
    <3> QED BY <3>2, <3>3
  <2>5. \A n \in Folders : job.point \notin drive'[n].points
    BY <1>0, <2>1, <2>4 DEF JobIsInOrder
  <2>6. \A n \in Archives : drive[n].points \subseteq 0 .. MaxDriveBackups
    BY DEF DriveTypes, JobIsInOrder, Folder
  <2>11. DriveTypes'
    BY <1>0, <2>1, <2>3, <2>4, <2>5, <2>6, SMTT(30)
    DEF DriveTypes, JobIsInOrder, OursIsOne, ListedPointsVerify, MadeByTheJob, Writing, RepositoryExists, Legacy, NoJob
  <2>12. JobIsInOrder'
    BY <1>0, <2>1, <2>3, <2>4, <2>5, <2>6, SMTT(30)
    DEF DriveTypes, JobIsInOrder, OursIsOne, ListedPointsVerify, MadeByTheJob, Writing, RepositoryExists, Legacy, NoJob
  <2>13. OursIsOne'
    BY <1>0, <2>1, <2>3, <2>4, <2>5, <2>6, SMTT(30)
    DEF DriveTypes, JobIsInOrder, OursIsOne, ListedPointsVerify, MadeByTheJob, Writing, RepositoryExists, Legacy, NoJob
  <2>14. ListedPointsVerify'
    BY <1>0, <2>1, <2>3, <2>4, <2>5, <2>6, SMTT(30)
    DEF DriveTypes, JobIsInOrder, OursIsOne, ListedPointsVerify, MadeByTheJob, Writing, RepositoryExists, Legacy, NoJob
  <2>15. MadeByTheJob'
    BY <1>0, <2>1, <2>3, <2>4, <2>5, <2>6, SMTT(30)
    DEF DriveTypes, JobIsInOrder, OursIsOne, ListedPointsVerify, MadeByTheJob, Writing, RepositoryExists, Legacy, NoJob
  <2> QED BY <2>11, <2>12, <2>13, <2>14, <2>15
<1>11. CASE DrivePulled
  <2>1. PICK lost \in SUBSET soft, hurt \in {"torn", "none"}, unnamed \in BOOLEAN :
          LET undo == unnamed /\ job.pc = "named" IN
          /\ drive' = [n \in Archives |->
               [drive[n] EXCEPT !.sidecar = IF n \in lost THEN hurt ELSE @,
                                !.points = IF undo /\ n = job.archive THEN @ \ {job.point} ELSE @]]
          /\ manifest' = IF undo THEN [manifest EXCEPT ![job.point] =
                                         [@ EXCEPT !.named = FALSE, !.staged = TRUE]]
                         ELSE manifest
    BY <1>11 DEF DrivePulled
  <2> DEFINE undo == unnamed /\ job.pc = "named"
  <2>2. job' = NoJob /\ UNCHANGED atRoot
        /\ tries' \in [backups : Nat, moves : Nat, probes : Nat, pulls : Nat]
        /\ tries'.backups = tries.backups /\ tries'.moves = tries.moves
    BY <1>11, SpendCounts DEF DrivePulled, DriveTypes
  <2>3. undo => /\ job # NoJob /\ job.point \in 1 .. MaxDriveBackups
    BY DEF DriveTypes, DriveJobs, JobIsInOrder, NoJob
  <2>4. /\ drive' \in [Archives -> Folder]
        /\ \A n \in Archives :
             /\ drive'[n].repository = drive[n].repository
             /\ drive'[n].points \subseteq drive[n].points
             /\ undo /\ n = job.archive => job.point \notin drive'[n].points
    <3> DEFINE side(n) == IF n \in lost THEN hurt ELSE drive[n].sidecar
               pts(n) == IF undo /\ n = job.archive THEN drive[n].points \ {job.point}
                         ELSE drive[n].points
    <3>1. drive' = [n \in Archives |-> [drive[n] EXCEPT !.sidecar = side(n), !.points = pts(n)]]
      BY <2>1
    <3>2. \A n \in Archives : /\ drive[n] \in Folder
                              /\ side(n) \in {"none", "ours", "0.22", "torn", "theirs"}
                              /\ pts(n) \in SUBSET Nat
      BY DEF DriveTypes, Folder
    <3> HIDE DEF side, pts
    <3>3. \A n \in Archives :
            LET f == [drive[n] EXCEPT !.sidecar = side(n), !.points = pts(n)] IN
            f \in Folder /\ f.repository = drive[n].repository /\ f.points = pts(n)
      BY <3>2 DEF Folder
    <3>4. drive' \in [Archives -> Folder]
          /\ \A n \in Archives : drive'[n].repository = drive[n].repository /\ drive'[n].points = pts(n)
      BY <3>1, <3>3
    <3> QED BY <3>4 DEF pts
  <2>5. /\ manifest' \in [1 .. MaxDriveBackups -> [staged : BOOLEAN, digest : BOOLEAN, named : BOOLEAN]]
        /\ \A p \in 1 .. MaxDriveBackups : manifest'[p] = manifest[p] \/ (undo /\ p = job.point)
    <3>1. CASE undo
      <4> DEFINE new == [manifest[job.point] EXCEPT !.named = FALSE, !.staged = TRUE]
      <4>1. new \in [staged : BOOLEAN, digest : BOOLEAN, named : BOOLEAN]
        BY <2>3, <3>1 DEF DriveTypes
      <4>2. manifest' = [manifest EXCEPT ![job.point] = new]
        BY <2>1, <3>1
      <4> HIDE DEF new
      <4> QED BY <2>3, <3>1, <4>1, <4>2 DEF DriveTypes
    <3>2. CASE ~undo
      BY <2>1, <3>2 DEF DriveTypes
    <3> QED BY <3>1, <3>2
  <2>6. undo => \A n \in Folders : job.point \notin drive'[n].points
    BY <1>0, <2>3, <2>4 DEF JobIsInOrder
  <2>7. \A n \in Archives : drive[n].points \subseteq 0 .. MaxDriveBackups /\ drive'[n].points \subseteq drive[n].points
    <3>1. \A n \in Archives : drive[n].points \subseteq Nat /\ drive'[n].points \subseteq drive[n].points
      BY <2>4 DEF DriveTypes, Folder
    <3>2. \A n \in Archives : \A p \in drive[n].points : p <= MaxDriveBackups
      BY <3>1 DEF DriveTypes, JobIsInOrder
    <3> QED BY <3>1, <3>2
  <2> HIDE DEF undo
  <2>11. DriveTypes'
    BY <1>0, <2>2, <2>4, <2>5, <2>6, <2>7, SMTT(30)
    DEF DriveTypes, JobIsInOrder, OursIsOne, ListedPointsVerify, MadeByTheJob, Writing, RepositoryExists, Legacy, NoJob
  <2>12. JobIsInOrder'
    BY <1>0, <2>2, <2>4, <2>5, <2>6, <2>7, SMTT(30)
    DEF DriveTypes, JobIsInOrder, OursIsOne, ListedPointsVerify, MadeByTheJob, Writing, RepositoryExists, Legacy, NoJob
  <2>13. OursIsOne'
    BY <1>0, <2>2, <2>4, <2>5, <2>6, <2>7, SMTT(30)
    DEF DriveTypes, JobIsInOrder, OursIsOne, ListedPointsVerify, MadeByTheJob, Writing, RepositoryExists, Legacy, NoJob
  <2>14. ListedPointsVerify'
    BY <1>0, <2>2, <2>4, <2>5, <2>6, <2>7, SMTT(30)
    DEF DriveTypes, JobIsInOrder, OursIsOne, ListedPointsVerify, MadeByTheJob, Writing, RepositoryExists, Legacy, NoJob
  <2>15. MadeByTheJob'
    BY <1>0, <2>2, <2>4, <2>5, <2>6, <2>7, SMTT(30)
    DEF DriveTypes, JobIsInOrder, OursIsOne, ListedPointsVerify, MadeByTheJob, Writing, RepositoryExists, Legacy, NoJob
  <2> QED BY <2>11, <2>12, <2>13, <2>14, <2>15
<1>12. CASE AdoptLayout
  <2>1. PICK n \in UnfinishedArchive, done \in 0 .. 3 :
          /\ drive' = MovedInto(n, done) /\ atRoot' = LeftAtRoot(done)
          /\ IF done < 3 THEN tries.moves < MaxMoveFails /\ Spend("moves") ELSE UNCHANGED tries
    BY <1>12 DEF AdoptLayout
  <2>2. n \in Folders /\ n \in Archives /\ drive[n].repository = "none" /\ drive[n] \in Folder
    BY <1>0 DEF UnfinishedArchive, Repositoryless, NoFolder, DriveTypes
  <2>3. drive[n].points \subseteq {Legacy} BY <2>2, NoRepositoryYet
  <2>4. tries' \in [backups : Nat, moves : Nat, probes : Nat, pulls : Nat]
        /\ tries'.backups = tries.backups
        /\ tries'.moves = IF done < 3 THEN tries.moves + 1 ELSE tries.moves
    BY <2>1 DEF Spend, DriveTypes
  <2>5. atRoot' \in [sidecar : BOOLEAN, points : BOOLEAN, repository : BOOLEAN]
        /\ UNCHANGED <<manifest, job>>
    BY <1>12, <2>1 DEF LeftAtRoot, AdoptLayout, DriveTypes
  <2>6. /\ drive' \in [Archives -> Folder]
        /\ \A m \in Archives : m # n => drive'[m] = drive[m]
        /\ drive'[n].points \subseteq {Legacy}
        /\ drive'[n].repository = IF done > 2 THEN "0.22" ELSE "none"
    <3> DEFINE side == IF done > 0 /\ atRoot.sidecar THEN "0.22" ELSE drive[n].sidecar
               pts == IF done > 1 /\ atRoot.points THEN drive[n].points \cup {Legacy} ELSE drive[n].points
               rep == IF done > 2 THEN "0.22" ELSE drive[n].repository
               new == [drive[n] EXCEPT !.sidecar = side, !.points = pts, !.repository = rep]
    <3>1. drive' = [drive EXCEPT ![n] = new]
      BY <2>1, <2>2 DEF MovedInto, DriveTypes
    <3>2. side \in {"none", "ours", "0.22", "torn", "theirs"} /\ pts \in SUBSET Nat
          /\ pts \subseteq {Legacy} /\ rep = IF done > 2 THEN "0.22" ELSE "none"
      BY <2>2, <2>3 DEF Folder, Legacy
    <3> HIDE DEF side, pts, rep
    <3>3. new \in Folder /\ new.points = pts /\ new.repository = rep
      BY <2>2, <3>2 DEF Folder
    <3> HIDE DEF new
    <3> QED BY <2>2, <3>1, <3>2, <3>3 DEF DriveTypes
  <2>7. job \in DriveJobs \/ job = NoJob BY DEF DriveTypes
  <2>11. DriveTypes'
    BY <1>0, <2>2, <2>3, <2>4, <2>5, <2>6, <2>7, SMTT(30)
    DEF DriveTypes, JobIsInOrder, OursIsOne, ListedPointsVerify, MadeByTheJob, Writing, RepositoryExists, Legacy, DriveJobs, NoJob
  <2>12. JobIsInOrder'
    BY <1>0, <2>2, <2>3, <2>4, <2>5, <2>6, <2>7, SMTT(30)
    DEF DriveTypes, JobIsInOrder, OursIsOne, ListedPointsVerify, MadeByTheJob, Writing, RepositoryExists, Legacy, DriveJobs, NoJob
  <2>13. OursIsOne'
    BY <1>0, <2>2, <2>3, <2>4, <2>5, <2>6, <2>7, SMTT(30)
    DEF DriveTypes, JobIsInOrder, OursIsOne, ListedPointsVerify, MadeByTheJob, Writing, RepositoryExists, Legacy, DriveJobs, NoJob
  <2>14. ListedPointsVerify'
    BY <1>0, <2>2, <2>3, <2>4, <2>5, <2>6, <2>7, SMTT(30)
    DEF DriveTypes, JobIsInOrder, OursIsOne, ListedPointsVerify, MadeByTheJob, Writing, RepositoryExists, Legacy, DriveJobs, NoJob
  <2>15. MadeByTheJob'
    <3>1. ASSUME job # NoJob, job.created
          PROVE  /\ job.pc \in Writing /\ drive'[job.archive].repository = "ours"
                 /\ drive'[job.archive].points \subseteq {Legacy, job.point}
      <4>1. /\ job.pc \in Writing /\ drive[job.archive].repository = "ours"
            /\ drive[job.archive].points \subseteq {Legacy, job.point}
        BY <3>1 DEF MadeByTheJob
      <4>2. job.archive \in Archives /\ job.archive # n
        BY <1>0, <2>2, <3>1, <4>1 DEF JobIsInOrder
      <4> QED BY <2>6, <4>1, <4>2
    <3>2. tries'.moves = 0 =>
            \A m \in Folders : Legacy \in drive'[m].points => drive'[m].repository = "0.22"
      <4>1. tries'.moves = 0 => tries.moves = 0 /\ done > 2
        BY <2>4 DEF DriveTypes
      <4> QED BY <1>0, <2>6, <4>1 DEF MadeByTheJob
    <3> QED BY <2>5, <3>1, <3>2 DEF MadeByTheJob
  <2> QED BY <2>11, <2>12, <2>13, <2>14, <2>15
<1> QED BY <1>1, <1>2, <1>3, <1>4, <1>5, <1>6, <1>7, <1>8, <1>9, <1>10, <1>11, <1>12 DEF DriveNext

LEMMA DriveInvInductive ==
  ASSUME MaxDriveBackups \in Nat
  PROVE  DriveSpec => []DriveInv
<1>1. DriveInit => DriveInv
  <2> SUFFICES ASSUME DriveInit PROVE DriveInv
    OBVIOUS
  <2>1. /\ drive \in [Archives -> Folder]
        /\ \A n \in Archives : drive[n].points = {} /\ drive[n].repository # "ours"
        /\ \A n \in Archives \ Folders : drive[n].repository = "theirs"
    BY DEF DriveInit, NoFolder, Folder, Archives
  <2>2. job = NoJob /\ tries = [backups |-> 0, moves |-> 0, probes |-> 0, pulls |-> 0]
        /\ manifest \in [1 .. MaxDriveBackups -> [staged : BOOLEAN, digest : BOOLEAN, named : BOOLEAN]]
        /\ atRoot \in [sidecar : BOOLEAN, points : BOOLEAN, repository : BOOLEAN]
    BY DEF DriveInit, NoManifest
  <2>3. DriveTypes BY <2>1, <2>2 DEF DriveTypes
  <2> QED
    BY <2>1, <2>2, <2>3 DEF DriveInv, JobIsInOrder, OursIsOne, ListedPointsVerify, MadeByTheJob, Archives
<1>2. DriveInv /\ [DriveNext]_driveVars => DriveInv'
  <2>1. ASSUME DriveInv, UNCHANGED driveVars PROVE DriveInv'
    BY <2>1 DEF driveVars, DriveInv, DriveTypes, JobIsInOrder, OursIsOne, ListedPointsVerify,
                MadeByTheJob, RepositoryExists
  <2> QED BY <2>1, DriveStep
<1> QED BY <1>1, <1>2, PTL DEF DriveSpec

\* Whatever dies or is pulled and whenever the engine gives no answer, this server makes no
\* second repository on a drive (target, describe and ensureRepository).
THEOREM NoSecondRepository ==
  ASSUME MaxDriveBackups \in Nat
  PROVE  DriveSpec => []OneRepositoryOfOurs
<1>1. DriveInv => OneRepositoryOfOurs
  <2> SUFFICES ASSUME DriveInv PROVE OneRepositoryOfOurs
    OBVIOUS
  <2> DEFINE S == {n \in Folders : drive[n].repository = "ours"}
  <2>1. \A m, n \in S : m = n BY DEF DriveInv, OursIsOne
  <2> HIDE DEF S
  <2>2. Cardinality(S) <= 1 BY <2>1, AtMostOne
  <2> USE DEF S
  <2> QED BY <2>2 DEF OneRepositoryOfOurs
<1> QED BY <1>1, DriveInvInductive, PTL

\* A restore point that is listed has its digest and the repository its data is in, whatever
\* fails and whenever the drive is pulled (writeRestorePoint, discardFailedBackup).
THEOREM WhatIsListedVerifies ==
  ASSUME MaxDriveBackups \in Nat
  PROVE  DriveSpec => []ListedPointsVerify
<1>1. DriveInv => ListedPointsVerify BY DEF DriveInv
<1> QED BY <1>1, DriveInvInductive, PTL

\* A folder written to keeps its restore points, unless the step takes some of them away.
LEMMA PointsAreKept ==
  ASSUME drive \in [Archives -> Folder], NEW a, NEW f,
         drive' = [drive EXCEPT ![a] = f], drive[a].points \subseteq f.points
  PROVE  \A n \in Archives : drive[n].points \subseteq drive'[n].points
  OBVIOUS

LEMMA OnlyItsOwnPoint ==
  ASSUME DriveInv, [DriveNext]_driveVars, tries'.moves = 0
  PROVE  OnlyItsOwnPointGoes
<1>0. Folders \subseteq Archives /\ drive \in [Archives -> Folder] /\ \A n \in Archives : drive[n] \in Folder
  BY DEF Archives, DriveInv, DriveTypes
<1> SUFFICES \A n \in Folders : \A p \in drive[n].points \ drive'[n].points : job # NoJob /\ job.point = p
  BY DEF OnlyItsOwnPointGoes
<1>1. ASSUME UNCHANGED drive \/ \A n \in Archives : drive[n].points \subseteq drive'[n].points
      PROVE  \A n \in Folders : \A p \in drive[n].points \ drive'[n].points : job # NoJob /\ job.point = p
  BY <1>0, <1>1
<1>2. CASE UNCHANGED driveVars \/ StartDriveBackup \/ ChooseTarget \/ StageManifest \/ WriteDigest
           \/ BackupSucceeds
  BY <1>1, <1>2 DEF driveVars, StartDriveBackup, ChooseTarget, StageManifest, WriteDigest, BackupSucceeds
<1>2a. \A pc \in BackupSteps \ {"target"} :
         job.pc = pc => job # NoJob /\ job \in DriveJobs /\ job.archive \in Archives
  BY DEF DriveInv, DriveTypes, JobIsInOrder, NoJob, BackupSteps
<1>3. CASE Describe
  <2>1. CASE drive' = [drive EXCEPT ![job.archive].sidecar = "ours"]
    <3> DEFINE f == [drive[job.archive] EXCEPT !.sidecar = "ours"]
    <3>1. drive[job.archive] \in Folder
      BY <1>0, <1>2a, <1>3 DEF Describe, BackupSteps
    <3>2. f.points = drive[job.archive].points /\ drive' = [drive EXCEPT ![job.archive] = f]
      BY <2>1, <3>1 DEF Folder
    <3> HIDE DEF f
    <3> QED BY <1>0, <1>1, <3>2, PointsAreKept
  <2> QED BY <1>1, <1>3, <2>1 DEF Describe
<1>4. CASE ProbeRepository
  <2>1. CASE drive' = [drive EXCEPT ![job.archive].repository = IF @ = "none" THEN "dir" ELSE @]
    <3> DEFINE r == IF drive[job.archive].repository = "none" THEN "dir"
                    ELSE drive[job.archive].repository
               f == [drive[job.archive] EXCEPT !.repository = r]
    <3>1. drive[job.archive] \in Folder
      BY <1>0, <1>2a, <1>4 DEF ProbeRepository, BackupSteps
    <3>2. drive' = [drive EXCEPT ![job.archive] = f] BY <2>1
    <3> HIDE DEF r
    <3>3. f.points = drive[job.archive].points BY <3>1 DEF Folder
    <3> HIDE DEF f
    <3> QED BY <1>0, <1>1, <3>2, <3>3, PointsAreKept
  <2> QED BY <1>1, <1>4, <2>1 DEF ProbeRepository
<1>5. CASE InitRepository
  <2>1. CASE drive' = [drive EXCEPT ![job.archive].repository = "ours"]
    <3> DEFINE f == [drive[job.archive] EXCEPT !.repository = "ours"]
    <3>1. drive[job.archive] \in Folder
      BY <1>0, <1>2a, <1>5 DEF InitRepository, BackupSteps
    <3>2. f.points = drive[job.archive].points /\ drive' = [drive EXCEPT ![job.archive] = f]
      BY <2>1, <3>1 DEF Folder
    <3> HIDE DEF f
    <3> QED BY <1>0, <1>1, <3>2, PointsAreKept
  <2> QED BY <1>1, <1>5, <2>1 DEF InitRepository
<1>6. CASE NameManifest
  <2> DEFINE pts == drive[job.archive].points \cup {job.point}
             f == [drive[job.archive] EXCEPT !.points = pts]
  <2>1. drive[job.archive] \in Folder
    BY <1>0, <1>2a, <1>6 DEF NameManifest, BackupSteps
  <2>2. drive' = [drive EXCEPT ![job.archive] = f]
    BY <1>6 DEF NameManifest
  <2>3. drive[job.archive].points \subseteq pts OBVIOUS
  <2> HIDE DEF pts
  <2>4. f.points = pts BY <2>1 DEF Folder
  <2> HIDE DEF f
  <2> QED BY <1>0, <1>1, <2>2, <2>3, <2>4, PointsAreKept
<1>7. CASE AdoptLayout
  <2>1. PICK n \in UnfinishedArchive, done \in 0 .. 3 : drive' = MovedInto(n, done)
    BY <1>7 DEF AdoptLayout
  <2> DEFINE side == IF done > 0 /\ atRoot.sidecar THEN "0.22" ELSE drive[n].sidecar
             pts == IF done > 1 /\ atRoot.points THEN drive[n].points \cup {Legacy} ELSE drive[n].points
             rep == IF done > 2 THEN "0.22" ELSE drive[n].repository
             f == [drive[n] EXCEPT !.sidecar = side, !.points = pts, !.repository = rep]
  <2>2. n \in Archives /\ drive[n] \in Folder
    BY <1>0 DEF UnfinishedArchive, Repositoryless
  <2>3. drive' = [drive EXCEPT ![n] = f]
    BY <1>0, <2>1, <2>2 DEF MovedInto
  <2>4. drive[n].points \subseteq pts OBVIOUS
  <2> HIDE DEF side, pts, rep
  <2>5. f.points = pts BY <2>2 DEF Folder
  <2> HIDE DEF f
  <2> QED BY <1>0, <1>1, <2>3, <2>4, <2>5, PointsAreKept
<1>8. CASE BackupFails
  <2>1. job # NoJob /\ job \in DriveJobs /\ job.archive \in Archives
        /\ drive[job.archive] \in Folder /\ tries' = tries
    BY <1>0, <1>2a, <1>8 DEF BackupFails, BackupSteps
  <2>2. drive' = Discarded(job.archive, job.created)
    BY <1>8 DEF BackupFails
  <2>3. CASE job.created
    <3>1. drive[job.archive].points \subseteq {Legacy, job.point}
          /\ drive[job.archive].repository = "ours" /\ job.archive \in Folders
      BY <2>1, <2>3 DEF DriveInv, MadeByTheJob, JobIsInOrder
    <3>2. Legacy \notin drive[job.archive].points
      BY <2>1, <3>1 DEF DriveInv, MadeByTheJob
    <3>3. \A n \in Archives : n # job.archive => drive'[n] = drive[n]
      BY <1>0, <2>2, <2>3 DEF Discarded
    <3> QED BY <1>0, <2>1, <3>1, <3>2, <3>3
  <2>4. CASE ~job.created
    <3> DEFINE pts == drive[job.archive].points \ {job.point}
               f == [drive[job.archive] EXCEPT !.points = pts]
    <3>1. drive' = [drive EXCEPT ![job.archive] = f]
      BY <2>2, <2>4 DEF Discarded
    <3>2. \A p \in drive[job.archive].points : p \in pts \/ p = job.point
      OBVIOUS
    <3> HIDE DEF pts
    <3>3. f.points = pts BY <2>1 DEF Folder
    <3> HIDE DEF f
    <3>4. drive'[job.archive] = f /\ \A n \in Archives : n # job.archive => drive'[n] = drive[n]
      BY <1>0, <2>1, <3>1
    <3> QED
      <4> SUFFICES ASSUME NEW n \in Folders, NEW p \in drive[n].points \ drive'[n].points
                   PROVE  job # NoJob /\ job.point = p
        OBVIOUS
      <4>1. n = job.archive /\ p \notin pts BY <1>0, <3>3, <3>4
      <4> QED BY <2>1, <3>2, <4>1
  <2> QED BY <2>3, <2>4
<1>9. CASE DrivePulled
  <2>1. PICK lost \in SUBSET soft, hurt \in {"torn", "none"}, unnamed \in BOOLEAN :
          LET undo == unnamed /\ job.pc = "named" IN
          /\ drive' = [n \in Archives |->
               [drive[n] EXCEPT !.sidecar = IF n \in lost THEN hurt ELSE @,
                                !.points = IF undo /\ n = job.archive THEN @ \ {job.point} ELSE @]]
          /\ manifest' = IF undo THEN [manifest EXCEPT ![job.point] =
                                         [@ EXCEPT !.named = FALSE, !.staged = TRUE]]
                         ELSE manifest
    BY <1>9 DEF DrivePulled
  <2> DEFINE side(n) == IF n \in lost THEN hurt ELSE drive[n].sidecar
             pts(n) == IF (unnamed /\ job.pc = "named") /\ n = job.archive
                       THEN drive[n].points \ {job.point} ELSE drive[n].points
  <2>2. drive' = [n \in Archives |-> [drive[n] EXCEPT !.sidecar = side(n), !.points = pts(n)]]
    BY <2>1
  <2>3. \A n \in Archives : \A p \in drive[n].points \ pts(n) : job # NoJob /\ job.point = p
    BY <1>2a DEF BackupSteps
  <2> HIDE DEF side, pts
  <2>4. \A n \in Archives : drive'[n].points = pts(n)
    BY <1>0, <2>2 DEF Folder
  <2> QED BY <1>0, <2>3, <2>4
<1> QED BY <1>2, <1>3, <1>4, <1>5, <1>6, <1>7, <1>8, <1>9 DEF DriveNext

\* A restore point goes only with the job that wrote it, as long as no rename of the move
\* from 0.22's layout has failed (discardFailedBackup, adoptLayout).
THEOREM OnlyOnesOwnIsDiscarded ==
  ASSUME MaxDriveBackups \in Nat
  PROVE  DriveSpec => PointsOutliveOtherJobs
<1>1. DriveInv /\ [DriveNext]_driveVars => (tries'.moves = 0 => OnlyItsOwnPointGoes)
  BY OnlyItsOwnPoint
<1> QED BY <1>1, DriveInvInductive, PTL DEF DriveSpec, PointsOutliveOtherJobs

------------------------------------------------------------------------------
(* Ubuntu's own patches on the host. *)

PatchTypes ==
  /\ apt = [distro |-> apt.distro, other |-> apt.other, policy |-> apt.policy, holds |-> apt.holds]
  /\ DOMAIN ghost = {"ever", "handed", "installed", "edited", "own", "cut"}
  /\ ghost.ever \in BOOLEAN /\ ghost.handed \in BOOLEAN /\ ghost.edited \in BOOLEAN /\ ghost.own \in BOOLEAN
  /\ DOMAIN feed = {"revision", "held"} /\ feed.revision \in Nat /\ feed.revision >= 1
  /\ pushed \in Nat /\ pushed <= feed.revision
  /\ units \in [Units -> {"missing", "starting", "active", "down"}]

\* MOS's record is of a policy it took on while nobody else ran it.
TakenOn == record = "mos" => ghost.ever

\* A verdict stands until the next run or restart, and no unit moves meanwhile.
VerdictStands == health # Patches!NoHealth /\ check = "idle" => Patches!Starting = {} /\ health.failures = Patches!Down

\* What a run is installing is what its line in the log names.
LogFollows ==
  /\ log.read.last = ghost.installed
  /\ Patches!Running => log.read.pending = log.line.packages

PatchInv ==
  /\ PatchTypes /\ TakenOn /\ Patches!LeftAlone /\ Patches!HoldsAreApplied /\ VerdictStands /\ LogFollows
  /\ armed => needed # {}
  /\ Patches!NoRestartUnasked

LEMMA PatchesSound ==
  ASSUME PatchInv
  PROVE  Patches!PatchesAreSound
BY DEF PatchInv, Patches!PatchesAreSound, Patches!VerdictIsFair, VerdictStands, Patches!LastInstallIsTrue, LogFollows

LEMMA PatchesStart ==
  ASSUME Patches!Init
  PROVE  PatchInv
<1>1. PICK start \in Starts : apt = start.apt /\ record = start.record /\ ghost = Patches!GhostInit(start.record)
  BY DEF Patches!Init
<1>2. /\ start.record = "mos" \/ (~start.apt.policy /\ start.apt.holds = {"no list"})
      /\ start.apt = [distro |-> start.apt.distro, other |-> start.apt.other, policy |-> start.apt.policy,
                      holds |-> start.apt.holds]
  BY StartsAreFound
<1>3. PatchTypes
  <2>1. /\ DOMAIN ghost = {"ever", "handed", "installed", "edited", "own", "cut"}
        /\ ghost.handed = FALSE /\ ghost.edited = FALSE /\ ghost.own = FALSE
    BY <1>1 DEF Patches!GhostInit
  <2>2. ghost.ever \in BOOLEAN
    <3>1. ghost.ever = (start.record = "mos")
      BY <1>1 DEF Patches!GhostInit
    <3>2. (start.record = "mos") \in BOOLEAN OBVIOUS
    <3>3. QED BY <3>1, <3>2
  <2>3. /\ feed = [revision |-> 1, held |-> {}] /\ pushed = 0
    BY DEF Patches!Init
  <2>4. DOMAIN feed = {"revision", "held"} /\ feed.revision = 1 BY <2>3
  <2>5. units \in [Units -> {"missing", "starting", "active", "down"}]
    BY DEF Patches!Init, Patches!Up
  <2>6. apt = [distro |-> apt.distro, other |-> apt.other, policy |-> apt.policy, holds |-> apt.holds]
    BY <1>1, <1>2
  <2>7. ghost.handed \in BOOLEAN /\ ghost.edited \in BOOLEAN /\ ghost.own \in BOOLEAN
    BY <2>1
  <2>8. feed.revision \in Nat /\ feed.revision >= 1 /\ pushed \in Nat /\ pushed <= feed.revision
    BY <2>3, <2>4
  <2>9. QED BY <2>1, <2>2, <2>4, <2>5, <2>6, <2>7, <2>8, Zenon DEF PatchTypes
<1>4. TakenOn /\ Patches!LeftAlone /\ Patches!NoRestartUnasked
  BY <1>1, <1>2 DEF TakenOn, Patches!LeftAlone, Patches!NoRestartUnasked, Patches!GhostInit, Patches!NoList
<1>5. Patches!HoldsAreApplied /\ VerdictStands /\ (armed => needed # {})
  BY DEF Patches!Init, Patches!HoldsAreApplied, VerdictStands
<1>6. LogFollows
  BY <1>1 DEF Patches!Init, LogFollows, Patches!NothingRead, Patches!Line, Patches!Running, Patches!GhostInit
<1>7. QED BY <1>3, <1>4, <1>5, <1>6 DEF PatchInv

\* Steps that leave what the properties speak of alone.
LEMMA OthersKeep ==
  ASSUME PatchInv, UNCHANGED <<apt, record, feed, log, units, check, health, ghost>>,
         pushed' \in {pushed, 0}, armed' => needed' # {}
  PROVE  PatchInv'
<1>1. PatchTypes' /\ TakenOn' /\ Patches!LeftAlone'
  BY DEF PatchInv, PatchTypes, TakenOn, Patches!LeftAlone
<1>2. Patches!HoldsAreApplied'
  BY DEF PatchInv, PatchTypes, Patches!HoldsAreApplied
<1>3. VerdictStands' /\ LogFollows' /\ Patches!NoRestartUnasked'
  BY DEF PatchInv, VerdictStands, Patches!Starting, Patches!Down, LogFollows, Patches!Running, Patches!NoRestartUnasked
<1>4. QED BY <1>1, <1>2, <1>3 DEF PatchInv

LEMMA AsideKeeps ==
  ASSUME PatchInv,
         \/ \E kind \in {"update", "backup"} : Patches!JobStarts(kind)
         \/ Patches!JobEnds \/ Patches!ListsRefresh \/ Patches!RestartHost \/ Patches!LoadStatus
  PROVE  PatchInv'
<1>1. armed => needed # {} BY DEF PatchInv
<1>2. CASE \E kind \in {"update", "backup"} : Patches!JobStarts(kind)
  BY <1>1, <1>2, OthersKeep DEF Patches!JobStarts
<1>3. CASE Patches!JobEnds
  BY <1>1, <1>3, OthersKeep DEF Patches!JobEnds
<1>4. CASE Patches!ListsRefresh
  BY <1>1, <1>4, OthersKeep DEF Patches!ListsRefresh
<1>5. CASE Patches!RestartHost
  BY <1>5, OthersKeep DEF Patches!RestartHost, Patches!MayRestart
<1>6. CASE Patches!LoadStatus
  BY <1>1, <1>6, OthersKeep DEF Patches!LoadStatus
<1>7. QED BY <1>2, <1>3, <1>4, <1>5, <1>6

\* The policy is written where nobody else runs one, and the record says who runs it.
LEMMA ApplyKeeps ==
  ASSUME PatchInv, Patches!ApplyHostPatching
  PROVE  PatchInv'
<1> USE DEF PatchInv
<1>1. UNCHANGED <<feed, pushed, log, needed, units, check, health, armed>>
  BY DEF Patches!ApplyHostPatching
<1>2. ASSUME NEW who \in {"owner", "none", "mos"}, Patches!Decides(who)
      PROVE  /\ record' = who /\ DOMAIN ghost' = DOMAIN ghost /\ ghost'.ever \in BOOLEAN /\ ghost'.handed \in BOOLEAN
             /\ ghost'.edited = ghost.edited /\ ghost'.own = ghost.own /\ ghost'.installed = ghost.installed
             /\ ghost'.ever = (ghost.ever \/ (who = "mos" /\ apt.distro # "edited" /\ apt.other = "none"))
             /\ ghost'.handed = (ghost.handed \/ (who = "mos" /\ record # "mos"))
  BY <1>2 DEF Patches!Decides, PatchTypes
<1>3. VerdictStands' /\ (armed' => needed' # {})
  BY <1>1 DEF VerdictStands, Patches!Starting, Patches!Down
<1>4. ASSUME NEW who \in {"owner", "none"}, Patches!Decides(who), UNCHANGED apt
      PROVE  PatchInv'
  <2>1. PatchTypes' /\ TakenOn' /\ Patches!LeftAlone' /\ Patches!HoldsAreApplied'
    BY <1>1, <1>2, <1>4 DEF PatchTypes, TakenOn, Patches!LeftAlone, Patches!HoldsAreApplied
  <2>2. LogFollows' /\ Patches!NoRestartUnasked'
    BY <1>1, <1>2, <1>4 DEF LogFollows, Patches!Running, Patches!NoRestartUnasked
  <2>3. QED BY <1>3, <2>1, <2>2
<1>5. CASE Patches!WritesThePolicy
  <2>1. /\ apt.distro # "edited" /\ apt.other = "none" /\ Patches!Decides("mos")
        /\ apt' = [apt EXCEPT !.policy = TRUE, !.distro = IF apt.distro = "absent" THEN "stock" ELSE apt.distro]
    BY <1>5 DEF Patches!WritesThePolicy, Patches!OwnerManagedReason
  <2>2. /\ apt'.other = apt.other /\ apt'.holds = apt.holds
        /\ apt' = [distro |-> apt'.distro, other |-> apt'.other, policy |-> apt'.policy, holds |-> apt'.holds]
    BY <2>1 DEF PatchTypes
  <2>3. ghost'.ever /\ ghost'.ever = TRUE BY <2>1, <1>2
  <2>4. PatchTypes' /\ TakenOn' /\ Patches!LeftAlone'
    BY <1>1, <1>2, <2>1, <2>2, <2>3 DEF PatchTypes, TakenOn, Patches!LeftAlone
  <2>5. Patches!HoldsAreApplied'
    BY <1>1, <1>2, <2>1, <2>2 DEF Patches!HoldsAreApplied
  <2>6. LogFollows' /\ Patches!NoRestartUnasked'
    BY <1>1, <1>2, <2>1, <2>2 DEF LogFollows, Patches!Running, Patches!NoRestartUnasked
  <2>7. QED BY <1>3, <2>4, <2>5, <2>6
<1>6. QED
  BY <1>4, <1>5 DEF Patches!ApplyHostPatching, Patches!LeavesToTheOwner, Patches!CannotInstall

LEMMA OwnerEditsKeeps ==
  ASSUME PatchInv, Patches!OwnerEdits
  PROVE  PatchInv'
<1> USE DEF PatchInv
<1>1. /\ UNCHANGED <<record, feed, pushed, log, needed, units, check, health, armed>>
      /\ ghost' = [ghost EXCEPT !.edited = TRUE]
  BY DEF Patches!OwnerEdits
<1>2. PICK other, distro : apt' = [apt EXCEPT !.other = other, !.distro = IF apt.distro = "absent" THEN apt.distro ELSE distro]
  BY DEF Patches!OwnerEdits
<1>3. /\ apt'.policy = apt.policy /\ apt'.holds = apt.holds
      /\ apt' = [distro |-> apt'.distro, other |-> apt'.other, policy |-> apt'.policy, holds |-> apt'.holds]
  BY <1>2 DEF PatchTypes
<1>4. /\ DOMAIN ghost' = DOMAIN ghost /\ ghost'.edited = TRUE /\ ghost'.ever = ghost.ever /\ ghost'.handed = ghost.handed
      /\ ghost'.own = ghost.own /\ ghost'.installed = ghost.installed
  BY <1>1 DEF PatchTypes
<1>5. PatchTypes' /\ TakenOn' /\ Patches!LeftAlone' /\ Patches!HoldsAreApplied'
  BY <1>1, <1>3, <1>4 DEF PatchTypes, TakenOn, Patches!LeftAlone, Patches!HoldsAreApplied
<1>6. VerdictStands' /\ LogFollows' /\ Patches!NoRestartUnasked'
  BY <1>1, <1>4 DEF VerdictStands, Patches!Starting, Patches!Down, LogFollows, Patches!Running, Patches!NoRestartUnasked
<1>7. QED BY <1>1, <1>5, <1>6

\* A feed that moves is not the pushed one; a push that fails is not noted.
LEMMA FeedKeeps ==
  ASSUME PatchInv, Patches!FeedMoves \/ Patches!PushHolds \/ Patches!PushFails
  PROVE  PatchInv'
<1> USE DEF PatchInv
<1>1. UNCHANGED <<record, log, needed, units, check, health, armed>>
  BY DEF Patches!FeedMoves, Patches!PushHolds, Patches!PushFails
<1>2. VerdictStands' /\ (armed' => needed' # {})
  BY <1>1 DEF VerdictStands, Patches!Starting, Patches!Down
<1>3. CASE Patches!FeedMoves
  <2>1. PICK held : feed' = [revision |-> feed.revision + 1, held |-> held]
    BY <1>3 DEF Patches!FeedMoves
  <2>2. UNCHANGED <<apt, pushed, ghost>> BY <1>3 DEF Patches!FeedMoves
  <2>3. PatchTypes' /\ Patches!HoldsAreApplied'
    BY <1>1, <2>1, <2>2 DEF PatchTypes, Patches!HoldsAreApplied
  <2>4. TakenOn' /\ Patches!LeftAlone' /\ LogFollows' /\ Patches!NoRestartUnasked'
    BY <1>1, <2>2 DEF TakenOn, Patches!LeftAlone, LogFollows, Patches!Running, Patches!NoRestartUnasked
  <2>5. QED BY <1>2, <2>3, <2>4
<1>4. CASE Patches!PushHolds \/ Patches!PushFails
  <2>1. UNCHANGED feed /\ ghost' = [ghost EXCEPT !.handed = FALSE] /\ pushed # feed.revision
    BY <1>4 DEF Patches!PushHolds, Patches!PushFails
  <2>2. /\ DOMAIN ghost' = DOMAIN ghost /\ ghost'.edited = ghost.edited /\ ghost'.ever = ghost.ever /\ ghost'.handed = FALSE
        /\ ghost'.own = ghost.own /\ ghost'.installed = ghost.installed
    BY <2>1 DEF PatchTypes
  <2>3. CASE Patches!PushHolds
    <3>1. apt' = [apt EXCEPT !.holds = Patches!HoldsFor(record)] /\ pushed' = feed.revision
      BY <2>3 DEF Patches!PushHolds
    <3>2. /\ apt'.policy = apt.policy /\ apt'.other = apt.other /\ apt'.distro = apt.distro
          /\ apt'.holds = (IF record = "mos" THEN feed.held ELSE Patches!NoList)
          /\ apt' = [distro |-> apt'.distro, other |-> apt'.other, policy |-> apt'.policy, holds |-> apt'.holds]
      BY <3>1 DEF PatchTypes, Patches!HoldsFor
    <3>3. PatchTypes' /\ TakenOn' /\ Patches!LeftAlone' /\ Patches!HoldsAreApplied'
      BY <1>1, <2>1, <2>2, <3>1, <3>2 DEF PatchTypes, TakenOn, Patches!LeftAlone, Patches!HoldsAreApplied
    <3>4. LogFollows' /\ Patches!NoRestartUnasked'
      BY <1>1, <2>2, <3>2 DEF LogFollows, Patches!Running, Patches!NoRestartUnasked
    <3>5. QED BY <1>2, <3>3, <3>4
  <2>4. CASE Patches!PushFails
    <3>1. apt' \in {apt, [apt EXCEPT !.holds = Patches!HoldsFor(record)]} /\ pushed' = pushed
      BY <2>4 DEF Patches!PushFails, Patches!AfterFailedPush
    <3>a. /\ apt'.policy = apt.policy /\ apt'.other = apt.other /\ apt'.distro = apt.distro
          /\ apt'.holds \in {apt.holds, IF record = "mos" THEN feed.held ELSE Patches!NoList}
          /\ apt' = [distro |-> apt'.distro, other |-> apt'.other, policy |-> apt'.policy, holds |-> apt'.holds]
      BY <3>1 DEF PatchTypes, Patches!HoldsFor
    <3>2. PatchTypes' /\ TakenOn' /\ Patches!LeftAlone' /\ Patches!HoldsAreApplied'
      BY <1>1, <2>1, <2>2, <3>1, <3>a DEF PatchTypes, TakenOn, Patches!LeftAlone, Patches!HoldsAreApplied
    <3>3. LogFollows' /\ Patches!NoRestartUnasked'
      BY <1>1, <2>2, <3>a DEF LogFollows, Patches!Running, Patches!NoRestartUnasked
    <3>4. QED BY <1>2, <3>2, <3>3
  <2>5. QED BY <1>4, <2>3, <2>4
<1>5. QED BY <1>3, <1>4

\* What a run named when it began is what it is found to have installed.
LEMMA RunsKeep ==
  ASSUME PatchInv, Patches!RunStarts \/ Patches!RunEnds
  PROVE  PatchInv'
<1> USE DEF PatchInv
<1>1. UNCHANGED <<apt, record, feed, pushed, armed>>
  BY DEF Patches!RunStarts, Patches!RunEnds
<1>2. CASE Patches!RunStarts
  <2>1. log' = Patches!Logged(Patches!Logged(log, Patches!Line("start", {})), Patches!Line("upgrading", Patches!Installable(apt))) /\ UNCHANGED <<needed, units, check, health, ghost>>
    BY <1>2 DEF Patches!RunStarts
  <2>2. LogFollows'
    BY <2>1 DEF LogFollows, Patches!Logged, Patches!ReadLine, Patches!Line, Patches!Running
  <2>3. PatchTypes' /\ TakenOn' /\ Patches!LeftAlone' /\ Patches!HoldsAreApplied'
    BY <1>1, <2>1 DEF PatchTypes, TakenOn, Patches!LeftAlone, Patches!HoldsAreApplied
  <2>4. VerdictStands' /\ Patches!NoRestartUnasked'
    BY <1>1, <2>1 DEF VerdictStands, Patches!Starting, Patches!Down, Patches!NoRestartUnasked
  <2>5. QED BY <1>1, <2>1, <2>2, <2>3, <2>4
<1>3. CASE Patches!RunEnds
  <2>1. /\ Patches!Running /\ log' = Patches!Logged(log, Patches!Line("installed", {})) /\ check' = "settling"
        /\ needed' = needed \cup (log.line.packages \cap Kernels) /\ ghost' = [ghost EXCEPT !.installed = log.line.packages]
    BY <1>3 DEF Patches!RunEnds
  <2>2. /\ DOMAIN ghost' = DOMAIN ghost /\ ghost'.edited = ghost.edited /\ ghost'.ever = ghost.ever /\ ghost'.handed = ghost.handed
        /\ ghost'.own = ghost.own /\ ghost'.installed = log.line.packages
    BY <2>1 DEF PatchTypes
  <2>3. LogFollows'
    BY <2>1, <2>2 DEF LogFollows, Patches!Logged, Patches!ReadLine, Patches!Line, Patches!Running
  <2>4. units' \in [Units -> {"missing", "starting", "active", "down"}]
    <3>1. PICK touched, broken : units' = [u \in Units |-> IF u \in broken THEN "down" ELSE IF u \in touched THEN "starting" ELSE units[u]]
      BY <1>3 DEF Patches!RunEnds
    <3>2. QED BY <3>1 DEF PatchTypes
  <2>5. PatchTypes' /\ TakenOn' /\ Patches!LeftAlone' /\ Patches!HoldsAreApplied'
    BY <1>1, <2>2, <2>4 DEF PatchTypes, TakenOn, Patches!LeftAlone, Patches!HoldsAreApplied
  <2>6. VerdictStands' /\ Patches!NoRestartUnasked'
    BY <1>1, <2>1, <2>2 DEF VerdictStands, Patches!NoRestartUnasked
  <2>7. armed' => needed' # {} BY <1>1, <2>1
  <2>8. QED BY <2>3, <2>5, <2>6, <2>7
<1>4. QED BY <1>2, <1>3

\* A verdict is given when no unit is on its way, and then names those that are down.
LEMMA ChecksKeep ==
  ASSUME PatchInv, Patches!Verdict \/ \E u \in Units : Patches!UnitSettles(u)
  PROVE  PatchInv'
<1> USE DEF PatchInv
<1>1. UNCHANGED <<apt, record, feed, pushed, log, needed, armed, ghost>>
  BY DEF Patches!Verdict, Patches!UnitSettles
<1>2. TakenOn' /\ Patches!LeftAlone' /\ Patches!HoldsAreApplied' /\ LogFollows' /\ Patches!NoRestartUnasked'
  BY <1>1 DEF TakenOn, Patches!LeftAlone, Patches!HoldsAreApplied, LogFollows, Patches!Running, Patches!NoRestartUnasked
<1>3. CASE Patches!Verdict
  <2>1. /\ UNCHANGED units /\ health' = [ok |-> Patches!NotActive = {}, failures |-> Patches!NotActive] /\ health'.failures = Patches!NotActive
        /\ Patches!NotActive = {} \/ Patches!Starting = {}
    BY <1>3 DEF Patches!Verdict, Patches!MayDecide
  <2>2. Patches!NotActive = Patches!Down \cup Patches!Starting
    BY DEF Patches!NotActive, Patches!IsMissing, Patches!Down, Patches!Starting, PatchTypes
  <2>3. Patches!Starting = {} /\ Patches!NotActive = Patches!Down
    BY <2>1, <2>2
  <2>4. Patches!Starting' = Patches!Starting /\ Patches!Down' = Patches!Down
    BY <2>1 DEF Patches!Starting, Patches!Down
  <2>5. VerdictStands' /\ PatchTypes'
    BY <1>1, <2>1, <2>3, <2>4 DEF VerdictStands, PatchTypes
  <2>6. QED BY <1>1, <1>2, <2>5
<1>4. CASE \E u \in Units : Patches!UnitSettles(u)
  <2>1. PICK u \in Units : Patches!UnitSettles(u)
    BY <1>4
  <2>2. Patches!Starting # {} /\ UNCHANGED <<check, health>>
    BY <2>1 DEF Patches!UnitSettles, Patches!Starting
  <2>3. PatchTypes' /\ VerdictStands'
    BY <1>1, <2>1, <2>2 DEF PatchTypes, VerdictStands, Patches!UnitSettles
  <2>4. QED BY <1>1, <1>2, <2>3
<1>5. QED BY <1>3, <1>4

\* A machine that restarts by itself has an owner's file that says so.
LEMMA RebootsKeep ==
  ASSUME PatchInv, Patches!HostRestarts \/ Patches!RebootsByItself
  PROVE  PatchInv'
<1> USE DEF PatchInv
<1>1. PICK byItself \in BOOLEAN :
        /\ Patches!Reboots(byItself) /\ (byItself => Patches!AutomaticReboot(apt)) /\ needed # {}
  <2>1. CASE Patches!HostRestarts
    <3>1. Patches!Reboots(FALSE) /\ needed # {}
      BY <2>1 DEF Patches!HostRestarts
    <3>2. QED BY <3>1
  <2>2. CASE Patches!RebootsByItself
    <3>1. Patches!Reboots(TRUE) /\ Patches!AutomaticReboot(apt) /\ needed # {}
      BY <2>2 DEF Patches!RebootsByItself
    <3>2. QED BY <3>1
  <2>3. QED BY <2>1, <2>2
<1>2. /\ units' = Patches!Booted /\ check' = "settling" /\ armed' = FALSE /\ pushed' = 0 /\ UNCHANGED <<apt, record, feed, health>>
      /\ log' = IF Patches!Running THEN Patches!Logged(log, Patches!Line("start", {})) ELSE log
  BY <1>1 DEF Patches!Reboots
<1>3. /\ DOMAIN ghost' = DOMAIN ghost /\ ghost'.edited = ghost.edited /\ ghost'.ever = ghost.ever /\ ghost'.handed = ghost.handed
      /\ ghost'.installed = ghost.installed /\ ghost'.own = (ghost.own \/ byItself)
  BY <1>1 DEF Patches!Reboots, PatchTypes
<1>4. ghost'.own => apt.other # "none" \/ apt.distro = "edited" \/ ghost.edited
  BY <1>1, <1>3 DEF Patches!NoRestartUnasked, Patches!AutomaticReboot
<1>5. PatchTypes' /\ TakenOn' /\ Patches!LeftAlone'
  BY <1>2, <1>3 DEF PatchTypes, TakenOn, Patches!LeftAlone, Patches!Booted
<1>6. Patches!HoldsAreApplied' /\ VerdictStands' /\ Patches!NoRestartUnasked'
  BY <1>2, <1>3, <1>4 DEF Patches!HoldsAreApplied, PatchTypes, VerdictStands, Patches!NoRestartUnasked
<1>7. LogFollows'
  BY <1>2, <1>3 DEF LogFollows, Patches!Logged, Patches!ReadLine, Patches!Line, Patches!Running
<1>8. QED BY <1>2, <1>5, <1>6, <1>7

LEMMA PatchesKeep ==
  ASSUME PatchInv, Patches!Next
  PROVE  PatchInv'
<1>1. CASE \E kind \in {"update", "backup"} : Patches!JobStarts(kind)
  BY <1>1, AsideKeeps
<1>2. CASE Patches!JobEnds \/ Patches!ListsRefresh \/ Patches!RestartHost \/ Patches!LoadStatus
  BY <1>2, AsideKeeps
<1>3. CASE Patches!ApplyHostPatching
  BY <1>3, ApplyKeeps
<1>4. CASE Patches!OwnerEdits
  BY <1>4, OwnerEditsKeeps
<1>5. CASE Patches!FeedMoves \/ Patches!PushHolds \/ Patches!PushFails
  BY <1>5, FeedKeeps
<1>6. CASE Patches!RunStarts \/ Patches!RunEnds
  BY <1>6, RunsKeep
<1>7. CASE Patches!Verdict \/ \E u \in Units : Patches!UnitSettles(u)
  BY <1>7, ChecksKeep
<1>8. CASE Patches!HostRestarts \/ Patches!RebootsByItself
  BY <1>8, RebootsKeep
<1>9. QED BY <1>1, <1>2, <1>3, <1>4, <1>5, <1>6, <1>7, <1>8 DEF Patches!Next

\* A part that does not move leaves the host's own patches alone.
LEMMA PatchesStand ==
  ASSUME PatchInv, UNCHANGED patchVars
  PROVE  PatchInv'
<1>1. UNCHANGED <<apt, record, feed, pushed, log, needed, units, check, health, armed, ghost>>
  BY DEF patchVars
<1>2. PatchTypes' /\ TakenOn' /\ Patches!LeftAlone' /\ Patches!HoldsAreApplied'
  BY <1>1 DEF PatchInv, PatchTypes, TakenOn, Patches!LeftAlone, Patches!HoldsAreApplied
<1>3. VerdictStands' /\ LogFollows' /\ Patches!NoRestartUnasked' /\ (armed' => needed' # {})
  BY <1>1 DEF PatchInv, VerdictStands, Patches!Starting, Patches!Down, LogFollows, Patches!Running,
              Patches!NoRestartUnasked
<1>4. QED BY <1>2, <1>3 DEF PatchInv

------------------------------------------------------------------------------
(* The host: a part that does not move leaves the variables of the others. *)

LEMMA HostRunsTheParts ==
  Spec => RestoreSpec /\ VaultSpec /\ BucketSpec /\ DriveSpec
<1>1. Init => RestoreInit /\ VaultInit /\ BucketInit /\ DriveInit
  BY DEF Init
<1>2. [Next]_vars => /\ [RestoreNext]_rvars /\ [VaultNext]_vaultVars
                     /\ [BucketNext]_bucketVars /\ [DriveNext]_driveVars
  <2> DEFINE still == <<rvars, vaultVars, bucketVars, driveVars>>
  <2>1. UNCHANGED vars => UNCHANGED still BY DEF vars
  <2>2. RecoveryMoves => RestoreNext /\ UNCHANGED <<vaultVars, bucketVars, driveVars>>
    BY DEF RecoveryMoves
  <2>3. HandoverMoves => VaultNext /\ UNCHANGED <<rvars, bucketVars, driveVars>>
    BY DEF HandoverMoves
  <2>4. BucketMoves => BucketNext /\ UNCHANGED <<rvars, vaultVars, driveVars>>
    BY DEF BucketMoves
  <2>5. ArchiveMoves => DriveNext /\ UNCHANGED <<rvars, vaultVars, bucketVars>>
    BY DEF ArchiveMoves
  <2>6. SchedulerMoves \/ SpaceMoves \/ UploadMoves \/ PatchMoves => UNCHANGED still
    BY DEF SchedulerMoves, SpaceMoves, UploadMoves, PatchMoves
  <2> QED BY <2>1, <2>2, <2>3, <2>4, <2>5, <2>6 DEF Next
<1> QED BY <1>1, <1>2, PTL DEF Spec, RestoreSpec, VaultSpec, BucketSpec, DriveSpec

\* What a server needs to be recovered is at hand: the copy that opens its vault until the
\* owner has their own, and a rescue copy of all that a restore removes, with its journal open
\* while the machine is between two states.
THEOREM RecoveryStaysAtHand ==
  ASSUME MaxRestores \in Nat, MaxRotations \in Nat
  PROVE  Spec => []RecoveryIsAtHand
<1>1. /\ NothingLostBeforeItIsRescued /\ JournalTellsTheTruth
      /\ (mishaps.rotations = 0 => HandoverWindowOpens) /\ UnfinishedIsNotUnsupported
      => RecoveryIsAtHand
  BY DEF RecoveryIsAtHand
<1> QED
  BY <1>1, HostRunsTheParts, RescuedBeforeRemoved, InterruptedIsOnRecord, CopyOpensUntilConfirmed,
     CutLayoutIsNotUnsupported, PTL

\* A bucket and a drive hold one archive of this server each (a bucket, unless a job chose from
\* outgrown lists), every repository in the bucket is named and every restore point on the
\* drive has its manifest, its digest and its data, for any number of backups, failed
\* requests, deaths and pulled drives (destinations.cjs).
THEOREM ArchivesStayOurs ==
  ASSUME MaxDriveBackups \in Nat
  PROVE  Spec => []ArchivesAreOurs
<1>1. /\ OneArchiveOfThisServer /\ RepositoriesAreNamed
      /\ OneRepositoryOfOurs /\ ListedPointsVerify
      => ArchivesAreOurs
  BY DEF ArchivesAreOurs
<1> QED
  BY <1>1, HostRunsTheParts, BegunIsFinished, NoRepositoryUnnamed, NoSecondRepository,
     WhatIsListedVerifies, PTL

\* A restore point goes only with the job that wrote it, as long as no rename of the move has
\* failed, and a restore that reports success leaves the apps and data of the backup.
THEOREM PointsStayTrueHere ==
  ASSUME MaxRestores \in Nat, MaxDriveBackups \in Nat
  PROVE  Spec => PointsStayTrue
<1> QED BY HostRunsTheParts, OnlyOnesOwnIsDiscarded, SuccessPutsBack, PTL DEF PointsStayTrue

LEMMA HostRunsTheServices ==
  Spec => DrivesSpec /\ UploadSpec
<1>1. Init => DrivesInit /\ UploadInit BY DEF Init
<1>2. [Next]_vars => [DrivesNext]_driveSpaceVars /\ [UploadNext]_uploadVars
  <2> DEFINE still == <<driveSpaceVars, uploadVars>>
  <2>1. UNCHANGED vars => UNCHANGED still BY DEF vars
  <2>2. SpaceMoves => DrivesNext /\ UNCHANGED uploadVars
    BY DEF SpaceMoves
  <2>3. UploadMoves => UploadNext /\ UNCHANGED driveSpaceVars
    BY DEF UploadMoves
  <2>4. SchedulerMoves \/ BucketMoves \/ ArchiveMoves \/ HandoverMoves \/ RecoveryMoves \/ PatchMoves
        => UNCHANGED still
    BY DEF SchedulerMoves, BucketMoves, ArchiveMoves, HandoverMoves, RecoveryMoves, PatchMoves
  <2> QED BY <2>1, <2>2, <2>3, <2>4 DEF Next
<1> QED BY <1>1, <1>2, PTL DEF Spec, DrivesSpec, UploadSpec

\* The owner's files on the host, for any apps on the drive, any file and any number of cut
\* connections, deaths and pulled cables: an ejected drive is unmounted and read by nobody and
\* an app reads the mount its records name, as long as two handlers have not been in flight
\* together; a finished upload is the file that was sent, as long as none of its requests met
\* another at the drive or went by an older copy of the session; a file shown as added is there.
THEOREM OwnersFilesStaySafe ==
  ASSUME Size \in Nat, ChunkSize \in Nat
  PROVE  Spec => []OwnersFilesAreSafe
<1>1. EjectedIsSafeToPull /\ BoundToTheMount /\ FileIsWhole /\ AddedIsKept => OwnersFilesAreSafe
  BY DEF OwnersFilesAreSafe
<1> QED
  BY <1>1, HostRunsTheServices, EjectedMayBePulled, RunsOnTheMount, ArrivesWhole, AddedIsThere, PTL

\* Ubuntu's patches on the machine: nothing is written where MOS never took the policy on, the
\* hold list in force is the one pushed, the verdict and the last install shown are those of the
\* machine, and it restarts only when asked, whatever the owner edits, whatever files a machine
\* starts with, and for any packages, units, feeds, runs and failed pushes.
THEOREM PatchesStaySound == Spec => []PatchesAreSound
<1>1. Init => PatchInv BY PatchesStart DEF Init
<1>2. PatchInv /\ [Next]_vars => PatchInv'
  <2> SUFFICES ASSUME PatchInv, [Next]_vars
               PROVE  PatchInv'
    OBVIOUS
  <2>1. CASE PatchMoves
    BY <2>1, PatchesKeep DEF PatchMoves
  <2>2. UNCHANGED vars => UNCHANGED patchVars BY DEF vars
  <2>3. SchedulerMoves \/ BucketMoves \/ ArchiveMoves \/ SpaceMoves \/ UploadMoves \/ HandoverMoves
        \/ RecoveryMoves => UNCHANGED patchVars
    BY DEF SchedulerMoves, BucketMoves, ArchiveMoves, SpaceMoves, UploadMoves, HandoverMoves, RecoveryMoves
  <2> QED BY <2>1, <2>2, <2>3, PatchesStand DEF Next
<1>3. PatchInv => PatchesAreSound BY PatchesSound DEF PatchesAreSound
<1> QED BY <1>1, <1>2, <1>3, PTL DEF Spec
=============================================================================
