----------------------------- MODULE SuiteProofs -----------------------------
(****************************************************************************)
(* Theorems about the parts of Suite Manager, each for every value of its    *)
(* constants: the manifests of an app's versions, an external source, the    *)
(* official catalog, installs and uninstalls, a connection between two apps, *)
(* and the suite's address.  A part's invariant is proved of the part; that  *)
(* it holds of all of them side by side is proved next; last comes the       *)
(* database they share, whatever releases of the suite open it.              *)
(****************************************************************************)
EXTENDS MCSuite, Store, TLAPS, SequenceTheorems, FiniteSetTheorems

------------------------------------------------------------------------------
(* The inductive invariant. *)

\* A manifest with a shape for every setup field, whatever else it says.
HasFields(m) == /\ m = [p \in DOMAIN m |-> m[p]] /\ "fields" \in DOMAIN m
                /\ m.fields \in [Fields -> Shapes]

\* Every field of a manifest is held, but for optional ones.
Provided(m, has) == \A f \in Fields : has[f].source # "none" \/ m.fields[f] \in {Absent} \cup MayBeEmpty

ManifestInv ==
  /\ HasFields(offered)
  /\ installed # NoPackage => /\ HasFields(installed) /\ ValidateManifest(installed)
                              /\ Provided(installed, rows)

------------------------------------------------------------------------------
(* Lemmas. *)

\* Whatever a publisher changes, the manifest has its setup fields.
LEMMA EditedHasFields ==
  ASSUME NEW m, HasFields(m), NEW e \in Edited(m)
  PROVE  HasFields([e EXCEPT !.version = @ + 1])
<1>1. HasFields(e)
  <2> DEFINE Left == DOMAIN e = DOMAIN m /\ e = [p \in DOMAIN e |-> e[p]] /\ e.fields = m.fields
             ofFields == {[m EXCEPT !.fields[f] = shape] : f \in Fields, shape \in Shapes}
             ofEnv == {[m EXCEPT !.env["web"][n] = t] : n \in Names,
                  t \in {Unset, Text, <<"config", "name">>, <<"smtp", "host">>, <<"owner", "email">>}}
             ofMentions == {[m EXCEPT !.mention[l] = <<"app", "publicUrl">>] : l \in DOMAIN m.mention}
             ofVolumes == {[m EXCEPT !.volumes["web"] = vs] : vs \in {{}, {"v1", "v2"}}}
             ofFolders == {WithFolder(m, f, needs) :
                  f \in {Folder("pics", "web", "/p"), Folder("docs", "db", "/p"), Folder("pics", "db", "/q")},
                  needs \in BOOLEAN}
             ofRoutes == {[m EXCEPT !.routes = @ \o << Web("api", "db", TRUE) >>],
                  [m EXCEPT !.routes = @ \o << Web("app", "db", TRUE) >>],
                  [m EXCEPT !.routes = << Web("app", "web", TRUE) >>, !.tile = FALSE],
                  [m EXCEPT !.routes = << Web("app", "web", TRUE) >>], WithoutDb(m)}
             ofHealth == {[m EXCEPT !.health = s] : s \in {"db", "outside"}}
             ofFiles == {[m EXCEPT !.files = @ \ {"shot"}], [m EXCEPT !.listed = {}, !.shots = {}],
                  [m EXCEPT !.listed = {}], [m EXCEPT !.listed = {"e2e"}], [m EXCEPT !.files = @ \ {"icon"}]}
             ofSlot == {[m EXCEPT !.slot.target = "db"], [m EXCEPT !.slot.accepts = {}],
                  [m EXCEPT !.slot.sets = {"A"}], [m EXCEPT !.slot.sets = {"A"}, !.slot.allowed = {"A", "B"}]}
             ofTheRest == {[m EXCEPT !.breaking = {"setup", "volumes"}], [m EXCEPT !.platform = FALSE],
                  [m EXCEPT !.agent = 2], [m EXCEPT !.hosts = {"h"}], [m EXCEPT !.requires = {"calendar"}]}
  <2>1. Left => HasFields(e) BY DEF HasFields
  <2>2. CASE e \in ofFields
    BY <2>2 DEF HasFields
  <2>3. CASE e \in ofEnv
    <3>1. PICK n, t : e = [m EXCEPT !.env["web"][n] = t]
      BY <2>3
    <3>2. Left BY <3>1 DEF HasFields
    <3> QED BY <2>1, <3>2
  <2>4. CASE e \in ofMentions
    <3>1. Left BY <2>4 DEF HasFields
    <3> QED BY <2>1, <3>1
  <2>5. CASE e \in ofVolumes
    <3>1. Left BY <2>5 DEF HasFields
    <3> QED BY <2>1, <3>1
  <2>6. CASE e \in ofFolders
    <3>1. PICK f, needs : e = WithFolder(m, f, needs)
      BY <2>6
    <3>2. Left BY <3>1 DEF HasFields, WithFolder
    <3> QED BY <2>1, <3>2
  <2>7. CASE e \in ofRoutes
    <3>1. CASE \E r : e = [m EXCEPT !.routes = r] \/ e = [m EXCEPT !.routes = r, !.tile = FALSE]
      BY <2>1, <3>1 DEF HasFields
    <3>2. CASE e = WithoutDb(m)
      BY <2>1, <3>2 DEF HasFields, WithoutDb
    <3> HIDE DEF Left
    <3> QED BY <2>7, <3>1, <3>2, Zenon
  <2>8. CASE e \in ofHealth
    BY <2>1, <2>8 DEF HasFields
  <2>9. CASE e \in ofFiles
    BY <2>1, <2>9 DEF HasFields
  <2>10. CASE e \in ofSlot
    BY <2>1, <2>10 DEF HasFields
  <2>11. CASE e \in ofTheRest
    BY <2>1, <2>11 DEF HasFields
  <2>12. Edited(m) = ofFields \cup ofEnv \cup ofMentions \cup ofVolumes
                \cup ofFolders \cup ofRoutes \cup ofHealth \cup ofFiles \cup ofSlot \cup ofTheRest
    BY DEF Edited
  <2> HIDE DEF Left, ofFields, ofEnv, ofMentions, ofVolumes, ofFolders, ofRoutes, ofHealth, ofFiles, ofSlot, ofTheRest
  <2> QED BY <2>12, <2>2, <2>3, <2>4, <2>5, <2>6, <2>7, <2>8, <2>9, <2>10, <2>11
<1> QED BY <1>1 DEF HasFields

\* A validated manifest that is provided with its fields leaves no reference unresolved but to an
\* optional field.
LEMMA RenderedResolves ==
  ASSUME NEW m, HasFields(m), Templates(m), NEW has, Provided(m, has), NEW configured,
         NEW s \in m.services, NEW n \in Names
  PROVE  LET value == RenderEnvironment(m, has, configured, s, n)
         IN value[1] \in {"config", "secret"} => m.fields[value[2]] \in MayBeEmpty
<1> DEFINE t == m.env[s][n]
<1>1. CheckTemplate(m, "env", t) BY DEF Templates
<1>2. CASE t \in {Unset, Text}
  <2>1. t[1] \in {"unset", "text"}
    <3>1. Unset[1] = "unset" /\ Text[1] = "text" BY DEF Unset, Text
    <3> HIDE DEF t
    <3> QED BY <1>2, <3>1
  <2> HIDE DEF t
  <2>2. RenderEnvironment(m, has, configured, s, n) \in {Unset, Text, t}
    BY <2>1 DEF RenderEnvironment, ResolveTemplate, t
  <2>3. RenderEnvironment(m, has, configured, s, n)[1] \in {"unset", "text"}
    <3>1. Unset[1] = "unset" /\ Text[1] = "text" BY DEF Unset, Text
    <3> QED BY <2>1, <2>2, <3>1
  <2> QED BY <2>3
<1>3. CASE t \notin {Unset, Text}
  <2>1. /\ t[1] \in {"app", "config", "secret", "smtp"}
        /\ t[2] \in TemplateKeys(m, t[1])
    BY <1>1, <1>3 DEF CheckTemplate, AllowedNamespaces, Runtime
  <2>2. CASE t[1] \in {"config", "secret"}
    <3>1. t[2] \in Fields /\ m.fields[t[2]] # Absent
      BY <2>1, <2>2 DEF TemplateKeys, Declared
    <3>2. has[t[2]].source # "none" \/ m.fields[t[2]] \in MayBeEmpty
      BY <3>1 DEF Provided
    <3> QED BY <2>2, <3>2 DEF RenderEnvironment, ResolveTemplate
  <2>3. CASE t[1] \in {"app", "smtp"}
    BY <2>3 DEF RenderEnvironment, ResolveTemplate, Unset, Text
  <2> QED BY <2>1, <2>2, <2>3
<1> QED BY <1>2, <1>3

\* The rows made for a validated manifest miss no field that was asked for, but optional ones.
LEMMA RowsProvide ==
  ASSUME NEW m, HasFields(m), SetupSemantics(m), NEW asked, NEW supplied,
         asked \subseteq Declared(m), SetupMissing(m, asked, supplied) = {}
  PROVE  /\ CreateConfigRows(m, asked, supplied) = [f \in Fields |-> CreateConfigRows(m, asked, supplied)[f]]
         /\ \A f \in asked : \/ CreateConfigRows(m, asked, supplied)[f].source # "none"
                             \/ m.fields[f] \in MayBeEmpty
         /\ \A f \in Fields \ asked : CreateConfigRows(m, asked, supplied)[f].source = "none"
<1>1. ASSUME NEW f \in asked, m.fields[f] \notin MayBeEmpty PROVE HasValue(m, f, supplied)
  <2>1. m.fields[f] \in Shapes \ ({Absent, "secretDefault"} \cup MayBeEmpty) /\ f \in Fields
    BY <1>1 DEF HasFields, SetupSemantics, Declared
  <2> QED BY <2>1 DEF Shapes, MayBeEmpty, SetupMissing, IsRequired, HasValue
<1>2. ASSUME NEW f \in asked, HasValue(m, f, supplied)
      PROVE  CreateConfigRows(m, asked, supplied)[f].source # "none"
  <2>1. f \in Fields /\ m.fields[f] # "none"
    BY DEF Declared, HasFields, Shapes, Absent
  <2> QED BY <1>2, <2>1 DEF CreateConfigRows
<1>3. ASSUME NEW f \in Fields \ asked PROVE CreateConfigRows(m, asked, supplied)[f].source = "none"
  BY DEF CreateConfigRows, NoRow
<1>4. CreateConfigRows(m, asked, supplied) = [f \in Fields |-> CreateConfigRows(m, asked, supplied)[f]]
  BY DEF CreateConfigRows
<1> QED BY <1>1, <1>2, <1>3, <1>4

------------------------------------------------------------------------------
(* Every step keeps the invariant. *)

\* A refusal, a save, a link and the relay change none of what the invariant is about.
LEMMA ManifestAside ==
  ASSUME ManifestInv, UNCHANGED <<offered, installed, rows, placed>>
  PROVE  ManifestInv' /\ KeepsValues
PROOF
BY DEF ManifestInv, KeepsValues

LEMMA ManifestKept ==
  ASSUME ManifestInv, [ManifestNext]_manifestVars
  PROVE  ManifestInv' /\ KeepsValues
<1>1. ASSUME \/ UNCHANGED manifestVars \/ SavePackageEnvironment \/ ConnectPackages \/ SaveRelay
             \/ \E code : Refuse(code)
      PROVE  ManifestInv' /\ KeepsValues
  BY <1>1, ManifestAside
     DEF manifestVars, SavePackageEnvironment, ConnectPackages, SaveRelay, Refuse
<1>2. CASE PublishManifest
  <2>1. HasFields(offered')
    BY <1>2, EditedHasFields DEF PublishManifest, ManifestInv
  <2> QED BY <1>2, <2>1 DEF PublishManifest, ManifestInv, KeepsValues
<1>3. CASE InstallPackage
  <2>1. ValidateManifest(offered) /\ installed = NoPackage
    BY <1>3 DEF InstallPackage
  <2>2. CASE \E code : Refuse(code)
    BY <1>1, <2>2
  <2>3. ASSUME NEW supplied,
               SetupMissing(offered, Declared(offered), supplied) = {},
               rows' = CreateConfigRows(offered, Declared(offered), supplied),
               installed' = offered, offered' = offered
        PROVE  ManifestInv' /\ KeepsValues
    <3>1. HasFields(offered) /\ SetupSemantics(offered)
      BY <2>1 DEF ManifestInv, ValidateManifest
    <3>2. \A f \in Declared(offered) : rows'[f].source # "none" \/ offered.fields[f] \in MayBeEmpty
      BY <2>3, <3>1, RowsProvide
    <3>3. Provided(offered, rows') BY <3>2 DEF Provided, Declared
    <3> QED BY <2>1, <2>3, <3>1, <3>3 DEF ManifestInv, KeepsValues
  <2> QED BY <1>3, <2>2, <2>3 DEF InstallPackage
<1>4. CASE ApplyAppUpdate
  <2> DEFINE asked == AskedByUpdate(offered, rows)
             supplied == RequiredInput(installed, offered)
             added == CreateConfigRows(offered, asked, supplied)
  <2>1. ValidateManifest(offered) /\ installed # NoPackage
    BY <1>4 DEF ApplyAppUpdate
  <2>2. CASE \E code : Refuse(code)
    BY <1>1, <2>2
  <2>3. CASE /\ SetupMissing(offered, asked, supplied) = {}
             /\ rows' = [f \in Fields |-> IF f \in HeldRows(added) THEN added[f] ELSE rows[f]]
             /\ placed \subseteq placed'
             /\ installed' = offered /\ offered' = offered
    <3>1. HasFields(offered) /\ SetupSemantics(offered) /\ asked = Declared(offered) \ HeldRows(rows)
      BY <2>1 DEF ManifestInv, ValidateManifest, AskedByUpdate
    <3>2. /\ \A f \in asked : added[f].source # "none" \/ offered.fields[f] \in MayBeEmpty
          /\ \A f \in Fields \ asked : added[f].source = "none"
      <4>1. asked \subseteq Declared(offered) BY <3>1
      <4>2. SetupMissing(offered, asked, supplied) = {} BY <2>3
      <4>3. HasFields(offered) /\ SetupSemantics(offered) BY <3>1
      <4> HIDE DEF asked, supplied
      <4> QED BY <4>1, <4>2, <4>3, RowsProvide
    <3>3. \A f \in HeldRows(rows) : rows'[f] = rows[f] /\ f \in Fields
      BY <2>3, <3>1, <3>2 DEF HeldRows
    <3>4. \A f \in Declared(offered) : rows'[f].source # "none" \/ offered.fields[f] \in MayBeEmpty
      BY <2>3, <3>1, <3>2, <3>3 DEF HeldRows, Declared
    <3>5. Provided(offered, rows') BY <3>4 DEF Provided, Declared
    <3> QED BY <2>1, <2>3, <3>1, <3>3, <3>5 DEF ManifestInv, KeepsValues
  <2> HIDE DEF asked, supplied, added
  <2> QED BY <1>4, <2>2, <2>3 DEF ApplyAppUpdate, asked, supplied, added
<1> QED BY <1>1, <1>2, <1>3, <1>4 DEF ManifestNext

LEMMA ManifestInitially == ManifestInit => ManifestInv
<1>1. HasFields(Base)
  <2>1. "fields" \in DOMAIN Base /\ Base = [p \in DOMAIN Base |-> Base[p]]
    BY DEF Base
  <2>2. Base.fields = [name |-> "optional", token |-> "generated"]
    BY DEF Base
  <2>3. Base.fields \in [Fields -> Shapes] BY <2>2 DEF Fields, Shapes
  <2> QED BY <2>1, <2>3 DEF HasFields
<1> QED BY <1>1 DEF ManifestInit, ManifestInv

LEMMA ManifestInvHolds == ManifestSpec => []ManifestInv
PROOF
BY ManifestInitially, ManifestKept, PTL DEF ManifestSpec

------------------------------------------------------------------------------
(* What the app is started with. *)

\* Of any number of edits, saves and updates: a container is started with a reference in place
\* of a value only where the field is optional and without a default of the package's own
\* (createConfigRows, app-update-service.cjs).
THEOREM NoReferenceIsLeft == ManifestSpec => []ReferencesResolve
<1>1. ManifestInv => ReferencesResolve
  <2>1. SUFFICES ASSUME ManifestInv, installed # NoPackage,
                        NEW s \in installed.services, NEW n \in Names,
                        Materialized(s, n)[1] \in {"config", "secret"}
                 PROVE  installed.fields[Materialized(s, n)[2]] \in MayBeEmpty
    BY DEF ReferencesResolve, Started
  <2>2. Materialized(s, n) = RenderEnvironment(installed, rows, relay, s, n)
    BY <2>1 DEF Materialized
  <2>3. HasFields(installed) /\ Templates(installed) /\ Provided(installed, rows)
    BY <2>1 DEF ManifestInv, ValidateManifest
  <2> QED BY <2>1, <2>2, <2>3, RenderedResolves
<1> QED BY <1>1, ManifestInvHolds, PTL

\* However the fields of the packages differ, an update writes over no value the app holds and
\* moves no folder (heldKeys and foldersAddedBy in app-update-service.cjs).
THEOREM UpdatesKeep == ManifestSpec => UpdatesKeepValues
<1>1. ManifestInv /\ [ManifestNext]_manifestVars => [KeepsValues]_manifestVars
  BY ManifestKept
<1> QED BY <1>1, ManifestInvHolds, PTL DEF ManifestSpec, UpdatesKeepValues

------------------------------------------------------------------------------
(* An external source: what a check found is what is listed. *)

SourceRows  == [status : Source!Statuses \cup {"none"}, revision : Nat]
IsList(l)   == DOMAIN l = {"revision", "failures", "due", "known"} /\ l.failures \in Nat
SourceKinds == {"none", "add", "install", "refresh"}
SourcePcs   == {"done", "resolve", "insert", "download", "register", "install", "note", "list"}
SourceReqs == [kind : SourceKinds, pc : SourcePcs, seen : SourceRows, commit : Nat]

SourceTypes ==
  /\ head \in Nat /\ row \in SourceRows
  /\ IsList(listed)
  /\ req \in [SourceRequests -> SourceReqs]

\* What a check that ends well has listed.
ChecksEndListed ==
  \A r \in SourceRequests :
    req[r].pc \in {"note", "list"} /\ ~Source!Busy(r)' /\ listed'.failures = 0
      => listed'.revision = req[r].commit

LEMMA SourceTypesKept ==
  ASSUME SourceTypes, Source!SourcesNext
  PROVE  SourceTypes'
<1> USE DEF SourceTypes, SourceRows, IsList, SourceReqs, SourceKinds, SourcePcs, Source!Statuses
<1>1. CASE Source!Commit
  BY <1>1 DEF Source!Commit
<1>2. CASE Source!TimePasses
  BY <1>2 DEF Source!TimePasses
<1>3. CASE Source!RemoveSource
  BY <1>3 DEF Source!RemoveSource, Source!NoList, Source!None
<1>4. ASSUME NEW s \in Source!Statuses, Source!SetStatus(s) PROVE SourceTypes'
  BY <1>4 DEF Source!SetStatus
<1>5. ASSUME NEW r \in SourceRequests, NEW kind \in SourceKinds, NEW pc \in SourcePcs, Source!Begins(r, kind, pc)
      PROVE  head' \in Nat /\ req' \in [SourceRequests -> SourceReqs]
  BY <1>5 DEF Source!Begins, Source!None
<1>6. ASSUME Source!Released PROVE row' \in SourceRows /\ IsList(listed)'
  BY <1>6 DEF Source!Released, Source!NoRow, Source!NoList, Source!None
<1> HIDE DEF SourceTypes, SourceRows, IsList, SourceReqs, SourceKinds, SourcePcs, Source!Statuses
<1>7. ASSUME NEW r \in SourceRequests, Source!AddSource(r) PROVE SourceTypes'
  BY <1>5, <1>6, <1>7 DEF Source!AddSource, SourceTypes, SourceKinds, SourcePcs
<1>8. ASSUME NEW r \in SourceRequests, Source!InstallUrl(r) PROVE SourceTypes'
  BY <1>5, <1>6, <1>8 DEF Source!InstallUrl, SourceTypes, SourceKinds, SourcePcs
<1>9. ASSUME NEW r \in SourceRequests, Source!RefreshSource(r) PROVE SourceTypes'
  BY <1>5, <1>9 DEF Source!RefreshSource, SourceTypes, SourceKinds, SourcePcs
<1>10. ASSUME NEW r \in SourceRequests, Source!Sweep(r) PROVE SourceTypes'
  BY <1>5, <1>10 DEF Source!Sweep, SourceTypes, SourceKinds, SourcePcs
<1> USE DEF SourceTypes, SourceRows, IsList, SourceReqs, SourceKinds, SourcePcs, Source!Statuses
<1>11. Source!Resting \in SourceReqs
  BY DEF Source!Resting, Source!NoRow, Source!None
<1>12. IsList(Source!MarkedFailed) BY DEF Source!MarkedFailed
<1>13. ASSUME NEW r \in SourceRequests, Source!Resolves(r) PROVE SourceTypes'
  BY <1>11, <1>12, <1>13 DEF Source!Resolves, Source!Ends
<1>14. ASSUME NEW r \in SourceRequests, Source!Inserts(r) PROVE SourceTypes'
  BY <1>11, <1>14 DEF Source!Inserts, Source!Ends
<1>15. ASSUME NEW r \in SourceRequests, Source!Registers(r) PROVE SourceTypes'
  BY <1>11, <1>15 DEF Source!Registers, Source!Ends, Source!Goes
<1>16. ASSUME NEW r \in SourceRequests, Source!Notes(r) PROVE SourceTypes'
  <2>1. row' \in SourceRows BY <1>16 DEF Source!Notes, Source!Noted
  <2>2. IsList(listed)'
    <3>1. listed' = listed \/ listed' = [listed EXCEPT !.failures = 0, !.due = FALSE]
      BY <1>16 DEF Source!Notes
    <3>2. IsList([listed EXCEPT !.failures = 0, !.due = FALSE])
      BY DEF IsList
    <3> QED BY <3>1, <3>2
  <2>3. req' \in [SourceRequests -> SourceReqs] /\ head' = head
    <3>1. head' = head BY <1>16 DEF Source!Notes
    <3>2. CASE Source!Ends(r)
      BY <1>11, <1>16, <3>1, <3>2 DEF Source!Ends
    <3>3. CASE Source!Goes(r, "list")
      BY <1>11, <1>16, <3>1, <3>3 DEF Source!Goes
    <3> QED BY <1>16, <3>2, <3>3 DEF Source!Notes
  <2> QED BY <2>1, <2>2, <2>3
<1>17. ASSUME NEW r \in SourceRequests, Source!Lists(r) PROVE SourceTypes'
  BY <1>11, <1>12, <1>17 DEF Source!Lists, Source!Ends
<1>18. ASSUME NEW r \in SourceRequests, Source!Downloads(r) PROVE SourceTypes'
  BY <1>11, <1>18 DEF Source!Downloads, Source!Ends, Source!Goes
<1>19. ASSUME NEW r \in SourceRequests, Source!Installs(r) PROVE SourceTypes'
  BY <1>11, <1>19 DEF Source!Installs, Source!Ends
<1> HIDE DEF SourceTypes, SourceRows, IsList, SourceReqs, SourceKinds, SourcePcs, Source!Statuses
<1> QED BY <1>1, <1>2, <1>3, <1>4, <1>7, <1>8, <1>9, <1>10, <1>13, <1>14, <1>15, <1>16, <1>17, <1>18, <1>19
        DEF Source!SourcesNext

LEMMA SourceChecksList ==
  ASSUME SourceTypes, Source!SourcesNext
  PROVE  ChecksEndListed
<1> SUFFICES ASSUME NEW r \in SourceRequests, req[r].pc \in {"note", "list"},
                    ~Source!Busy(r)', listed'.failures = 0
             PROVE  listed'.revision = req[r].commit
  BY DEF ChecksEndListed
<1> USE DEF SourceTypes, IsList, Source!Busy
<1>1. CASE Source!Commit \/ Source!TimePasses
  BY <1>1 DEF Source!Commit, Source!TimePasses
<1>2. CASE Source!RemoveSource \/ \E s \in Source!Statuses : Source!SetStatus(s)
  BY <1>2 DEF Source!RemoveSource, Source!SetStatus
<1>3. ASSUME NEW q \in SourceRequests,
             \/ Source!AddSource(q) \/ Source!InstallUrl(q) \/ Source!RefreshSource(q) \/ Source!Sweep(q)
             \/ Source!Resolves(q) \/ Source!Inserts(q) \/ Source!Downloads(q) \/ Source!Registers(q)
             \/ Source!Installs(q)
      PROVE  q # r /\ req'[r] = req[r]
  <2>1. CASE Source!AddSource(q) \/ Source!InstallUrl(q) \/ Source!RefreshSource(q) \/ Source!Sweep(q)
    BY <2>1 DEF Source!AddSource, Source!InstallUrl, Source!RefreshSource, Source!Sweep, Source!Begins
  <2>2. CASE Source!Resolves(q) \/ Source!Inserts(q) \/ Source!Downloads(q) \/ Source!Registers(q) \/ Source!Installs(q)
    BY <2>2 DEF Source!Resolves, Source!Inserts, Source!Downloads, Source!Registers, Source!Installs,
         Source!At, Source!Ends, Source!Goes
  <2> QED BY <1>3, <2>1, <2>2
<1>4. ASSUME NEW q \in SourceRequests, Source!Notes(q) \/ Source!Lists(q)
      PROVE  listed'.revision = req[r].commit
  <2>1. CASE q # r
    BY <1>4, <2>1 DEF Source!Notes, Source!Lists, Source!Ends, Source!Goes
  <2>2. CASE Source!Notes(r)
    <3>1. ~ Source!Goes(r, "list") BY DEF Source!Goes, SourceReqs
    <3>2. /\ req[r].commit = listed.revision
          /\ listed' = [listed EXCEPT !.failures = 0, !.due = FALSE]
      BY <2>2, <3>1 DEF Source!Notes
    <3> QED BY <3>2
  <2>3. CASE Source!Lists(r)
    <3>1. Source!MarkedFailed.failures = listed.failures + 1
      BY DEF Source!MarkedFailed
    <3>2. listed' # Source!MarkedFailed BY <3>1
    <3>3. listed' = [revision |-> req[r].commit, failures |-> 0, due |-> FALSE, known |-> TRUE]
      BY <2>3, <3>2 DEF Source!Lists
    <3> QED BY <3>3
  <2> QED BY <1>4, <2>1, <2>2, <2>3
<1> QED BY <1>1, <1>2, <1>3, <1>4 DEF Source!SourcesNext

LEMMA SourceStep ==
  ASSUME SourceTypes, [Next]_vars
  PROVE  SourceTypes' /\ (ChecksEndListed \/ UNCHANGED sourceVars)
<1>1. CASE SourceMoves
  BY <1>1, SourceTypesKept, SourceChecksList DEF SourceMoves
<1>2. CASE UNCHANGED sourceVars
  BY <1>2 DEF sourceVars, SourceTypes
<1> QED BY <1>1, <1>2 DEF Next, vars, ManifestMoves, ConnectionMoves, InstallMoves, MoveMoves,
                          OfficialMoves

\* However downloads fail and whichever checks, additions, removals and installs overlap, a check
\* that ends well leaves the list of the commit it resolved (external-source-service.cjs
\* refreshSource).
THEOREM CheckedSourcesAreListed == Spec => CheckedIsListed
<1>1. Init => SourceTypes
  BY DEF Init, Source!SourcesInit, SourceTypes, SourceRows, IsList, SourceReqs, SourceKinds, SourcePcs, Source!Statuses, Source!NoRow, Source!NoList, Source!Resting, Source!None
<1>2. SourceTypes /\ [Next]_vars => SourceTypes' /\ [ChecksEndListed]_sourceVars
  BY SourceStep
<1>3. [][ChecksEndListed]_sourceVars => CheckedIsListed
  <2>1. [ChecksEndListed]_sourceVars
         => [\A r \in SourceRequests :
               req[r].pc \in {"note", "list"} /\ ~Source!Busy(r)' /\ listed'.failures = 0
                 => listed'.revision = req[r].commit]_(Source!sourceVars)
    BY DEF ChecksEndListed, sourceVars, Source!sourceVars
  <2> QED BY <2>1, PTL DEF CheckedIsListed, Source!CheckedIsListed
<1> QED BY <1>1, <1>2, <1>3, PTL DEF Spec

------------------------------------------------------------------------------
(* The official catalog: the host's holds are of the feed counted as pushed. *)

CacheRefs == Refs \cup {"none"}
IsCache(c) ==
  /\ c \in [ref : CacheRefs, revision : Nat, feed : Nat, feedRevision : Nat, feedError : BOOLEAN]
  /\ c.feed \in {Official!None, c.feedRevision} /\ c.feedRevision \in {Official!None, c.revision}

PushRequests == [feed : Nat, revision : Nat, nth : Nat, at : {"sent", "written"}]

CatalogTypes ==
  /\ IsCache(cache) /\ IsCache(disk) /\ followed \in Refs /\ pushed \in Nat /\ holds \in Nat
  /\ tip \in [Refs -> Nat] /\ catalogSpent \in [{"refresh", "fail", "restart", "switch"} -> Nat]
  /\ \E k \in Nat : DOMAIN commits = 1..k /\ \A r \in Refs : tip[r] <= k
  /\ refresh \in [pc : {"idle", "ref", "commit", "catalog", "feed", "write"}, ref : CacheRefs, revision : Nat]
  /\ refresh.pc \in {"commit", "catalog", "feed", "write"} => refresh.ref \in Refs
  /\ refresh.pc \in {"feed", "write"} => cache.revision = refresh.revision

\* The requests are told apart by the refresh they follow, and the agent writes them in that order.
InOrder ==
  /\ push \subseteq PushRequests
  /\ \A p \in push : /\ p.feed = p.revision /\ p.nth <= catalogSpent.refresh
                     /\ refresh.pc # "idle" => p.nth < catalogSpent.refresh
  /\ \A p, q \in push : p.nth = q.nth => p = q
  /\ \A p, q \in push : p.at = "written" /\ q.at = "sent" => p.nth < q.nth

\* While no answer is lost, the holds are of the last request written, or else of the last answered.
LatestHeld ==
  ~lost => /\ \A p \in push : p.at = "written" /\ (\A q \in push : q.at = "written" => q.nth <= p.nth)
                                => holds = p.revision
           /\ pushed # Official!None /\ (\A p \in push : p.at = "sent") => holds = pushed

\* On one track nothing that is counted, held, asked for, saved or served goes back.
Forward ==
  catalogSpent.switch = 0 =>
    /\ cache.ref \in {"none", followed} /\ cache.revision <= tip[followed]
    /\ refresh.pc \in {"commit", "catalog", "feed", "write"} => refresh.ref = followed
    /\ refresh.pc \in {"catalog", "feed", "write"} =>
         cache.revision <= refresh.revision /\ refresh.revision <= tip[followed]
    /\ disk.ref \in {"none", followed} /\ pushed <= holds /\ holds <= disk.revision
    /\ disk.revision <= cache.revision

AskedForward ==
  catalogSpent.switch = 0 =>
    /\ \A p \in push : /\ p.revision <= disk.revision
                       /\ IF p.at = "sent" THEN holds <= p.revision ELSE p.revision <= holds
    /\ \A p, q \in push : p.nth < q.nth => p.revision <= q.revision

CatalogInv == CatalogTypes /\ InOrder /\ LatestHeld /\ Forward /\ AskedForward

\* What a step that leaves the requests alone has still to show.
Asked == <<push, pushed, holds, lost>>
LEMMA AskingUntouched ==
  ASSUME CatalogInv, UNCHANGED Asked, CatalogTypes', Forward',
         \/ catalogSpent'.refresh = catalogSpent.refresh /\ (refresh'.pc # "idle" => refresh.pc # "idle")
         \/ catalogSpent'.refresh = catalogSpent.refresh + 1,
         catalogSpent'.switch = 0 => catalogSpent.switch = 0,
         catalogSpent'.switch = 0 => disk' = disk \/ disk.revision <= disk'.revision
  PROVE  CatalogInv'
<1>1. InOrder'
  <2>1. push' = push /\ catalogSpent.refresh \in Nat /\ \A p \in push : p.nth \in Nat
    BY DEF CatalogInv, CatalogTypes, InOrder, PushRequests, Asked
  <2>2. \A p \in push : /\ p.nth <= catalogSpent'.refresh
                        /\ refresh'.pc # "idle" => p.nth < catalogSpent'.refresh
    BY <2>1 DEF CatalogInv, InOrder
  <2> QED BY <2>1, <2>2 DEF CatalogInv, InOrder
<1>2. LatestHeld' BY DEF CatalogInv, LatestHeld, Asked
<1>3. AskedForward'
  <2>1. /\ push' = push /\ holds' = holds /\ disk.revision \in Nat /\ disk'.revision \in Nat
        /\ \A p \in push : p.revision \in Nat
    BY DEF CatalogInv, CatalogTypes, InOrder, IsCache, PushRequests, Asked
  <2>2. catalogSpent'.switch = 0 => \A p \in push : p.revision <= disk'.revision
    BY <2>1 DEF CatalogInv, AskedForward
  <2> QED BY <2>1, <2>2 DEF CatalogInv, AskedForward
<1> QED BY <1>1, <1>2, <1>3 DEF CatalogInv

\* A request that fails is counted; nothing else is.
Counted == catalogSpent' = catalogSpent \/ catalogSpent' = [catalogSpent EXCEPT !["fail"] = @ + 1]

LEMMA PublishKeeps ==
  ASSUME CatalogInv, NEW r \in Refs, Official!Publish(r)
  PROVE  CatalogInv'
<1>1. PICK k \in Nat : DOMAIN commits = 1..k /\ \A t \in Refs : tip[t] <= k
  BY DEF CatalogInv, CatalogTypes
<1>2. Cardinality(DOMAIN commits) = k BY <1>1, FS_Interval
<1>3. tip' = [tip EXCEPT ![r] = k + 1] /\ DOMAIN commits' = 1..(k + 1)
  BY <1>2 DEF Official!Publish, Official!Cardinality, Cardinality, Official!IsFiniteSet, IsFiniteSet
<1>4. UNCHANGED <<cache, disk, followed, refresh, catalogSpent, Asked>>
  BY DEF Official!Publish, Asked
<1>5. CatalogTypes'
  BY <1>1, <1>3, <1>4 DEF CatalogInv, CatalogTypes, IsCache, Asked
<1>6. \A t \in Refs : tip[t] <= tip'[t]
  BY <1>1, <1>3 DEF CatalogInv, CatalogTypes
<1>7. Forward'
  BY <1>4, <1>5, <1>6 DEF CatalogInv, CatalogTypes, Forward, IsCache, Asked
<1> QED BY <1>4, <1>5, <1>7, AskingUntouched

LEMMA FailureKeeps ==
  ASSUME CatalogInv, Official!RefreshFails, UNCHANGED cache, Counted
  PROVE  CatalogInv'
<1>1. UNCHANGED <<tip, commits, followed, Asked>> /\ refresh' = Official!Idle
      /\ disk' = IF cache.ref = "none" THEN disk ELSE cache
  BY DEF Official!RefreshFails, Official!hostVars, Asked
<1>2. CatalogTypes' /\ catalogSpent'.switch = catalogSpent.switch /\ catalogSpent'.refresh = catalogSpent.refresh
  BY <1>1 DEF CatalogInv, CatalogTypes, IsCache, Asked, Counted, Official!Idle, Official!None, CacheRefs
<1>3. Forward'
  BY <1>1, <1>2 DEF CatalogInv, CatalogTypes, Forward, IsCache, Asked, Official!Idle
<1>4. catalogSpent.switch = 0 => disk.revision <= disk'.revision
  BY <1>1 DEF CatalogInv, CatalogTypes, Forward, IsCache
<1> QED BY <1>1, <1>2, <1>3, <1>4, AskingUntouched DEF CatalogInv, CatalogTypes, Official!Idle

LEMMA RefreshKeeps ==
  ASSUME CatalogInv,
         \/ Official!RefreshBegins \/ Official!ResolvesRef \/ Official!ResolvesCommit
         \/ Official!FetchesCatalog \/ Official!FetchesFeed
  PROVE  CatalogInv'
<1> USE DEF Official!None, Official!Goes, Official!At, Official!hostVars
<1> SUFFICES ASSUME ~(Official!RefreshFails /\ UNCHANGED cache /\ Counted)
             PROVE  CatalogInv'
  BY FailureKeeps
<1>1. UNCHANGED <<tip, commits, followed, disk, Asked>>
  BY DEF Official!RefreshBegins, Official!ResolvesRef, Official!ResolvesCommit, Official!FetchesCatalog,
         Official!FetchesFeed, Official!Fails, Official!Spend, Counted, Asked
<1>2. CASE Official!RefreshBegins
  <2>1. catalogSpent' = [catalogSpent EXCEPT !["refresh"] = @ + 1] /\ UNCHANGED cache /\ refresh.pc = "idle"
        /\ refresh' = [Official!Idle EXCEPT !.pc = "ref"]
    BY <1>2 DEF Official!RefreshBegins, Official!Spend
  <2>2. CatalogTypes'
    <3>1. catalogSpent' \in [{"refresh", "fail", "restart", "switch"} -> Nat]
      BY <2>1 DEF CatalogInv, CatalogTypes
    <3>2. refresh' = [pc |-> "ref", ref |-> "none", revision |-> 0]
      BY <2>1 DEF Official!Idle
    <3>3. refresh' \in [pc : {"idle", "ref", "commit", "catalog", "feed", "write"}, ref : CacheRefs, revision : Nat]
          /\ refresh'.pc = "ref"
      BY <3>2 DEF CacheRefs
    <3>4. IsCache(cache)' /\ IsCache(disk)'
      BY <1>1, <2>1 DEF CatalogInv, CatalogTypes, IsCache
    <3> QED BY <1>1, <2>1, <3>1, <3>3, <3>4 DEF CatalogInv, CatalogTypes, Asked
  <2>3. Forward'
    BY <1>1, <2>1 DEF CatalogInv, CatalogTypes, Forward, IsCache, Asked, Official!Idle
  <2> QED BY <1>1, <2>1, <2>2, <2>3, AskingUntouched DEF CatalogInv, CatalogTypes
<1>3. CASE Official!ResolvesRef
  <2>1. catalogSpent' = catalogSpent /\ refresh.pc = "ref"
        /\ refresh' = [refresh EXCEPT !.pc = "commit", !.ref = followed]
        /\ cache' = IF cache.ref \notin {"none", followed} THEN Official!NoCache ELSE cache
    BY <1>3 DEF Official!ResolvesRef, Official!Fails, Official!Spend, Counted
  <2>2. CatalogTypes'
    BY <1>1, <2>1 DEF CatalogInv, CatalogTypes, IsCache, Asked, Official!NoCache, CacheRefs
  <2>3. Forward'
    BY <1>1, <2>1 DEF CatalogInv, CatalogTypes, Forward, IsCache, Asked, Official!NoCache
  <2> QED BY <1>1, <2>1, <2>2, <2>3, AskingUntouched DEF CatalogInv, CatalogTypes
<1>4. CASE Official!ResolvesCommit
  <2>1. catalogSpent' = catalogSpent /\ UNCHANGED cache /\ refresh.pc = "commit"
        /\ refresh' = [refresh EXCEPT !.pc = "catalog", !.revision = tip[refresh.ref]]
    BY <1>4 DEF Official!ResolvesCommit, Official!Fails, Official!Spend, Counted
  <2>2. CatalogTypes'
    BY <1>1, <2>1 DEF CatalogInv, CatalogTypes, IsCache, Asked, CacheRefs
  <2>3. Forward'
    BY <1>1, <2>1 DEF CatalogInv, CatalogTypes, Forward, IsCache, Asked
  <2> QED BY <1>1, <2>1, <2>2, <2>3, AskingUntouched DEF CatalogInv, CatalogTypes
<1>5. CASE Official!FetchesCatalog
  <2>1. catalogSpent' = catalogSpent /\ refresh.pc = "catalog" /\ refresh' = [refresh EXCEPT !.pc = "feed"]
        /\ cache' = IF cache.revision = refresh.revision THEN [cache EXCEPT !.ref = refresh.ref]
                    ELSE [Official!NoCache EXCEPT !.ref = refresh.ref, !.revision = refresh.revision]
    BY <1>5 DEF Official!FetchesCatalog, Official!Fails, Official!Spend, Counted
  <2>2. CatalogTypes'
    BY <1>1, <2>1 DEF CatalogInv, CatalogTypes, IsCache, Asked, Official!NoCache, CacheRefs
  <2>3. Forward'
    BY <1>1, <2>1 DEF CatalogInv, CatalogTypes, Forward, IsCache, Asked, Official!NoCache
  <2> QED BY <1>1, <2>1, <2>2, <2>3, AskingUntouched DEF CatalogInv, CatalogTypes
<1>6. CASE Official!FetchesFeed
  <2>1. Counted /\ refresh.pc = "feed" /\ refresh' = [refresh EXCEPT !.pc = "write"]
    BY <1>6 DEF Official!FetchesFeed, Official!Fails, Official!Spend, Counted
  <2>2. \/ cache' = cache \/ cache' = [cache EXCEPT !.feedError = TRUE]
        \/ \E feed \in {refresh.revision, 0} :
             cache' = [cache EXCEPT !.feedRevision = refresh.revision, !.feedError = FALSE, !.feed = feed]
    BY <1>6 DEF Official!FetchesFeed
  <2>3. IsCache(cache') /\ cache'.revision = cache.revision /\ cache'.ref = cache.ref
    <3>1. IsCache(cache) /\ refresh.revision = cache.revision
      BY <2>1 DEF CatalogInv, CatalogTypes
    <3>2. CASE cache' = [cache EXCEPT !.feedError = TRUE]
      BY <3>1, <3>2 DEF IsCache
    <3>3. ASSUME NEW feed \in {refresh.revision, 0},
                 cache' = [cache EXCEPT !.feedRevision = refresh.revision, !.feedError = FALSE, !.feed = feed]
          PROVE  IsCache(cache') /\ cache'.revision = cache.revision /\ cache'.ref = cache.ref
      <4>1. cache \in [ref : CacheRefs, revision : Nat, feed : Nat, feedRevision : Nat, feedError : BOOLEAN]
        BY <3>1 DEF IsCache
      <4>2. cache' = [ref |-> cache.ref, revision |-> cache.revision, feed |-> feed,
                      feedRevision |-> cache.revision, feedError |-> FALSE]
        BY <3>1, <3>3, <4>1
      <4>3. feed \in {0, cache.revision} /\ cache.revision \in Nat /\ cache.ref \in CacheRefs
        BY <3>1, <3>3, <4>1
      <4> HIDE DEF IsCache
      <4>4. IsCache([ref |-> cache.ref, revision |-> cache.revision, feed |-> feed,
                     feedRevision |-> cache.revision, feedError |-> FALSE])
        BY <4>3 DEF IsCache
      <4> QED BY <4>2, <4>4
    <3> QED BY <2>2, <3>1, <3>2, <3>3
  <2>4. /\ catalogSpent' \in [{"refresh", "fail", "restart", "switch"} -> Nat]
        /\ catalogSpent'.switch = catalogSpent.switch /\ catalogSpent'.refresh = catalogSpent.refresh
    BY <2>1 DEF CatalogInv, CatalogTypes, Counted
  <2>5. CatalogTypes' /\ Forward'
    BY <1>1, <2>1, <2>3, <2>4 DEF CatalogInv, CatalogTypes, Forward, IsCache, Asked
  <2> QED BY <1>1, <2>1, <2>4, <2>5, AskingUntouched
<1> QED BY <1>2, <1>3, <1>4, <1>5, <1>6

LEMMA RefreshEndsKeeps ==
  ASSUME CatalogInv, Official!RefreshEnds
  PROVE  CatalogInv'
<1> DEFINE new == [feed |-> cache.feed, revision |-> cache.feedRevision, nth |-> catalogSpent.refresh,
                   at |-> "sent"]
<1>1. /\ UNCHANGED <<tip, commits, followed, cache, pushed, holds, lost, catalogSpent>>
      /\ disk' = cache /\ refresh' = Official!Idle /\ refresh.pc = "write"
      /\ \/ push' = push
         \/ cache.feed # 0 /\ push' = push \cup {new}
  BY DEF Official!RefreshEnds, Official!hostVars, Official!At, Official!Push, Official!None
<1>2. CatalogTypes' /\ Forward'
  BY <1>1 DEF CatalogInv, CatalogTypes, Forward, IsCache, Official!Idle, Official!None, CacheRefs
<1>3. /\ new \in PushRequests /\ \A p \in push : p.nth < new.nth
      /\ cache.feed # 0 => new.feed = new.revision /\ new.revision = cache.revision
  BY <1>1 DEF CatalogInv, CatalogTypes, InOrder, PushRequests, IsCache, Official!None
<1>4. InOrder'
  BY <1>1, <1>3 DEF CatalogInv, CatalogTypes, InOrder, PushRequests, Official!Idle
<1>5. LatestHeld'
  BY <1>1, <1>3 DEF CatalogInv, InOrder, LatestHeld, PushRequests
<1>6. AskedForward'
  BY <1>1, <1>3 DEF CatalogInv, CatalogTypes, InOrder, Forward, AskedForward, PushRequests, IsCache
<1> QED BY <1>2, <1>4, <1>5, <1>6 DEF CatalogInv

LEMMA PushKeeps ==
  ASSUME CatalogInv, NEW p \in push,
         Official!HoldsWritten(p) \/ Official!PushAnswered(p) \/ Official!PushFails(p)
  PROVE  CatalogInv'
<1> USE DEF Official!None
<1>1. UNCHANGED <<tip, commits, followed, cache, disk, refresh>>
  BY DEF Official!HoldsWritten, Official!PushAnswered, Official!PushFails, Official!pushRest
<1>2. p \in PushRequests /\ p.feed = p.revision
  BY DEF CatalogInv, InOrder
<1>3. CASE Official!HoldsWritten(p)
  <2> DEFINE done == [p EXCEPT !.at = "written"]
  <2>1. /\ UNCHANGED <<pushed, lost, catalogSpent>> /\ p.at = "sent" /\ holds' = p.revision
        /\ push' = (push \ {p}) \cup {done} /\ \A q \in push : q.nth < p.nth => q.at = "written"
    BY <1>2, <1>3 DEF Official!HoldsWritten
  <2>2. done \in PushRequests /\ done.feed = p.revision /\ done.revision = p.revision /\ done.nth = p.nth
        /\ done.at = "written"
    BY <1>2 DEF PushRequests
  <2>3. CatalogTypes'
    BY <1>1, <1>2, <2>1 DEF CatalogInv, CatalogTypes, PushRequests, IsCache
  <2>4. \A q \in push : q.at = "written" => q.nth < p.nth
    BY <2>1 DEF CatalogInv, InOrder
  <2>5. InOrder'
    <3> DEFINE stay == push \ {p}
    <3>1. push' = stay \cup {done} /\ stay \subseteq push BY <2>1
    <3>2. \A q \in stay : q.nth # done.nth /\ (q.at = "written" => q.nth < done.nth)
      BY <2>2, <2>4 DEF CatalogInv, InOrder
    <3>3. \A q \in stay : q.at = "sent" => done.nth < q.nth
      BY <1>2, <2>1, <2>2, <3>2 DEF CatalogInv, InOrder, PushRequests
    <3> HIDE DEF done, stay
    <3> QED BY <1>1, <1>2, <2>1, <2>2, <3>1, <3>2, <3>3 DEF CatalogInv, InOrder
  <2>6. LatestHeld'
    BY <1>2, <2>1, <2>2, <2>4 DEF CatalogInv, InOrder, LatestHeld, PushRequests
  <2>7. Forward' /\ AskedForward'
    <3>1. catalogSpent.switch = 0 => pushed <= p.revision /\ p.revision <= disk.revision
      BY <1>2, <2>1 DEF CatalogInv, CatalogTypes, Forward, AskedForward, PushRequests, IsCache
    <3>2. Forward'
      BY <1>1, <2>1, <3>1 DEF CatalogInv, CatalogTypes, Forward, IsCache
    <3>3. ASSUME catalogSpent.switch = 0, NEW q \in push, q # p
          PROVE  IF q.at = "sent" THEN p.revision <= q.revision ELSE q.revision <= p.revision
      <4>1. CASE q.at = "sent"
        <5>1. p.nth < q.nth
          BY <2>1, <3>3, <4>1 DEF CatalogInv, InOrder, PushRequests
        <5> QED BY <3>3, <4>1, <5>1 DEF CatalogInv, AskedForward
      <4>2. CASE q.at # "sent"
        <5>1. q.revision <= holds /\ holds <= p.revision
          BY <2>1, <3>3, <4>2 DEF CatalogInv, AskedForward
        <5> QED BY <4>2, <5>1 DEF CatalogInv, CatalogTypes, InOrder, PushRequests
      <4> QED BY <4>1, <4>2
    <3>4. AskedForward'
      <4> DEFINE stay == push \ {p}
      <4>1. push' = stay \cup {done} /\ stay \subseteq push /\ p \in push /\ \A q \in stay : q # p
        BY <2>1
      <4> HIDE DEF done, stay
      <4>2. ASSUME catalogSpent.switch = 0, NEW q \in stay
            PROVE  /\ q.revision <= disk.revision /\ IF q.at = "sent" THEN p.revision <= q.revision
                                                   ELSE q.revision <= p.revision
                   /\ (q.nth < p.nth => q.revision <= p.revision) /\ (p.nth < q.nth => p.revision <= q.revision)
        BY <3>3, <4>1, <4>2 DEF CatalogInv, AskedForward
      <4>3. p.revision <= p.revision /\ ~(p.nth < p.nth)
        BY <1>2 DEF PushRequests
      <4>4. UNCHANGED <<disk, catalogSpent>> /\ holds' = p.revision
        BY <1>1, <2>1
      <4>5. catalogSpent.switch = 0 => \A x, y \in stay : x.nth < y.nth => x.revision <= y.revision
        BY <4>1 DEF CatalogInv, AskedForward
      <4> QED BY <2>2, <3>1, <4>1, <4>2, <4>3, <4>4, <4>5 DEF AskedForward
    <3> QED BY <3>2, <3>4
  <2> QED BY <2>3, <2>5, <2>6, <2>7 DEF CatalogInv
<1>4. CASE Official!PushAnswered(p)
  <2>1. /\ UNCHANGED <<holds, lost, catalogSpent>> /\ p.at = "written" /\ pushed' = p.revision
        /\ push' = push \ {p} /\ \A q \in push : p.nth <= q.nth
    BY <1>4 DEF Official!PushAnswered
  <2>2. CatalogTypes' /\ InOrder'
    BY <1>1, <1>2, <2>1 DEF CatalogInv, CatalogTypes, InOrder, PushRequests, IsCache
  <2>3. LatestHeld'
    <3>1. ASSUME ~lost, NEW q \in push', q.at = "written",
                 \A x \in push' : x.at = "written" => x.nth <= q.nth
          PROVE  holds = q.revision
      BY <2>1, <3>1 DEF CatalogInv, LatestHeld, InOrder, PushRequests
    <3>2. ASSUME ~lost, \A q \in push' : q.at = "sent"
          PROVE  holds = p.revision
      BY <2>1, <3>2 DEF CatalogInv, LatestHeld, InOrder, PushRequests
    <3> QED BY <2>1, <3>1, <3>2 DEF LatestHeld
  <2>4. Forward' /\ AskedForward'
    BY <1>1, <1>2, <2>1 DEF CatalogInv, CatalogTypes, Forward, AskedForward, PushRequests, IsCache
  <2> QED BY <2>2, <2>3, <2>4 DEF CatalogInv
<1>5. CASE Official!PushFails(p)
  <2>1. /\ UNCHANGED <<holds, pushed>> /\ push' = push \ {p} /\ lost' = (lost \/ p.at = "written")
        /\ catalogSpent' = [catalogSpent EXCEPT !["fail"] = @ + 1]
    BY <1>5 DEF Official!PushFails, Official!pushRest, Official!Fails, Official!Spend
  <2>2. CatalogTypes' /\ catalogSpent'.switch = catalogSpent.switch /\ catalogSpent'.refresh = catalogSpent.refresh
    BY <1>1, <2>1 DEF CatalogInv, CatalogTypes, IsCache
  <2>3. InOrder' BY <1>1, <2>1, <2>2 DEF CatalogInv, InOrder
  <2>4. LatestHeld'
    BY <1>2, <2>1 DEF CatalogInv, LatestHeld, PushRequests
  <2>5. Forward' /\ AskedForward'
    BY <1>1, <2>1, <2>2 DEF CatalogInv, Forward, AskedForward
  <2> QED BY <2>2, <2>3, <2>4, <2>5 DEF CatalogInv
<1> QED BY <1>3, <1>4, <1>5

LEMMA CatalogKept ==
  ASSUME CatalogInv, Official!CatalogNext
  PROVE  CatalogInv'
<1>1. ASSUME NEW r \in Refs, Official!SwitchTrack(r) PROVE CatalogInv'
  <2>1. /\ UNCHANGED <<tip, commits, cache, disk, refresh, Asked>> /\ followed' = r
        /\ catalogSpent' = [catalogSpent EXCEPT !["switch"] = @ + 1] /\ catalogSpent["switch"] = 0
    BY <1>1 DEF Official!SwitchTrack, Official!Spend, Asked
  <2>2. CatalogTypes' /\ catalogSpent'.switch = 1 /\ catalogSpent'.refresh = catalogSpent.refresh
    BY <2>1 DEF CatalogInv, CatalogTypes, IsCache, Asked
  <2>3. Forward' BY <2>2 DEF Forward
  <2> QED BY <2>1, <2>2, <2>3, AskingUntouched DEF CatalogInv, CatalogTypes
<1>2. CASE Official!DownloadBegins \/ \E d \in downloads : Official!DownloadEnds(d)
  <2>1. UNCHANGED <<tip, commits, followed, cache, disk, refresh, catalogSpent, Asked>>
    BY <1>2 DEF Official!DownloadBegins, Official!DownloadEnds, Official!hostVars, Asked
  <2> QED BY <2>1 DEF CatalogInv, CatalogTypes, InOrder, LatestHeld, Forward, AskedForward, IsCache, Asked
<1>3. CASE Official!Restart
  <2>1. /\ UNCHANGED <<tip, commits, followed, holds, disk>> /\ cache' = disk /\ refresh' = Official!Idle
        /\ push' = {} /\ pushed' = 0 /\ lost' = FALSE
        /\ catalogSpent' = [catalogSpent EXCEPT !["restart"] = @ + 1]
    BY <1>3 DEF Official!Restart, Official!Spend, Official!None
  <2>2. CatalogTypes' /\ catalogSpent'.switch = catalogSpent.switch
    BY <2>1 DEF CatalogInv, CatalogTypes, IsCache, Official!Idle, Official!None, CacheRefs
  <2>3. InOrder' /\ LatestHeld' /\ AskedForward'
    BY <2>1 DEF InOrder, LatestHeld, AskedForward, Official!None
  <2>4. Forward'
    BY <2>1, <2>2 DEF CatalogInv, CatalogTypes, Forward, IsCache, Official!Idle
  <2> QED BY <2>2, <2>3, <2>4 DEF CatalogInv
<1> QED BY <1>1, <1>2, <1>3, PublishKeeps, RefreshKeeps, RefreshEndsKeeps, PushKeeps DEF Official!CatalogNext

\* Whatever fails and however the requests overlap, a revision this process counts as pushed is the
\* one the host's holds were written from, on one track or while no answer is lost.
LEMMA HoldsFollow == CatalogInv => Official!HoldsFollowTheFeed
<1> SUFFICES ASSUME CatalogInv, push = {}, pushed # 0, pushed = cache.feedRevision, cache.feed # 0,
                    catalogSpent.switch = 0 \/ ~lost
             PROVE  holds = cache.feed
  BY DEF Official!HoldsFollowTheFeed, Official!None
<1>1. cache.feed = pushed /\ cache.revision = pushed
  BY DEF CatalogInv, CatalogTypes, IsCache, Official!None
<1> QED BY <1>1 DEF CatalogInv, CatalogTypes, LatestHeld, Forward, IsCache, Official!None

LEMMA CatalogInvHolds == Spec => []CatalogInv
<1>1. Init => CatalogInv
  <2> SUFFICES ASSUME Init PROVE CatalogInv
    OBVIOUS
  <2> USE DEF Init, Official!CatalogInit, Official!NoCache, Official!Idle, Official!None
  <2>1. DOMAIN commits = 1..1 OBVIOUS
  <2>2. CatalogTypes
    BY <2>1, ReleasesAreFollowed DEF CatalogTypes, IsCache, CacheRefs
  <2>3. InOrder /\ LatestHeld /\ AskedForward
    BY DEF InOrder, LatestHeld, AskedForward
  <2>4. Forward BY ReleasesAreFollowed DEF Forward
  <2> QED BY <2>2, <2>3, <2>4 DEF CatalogInv
<1>2. CatalogInv /\ [Next]_vars => CatalogInv'
  <2> SUFFICES ASSUME CatalogInv, [Next]_vars PROVE CatalogInv'
    OBVIOUS
  <2>1. CASE OfficialMoves
    BY <2>1, CatalogKept DEF OfficialMoves
  <2>2. CASE UNCHANGED catalogVars
    BY <2>2 DEF catalogVars, CatalogInv, CatalogTypes, InOrder, LatestHeld, Forward, AskedForward, IsCache
  <2> QED BY <2>1, <2>2 DEF Next, vars, ManifestMoves, ConnectionMoves, InstallMoves, MoveMoves, SourceMoves
<1> QED BY <1>1, <1>2, PTL DEF Spec

------------------------------------------------------------------------------
(* Installs: what is recorded as installed is whole. *)

InstallPlaces(kind) ==
  CASE kind = "none"      -> {"none"}
    [] kind = "install"   -> {"snapshot", "record", "installed", "containers", "routes", "validate",
                              "write", "reload", "discard"}
    [] kind = "start"     -> {"build", "run", "routes", "validate", "write", "reload", "applied"}
    [] kind = "uninstall" -> {"containers", "volumes", "routes", "validate", "write", "reload",
                              "discard", "delete"}

IsWork(w) ==
  /\ DOMAIN w = {"kind", "pc", "job", "app", "inst", "next"} /\ w.inst \in Nat
  /\ w.kind \in {"none", "install", "start", "uninstall"} /\ w.pc \in InstallPlaces(w.kind)
  /\ w.kind # "none" => w.app \in Install!Apps

InstallTypes ==
  /\ listing \in [Install!Apps -> [inst : Nat, applied : BOOLEAN]]
  /\ DOMAIN work = Install!Slots /\ \A s \in Install!Slots : IsWork(work[s])
  /\ DOMAIN installSpent = {"install", "request", "failure"} /\ installSpent.install \in Nat

\* An install whose instance no app has yet.
Fresh(s)   == work[s].kind = "install" /\ work[s].pc # "installed"
Handles(s) == work[s].kind \in {"start", "uninstall"}
Works(s)   == work[s].kind # "none"

\* An instance is of one app, and one that is being installed of none.
Numbered ==
  /\ \A a \in Install!Apps : listing[a].inst <= installSpent.install
  /\ \A s \in Install!Slots : work[s].inst <= installSpent.install
  /\ \A a, b \in Install!Apps : a # b /\ listing[a].inst # Install!Nobody => listing[a].inst # listing[b].inst
  /\ \A s \in Install!Slots, a \in Install!Apps : Fresh(s) => work[s].inst # Install!Nobody /\ work[s].inst # listing[a].inst
  /\ \A s \in Install!Slots, a \in Install!Apps : Handles(s) /\ a # work[s].app => work[s].inst # listing[a].inst
  /\ \A s \in Install!Slots : Handles(s) => work[s].inst # Install!Nobody
  /\ \A s, r \in Install!Slots : s # r /\ Fresh(s) /\ Works(r) => work[s].inst # work[r].inst

\* What is installed has its secrets, and its package until an uninstall has nothing left to do
\* but to delete the row.
FilesKept ==
  /\ \A s \in Install!Slots : Install!At(s, "record") => work[s].inst \in packages
  /\ \A a \in Install!Apps : Install!Installed(a) =>
       /\ listing[a].inst \in secrets
       /\ \/ listing[a].inst \in packages
          \/ \E s \in Install!Slots : Install!At(s, "delete") /\ work[s].app = a /\ work[s].inst = listing[a].inst

\* An app that was never worked on by two has at most one request, which knows its instance.
OneRequest ==
  \A s \in Install!Slots : Works(s) /\ work[s].app \notin crowded =>
    /\ \A r \in Install!Slots \ {s} : Works(r) => work[r].app # work[s].app
    /\ Handles(s) => listing[work[s].app].inst = work[s].inst
    /\ Fresh(s) => ~Install!Installed(work[s].app)

AppliedIsInstalled == \A a \in Install!Apps : listing[a].applied => Install!Installed(a)

\* While the routes file is changed by one request at a time: what is written is what was read
\* with one app more or less, and the copy to undo it from is the file before.
RoutesInTurn ==
  (\E a \in Install!Apps : a \notin crowded) =>
    /\ \A s, r \in Install!Slots : Install!InRoutes(s) /\ Install!InRoutes(r) => s = r
    /\ \A s \in Install!Slots : work[s].pc \in {"validate", "write"} => work[s].next = Install!AppliesTo(s)
    /\ \A s \in Install!Slots : work[s].pc = "reload" =>
         before.there /\ \A a \in Install!Apps \ {work[s].app} : a \in before.serves <=> a \in routes
    /\ before.there /\ (\A s \in Install!Slots : work[s].pc # "reload") => before.serves = routes

\* The routes of an app follow what is recorded of it.
Served ==
  \A a \in Install!Apps : a \notin crowded =>
    /\ listing[a].applied => \/ a \in routes
                             \/ \E s \in Install!Slots : /\ work[s].kind = "uninstall" /\ work[s].app = a
                                                         /\ work[s].pc \in {"reload", "discard", "delete"}
    /\ \A s \in Install!Slots : Works(s) /\ work[s].app = a =>
         /\ work[s].kind = "start" /\ work[s].pc \in {"reload", "applied"} => a \in routes
         /\ work[s].pc = "reload" /\ listing[a].applied => a \in before.serves

InstallInv ==
  /\ InstallTypes /\ Numbered /\ FilesKept /\ OneRequest /\ AppliedIsInstalled /\ RoutesInTurn /\ Served

\* Only one request moves.
Only(s) == DOMAIN work' = Install!Slots /\ \A r \in Install!Slots \ {s} : work'[r] = work[r]

LEMMA IdleIsWork == IsWork(Install!Idle) /\ Install!Idle.kind = "none" /\ Install!Idle.pc = "none" /\ Install!Idle.inst = Install!Nobody
BY DEF IsWork, Install!Idle, Install!Nobody, InstallPlaces

\* A request that goes on, ends or is turned into a start, and gives no app another instance.
LEMMA NumbersAside ==
  ASSUME InstallInv, NEW s \in Install!Slots, Only(s), IsWork(work'[s]),
         listing' \in [Install!Apps -> [inst : Nat, applied : BOOLEAN]], \A a \in Install!Apps : listing'[a].inst = listing[a].inst,
         \A a \in Install!Apps : listing'[a].applied => Install!Installed(a),
         crowded \cap Install!Apps \subseteq crowded',
         DOMAIN installSpent' = DOMAIN installSpent, installSpent'.install = installSpent.install,
         work'[s].kind = "none" \/ (Works(s) /\ work'[s].app = work[s].app),
         Fresh(s)' => Fresh(s),
         \/ work'[s].inst \in {work[s].inst, Install!Nobody} /\ (Handles(s)' => Handles(s) /\ work'[s].inst = work[s].inst)
                                                             /\ (Fresh(s)' => work'[s].inst = work[s].inst)
         \/ Handles(s)' /\ work'[s].inst = listing[work[s].app].inst /\ work'[s].inst # Install!Nobody
  PROVE  InstallTypes' /\ Numbered' /\ OneRequest' /\ AppliedIsInstalled'
<1> USE DEF InstallInv, Only
<1>1. InstallTypes' BY DEF InstallTypes
<1>2. Numbered'
  <2>1. \A a \in Install!Apps : listing'[a].inst <= installSpent'.install
    BY DEF Numbered
  <2>2. \A r \in Install!Slots : work'[r].inst <= installSpent'.install
    BY DEF Numbered, InstallTypes, IsWork, Install!Nobody, Handles, Works
  <2>3. \A a \in Install!Apps : Fresh(s)' => work'[s].inst # Install!Nobody /\ work'[s].inst # listing[a].inst
    BY DEF Numbered, Fresh, Handles
  <2>4. \A a \in Install!Apps : Handles(s)' /\ a # work'[s].app => work'[s].inst # listing[a].inst
    BY DEF Numbered, Handles, InstallTypes, IsWork, Works
  <2>5. Handles(s)' => work'[s].inst # Install!Nobody
    BY DEF Numbered, Handles
  <2>6. \A r \in Install!Slots \ {s} : Fresh(s)' /\ Works(r) => work'[s].inst # work[r].inst
    BY DEF Numbered, Fresh, Handles
  <2>7. \A r \in Install!Slots \ {s} : Fresh(r) /\ Works(s)' => work'[s].inst # work[r].inst
    BY DEF Numbered, Works, InstallTypes, IsWork, Handles
  <2> QED BY <2>1, <2>2, <2>3, <2>4, <2>5, <2>6, <2>7 DEF Numbered, Fresh, Handles, Works
<1>3. OneRequest'
  <2> SUFFICES ASSUME NEW r \in Install!Slots, Works(r)', work'[r].app \notin crowded'
               PROVE  /\ \A q \in Install!Slots \ {r} : Works(q)' => work'[q].app # work'[r].app
                      /\ Handles(r)' => listing'[work'[r].app].inst = work'[r].inst
                      /\ Fresh(r)' => listing'[work'[r].app].inst = Install!Nobody
    BY DEF OneRequest, Install!Installed
  <2>1. \A q \in Install!Slots : Works(q)' => Works(q) /\ work'[q].app = work[q].app
    BY DEF Works
  <2>0. work[r].app \in Install!Apps
    BY <2>1 DEF InstallTypes, IsWork, Works
  <2>2. /\ \A q \in Install!Slots \ {r} : Works(q) => work[q].app # work[r].app
        /\ Handles(r) => listing[work[r].app].inst = work[r].inst
        /\ Fresh(r) => listing[work[r].app].inst = Install!Nobody
    BY <2>0, <2>1 DEF OneRequest, Install!Installed
  <2>3. \A q \in Install!Slots \ {r} : Works(q)' => work'[q].app # work'[r].app
    BY <2>1, <2>2
  <2>4. Handles(r)' => listing'[work'[r].app].inst = work'[r].inst
    BY <2>0, <2>1, <2>2 DEF Handles
  <2>5. Fresh(r)' => listing'[work'[r].app].inst = Install!Nobody
    BY <2>0, <2>1, <2>2 DEF Fresh
  <2> QED BY <2>3, <2>4, <2>5
<1>4. AppliedIsInstalled' BY DEF AppliedIsInstalled, Install!Installed
<1> QED BY <1>1, <1>2, <1>3, <1>4

\* The same, of one that removes no file of an app.
LEMMA RecordsAside ==
  ASSUME InstallInv, NEW s \in Install!Slots, Only(s), IsWork(work'[s]),
         listing' = listing, secrets' = secrets, packages \subseteq packages', crowded \cap Install!Apps \subseteq crowded',
         DOMAIN installSpent' = DOMAIN installSpent, installSpent'.install = installSpent.install,
         work[s].pc # "delete",
         work'[s].kind = "none" \/ (Works(s) /\ work'[s].app = work[s].app),
         Fresh(s)' => Fresh(s),
         \/ work'[s].inst \in {work[s].inst, Install!Nobody} /\ (Handles(s)' => Handles(s) /\ work'[s].inst = work[s].inst)
                                                             /\ (Fresh(s)' => work'[s].inst = work[s].inst)
         \/ Handles(s)' /\ work'[s].inst = listing[work[s].app].inst /\ work'[s].inst # Install!Nobody,
         work'[s].pc = "record" => work'[s].inst \in packages'
  PROVE  InstallTypes' /\ Numbered' /\ FilesKept' /\ OneRequest' /\ AppliedIsInstalled'
<1> USE DEF InstallInv, Only
<1>1. InstallTypes' /\ Numbered' /\ OneRequest' /\ AppliedIsInstalled'
  <2>1. listing' \in [Install!Apps -> [inst : Nat, applied : BOOLEAN]] /\ \A a \in Install!Apps : listing'[a].applied => Install!Installed(a)
    BY DEF InstallTypes, AppliedIsInstalled
  <2> QED BY <2>1, NumbersAside
<1>2. FilesKept'
  <2>1. \A r \in Install!Slots : Install!At(r, "record")' => work'[r].inst \in packages'
    BY DEF FilesKept, Install!At
  <2>2. ASSUME NEW a \in Install!Apps, Install!Installed(a)
        PROVE  /\ listing[a].inst \in secrets
               /\ \/ listing[a].inst \in packages'
                  \/ \E r \in Install!Slots : Install!At(r, "delete")' /\ work'[r].app = a /\ work'[r].inst = listing[a].inst
    BY <2>2 DEF FilesKept, Install!At
  <2> QED BY <2>1, <2>2 DEF FilesKept, Install!Installed
<1> QED BY <1>1, <1>2

\* One that is not at the routes file, before or after, and neither applied nor removed a route.
LEMMA RoutesAside ==
  ASSUME InstallInv, NEW s \in Install!Slots, Only(s), IsWork(work'[s]),
         UNCHANGED <<routes, before>>, crowded \cap Install!Apps \subseteq crowded',
         \A a \in Install!Apps : listing'[a].applied => listing[a].applied,
         ~Install!InRoutes(s), ~Install!InRoutes(s)',
         ~(work'[s].kind = "start" /\ work'[s].pc = "applied"),
         work[s].kind = "uninstall" =>
           \/ work[s].pc \notin {"discard", "delete"}
           \/ work[s].app \in crowded'
           \/ ~listing'[work[s].app].applied
           \/ work'[s].kind = "uninstall" /\ work'[s].app = work[s].app /\ work'[s].pc = "delete"
  PROVE  RoutesInTurn' /\ Served'
<1> USE DEF InstallInv, Only
<1>1. RoutesInTurn'
  <2> SUFFICES ASSUME \E a \in Install!Apps : a \notin crowded'
               PROVE  /\ \A r, q \in Install!Slots : Install!InRoutes(r)' /\ Install!InRoutes(q)' => r = q
                      /\ \A r \in Install!Slots : work'[r].pc \in {"validate", "write"} => work'[r].next = Install!AppliesTo(r)'
                      /\ \A r \in Install!Slots : work'[r].pc = "reload" =>
                           before.there /\ \A a \in Install!Apps \ {work'[r].app} : a \in before.serves <=> a \in routes
                      /\ before.there /\ (\A r \in Install!Slots : work'[r].pc # "reload") => before.serves = routes
    BY DEF RoutesInTurn
  <2>1. \E a \in Install!Apps : a \notin crowded OBVIOUS
  <2>2. work[s].pc \notin {"validate", "write", "reload"} /\ work'[s].pc \notin {"validate", "write", "reload"}
    BY DEF Install!InRoutes
  <2>3. \A r, q \in Install!Slots : Install!InRoutes(r)' /\ Install!InRoutes(q)' => r = q
    BY <2>1, <2>2 DEF RoutesInTurn, Install!InRoutes
  <2>4. \A r \in Install!Slots : work'[r].pc \in {"validate", "write"} => work'[r].next = Install!AppliesTo(r)'
    BY <2>1, <2>2 DEF RoutesInTurn, Install!AppliesTo
  <2>5. \A r \in Install!Slots : work'[r].pc = "reload" =>
           before.there /\ \A a \in Install!Apps \ {work'[r].app} : a \in before.serves <=> a \in routes
    BY <2>1, <2>2 DEF RoutesInTurn
  <2>6. before.there /\ (\A r \in Install!Slots : work'[r].pc # "reload") => before.serves = routes
    BY <2>1, <2>2 DEF RoutesInTurn
  <2> QED BY <2>3, <2>4, <2>5, <2>6
<1>2. Served'
  <2> SUFFICES ASSUME NEW a \in Install!Apps, a \notin crowded'
               PROVE  /\ listing'[a].applied => \/ a \in routes
                         \/ \E r \in Install!Slots : /\ work'[r].kind = "uninstall" /\ work'[r].app = a
                                                     /\ work'[r].pc \in {"reload", "discard", "delete"}
                      /\ \A r \in Install!Slots : Works(r)' /\ work'[r].app = a =>
                           /\ work'[r].kind = "start" /\ work'[r].pc \in {"reload", "applied"} => a \in routes
                           /\ work'[r].pc = "reload" /\ listing'[a].applied => a \in before.serves
    BY DEF Served
  <2>1. a \notin crowded /\ (listing'[a].applied => listing[a].applied)
    OBVIOUS
  <2>2. listing'[a].applied => \/ a \in routes
                               \/ \E r \in Install!Slots : /\ work'[r].kind = "uninstall" /\ work'[r].app = a
                                                           /\ work'[r].pc \in {"reload", "discard", "delete"}
    BY <2>1 DEF Served, Install!InRoutes
  <2>3. ASSUME NEW r \in Install!Slots, Works(r)', work'[r].app = a
        PROVE  /\ work'[r].kind = "start" /\ work'[r].pc \in {"reload", "applied"} => a \in routes
               /\ work'[r].pc = "reload" /\ listing'[a].applied => a \in before.serves
    BY <2>1, <2>3 DEF Served, Install!InRoutes, Works
  <2> QED BY <2>2, <2>3
<1> QED BY <1>1, <1>2

\* A request begins.
LEMMA BeginsKeeps ==
  ASSUME InstallInv, NEW s \in Install!Slots, NEW a \in Install!Apps, Only(s), IsWork(work'[s]),
         ~Works(s), ~Install!InRoutes(s), work'[s].app = a, Works(s)', UNCHANGED <<listing, secrets, packages, routes, before>>, Install!Crowds(a),
         DOMAIN installSpent' = DOMAIN installSpent, installSpent.install <= installSpent'.install, installSpent'.install \in Nat,
         \/ /\ work'[s].kind = "install" /\ work'[s].inst = installSpent.install + 1 /\ installSpent'.install = installSpent.install + 1
            /\ IF Install!Installed(a) THEN work'[s].pc = "installed" ELSE work'[s].pc = "snapshot"
         \/ Handles(s)' /\ work'[s].inst = listing[a].inst /\ Install!Installed(a) /\ work'[s].pc \in {"build", "containers"}
  PROVE  InstallInv'
<1> USE DEF Only
<1>1. InstallTypes' BY DEF InstallInv, InstallTypes
<1>2. Numbered'
  <2> USE DEF InstallInv
  <2>1. \A b \in Install!Apps : listing'[b].inst <= installSpent'.install /\ listing[b].inst \in Nat /\ listing[b].inst <= installSpent.install
    BY DEF Numbered, InstallTypes
  <2>2. \A r \in Install!Slots : work'[r].inst <= installSpent'.install /\ work[r].inst \in Nat /\ work[r].inst <= installSpent.install
    BY <2>1 DEF Numbered, InstallTypes, IsWork, Handles
  <2>3. installSpent.install \in Nat BY DEF InstallTypes
  <2>4. \A b \in Install!Apps : Fresh(s)' => work'[s].inst # Install!Nobody /\ work'[s].inst # listing[b].inst
    BY <2>1, <2>3 DEF Fresh, Handles, Install!Nobody
  <2>5. \A b \in Install!Apps : Handles(s)' /\ b # work'[s].app => work'[s].inst # listing[b].inst
    BY DEF Numbered, Handles, Install!Installed
  <2>6. Handles(s)' => work'[s].inst # Install!Nobody
    BY DEF Handles, Install!Installed
  <2>7. \A r \in Install!Slots \ {s} : Fresh(s)' /\ Works(r) => work'[s].inst # work[r].inst
    BY <2>2, <2>3 DEF Fresh, Handles
  <2>8. \A r \in Install!Slots \ {s} : Fresh(r) => work'[s].inst # work[r].inst
    BY <2>2, <2>3 DEF Numbered
  <2>9. \A r \in Install!Slots \ {s} : Fresh(r)' = Fresh(r) /\ Handles(r)' = Handles(r) /\ Works(r)' = Works(r)
    BY DEF Fresh, Handles, Works
  <2> QED BY <2>1, <2>2, <2>4, <2>5, <2>6, <2>7, <2>8, <2>9 DEF Numbered
<1>3. FilesKept'
  <2>0. work'[s].pc # "record" OBVIOUS
  <2>1. \A r \in Install!Slots : Install!At(r, "record")' => work'[r].inst \in packages'
    BY <2>0 DEF FilesKept, Install!At, InstallInv
  <2>2. ASSUME NEW b \in Install!Apps, Install!Installed(b)
        PROVE  /\ listing[b].inst \in secrets
               /\ \/ listing[b].inst \in packages'
                  \/ \E r \in Install!Slots : Install!At(r, "delete")' /\ work'[r].app = b /\ work'[r].inst = listing[b].inst
    BY <2>2 DEF FilesKept, Install!At, InstallInv, Works
  <2> QED BY <2>1, <2>2 DEF FilesKept, Install!Installed
<1>4. OneRequest'
  <2> SUFFICES ASSUME NEW r \in Install!Slots, Works(r)', work'[r].app \notin crowded'
               PROVE  /\ \A q \in Install!Slots \ {r} : Works(q)' => work'[q].app # work'[r].app
                      /\ Handles(r)' => listing'[work'[r].app].inst = work'[r].inst
                      /\ Fresh(r)' => listing'[work'[r].app].inst = Install!Nobody
    BY DEF OneRequest, Install!Installed
  <2>1. a \notin crowded' => \A q \in Install!Slots : Works(q) => work[q].app # a
    BY DEF Install!Crowds, Install!Under, Works
  <2>2. crowded \subseteq crowded' BY DEF Install!Crowds
  <2>3. CASE r = s
    <3>1. \A q \in Install!Slots \ {r} : Works(q)' => work'[q].app # work'[r].app
      BY <2>1, <2>3 DEF Works
    <3>2. Handles(r)' => listing'[work'[r].app].inst = work'[r].inst
      BY <2>3 DEF Handles
    <3>3. Fresh(r)' => listing'[work'[r].app].inst = Install!Nobody
      BY <2>3 DEF Fresh, Install!Installed, Handles
    <3> QED BY <3>1, <3>2, <3>3
  <2>4. CASE r # s
    <3>1. Works(r) /\ work'[r] = work[r] /\ work[r].app \notin crowded
      BY <2>2, <2>4 DEF Works
    <3>2. /\ \A q \in Install!Slots \ {r} : Works(q) => work[q].app # work[r].app
          /\ Handles(r) => listing[work[r].app].inst = work[r].inst
          /\ Fresh(r) => listing[work[r].app].inst = Install!Nobody
      BY <3>1 DEF OneRequest, Install!Installed, InstallInv
    <3>3. work[r].app # a
      <4>1. a \notin crowded' => work[r].app # a BY <2>1, <3>1
      <4> QED BY <3>1, <4>1
    <3>4. \A q \in Install!Slots \ {r} : Works(q)' => work'[q].app # work'[r].app
      BY <3>1, <3>2, <3>3 DEF Works
    <3>5. Handles(r)' => listing'[work'[r].app].inst = work'[r].inst
      BY <3>1, <3>2 DEF Handles
    <3>6. Fresh(r)' => listing'[work'[r].app].inst = Install!Nobody
      BY <3>1, <3>2 DEF Fresh
    <3> QED BY <3>4, <3>5, <3>6
  <2> QED BY <2>3, <2>4
<1>5. AppliedIsInstalled'
  BY DEF AppliedIsInstalled, Install!Installed, InstallInv
<1>6. RoutesInTurn' /\ Served'
  <2>1. ~Install!InRoutes(s)' /\ ~(work'[s].kind = "start" /\ work'[s].pc = "applied")
    BY DEF Install!InRoutes
  <2>2. crowded \subseteq crowded' /\ work[s].kind = "none"
    BY DEF Install!Crowds, Works
  <2> QED BY <2>1, <2>2, RoutesAside
<1> QED BY <1>1, <1>2, <1>3, <1>4, <1>5, <1>6 DEF InstallInv

LEMMA BeginKept ==
  ASSUME InstallInv, NEW s \in Install!Slots, NEW a \in Install!Apps,
         \/ Install!BeginInstall(s, a) \/ Install!BeginInstallJob(s, a) \/ Install!BeginExternalInstall(s, a)
         \/ Install!BeginStart(s, a) \/ Install!BeginUninstall(s, a)
  PROVE  InstallInv'
<1>1. DOMAIN work = Install!Slots /\ DOMAIN installSpent = {"install", "request", "failure"} /\ installSpent.install \in Nat
  BY DEF InstallInv, InstallTypes
<1>2. work[s] = Install!Idle
  BY DEF Install!BeginInstall, Install!BeginInstallJob, Install!BeginExternalInstall, Install!Begins, Install!BeginStart, Install!BeginUninstall
<1>3. ~Works(s) /\ ~Install!InRoutes(s)
  BY <1>2, IdleIsWork DEF Works, Install!InRoutes
<1>4. listing[a].inst \in Nat BY DEF InstallInv, InstallTypes
<1>5. DOMAIN Install!Idle = {"kind", "pc", "job", "app", "inst", "next"}
  BY DEF Install!Idle
<1>6. CASE Install!BeginInstall(s, a) \/ Install!BeginInstallJob(s, a) \/ Install!BeginExternalInstall(s, a)
  <2>1. PICK asked : Install!Begins(s, a, asked)
    BY <1>6 DEF Install!BeginInstall, Install!BeginInstallJob, Install!BeginExternalInstall
  <2> DEFINE w == [Install!Idle EXCEPT !.kind = "install", !.job = asked, !.app = a,
                !.inst = installSpent.install + 1, !.pc = IF Install!Installed(a) THEN "installed" ELSE "snapshot"]
  <2>2. work' = [work EXCEPT ![s] = w] BY <2>1 DEF Install!Begins
  <2>3. /\ DOMAIN w = {"kind", "pc", "job", "app", "inst", "next"} /\ w.kind = "install" /\ w.app = a
        /\ w.inst = installSpent.install + 1 /\ w.pc = IF Install!Installed(a) THEN "installed" ELSE "snapshot"
    BY <1>5
  <2> HIDE DEF w
  <2>4. Only(s) /\ work'[s] = w BY <1>1, <2>2 DEF Only
  <2>5. IsWork(w) BY <1>1, <2>3 DEF IsWork, InstallPlaces
  <2>6. installSpent' = [installSpent EXCEPT !.install = @ + 1]
    BY <2>1 DEF Install!Begins, Install!Spend
  <2>7. DOMAIN installSpent' = DOMAIN installSpent /\ installSpent'.install = installSpent.install + 1
    BY <1>1, <2>6
  <2>8. UNCHANGED <<listing, secrets, packages, routes, before>> /\ Install!Crowds(a)
    BY <2>1 DEF Install!Begins, Install!records, Install!caddyFiles
  <2> QED BY <1>1, <1>3, <2>3, <2>4, <2>5, <2>7, <2>8, BeginsKeeps DEF Works
<1>7. CASE Install!BeginStart(s, a) \/ Install!BeginUninstall(s, a)
  <2> DEFINE kind == IF Install!BeginStart(s, a) THEN "start" ELSE "uninstall"
             pc == IF Install!BeginStart(s, a) THEN "build" ELSE "containers"
             w == [Install!Idle EXCEPT !.kind = kind, !.app = a, !.inst = listing[a].inst, !.pc = pc]
  <2>1. work' = [work EXCEPT ![s] = w]
    BY <1>7 DEF Install!BeginStart, Install!BeginUninstall
  <2>2. /\ DOMAIN w = {"kind", "pc", "job", "app", "inst", "next"} /\ w.kind = kind /\ w.app = a
        /\ w.inst = listing[a].inst /\ w.pc = pc
    BY <1>5
  <2>3. <<kind, pc>> \in {<<"start", "build">>, <<"uninstall", "containers">>}
    OBVIOUS
  <2> HIDE DEF w, kind, pc
  <2>4. Only(s) /\ work'[s] = w BY <1>1, <2>1 DEF Only
  <2>5. IsWork(w) BY <1>4, <2>2, <2>3 DEF IsWork, InstallPlaces
  <2>6. installSpent' = [installSpent EXCEPT !.request = @ + 1]
    BY <1>7 DEF Install!BeginStart, Install!BeginUninstall, Install!Spend
  <2>7. DOMAIN installSpent' = DOMAIN installSpent /\ installSpent'.install = installSpent.install
    BY <1>1, <2>6
  <2>8. UNCHANGED <<listing, secrets, packages, routes, before>> /\ Install!Crowds(a) /\ Install!Installed(a)
    BY <1>7 DEF Install!BeginStart, Install!BeginUninstall, Install!records, Install!caddyFiles
  <2> QED BY <1>1, <1>3, <2>2, <2>3, <2>4, <2>5, <2>7, <2>8, BeginsKeeps DEF Works, Handles
<1> QED BY <1>6, <1>7


\* What is kept of the bounds by a step that begins nothing.
Kept == DOMAIN installSpent' = DOMAIN installSpent /\ installSpent'.install = installSpent.install

LEMMA FailsKeeps ==
  ASSUME InstallInv, Install!Fails \/ UNCHANGED installSpent
  PROVE  Kept
BY DEF InstallInv, InstallTypes, Install!Fails, Install!Spend, Kept

LEMMA GoesOn ==
  ASSUME InstallInv, NEW s \in Install!Slots, NEW pc, Works(s), pc \in InstallPlaces(work[s].kind), Install!Goes(s, pc)
  PROVE  /\ Only(s) /\ IsWork(work'[s]) /\ work'[s].kind = work[s].kind /\ work'[s].app = work[s].app
         /\ work'[s].inst = work[s].inst /\ work'[s].pc = pc /\ work'[s].next = work[s].next
<1> DEFINE w == [work[s] EXCEPT !.pc = pc]
<1>1. IsWork(work[s]) /\ DOMAIN work = Install!Slots
  BY DEF InstallInv, InstallTypes
<1>2. work' = [work EXCEPT ![s] = w] BY DEF Install!Goes
<1>3. /\ DOMAIN w = {"kind", "pc", "job", "app", "inst", "next"} /\ w.kind = work[s].kind /\ w.app = work[s].app
      /\ w.inst = work[s].inst /\ w.pc = pc /\ w.next = work[s].next
  BY <1>1 DEF IsWork
<1> HIDE DEF w
<1>4. Only(s) /\ work'[s] = w BY <1>1, <1>2 DEF Only
<1>5. IsWork(w) BY <1>1, <1>3 DEF IsWork
<1> QED BY <1>3, <1>4, <1>5

LEMMA EndsIdle ==
  ASSUME InstallInv, NEW s \in Install!Slots, Install!Ends(s)
  PROVE  /\ Only(s) /\ IsWork(work'[s]) /\ work'[s].kind = "none" /\ work'[s].pc = "none" /\ work'[s].inst = Install!Nobody
         /\ ~Works(s)' /\ ~Fresh(s)' /\ ~Handles(s)' /\ ~Install!InRoutes(s)'
<1>1. DOMAIN work = Install!Slots BY DEF InstallInv, InstallTypes
<1>2. Only(s) /\ work'[s] = Install!Idle BY <1>1 DEF Install!Ends, Only
<1> QED BY <1>2, IdleIsWork DEF Works, Fresh, Handles, Install!InRoutes

LEMMA GoesAside ==
  ASSUME InstallInv, NEW s \in Install!Slots, NEW pc, Works(s), pc \in InstallPlaces(work[s].kind), Install!Goes(s, pc),
         listing' = listing, secrets' = secrets, packages \subseteq packages', crowded \cap Install!Apps \subseteq crowded', Kept,
         work[s].pc \notin {"delete", "installed"}, pc = "record" => work[s].inst \in packages'
  PROVE  InstallTypes' /\ Numbered' /\ FilesKept' /\ OneRequest' /\ AppliedIsInstalled'
<1>1. /\ Only(s) /\ IsWork(work'[s]) /\ work'[s].kind = work[s].kind /\ work'[s].app = work[s].app
      /\ work'[s].inst = work[s].inst /\ work'[s].pc = pc
  BY GoesOn
<1>2. (Fresh(s)' => Fresh(s)) /\ (Handles(s)' => Handles(s))
  BY <1>1 DEF Fresh, Handles
<1> QED BY <1>1, <1>2, RecordsAside DEF Kept

LEMMA EndsAside ==
  ASSUME InstallInv, NEW s \in Install!Slots, Install!Ends(s), work[s].pc # "delete",
         listing' = listing, secrets' = secrets, packages \subseteq packages', crowded \cap Install!Apps \subseteq crowded', Kept
  PROVE  InstallTypes' /\ Numbered' /\ FilesKept' /\ OneRequest' /\ AppliedIsInstalled'
<1>1. /\ Only(s) /\ IsWork(work'[s]) /\ work'[s].kind = "none" /\ work'[s].pc = "none" /\ work'[s].inst = Install!Nobody
      /\ ~Fresh(s)' /\ ~Handles(s)'
  BY EndsIdle
<1>2. work'[s].pc # "record" BY <1>1
<1> QED BY <1>1, <1>2, RecordsAside DEF Kept

LEMMA WorkAt ==
  ASSUME InstallInv, NEW s \in Install!Slots, NEW pc, Install!At(s, pc)
  PROVE  Works(s) /\ work[s].pc = pc /\ pc \in InstallPlaces(work[s].kind) /\ IsWork(work[s])
         /\ work[s].kind \in {"install", "start", "uninstall"} /\ work[s].app \in Install!Apps
BY DEF InstallInv, InstallTypes, IsWork, Install!At, Works

\* A step away from the routes file of a request that is not past it.
LEMMA GoesElsewhere ==
  ASSUME InstallInv, NEW s \in Install!Slots, NEW pc, Works(s), pc \in InstallPlaces(work[s].kind), Install!Goes(s, pc),
         listing' = listing, secrets' = secrets, packages \subseteq packages', UNCHANGED <<routes, before, crowded>>, Kept,
         work[s].pc \notin {"delete", "installed", "discard", "applied"}, ~Install!InRoutes(s),
         pc \notin {"validate", "write", "reload", "applied"}, pc = "record" => work[s].inst \in packages'
  PROVE  InstallInv'
<1>1. /\ Only(s) /\ IsWork(work'[s]) /\ work'[s].pc = pc BY GoesOn
<1>2. ~Install!InRoutes(s)' BY <1>1 DEF Install!InRoutes
<1>3. RoutesInTurn' /\ Served' BY <1>1, <1>2, RoutesAside
<1>4. InstallTypes' /\ Numbered' /\ FilesKept' /\ OneRequest' /\ AppliedIsInstalled'
  BY GoesAside
<1> QED BY <1>3, <1>4 DEF InstallInv

LEMMA EndsElsewhere ==
  ASSUME InstallInv, NEW s \in Install!Slots, Install!Ends(s), work[s].pc \notin {"delete", "discard"}, ~Install!InRoutes(s),
         listing' = listing, secrets' = secrets, packages \subseteq packages', UNCHANGED <<routes, before, crowded>>, Kept
  PROVE  InstallInv'
<1>1. Only(s) /\ IsWork(work'[s]) /\ work'[s].kind = "none" /\ ~Install!InRoutes(s)'
  BY EndsIdle
<1>2. RoutesInTurn' /\ Served' BY <1>1, RoutesAside
<1>3. InstallTypes' /\ Numbered' /\ FilesKept' /\ OneRequest' /\ AppliedIsInstalled'
  BY EndsAside
<1> QED BY <1>2, <1>3 DEF InstallInv

LEMMA SnapshotKept ==
  ASSUME InstallInv, NEW s \in Install!Slots, Install!Snapshot(s)
  PROVE  InstallInv'
<1>1. /\ Works(s) /\ work[s].pc = "snapshot" /\ work[s].kind = "install" /\ ~Install!InRoutes(s)
  BY WorkAt DEF Install!Snapshot, Install!InRoutes, InstallPlaces
<1>2. UNCHANGED <<listing, secrets, routes, before, crowded>>
  BY DEF Install!Snapshot, Install!records, Install!caddyFiles
<1>3. CASE packages' = packages \cup {work[s].inst} /\ Install!Goes(s, "record") /\ UNCHANGED installSpent
  BY <1>1, <1>2, <1>3, FailsKeeps, GoesElsewhere DEF InstallPlaces
<1>4. CASE Install!Fails /\ Install!Ends(s) /\ UNCHANGED packages
  BY <1>1, <1>2, <1>4, FailsKeeps, EndsElsewhere
<1> QED BY <1>3, <1>4 DEF Install!Snapshot

LEMMA StartsKept ==
  ASSUME InstallInv, NEW s \in Install!Slots, Install!StartsAfterInstall(s)
  PROVE  InstallInv'
<1> DEFINE a == work[s].app
<1>1. /\ Works(s) /\ work[s].pc = "installed" /\ work[s].kind = "install" /\ ~Install!InRoutes(s) /\ IsWork(work[s]) /\ a \in Install!Apps
  BY WorkAt DEF Install!StartsAfterInstall, Install!InRoutes, InstallPlaces
<1>2. UNCHANGED <<listing, secrets, packages, routes, before, crowded, installSpent>>
  BY DEF Install!StartsAfterInstall, Install!records, Install!caddyFiles
<1>3. Kept BY <1>2, FailsKeeps
<1>4. CASE Install!Ends(s)
  BY <1>1, <1>2, <1>3, <1>4, EndsElsewhere
<1>5. CASE /\ Install!Installed(a)
           /\ work' = [work EXCEPT ![s].kind = "start", ![s].inst = listing[a].inst, ![s].pc = "build"]
  <2> DEFINE w == [work[s] EXCEPT !.kind = "start", !.inst = listing[a].inst, !.pc = "build"]
  <2>1. /\ DOMAIN w = {"kind", "pc", "job", "app", "inst", "next"} /\ w.kind = "start" /\ w.app = a
        /\ w.inst = listing[a].inst /\ w.pc = "build"
    BY <1>1 DEF IsWork
  <2>2. DOMAIN work = Install!Slots /\ listing[a].inst \in Nat
    BY <1>1 DEF InstallInv, InstallTypes
  <2>3. work' = [work EXCEPT ![s] = w] BY <1>5
  <2> HIDE DEF w, a
  <2>4. Only(s) /\ work'[s] = w BY <2>2, <2>3 DEF Only
  <2>5. IsWork(w) BY <1>1, <2>1, <2>2 DEF IsWork, InstallPlaces
  <2>6. listing[a].inst # Install!Nobody /\ Handles(s)' /\ ~Fresh(s)' /\ ~Install!InRoutes(s)'
    BY <1>5, <2>1, <2>4 DEF Install!Installed, Handles, Fresh, Install!InRoutes
  <2>7. work[s].app = a BY DEF a
  <2>8. InstallTypes' /\ Numbered' /\ FilesKept' /\ OneRequest' /\ AppliedIsInstalled'
    BY <1>1, <1>2, <1>3, <2>1, <2>4, <2>5, <2>6, <2>7, RecordsAside DEF Kept
  <2>9. RoutesInTurn' /\ Served'
    BY <1>1, <1>2, <2>1, <2>4, <2>5, <2>6, RoutesAside
  <2> QED BY <2>8, <2>9 DEF InstallInv
<1> QED BY <1>4, <1>5 DEF Install!StartsAfterInstall

LEMMA BuildsKept ==
  ASSUME InstallInv, NEW s \in Install!Slots, Install!BuildsImages(s)
  PROVE  InstallInv'
<1>1. /\ Works(s) /\ work[s].pc = "build" /\ work[s].kind = "start" /\ ~Install!InRoutes(s)
  BY WorkAt DEF Install!BuildsImages, Install!InRoutes, InstallPlaces
<1>2. UNCHANGED <<listing, secrets, packages, routes, before, crowded>> /\ Kept
  BY FailsKeeps DEF Install!BuildsImages, Install!records, Install!caddyFiles
<1>3. CASE Install!Goes(s, "run")
  BY <1>1, <1>2, <1>3, GoesElsewhere DEF InstallPlaces
<1>4. CASE Install!Ends(s)
  BY <1>1, <1>2, <1>4, EndsElsewhere
<1> QED BY <1>3, <1>4 DEF Install!BuildsImages

LEMMA RunsKept ==
  ASSUME InstallInv, NEW s \in Install!Slots, Install!RunsContainers(s)
  PROVE  InstallInv'
<1>1. /\ Works(s) /\ work[s].pc = "run" /\ work[s].kind = "start" /\ ~Install!InRoutes(s)
  BY WorkAt DEF Install!RunsContainers, Install!InRoutes, InstallPlaces
<1>2. UNCHANGED <<listing, secrets, packages, routes, before, crowded>> /\ Kept
  BY FailsKeeps DEF Install!RunsContainers, Install!records, Install!caddyFiles
<1>3. CASE Install!Goes(s, "routes")
  BY <1>1, <1>2, <1>3, GoesElsewhere DEF InstallPlaces
<1>4. CASE Install!Ends(s)
  BY <1>1, <1>2, <1>4, EndsElsewhere
<1> QED BY <1>3, <1>4 DEF Install!RunsContainers

LEMMA RemovesContainersKept ==
  ASSUME InstallInv, NEW s \in Install!Slots, Install!RemovesContainers(s)
  PROVE  InstallInv'
<1>1. /\ Works(s) /\ work[s].pc = "containers" /\ work[s].kind \in {"install", "uninstall"} /\ ~Install!InRoutes(s)
  BY WorkAt DEF Install!RemovesContainers, Install!InRoutes, InstallPlaces
<1>2. UNCHANGED <<listing, secrets, packages, routes, before, crowded>> /\ Kept
  BY FailsKeeps DEF Install!RemovesContainers, Install!records, Install!caddyFiles
<1>3. Install!Goes(s, IF work[s].kind = "uninstall" THEN "volumes" ELSE "routes")
  BY DEF Install!RemovesContainers
<1>4. CASE Install!Goes(s, "volumes") /\ work[s].kind = "uninstall"
  BY <1>1, <1>2, <1>4, GoesElsewhere DEF InstallPlaces
<1>5. CASE Install!Goes(s, "routes")
  BY <1>1, <1>2, <1>5, GoesElsewhere DEF InstallPlaces
<1> QED BY <1>3, <1>4, <1>5

LEMMA RemovesVolumesKept ==
  ASSUME InstallInv, NEW s \in Install!Slots, Install!RemovesVolumes(s)
  PROVE  InstallInv'
<1>1. /\ Works(s) /\ work[s].pc = "volumes" /\ work[s].kind = "uninstall" /\ ~Install!InRoutes(s)
  BY WorkAt DEF Install!RemovesVolumes, Install!InRoutes, InstallPlaces
<1>2. UNCHANGED <<listing, secrets, packages, routes, before, crowded>> /\ Kept
  BY FailsKeeps DEF Install!RemovesVolumes, Install!records, Install!caddyFiles
<1>3. CASE Install!Goes(s, "routes")
  BY <1>1, <1>2, <1>3, GoesElsewhere DEF InstallPlaces
<1>4. CASE Install!Ends(s)
  BY <1>1, <1>2, <1>4, EndsElsewhere
<1> QED BY <1>3, <1>4 DEF Install!RemovesVolumes

\* While the routes file is changed by one request at a time, nothing is newly crowded.
LEMMA CrowdedRoutes ==
  ASSUME NEW s \in Install!Slots, Install!CrowdsRoutes(s)
  PROVE  /\ crowded \cap Install!Apps \subseteq crowded'
         /\ \A a \in Install!Apps : a \notin crowded' => a \notin crowded /\ \A r \in Install!Slots \ {s} : ~Install!InRoutes(r)
BY DEF Install!CrowdsRoutes

\* The record's part of a step at the routes file.
LEMMA RoutesStepRecords ==
  ASSUME InstallInv, NEW s \in Install!Slots, Works(s), Install!CrowdsRoutes(s), UNCHANGED <<listing, secrets, packages>>, Kept,
         work[s].pc \notin {"delete", "installed"},
         \/ Install!Ends(s)
         \/ \E pc \in {"validate", "write", "reload", "applied", "discard"} :
              Only(s) /\ IsWork(work'[s]) /\ work'[s].kind = work[s].kind /\ work'[s].app = work[s].app
              /\ work'[s].inst = work[s].inst /\ work'[s].pc = pc
  PROVE  InstallTypes' /\ Numbered' /\ FilesKept' /\ OneRequest' /\ AppliedIsInstalled'
<1>1. crowded \cap Install!Apps \subseteq crowded' BY CrowdedRoutes
<1>2. CASE Install!Ends(s)
  BY <1>1, <1>2, EndsAside
<1>3. CASE /\ Only(s) /\ IsWork(work'[s]) /\ work'[s].kind = work[s].kind /\ work'[s].app = work[s].app
           /\ work'[s].inst = work[s].inst /\ work'[s].pc \in {"validate", "write", "reload", "applied", "discard"}
  <2>1. (Fresh(s)' => Fresh(s)) /\ (Handles(s)' => Handles(s)) /\ work'[s].pc # "record"
    BY <1>3 DEF Fresh, Handles
  <2> QED BY <1>1, <1>3, <2>1, RecordsAside DEF Kept
<1> QED BY <1>2, <1>3

LEMMA ReadsKept ==
  ASSUME InstallInv, NEW s \in Install!Slots, Install!ReadsRoutes(s)
  PROVE  InstallInv'
<1> DEFINE a == work[s].app
<1>1. /\ Works(s) /\ work[s].pc = "routes" /\ work[s].kind \in {"install", "start", "uninstall"}
      /\ ~Install!InRoutes(s) /\ IsWork(work[s]) /\ a \in Install!Apps
  BY WorkAt DEF Install!ReadsRoutes, Install!InRoutes, InstallPlaces
<1>2. UNCHANGED <<listing, secrets, packages, routes, before>> /\ Kept /\ Install!CrowdsRoutes(s)
  BY FailsKeeps DEF Install!ReadsRoutes, Install!records
<1>3. CASE Install!AppliesTo(s) = routes /\ Install!Goes(s, Install!AfterRoutes(s))
  <2> DEFINE pc == Install!AfterRoutes(s)
  <2>1. pc \in InstallPlaces(work[s].kind) /\ pc \in {"applied", "discard"} /\ (pc = "applied" <=> work[s].kind = "start")
    BY <1>1 DEF Install!AfterRoutes, InstallPlaces
  <2>2. /\ Only(s) /\ IsWork(work'[s]) /\ work'[s].kind = work[s].kind /\ work'[s].app = work[s].app
        /\ work'[s].inst = work[s].inst /\ work'[s].pc = pc
    BY <1>1, <1>3, <2>1, GoesOn
  <2> HIDE DEF pc
  <2>3. InstallTypes' /\ Numbered' /\ FilesKept' /\ OneRequest' /\ AppliedIsInstalled'
    BY <1>1, <1>2, <2>1, <2>2, RoutesStepRecords
  <2>4. work[s].kind = "start" => a \in routes
    BY <1>3 DEF Install!AppliesTo
  <2>5. RoutesInTurn'
    <3> SUFFICES ASSUME NEW b \in Install!Apps, b \notin crowded'
                 PROVE  /\ \A r, q \in Install!Slots : Install!InRoutes(r)' /\ Install!InRoutes(q)' => r = q
                        /\ \A r \in Install!Slots : work'[r].pc \in {"validate", "write"} => work'[r].next = Install!AppliesTo(r)'
                        /\ \A r \in Install!Slots : work'[r].pc = "reload" =>
                             before.there /\ \A c \in Install!Apps \ {work'[r].app} : c \in before.serves <=> c \in routes
                        /\ before.there /\ (\A r \in Install!Slots : work'[r].pc # "reload") => before.serves = routes
      BY <1>2 DEF RoutesInTurn
    <3>1. b \notin crowded /\ \A r \in Install!Slots \ {s} : ~Install!InRoutes(r)
      BY <1>2, CrowdedRoutes
    <3>2. \A r \in Install!Slots : ~Install!InRoutes(r)' /\ work'[r].pc \notin {"validate", "write", "reload"}
      BY <2>1, <2>2, <3>1 DEF Install!InRoutes, Only
    <3>3. before.there => before.serves = routes
      BY <1>1, <3>1 DEF RoutesInTurn, InstallInv, Install!InRoutes
    <3> QED BY <3>2, <3>3
  <2>6. Served'
    <3> SUFFICES ASSUME NEW b \in Install!Apps, b \notin crowded'
                 PROVE  /\ listing[b].applied => \/ b \in routes
                           \/ \E r \in Install!Slots : /\ work'[r].kind = "uninstall" /\ work'[r].app = b
                                                       /\ work'[r].pc \in {"reload", "discard", "delete"}
                        /\ \A r \in Install!Slots : Works(r)' /\ work'[r].app = b =>
                             /\ work'[r].kind = "start" /\ work'[r].pc \in {"reload", "applied"} => b \in routes
                             /\ work'[r].pc = "reload" /\ listing[b].applied => b \in before.serves
      BY <1>2 DEF Served
    <3>1. b \notin crowded BY <1>2, CrowdedRoutes
    <3>2. listing[b].applied => \/ b \in routes
                                \/ \E r \in Install!Slots : /\ work'[r].kind = "uninstall" /\ work'[r].app = b
                                                            /\ work'[r].pc \in {"reload", "discard", "delete"}
      BY <1>1, <2>2, <3>1 DEF Served, InstallInv, Only
    <3>3. ASSUME NEW r \in Install!Slots, Works(r)', work'[r].app = b
          PROVE  /\ work'[r].kind = "start" /\ work'[r].pc \in {"reload", "applied"} => b \in routes
                 /\ work'[r].pc = "reload" /\ listing[b].applied => b \in before.serves
      <4>1. CASE r = s
        BY <2>1, <2>2, <2>4, <3>3, <4>1
      <4>2. CASE r # s
        BY <2>2, <3>1, <3>3, <4>2 DEF Served, InstallInv, Only, Works
      <4> QED BY <4>1, <4>2
    <3> QED BY <3>2, <3>3
  <2> QED BY <2>3, <2>5, <2>6 DEF InstallInv
<1>4. CASE Install!AppliesTo(s) # routes /\ work' = [work EXCEPT ![s].next = Install!AppliesTo(s), ![s].pc = "validate"]
  <2> DEFINE w == [work[s] EXCEPT !.next = Install!AppliesTo(s), !.pc = "validate"]
  <2>1. /\ DOMAIN w = {"kind", "pc", "job", "app", "inst", "next"} /\ w.kind = work[s].kind /\ w.app = a
        /\ w.inst = work[s].inst /\ w.pc = "validate" /\ w.next = Install!AppliesTo(s)
    BY <1>1 DEF IsWork
  <2>2. DOMAIN work = Install!Slots BY DEF InstallInv, InstallTypes
  <2>3. work' = [work EXCEPT ![s] = w] BY <1>4
  <2> HIDE DEF w
  <2>4. Only(s) /\ work'[s] = w BY <2>2, <2>3 DEF Only
  <2>5. IsWork(w) BY <1>1, <2>1 DEF IsWork, InstallPlaces
  <2>6. InstallTypes' /\ Numbered' /\ FilesKept' /\ OneRequest' /\ AppliedIsInstalled'
    BY <1>1, <1>2, <2>1, <2>4, <2>5, RoutesStepRecords
  <2>7. RoutesInTurn'
    <3> SUFFICES ASSUME NEW b \in Install!Apps, b \notin crowded'
                 PROVE  /\ \A r, q \in Install!Slots : Install!InRoutes(r)' /\ Install!InRoutes(q)' => r = q
                        /\ \A r \in Install!Slots : work'[r].pc \in {"validate", "write"} => work'[r].next = Install!AppliesTo(r)'
                        /\ \A r \in Install!Slots : work'[r].pc = "reload" =>
                             before.there /\ \A c \in Install!Apps \ {work'[r].app} : c \in before.serves <=> c \in routes
                        /\ before.there /\ (\A r \in Install!Slots : work'[r].pc # "reload") => before.serves = routes
      BY <1>2 DEF RoutesInTurn
    <3>1. b \notin crowded /\ \A r \in Install!Slots \ {s} : ~Install!InRoutes(r)
      BY <1>2, CrowdedRoutes
    <3>2. \A r \in Install!Slots \ {s} : ~Install!InRoutes(r)' /\ work'[r].pc \notin {"validate", "write", "reload"}
      BY <2>4, <3>1 DEF Install!InRoutes, Only
    <3>3. Install!AppliesTo(s)' = Install!AppliesTo(s)
      BY <1>2, <2>1, <2>4 DEF Install!AppliesTo
    <3>4. before.there => before.serves = routes
      BY <1>1, <3>1 DEF RoutesInTurn, InstallInv, Install!InRoutes
    <3> QED BY <2>1, <2>4, <3>2, <3>3, <3>4
  <2>8. Served'
    <3> SUFFICES ASSUME NEW b \in Install!Apps, b \notin crowded'
                 PROVE  /\ listing[b].applied => \/ b \in routes
                           \/ \E r \in Install!Slots : /\ work'[r].kind = "uninstall" /\ work'[r].app = b
                                                       /\ work'[r].pc \in {"reload", "discard", "delete"}
                        /\ \A r \in Install!Slots : Works(r)' /\ work'[r].app = b =>
                             /\ work'[r].kind = "start" /\ work'[r].pc \in {"reload", "applied"} => b \in routes
                             /\ work'[r].pc = "reload" /\ listing[b].applied => b \in before.serves
      BY <1>2 DEF Served
    <3>1. b \notin crowded BY <1>2, CrowdedRoutes
    <3>2. listing[b].applied => \/ b \in routes
                                \/ \E r \in Install!Slots : /\ work'[r].kind = "uninstall" /\ work'[r].app = b
                                                            /\ work'[r].pc \in {"reload", "discard", "delete"}
      BY <1>1, <2>4, <3>1 DEF Served, InstallInv, Only
    <3>3. ASSUME NEW r \in Install!Slots, Works(r)', work'[r].app = b
          PROVE  /\ work'[r].kind = "start" /\ work'[r].pc \in {"reload", "applied"} => b \in routes
                 /\ work'[r].pc = "reload" /\ listing[b].applied => b \in before.serves
      <4>1. CASE r = s
        BY <2>1, <2>4, <3>3, <4>1
      <4>2. CASE r # s
        BY <2>4, <3>1, <3>3, <4>2 DEF Served, InstallInv, Only, Works
      <4> QED BY <4>1, <4>2
    <3> QED BY <3>2, <3>3
  <2> QED BY <2>6, <2>7, <2>8 DEF InstallInv
<1> QED BY <1>3, <1>4 DEF Install!ReadsRoutes

LEMMA ValidatesKept ==
  ASSUME InstallInv, NEW s \in Install!Slots, Install!ValidatesRoutes(s)
  PROVE  InstallInv'
<1> DEFINE a == work[s].app
<1>1. /\ Works(s) /\ work[s].pc = "validate" /\ work[s].kind \in {"install", "start", "uninstall"}
      /\ IsWork(work[s]) /\ a \in Install!Apps
  BY WorkAt DEF Install!ValidatesRoutes
<1>2. UNCHANGED <<listing, secrets, packages, before>> /\ Kept /\ Install!CrowdsRoutes(s)
  BY FailsKeeps DEF Install!ValidatesRoutes, Install!records
<1>3. \/ Install!Goes(s, "write") /\ UNCHANGED routes
      \/ Install!Ends(s) /\ Install!Undone(s)
  BY DEF Install!ValidatesRoutes
<1>4. /\ Only(s) /\ IsWork(work'[s])
      /\ \/ /\ work'[s].kind = work[s].kind /\ work'[s].app = work[s].app /\ work'[s].inst = work[s].inst
            /\ work'[s].pc = "write" /\ work'[s].next = work[s].next
         \/ Install!Ends(s) /\ work'[s].kind = "none" /\ work'[s].pc = "none" /\ ~Works(s)'
  <2>1. CASE Install!Goes(s, "write")
    <3>1. "write" \in InstallPlaces(work[s].kind)
      BY <1>1 DEF InstallPlaces
    <3> QED BY <1>1, <2>1, <3>1, GoesOn
  <2>2. CASE Install!Ends(s)
    BY <2>2, EndsIdle
  <2> QED BY <1>3, <2>1, <2>2
<1>5. InstallTypes' /\ Numbered' /\ FilesKept' /\ OneRequest' /\ AppliedIsInstalled'
  BY <1>1, <1>2, <1>4, RoutesStepRecords
<1>6. ASSUME NEW b \in Install!Apps, b \notin crowded'
      PROVE  /\ b \notin crowded /\ \A r \in Install!Slots \ {s} : ~Install!InRoutes(r)
             /\ before.there => before.serves = routes
             /\ routes' = routes /\ work[s].next = Install!AppliesTo(s)
  <2>1. b \notin crowded /\ \A r \in Install!Slots \ {s} : ~Install!InRoutes(r)
    BY <1>2, <1>6, CrowdedRoutes
  <2>2. (before.there => before.serves = routes) /\ work[s].next = Install!AppliesTo(s)
    BY <1>1, <2>1 DEF RoutesInTurn, InstallInv, Install!InRoutes
  <2> QED BY <1>3, <2>1, <2>2 DEF Install!Undone
<1>7. RoutesInTurn'
  <2> SUFFICES ASSUME NEW b \in Install!Apps, b \notin crowded'
               PROVE  /\ \A r, q \in Install!Slots : Install!InRoutes(r)' /\ Install!InRoutes(q)' => r = q
                      /\ \A r \in Install!Slots : work'[r].pc \in {"validate", "write"} => work'[r].next = Install!AppliesTo(r)'
                      /\ \A r \in Install!Slots : work'[r].pc = "reload" =>
                           before.there /\ \A c \in Install!Apps \ {work'[r].app} : c \in before.serves <=> c \in routes'
                      /\ before.there /\ (\A r \in Install!Slots : work'[r].pc # "reload") => before.serves = routes'
    BY <1>2 DEF RoutesInTurn
  <2>1. \A r \in Install!Slots \ {s} : ~Install!InRoutes(r)' /\ work'[r].pc \notin {"validate", "write", "reload"}
    BY <1>4, <1>6 DEF Install!InRoutes, Only
  <2>2. work'[s].pc = "write" => Install!AppliesTo(s)' = Install!AppliesTo(s) /\ work'[s].next = Install!AppliesTo(s)
    BY <1>4, <1>6 DEF Install!AppliesTo
  <2> QED BY <1>4, <1>6, <2>1, <2>2
<1>8. Served'
  <2> SUFFICES ASSUME NEW b \in Install!Apps, b \notin crowded'
               PROVE  /\ listing[b].applied => \/ b \in routes'
                         \/ \E r \in Install!Slots : /\ work'[r].kind = "uninstall" /\ work'[r].app = b
                                                     /\ work'[r].pc \in {"reload", "discard", "delete"}
                      /\ \A r \in Install!Slots : Works(r)' /\ work'[r].app = b =>
                           /\ work'[r].kind = "start" /\ work'[r].pc \in {"reload", "applied"} => b \in routes'
                           /\ work'[r].pc = "reload" /\ listing[b].applied => b \in before.serves
    BY <1>2 DEF Served
  <2>1. b \notin crowded /\ routes' = routes BY <1>6
  <2>2. listing[b].applied => \/ b \in routes'
                              \/ \E r \in Install!Slots : /\ work'[r].kind = "uninstall" /\ work'[r].app = b
                                                          /\ work'[r].pc \in {"reload", "discard", "delete"}
    BY <1>1, <1>4, <2>1 DEF Served, InstallInv, Only
  <2>3. ASSUME NEW r \in Install!Slots, Works(r)', work'[r].app = b
        PROVE  /\ work'[r].kind = "start" /\ work'[r].pc \in {"reload", "applied"} => b \in routes'
               /\ work'[r].pc = "reload" /\ listing[b].applied => b \in before.serves
    <3>1. CASE r = s
      BY <1>4, <2>3, <3>1
    <3>2. CASE r # s
      BY <1>4, <2>1, <2>3, <3>2 DEF Served, InstallInv, Only, Works
    <3> QED BY <3>1, <3>2
  <2> QED BY <2>2, <2>3
<1> QED BY <1>5, <1>7, <1>8 DEF InstallInv

LEMMA WritesKept ==
  ASSUME InstallInv, NEW s \in Install!Slots, Install!WritesRoutes(s)
  PROVE  InstallInv'
<1> DEFINE a == work[s].app
<1>1. /\ Works(s) /\ work[s].pc = "write" /\ work[s].kind \in {"install", "start", "uninstall"}
      /\ IsWork(work[s]) /\ a \in Install!Apps
  BY WorkAt DEF Install!WritesRoutes
<1>2. UNCHANGED <<listing, secrets, packages>> /\ Kept /\ Install!CrowdsRoutes(s)
  BY FailsKeeps DEF Install!WritesRoutes, Install!records
<1>3. before' = Install!File(routes) /\ routes' = work[s].next /\ Install!Goes(s, "reload")
  BY DEF Install!WritesRoutes
<1>4. /\ Only(s) /\ IsWork(work'[s]) /\ work'[s].kind = work[s].kind /\ work'[s].app = a
      /\ work'[s].inst = work[s].inst /\ work'[s].pc = "reload"
  <2>1. "reload" \in InstallPlaces(work[s].kind)
    BY <1>1 DEF InstallPlaces
  <2> QED BY <1>1, <1>3, <2>1, GoesOn
<1>5. InstallTypes' /\ Numbered' /\ FilesKept' /\ OneRequest' /\ AppliedIsInstalled'
  BY <1>1, <1>2, <1>4, RoutesStepRecords
<1>6. ASSUME NEW b \in Install!Apps, b \notin crowded'
      PROVE  /\ b \notin crowded /\ \A r \in Install!Slots \ {s} : ~Install!InRoutes(r)
             /\ routes' = Install!AppliesTo(s) /\ before'.there /\ before'.serves = routes
  <2>1. b \notin crowded /\ \A r \in Install!Slots \ {s} : ~Install!InRoutes(r)
    BY <1>2, <1>6, CrowdedRoutes
  <2>2. work[s].next = Install!AppliesTo(s)
    BY <1>1, <2>1 DEF RoutesInTurn, InstallInv
  <2> QED BY <1>3, <2>1, <2>2 DEF Install!File
<1>7. RoutesInTurn'
  <2> SUFFICES ASSUME NEW b \in Install!Apps, b \notin crowded'
               PROVE  /\ \A r, q \in Install!Slots : Install!InRoutes(r)' /\ Install!InRoutes(q)' => r = q
                      /\ \A r \in Install!Slots : work'[r].pc \in {"validate", "write"} => work'[r].next = Install!AppliesTo(r)'
                      /\ \A r \in Install!Slots : work'[r].pc = "reload" =>
                           before'.there /\ \A c \in Install!Apps \ {work'[r].app} : c \in before'.serves <=> c \in routes'
                      /\ before'.there /\ (\A r \in Install!Slots : work'[r].pc # "reload") => before'.serves = routes'
    BY <1>2 DEF RoutesInTurn
  <2>1. \A r \in Install!Slots \ {s} : ~Install!InRoutes(r)' /\ work'[r].pc \notin {"validate", "write", "reload"}
    BY <1>4, <1>6 DEF Install!InRoutes, Only
  <2>2. \A c \in Install!Apps \ {a} : c \in before'.serves <=> c \in routes'
    BY <1>6 DEF Install!AppliesTo
  <2> QED BY <1>4, <1>6, <2>1, <2>2
<1>8. Served'
  <2> SUFFICES ASSUME NEW b \in Install!Apps, b \notin crowded'
               PROVE  /\ listing[b].applied => \/ b \in routes'
                         \/ \E r \in Install!Slots : /\ work'[r].kind = "uninstall" /\ work'[r].app = b
                                                     /\ work'[r].pc \in {"reload", "discard", "delete"}
                      /\ \A r \in Install!Slots : Works(r)' /\ work'[r].app = b =>
                           /\ work'[r].kind = "start" /\ work'[r].pc \in {"reload", "applied"} => b \in routes'
                           /\ work'[r].pc = "reload" /\ listing[b].applied => b \in before'.serves
    BY <1>2 DEF Served
  <2>1. /\ b \notin crowded /\ routes' = Install!AppliesTo(s) /\ before'.serves = routes
        /\ \A c \in Install!Apps \ {a} : c \in routes' <=> c \in routes
    BY <1>6 DEF Install!AppliesTo
  <2>2. /\ listing[b].applied => \/ b \in routes
                                 \/ \E r \in Install!Slots : /\ work[r].kind = "uninstall" /\ work[r].app = b
                                                             /\ work[r].pc \in {"reload", "discard", "delete"}
        /\ \A r \in Install!Slots : Works(r) /\ work[r].app = b /\ work[r].kind = "start"
                                      /\ work[r].pc \in {"reload", "applied"} => b \in routes
    BY <2>1 DEF Served, InstallInv
  <2>3. CASE b # a
    <3>1. listing[b].applied => \/ b \in routes'
                                \/ \E r \in Install!Slots : /\ work'[r].kind = "uninstall" /\ work'[r].app = b
                                                            /\ work'[r].pc \in {"reload", "discard", "delete"}
      BY <1>4, <2>1, <2>2, <2>3 DEF Only
    <3>2. ASSUME NEW r \in Install!Slots, Works(r)', work'[r].app = b
          PROVE  /\ work'[r].kind = "start" /\ work'[r].pc \in {"reload", "applied"} => b \in routes'
                 /\ work'[r].pc # "reload"
      <4>1. r # s /\ work'[r] = work[r] /\ Works(r)
        BY <1>4, <2>3, <3>2 DEF Only, Works
      <4>2. work[r].pc # "reload" BY <1>6, <4>1 DEF Install!InRoutes
      <4> QED BY <2>1, <2>2, <2>3, <3>2, <4>1, <4>2
    <3> QED BY <3>1, <3>2
  <2>4. CASE b = a
    <3>1. \A r \in Install!Slots \ {s} : Works(r) => work[r].app # a
      BY <1>1, <2>1, <2>4 DEF OneRequest, InstallInv
    <3>2. listing[b].applied => b \in routes
      BY <1>1, <2>2, <2>4, <3>1 DEF Works
    <3>3. work[s].kind = "install" => ~listing[b].applied
      BY <1>1, <2>1, <2>4 DEF OneRequest, InstallInv, Fresh, AppliedIsInstalled
    <3>4. work[s].kind = "start" => b \in routes'
      BY <2>1, <2>4 DEF Install!AppliesTo
    <3>5. listing[b].applied => b \in routes' \/ work[s].kind = "uninstall"
      BY <1>1, <3>3, <3>4
    <3>6. ASSUME NEW r \in Install!Slots, Works(r)', work'[r].app = b
          PROVE  r = s
      BY <1>4, <2>4, <3>1, <3>6 DEF Only, Works
    <3> QED BY <1>4, <2>1, <2>4, <3>2, <3>4, <3>5, <3>6
  <2> QED BY <2>3, <2>4
<1> QED BY <1>5, <1>7, <1>8 DEF InstallInv

LEMMA ReloadsKept ==
  ASSUME InstallInv, NEW s \in Install!Slots, Install!ReloadsCaddy(s)
  PROVE  InstallInv'
<1> DEFINE a == work[s].app
<1>1. /\ Works(s) /\ work[s].pc = "reload" /\ work[s].kind \in {"install", "start", "uninstall"}
      /\ IsWork(work[s]) /\ a \in Install!Apps
  BY WorkAt DEF Install!ReloadsCaddy
<1>2. UNCHANGED <<listing, secrets, packages>> /\ Kept /\ Install!CrowdsRoutes(s)
  BY FailsKeeps DEF Install!ReloadsCaddy, Install!records
<1>3. \/ Install!Goes(s, Install!AfterRoutes(s)) /\ before' = Install!NoFile /\ UNCHANGED routes
      \/ Install!Ends(s) /\ Install!Undone(s) /\ UNCHANGED before
  BY DEF Install!ReloadsCaddy
<1>4. /\ Only(s) /\ IsWork(work'[s])
      /\ \/ /\ work'[s].kind = work[s].kind /\ work'[s].app = work[s].app /\ work'[s].inst = work[s].inst
            /\ work'[s].pc \in {"applied", "discard"} /\ before' = Install!NoFile /\ UNCHANGED routes
         \/ Install!Ends(s) /\ work'[s].kind = "none" /\ work'[s].pc = "none" /\ ~Works(s)' /\ Install!Undone(s) /\ UNCHANGED before
  <2>1. CASE Install!Goes(s, Install!AfterRoutes(s)) /\ before' = Install!NoFile /\ UNCHANGED routes
    <3>1. Install!AfterRoutes(s) \in InstallPlaces(work[s].kind) /\ Install!AfterRoutes(s) \in {"applied", "discard"}
      BY <1>1 DEF Install!AfterRoutes, InstallPlaces
    <3> QED BY <1>1, <2>1, <3>1, GoesOn
  <2>2. CASE Install!Ends(s) /\ Install!Undone(s) /\ UNCHANGED before
    BY <2>2, EndsIdle
  <2> QED BY <1>3, <2>1, <2>2
<1>5. InstallTypes' /\ Numbered' /\ FilesKept' /\ OneRequest' /\ AppliedIsInstalled'
  BY <1>1, <1>2, <1>4, RoutesStepRecords
<1>6. ASSUME NEW b \in Install!Apps, b \notin crowded'
      PROVE  /\ b \notin crowded /\ \A r \in Install!Slots \ {s} : ~Install!InRoutes(r)
             /\ before.there /\ \A c \in Install!Apps \ {a} : c \in before.serves <=> c \in routes
             /\ \/ ~before'.there
                \/ before'.serves = routes'
             /\ \A c \in Install!Apps \ {a} : c \in routes' <=> c \in routes
  <2>1. b \notin crowded /\ \A r \in Install!Slots \ {s} : ~Install!InRoutes(r)
    BY <1>2, <1>6, CrowdedRoutes
  <2>2. before.there /\ \A c \in Install!Apps \ {a} : c \in before.serves <=> c \in routes
    BY <1>1, <2>1 DEF RoutesInTurn, InstallInv
  <2> QED BY <1>4, <2>1, <2>2 DEF Install!Undone, Install!NoFile
<1>7. RoutesInTurn'
  <2> SUFFICES ASSUME NEW b \in Install!Apps, b \notin crowded'
               PROVE  /\ \A r, q \in Install!Slots : Install!InRoutes(r)' /\ Install!InRoutes(q)' => r = q
                      /\ \A r \in Install!Slots : work'[r].pc \in {"validate", "write"} => work'[r].next = Install!AppliesTo(r)'
                      /\ \A r \in Install!Slots : work'[r].pc = "reload" =>
                           before'.there /\ \A c \in Install!Apps \ {work'[r].app} : c \in before'.serves <=> c \in routes'
                      /\ before'.there /\ (\A r \in Install!Slots : work'[r].pc # "reload") => before'.serves = routes'
    BY <1>2 DEF RoutesInTurn
  <2>1. \A r \in Install!Slots : ~Install!InRoutes(r)' /\ work'[r].pc \notin {"validate", "write", "reload"}
    BY <1>4, <1>6 DEF Install!InRoutes, Only
  <2> QED BY <1>6, <2>1
<1>8. Served'
  <2> SUFFICES ASSUME NEW b \in Install!Apps, b \notin crowded'
               PROVE  /\ listing[b].applied => \/ b \in routes'
                         \/ \E r \in Install!Slots : /\ work'[r].kind = "uninstall" /\ work'[r].app = b
                                                     /\ work'[r].pc \in {"reload", "discard", "delete"}
                      /\ \A r \in Install!Slots : Works(r)' /\ work'[r].app = b =>
                           /\ work'[r].kind = "start" /\ work'[r].pc \in {"reload", "applied"} => b \in routes'
                           /\ work'[r].pc # "reload"
    BY <1>2 DEF Served
  <2>1. b \notin crowded /\ \A r \in Install!Slots : work'[r].pc # "reload"
    BY <1>4, <1>6 DEF Install!InRoutes, Only
  <2>2. /\ listing[b].applied => \/ b \in routes
                                 \/ \E r \in Install!Slots : /\ work[r].kind = "uninstall" /\ work[r].app = b
                                                             /\ work[r].pc \in {"reload", "discard", "delete"}
        /\ \A r \in Install!Slots : Works(r) /\ work[r].app = b =>
             /\ work[r].kind = "start" /\ work[r].pc \in {"reload", "applied"} => b \in routes
             /\ work[r].pc = "reload" /\ listing[b].applied => b \in before.serves
    BY <2>1 DEF Served, InstallInv
  <2>3. CASE b # a
    <3>1. b \in routes' <=> b \in routes BY <1>6, <2>3
    <3>2. listing[b].applied => \/ b \in routes'
                                \/ \E r \in Install!Slots : /\ work'[r].kind = "uninstall" /\ work'[r].app = b
                                                            /\ work'[r].pc \in {"reload", "discard", "delete"}
      BY <1>4, <2>2, <2>3, <3>1 DEF Only
    <3>3. ASSUME NEW r \in Install!Slots, Works(r)', work'[r].app = b, work'[r].kind = "start", work'[r].pc \in {"reload", "applied"}
          PROVE  b \in routes'
      <4>1. r # s /\ work'[r] = work[r] /\ Works(r)
        BY <1>4, <2>3, <3>3 DEF Only, Works
      <4> QED BY <2>2, <3>1, <3>3, <4>1
    <3> QED BY <2>1, <3>2, <3>3
  <2>4. CASE b = a
    <3>1. \A r \in Install!Slots \ {s} : Works(r) => work[r].app # a
      BY <1>1, <2>1, <2>4 DEF OneRequest, InstallInv
    <3>2. /\ listing[b].applied => b \in before.serves /\ (b \in routes \/ work[s].kind = "uninstall")
          /\ work[s].kind = "start" => b \in routes
      BY <1>1, <2>2, <2>4, <3>1 DEF Works
    <3>3. CASE UNCHANGED routes /\ work'[s].kind = work[s].kind /\ work'[s].app = a /\ work'[s].pc \in {"applied", "discard"}
      <4>0. work[s].kind = "uninstall" => work'[s].pc = "discard"
        BY <1>4, <3>3 DEF IsWork, InstallPlaces
      <4>1. listing[b].applied => \/ b \in routes'
                                  \/ \E r \in Install!Slots : /\ work'[r].kind = "uninstall" /\ work'[r].app = b
                                                              /\ work'[r].pc \in {"reload", "discard", "delete"}
        BY <2>4, <3>2, <3>3, <4>0
      <4>2. ASSUME NEW r \in Install!Slots, Works(r)', work'[r].app = b
            PROVE  r = s
        BY <1>4, <2>4, <3>1, <4>2 DEF Only, Works
      <4> QED BY <2>1, <3>2, <3>3, <4>1, <4>2
    <3>4. CASE Install!Undone(s) /\ ~Works(s)'
      <4>1. routes' = before.serves BY <1>6, <3>4 DEF Install!Undone
      <4>2. ASSUME NEW r \in Install!Slots, Works(r)', work'[r].app = b
            PROVE  FALSE
        BY <1>4, <2>4, <3>1, <3>4, <4>2 DEF Only, Works
      <4> QED BY <3>2, <4>1, <4>2
    <3> QED BY <1>4, <3>3, <3>4
  <2> QED BY <2>3, <2>4
<1> QED BY <1>5, <1>7, <1>8 DEF InstallInv

\* The last step every install shares.
LEMMA CompletesKept ==
  ASSUME InstallInv, NEW s \in Install!Slots, Install!CompleteInstall(s)
  PROVE  InstallInv'
<1> DEFINE a == work[s].app
           i == work[s].inst
<1>1. /\ Works(s) /\ work[s].pc = "record" /\ work[s].kind = "install" /\ Fresh(s)
      /\ ~Install!InRoutes(s) /\ IsWork(work[s]) /\ a \in Install!Apps /\ ~Handles(s)
  BY WorkAt DEF Install!CompleteInstall, Install!InRoutes, InstallPlaces, Fresh, Handles
<1>2. UNCHANGED <<packages, routes, before, crowded>> /\ Kept
  BY FailsKeeps DEF Install!CompleteInstall, Install!caddyFiles
<1>3. /\ i # Install!Nobody /\ i <= installSpent.install /\ i \in Nat /\ i \in packages
      /\ \A b \in Install!Apps : i # listing[b].inst
      /\ \A r \in Install!Slots \ {s} : Works(r) => i # work[r].inst
  BY <1>1 DEF InstallInv, Numbered, FilesKept, Install!At, IsWork, Works
<1>4. CASE /\ ~Install!Installed(a) /\ Install!InstallAppInstance(a, i) /\ secrets' = secrets \cup {i}
           /\ work' = [work EXCEPT ![s] = IF @.job THEN [@ EXCEPT !.pc = "installed"] ELSE Install!Idle]
  <2>1. Install!Goes(s, "installed") \/ Install!Ends(s)
    BY <1>4 DEF Install!Goes, Install!Ends
  <2>2. /\ Only(s) /\ IsWork(work'[s]) /\ ~Fresh(s)' /\ ~Handles(s)' /\ ~Install!InRoutes(s)'
        /\ work'[s].kind \in {"install", "none"} /\ work'[s].inst \in {i, Install!Nobody} /\ work'[s].pc \in {"installed", "none"}
        /\ Works(s)' => work'[s].app = a
    <3>1. CASE Install!Goes(s, "installed")
      <4>1. /\ Only(s) /\ IsWork(work'[s]) /\ work'[s].kind = "install" /\ work'[s].app = a
            /\ work'[s].inst = i /\ work'[s].pc = "installed"
        BY <1>1, <3>1, GoesOn DEF InstallPlaces
      <4> QED BY <4>1 DEF Fresh, Handles, Install!InRoutes
    <3>2. CASE Install!Ends(s)
      BY <3>2, EndsIdle
    <3> QED BY <2>1, <3>1, <3>2
  <2>3. /\ listing' \in [Install!Apps -> [inst : Nat, applied : BOOLEAN]] /\ listing'[a].inst = i /\ ~listing'[a].applied
        /\ \A b \in Install!Apps \ {a} : listing'[b] = listing[b]
    BY <1>1, <1>3, <1>4 DEF InstallInv, InstallTypes, Install!InstallAppInstance
  <2> HIDE DEF a, i
  <2>4. InstallTypes'
    BY <1>2, <2>2, <2>3 DEF InstallInv, InstallTypes, Kept, Only
  <2>5. Numbered'
    <3>1. \A b \in Install!Apps : listing'[b].inst <= installSpent'.install
      BY <1>2, <1>3, <2>3 DEF InstallInv, Numbered, Kept
    <3>2. \A r \in Install!Slots : work'[r].inst <= installSpent'.install
      BY <1>2, <1>3, <2>2 DEF InstallInv, InstallTypes, Numbered, Kept, Only, Install!Nobody
    <3>3. \A b, c \in Install!Apps : b # c /\ listing'[b].inst # Install!Nobody => listing'[b].inst # listing'[c].inst
      BY <1>3, <2>3 DEF InstallInv, Numbered
    <3>4. \A r \in Install!Slots, b \in Install!Apps : Fresh(r)' => work'[r].inst # Install!Nobody /\ work'[r].inst # listing'[b].inst
      BY <1>1, <1>3, <2>2, <2>3 DEF InstallInv, Numbered, Only, Fresh, Works
    <3>5. \A r \in Install!Slots, b \in Install!Apps : Handles(r)' /\ b # work'[r].app => work'[r].inst # listing'[b].inst
      BY <1>1, <1>3, <2>2, <2>3 DEF InstallInv, Numbered, Only, Handles, Works
    <3>6. \A r \in Install!Slots : Handles(r)' => work'[r].inst # Install!Nobody
      BY <2>2 DEF InstallInv, Numbered, Only, Handles
    <3>7. \A r, q \in Install!Slots : r # q /\ Fresh(r)' /\ Works(q)' => work'[r].inst # work'[q].inst
      BY <1>1, <1>3, <2>2, <3>4 DEF InstallInv, Numbered, Only, Fresh, Works, i
    <3> QED BY <3>1, <3>2, <3>3, <3>4, <3>5, <3>6, <3>7 DEF Numbered
  <2>6. FilesKept'
    <3>1. \A r \in Install!Slots : Install!At(r, "record")' => work'[r].inst \in packages'
      BY <1>2, <2>2 DEF InstallInv, FilesKept, Install!At, Only
    <3>2. ASSUME NEW b \in Install!Apps, listing'[b].inst # Install!Nobody
          PROVE  /\ listing'[b].inst \in secrets'
                 /\ \/ listing'[b].inst \in packages'
                    \/ \E r \in Install!Slots : Install!At(r, "delete")' /\ work'[r].app = b /\ work'[r].inst = listing'[b].inst
      <4>1. CASE b = a
        BY <1>2, <1>3, <1>4, <2>3, <4>1 DEF i
      <4>2. CASE b # a
        <5>1. Install!Installed(b) /\ listing'[b].inst = listing[b].inst
          BY <2>3, <3>2, <4>2 DEF Install!Installed
        <5>2. /\ listing[b].inst \in secrets
              /\ \/ listing[b].inst \in packages
                 \/ \E r \in Install!Slots : Install!At(r, "delete") /\ work[r].app = b /\ work[r].inst = listing[b].inst
          BY <5>1 DEF InstallInv, FilesKept
        <5>3. \A r \in Install!Slots : Install!At(r, "delete") => work'[r] = work[r]
          BY <1>1, <2>2 DEF Install!At, Only
        <5> QED BY <1>2, <1>4, <5>1, <5>2, <5>3 DEF Install!At
      <4> QED BY <4>1, <4>2
    <3> QED BY <3>1, <3>2 DEF FilesKept, Install!Installed
  <2>7. OneRequest'
    <3> SUFFICES ASSUME NEW r \in Install!Slots, Works(r)', work'[r].app \notin crowded'
                 PROVE  /\ \A q \in Install!Slots \ {r} : Works(q)' => work'[q].app # work'[r].app
                        /\ Handles(r)' => listing'[work'[r].app].inst = work'[r].inst
                        /\ Fresh(r)' => listing'[work'[r].app].inst = Install!Nobody
      BY DEF OneRequest, Install!Installed
    <3>1. \A q \in Install!Slots : Works(q)' => Works(q) /\ work'[q].app = work[q].app
      BY <1>1, <2>2 DEF Works, Only, a
    <3>2. /\ \A q \in Install!Slots \ {r} : Works(q) => work[q].app # work[r].app
          /\ Handles(r) => listing[work[r].app].inst = work[r].inst
          /\ Fresh(r) => listing[work[r].app].inst = Install!Nobody
      BY <1>2, <3>1 DEF InstallInv, OneRequest, Install!Installed
    <3>3. CASE r = s
      BY <2>2, <3>1, <3>2, <3>3
    <3>4. CASE r # s
      <4>1. work'[r] = work[r] /\ work[r].app # a /\ work[r].app \in Install!Apps
        BY <1>1, <2>2, <3>1, <3>2, <3>4 DEF Only, a, InstallInv, InstallTypes, IsWork, Works
      <4>2. Handles(r)' = Handles(r) /\ Fresh(r)' = Fresh(r)
        BY <4>1 DEF Handles, Fresh
      <4> QED BY <2>3, <3>1, <3>2, <4>1, <4>2
    <3> QED BY <3>3, <3>4
  <2>8. AppliedIsInstalled'
    BY <2>3 DEF InstallInv, AppliedIsInstalled, Install!Installed
  <2>9. RoutesInTurn' /\ Served'
    <3>1. \A b \in Install!Apps : listing'[b].applied => listing[b].applied
      BY <2>3
    <3> QED BY <1>1, <1>2, <2>2, <3>1, RoutesAside
  <2> QED BY <2>4, <2>5, <2>6, <2>7, <2>8, <2>9 DEF InstallInv
<1>5. CASE /\ UNCHANGED listing /\ Install!DisownSecrets(a, i)
           /\ work' = [work EXCEPT ![s] = IF Install!Disowns(a) THEN [@ EXCEPT !.pc = "containers"] ELSE Install!Idle]
  <2>1. Install!Goes(s, "containers") \/ Install!Ends(s)
    BY <1>5 DEF Install!Goes, Install!Ends
  <2>2. /\ Only(s) /\ IsWork(work'[s]) /\ ~Handles(s)' /\ ~Install!InRoutes(s)'
        /\ work'[s].kind \in {"install", "none"} /\ work'[s].inst \in {i, Install!Nobody} /\ work'[s].pc \in {"containers", "none"}
        /\ Works(s)' => work'[s].app = a
        /\ Fresh(s)' => work'[s].inst = i
    <3>1. CASE Install!Goes(s, "containers")
      <4>1. /\ Only(s) /\ IsWork(work'[s]) /\ work'[s].kind = "install" /\ work'[s].app = a
            /\ work'[s].inst = i /\ work'[s].pc = "containers"
        BY <1>1, <3>1, GoesOn DEF InstallPlaces
      <4> QED BY <4>1 DEF Handles, Install!InRoutes
    <3>2. CASE Install!Ends(s)
      BY <3>2, EndsIdle
    <3> QED BY <2>1, <3>1, <3>2
  <2>3. InstallTypes' /\ Numbered' /\ OneRequest' /\ AppliedIsInstalled'
    <3>1. listing' \in [Install!Apps -> [inst : Nat, applied : BOOLEAN]] /\ \A b \in Install!Apps : listing'[b].applied => Install!Installed(b)
      BY <1>5 DEF InstallInv, InstallTypes, AppliedIsInstalled
    <3>2. listing' = listing /\ crowded' = crowded BY <1>2, <1>5
    <3>3. work'[s].kind = "none" \/ (Works(s) /\ work'[s].app = work[s].app)
      BY <1>1, <2>2 DEF Works
    <3> QED BY <1>1, <1>2, <2>2, <3>1, <3>2, <3>3, NumbersAside DEF Kept
  <2>4. FilesKept'
    <3>1. \A r \in Install!Slots : Install!At(r, "record")' => work'[r].inst \in packages'
      BY <1>2, <2>2 DEF InstallInv, FilesKept, Install!At, Only
    <3>2. ASSUME NEW b \in Install!Apps, Install!Installed(b)
          PROVE  /\ listing[b].inst \in secrets'
                 /\ \/ listing[b].inst \in packages
                    \/ \E r \in Install!Slots : Install!At(r, "delete")' /\ work'[r].app = b /\ work'[r].inst = listing[b].inst
      <4>1. /\ listing[b].inst \in secrets
            /\ \/ listing[b].inst \in packages
               \/ \E r \in Install!Slots : Install!At(r, "delete") /\ work[r].app = b /\ work[r].inst = listing[b].inst
        BY <3>2 DEF InstallInv, FilesKept
      <4>2. \A r \in Install!Slots : Install!At(r, "delete") => work'[r] = work[r]
        BY <1>1, <2>2 DEF Install!At, Only
      <4> QED BY <1>3, <1>5, <4>1, <4>2 DEF Install!At, Install!DisownSecrets
    <3> QED BY <1>2, <1>5, <3>1, <3>2 DEF FilesKept, Install!Installed
  <2>5. RoutesInTurn' /\ Served' BY <1>1, <1>2, <1>5, <2>2, RoutesAside
  <2> QED BY <2>3, <2>4, <2>5 DEF InstallInv
<1> QED BY <1>4, <1>5 DEF Install!CompleteInstall

\* The package of one instance goes.
LEMMA DiscardsKept ==
  ASSUME InstallInv, NEW s \in Install!Slots, Install!DiscardSnapshot(s)
  PROVE  InstallInv'
<1> DEFINE a == work[s].app
           i == work[s].inst
<1>1. /\ Works(s) /\ work[s].pc = "discard" /\ work[s].kind \in {"install", "uninstall"}
      /\ ~Install!InRoutes(s) /\ IsWork(work[s]) /\ a \in Install!Apps
  BY WorkAt DEF Install!DiscardSnapshot, Install!InRoutes, InstallPlaces
<1>2. UNCHANGED <<listing, secrets, routes, before, crowded, installSpent>> /\ packages' = packages \ {i}
  BY DEF Install!DiscardSnapshot, Install!records, Install!caddyFiles
<1>3. Kept BY <1>2, FailsKeeps
<1>4. CASE work[s].kind = "uninstall"
  <2>1. Install!Goes(s, "delete")
    BY <1>4 DEF Install!DiscardSnapshot, Install!Goes
  <2>2. /\ Only(s) /\ IsWork(work'[s]) /\ work'[s].kind = "uninstall" /\ work'[s].app = a
        /\ work'[s].inst = i /\ work'[s].pc = "delete"
    BY <1>1, <1>4, <2>1, GoesOn DEF InstallPlaces
  <2>3. Handles(s) /\ Handles(s)' /\ ~Fresh(s)' /\ ~Install!InRoutes(s)'
    BY <1>4, <2>2 DEF Handles, Fresh, Install!InRoutes
  <2>4. InstallTypes' /\ Numbered' /\ OneRequest' /\ AppliedIsInstalled'
    <3>1. listing' \in [Install!Apps -> [inst : Nat, applied : BOOLEAN]] /\ \A b \in Install!Apps : listing'[b].applied => Install!Installed(b)
      BY <1>2 DEF InstallInv, InstallTypes, AppliedIsInstalled
    <3> QED BY <1>1, <1>2, <1>3, <2>2, <2>3, <3>1, NumbersAside DEF Kept
  <2>5. FilesKept'
    <3>1. \A r \in Install!Slots : Install!At(r, "record")' => work'[r].inst \in packages'
      <4> SUFFICES ASSUME NEW r \in Install!Slots, Install!At(r, "record")'
                   PROVE  work'[r].inst \in packages'
        OBVIOUS
      <4>1. r # s /\ work'[r] = work[r] /\ Install!At(r, "record")
        BY <2>2 DEF Install!At, Only
      <4>2. Works(r) /\ work[r].kind = "install"
        BY <4>1, WorkAt DEF InstallPlaces
      <4>3. Fresh(r) BY <4>1, <4>2 DEF Fresh, Install!At
      <4>4. work[r].inst # work[s].inst /\ work[r].inst \in packages
        BY <1>1, <4>1, <4>3 DEF InstallInv, Numbered, FilesKept
      <4> QED BY <1>2, <4>1, <4>4
    <3>2. ASSUME NEW b \in Install!Apps, Install!Installed(b)
          PROVE  /\ listing[b].inst \in secrets
                 /\ \/ listing[b].inst \in packages'
                    \/ \E r \in Install!Slots : Install!At(r, "delete")' /\ work'[r].app = b /\ work'[r].inst = listing[b].inst
      <4>1. /\ listing[b].inst \in secrets
            /\ \/ listing[b].inst \in packages
               \/ \E r \in Install!Slots : Install!At(r, "delete") /\ work[r].app = b /\ work[r].inst = listing[b].inst
        BY <3>2 DEF InstallInv, FilesKept
      <4>2. \A r \in Install!Slots : Install!At(r, "delete") => work'[r] = work[r]
        BY <1>1, <2>2 DEF Install!At, Only
      <4>3. Install!At(s, "delete")' /\ (b # a => i # listing[b].inst)
        BY <2>2, <2>3 DEF Install!At, InstallInv, Numbered
      <4>4. CASE listing[b].inst = i
        BY <2>2, <4>1, <4>3, <4>4
      <4>5. CASE listing[b].inst # i
        BY <1>2, <4>1, <4>2, <4>5 DEF Install!At
      <4> QED BY <4>4, <4>5
    <3> QED BY <1>2, <3>1, <3>2 DEF FilesKept, Install!Installed
  <2>6. RoutesInTurn' /\ Served' BY <1>1, <1>2, <2>2, <2>3, RoutesAside
  <2> QED BY <2>4, <2>5, <2>6 DEF InstallInv
<1>5. CASE work[s].kind = "install"
  <2>1. Install!Ends(s)
    BY <1>5 DEF Install!DiscardSnapshot, Install!Ends
  <2>2. /\ Only(s) /\ IsWork(work'[s]) /\ work'[s].kind = "none" /\ work'[s].pc = "none" /\ work'[s].inst = Install!Nobody
        /\ ~Fresh(s)' /\ ~Handles(s)' /\ ~Install!InRoutes(s)'
    BY <2>1, EndsIdle
  <2>3. Fresh(s) BY <1>1, <1>5 DEF Fresh
  <2>4. InstallTypes' /\ Numbered' /\ OneRequest' /\ AppliedIsInstalled'
    <3>1. listing' \in [Install!Apps -> [inst : Nat, applied : BOOLEAN]] /\ \A b \in Install!Apps : listing'[b].applied => Install!Installed(b)
      BY <1>2 DEF InstallInv, InstallTypes, AppliedIsInstalled
    <3> QED BY <1>1, <1>2, <1>3, <2>2, <3>1, NumbersAside DEF Kept
  <2>5. /\ \A b \in Install!Apps : i # listing[b].inst
        /\ \A r \in Install!Slots \ {s} : Works(r) => i # work[r].inst
    BY <2>3 DEF InstallInv, Numbered
  <2>6. FilesKept'
    <3>1. \A r \in Install!Slots : Install!At(r, "record")' => work'[r].inst \in packages'
      BY <1>2, <2>2, <2>5 DEF InstallInv, FilesKept, Install!At, Only, Works
    <3>2. ASSUME NEW b \in Install!Apps, Install!Installed(b)
          PROVE  /\ listing[b].inst \in secrets
                 /\ \/ listing[b].inst \in packages'
                    \/ \E r \in Install!Slots : Install!At(r, "delete")' /\ work'[r].app = b /\ work'[r].inst = listing[b].inst
      <4>1. /\ listing[b].inst \in secrets
            /\ \/ listing[b].inst \in packages
               \/ \E r \in Install!Slots : Install!At(r, "delete") /\ work[r].app = b /\ work[r].inst = listing[b].inst
        BY <3>2 DEF InstallInv, FilesKept
      <4>2. \A r \in Install!Slots : Install!At(r, "delete") => work'[r] = work[r]
        BY <1>1, <2>2 DEF Install!At, Only
      <4> QED BY <1>2, <2>5, <4>1, <4>2 DEF Install!At
    <3> QED BY <1>2, <3>1, <3>2 DEF FilesKept, Install!Installed
  <2>7. RoutesInTurn' /\ Served' BY <1>1, <1>2, <1>5, <2>2, RoutesAside
  <2> QED BY <2>4, <2>6, <2>7 DEF InstallInv
<1> QED BY <1>1, <1>4, <1>5

\* What the agent applied is recorded, of the instance it was applied to.
LEMMA RecordsKept ==
  ASSUME InstallInv, NEW s \in Install!Slots, Install!RecordsApplied(s)
  PROVE  InstallInv'
<1> DEFINE a == work[s].app
<1>1. /\ Works(s) /\ work[s].pc = "applied" /\ work[s].kind = "start"
      /\ ~Install!InRoutes(s) /\ IsWork(work[s]) /\ a \in Install!Apps /\ Handles(s)
  BY WorkAt DEF Install!RecordsApplied, Install!InRoutes, InstallPlaces, Handles
<1>2. UNCHANGED <<secrets, packages, routes, before, crowded, installSpent>> /\ Install!Ends(s)
  BY DEF Install!RecordsApplied, Install!caddyFiles
<1>3. Kept BY <1>2, FailsKeeps
<1>4. /\ Only(s) /\ IsWork(work'[s]) /\ work'[s].kind = "none" /\ work'[s].pc = "none" /\ work'[s].inst = Install!Nobody
      /\ ~Fresh(s)' /\ ~Handles(s)' /\ ~Install!InRoutes(s)'
  BY <1>2, EndsIdle
<1>5. /\ listing' \in [Install!Apps -> [inst : Nat, applied : BOOLEAN]] /\ \A b \in Install!Apps : listing'[b].inst = listing[b].inst
      /\ \A b \in Install!Apps \ {a} : listing'[b] = listing[b]
      /\ \A b \in Install!Apps : listing'[b].applied => listing[b].applied \/ (b = a /\ listing[a].inst = work[s].inst)
  <2>1. listing \in [Install!Apps -> [inst : Nat, applied : BOOLEAN]]
    BY DEF InstallInv, InstallTypes
  <2>2. CASE listing[a].inst = work[s].inst
    <3>1. listing' = [listing EXCEPT ![a].applied = TRUE]
      BY <2>2 DEF Install!RecordsApplied
    <3> HIDE DEF a
    <3> QED BY <1>1, <2>1, <2>2, <3>1
  <2>3. CASE listing[a].inst # work[s].inst
    BY <2>1, <2>3 DEF Install!RecordsApplied
  <2> QED BY <2>2, <2>3
<1>6. work[s].inst # Install!Nobody BY <1>1 DEF InstallInv, Numbered
<1> HIDE DEF a
<1>7. \A b \in Install!Apps : listing'[b].applied => Install!Installed(b)
  BY <1>5, <1>6 DEF InstallInv, AppliedIsInstalled, Install!Installed
<1>8. InstallTypes' /\ Numbered' /\ OneRequest' /\ AppliedIsInstalled'
  BY <1>1, <1>2, <1>3, <1>4, <1>5, <1>7, NumbersAside DEF Kept
<1>9. FilesKept'
  <2>1. \A r \in Install!Slots : Install!At(r, "record")' => work'[r].inst \in packages'
    BY <1>2, <1>4 DEF InstallInv, FilesKept, Install!At, Only
  <2>2. ASSUME NEW b \in Install!Apps, Install!Installed(b)
        PROVE  /\ listing[b].inst \in secrets
               /\ \/ listing[b].inst \in packages
                  \/ \E r \in Install!Slots : Install!At(r, "delete")' /\ work'[r].app = b /\ work'[r].inst = listing[b].inst
    <3>1. /\ listing[b].inst \in secrets
          /\ \/ listing[b].inst \in packages
             \/ \E r \in Install!Slots : Install!At(r, "delete") /\ work[r].app = b /\ work[r].inst = listing[b].inst
      BY <2>2 DEF InstallInv, FilesKept
    <3>2. \A r \in Install!Slots : Install!At(r, "delete") => work'[r] = work[r]
      BY <1>1, <1>4 DEF Install!At, Only
    <3> QED BY <3>1, <3>2 DEF Install!At
  <2> QED BY <1>2, <1>5, <2>1, <2>2 DEF FilesKept, Install!Installed
<1>10. RoutesInTurn'
  <2>1. \A r \in Install!Slots : Install!InRoutes(r)' => Install!InRoutes(r) /\ r # s /\ work'[r] = work[r]
    BY <1>4 DEF Only, Install!InRoutes
  <2>2. work[s].pc \notin {"validate", "write", "reload"} /\ work'[s].pc \notin {"validate", "write", "reload"}
    BY <1>1, <1>4
  <2> SUFFICES ASSUME \E b \in Install!Apps : b \notin crowded
               PROVE  /\ \A r, q \in Install!Slots : Install!InRoutes(r)' /\ Install!InRoutes(q)' => r = q
                      /\ \A r \in Install!Slots : work'[r].pc \in {"validate", "write"} => work'[r].next = Install!AppliesTo(r)'
                      /\ \A r \in Install!Slots : work'[r].pc = "reload" =>
                           before.there /\ \A b \in Install!Apps \ {work'[r].app} : b \in before.serves <=> b \in routes
                      /\ before.there /\ (\A r \in Install!Slots : work'[r].pc # "reload") => before.serves = routes
    BY <1>2 DEF RoutesInTurn
  <2>3. \A r, q \in Install!Slots : Install!InRoutes(r)' /\ Install!InRoutes(q)' => r = q
    BY <2>1 DEF InstallInv, RoutesInTurn
  <2>4. \A r \in Install!Slots : work'[r].pc \in {"validate", "write"} => work'[r].next = Install!AppliesTo(r)'
    BY <1>2, <1>4, <2>2 DEF InstallInv, RoutesInTurn, Install!AppliesTo, Only
  <2>5. \A r \in Install!Slots : work'[r].pc = "reload" =>
           before.there /\ \A b \in Install!Apps \ {work'[r].app} : b \in before.serves <=> b \in routes
    BY <1>4, <2>2 DEF InstallInv, RoutesInTurn, Only
  <2>6. before.there /\ (\A r \in Install!Slots : work'[r].pc # "reload") => before.serves = routes
    BY <1>4, <2>2 DEF InstallInv, RoutesInTurn, Only
  <2> QED BY <2>3, <2>4, <2>5, <2>6
<1>11. Served'
  <2> SUFFICES ASSUME NEW b \in Install!Apps, b \notin crowded
               PROVE  /\ listing'[b].applied => \/ b \in routes
                         \/ \E r \in Install!Slots : /\ work'[r].kind = "uninstall" /\ work'[r].app = b
                                                     /\ work'[r].pc \in {"reload", "discard", "delete"}
                      /\ \A r \in Install!Slots : Works(r)' /\ work'[r].app = b =>
                           /\ work'[r].kind = "start" /\ work'[r].pc \in {"reload", "applied"} => b \in routes
                           /\ work'[r].pc = "reload" /\ listing'[b].applied => b \in before.serves
    BY <1>2 DEF Served
  <2>1. \A r \in Install!Slots \ {s} : Works(r) => b # a \/ work[r].app # b
    BY <1>1 DEF InstallInv, OneRequest, a
  <2>2. b = a => b \in routes BY <1>1 DEF InstallInv, Served, a
  <2>3. /\ listing[b].applied => \/ b \in routes
                                 \/ \E r \in Install!Slots : /\ work[r].kind = "uninstall" /\ work[r].app = b
                                                             /\ work[r].pc \in {"reload", "discard", "delete"}
        /\ \A r \in Install!Slots : Works(r) /\ work[r].app = b =>
             /\ work[r].kind = "start" /\ work[r].pc \in {"reload", "applied"} => b \in routes
             /\ work[r].pc = "reload" /\ listing[b].applied => b \in before.serves
    BY DEF InstallInv, Served
  <2>4. listing'[b].applied => \/ b \in routes
                               \/ \E r \in Install!Slots : /\ work'[r].kind = "uninstall" /\ work'[r].app = b
                                                           /\ work'[r].pc \in {"reload", "discard", "delete"}
    BY <1>1, <1>4, <1>5, <2>2, <2>3 DEF Only
  <2>5. ASSUME NEW r \in Install!Slots, Works(r)', work'[r].app = b
        PROVE  /\ work'[r].kind = "start" /\ work'[r].pc \in {"reload", "applied"} => b \in routes
               /\ work'[r].pc = "reload" /\ listing'[b].applied => b \in before.serves
    <3>1. r # s /\ work'[r] = work[r] /\ Works(r)
      BY <1>4, <2>5 DEF Only, Works
    <3>2. b # a BY <2>1, <2>5, <3>1
    <3>3. listing'[b] = listing[b] BY <1>5, <3>2
    <3> QED BY <2>3, <2>5, <3>1, <3>3
  <2> QED BY <2>4, <2>5
<1> QED BY <1>8, <1>9, <1>10, <1>11 DEF InstallInv

\* The row and the secrets of one instance go.
LEMMA DeletesKept ==
  ASSUME InstallInv, NEW s \in Install!Slots, Install!DeletesInstance(s)
  PROVE  InstallInv'
<1> DEFINE a == work[s].app
           i == work[s].inst
<1>1. /\ Works(s) /\ work[s].pc = "delete" /\ work[s].kind = "uninstall"
      /\ ~Install!InRoutes(s) /\ IsWork(work[s]) /\ a \in Install!Apps /\ Handles(s)
  BY WorkAt DEF Install!DeletesInstance, Install!InRoutes, InstallPlaces, Handles
<1>2. UNCHANGED <<packages, routes, before, crowded, installSpent>> /\ Install!Ends(s) /\ secrets' = secrets \ {i}
  BY DEF Install!DeletesInstance, Install!caddyFiles
<1>3. Kept BY <1>2, FailsKeeps
<1>4. /\ Only(s) /\ IsWork(work'[s]) /\ work'[s].kind = "none" /\ work'[s].pc = "none" /\ work'[s].inst = Install!Nobody
      /\ ~Fresh(s)' /\ ~Handles(s)' /\ ~Install!InRoutes(s)' /\ ~Works(s)'
  BY <1>2, EndsIdle
<1>5. i # Install!Nobody /\ \A b \in Install!Apps \ {a} : i # listing[b].inst
  BY <1>1 DEF InstallInv, Numbered
<1>6. listing \in [Install!Apps -> [inst : Nat, applied : BOOLEAN]]
  BY DEF InstallInv, InstallTypes
<1>7. \A r \in Install!Slots : Install!At(r, "record")' => work'[r].inst \in packages'
  BY <1>2, <1>4 DEF InstallInv, FilesKept, Install!At, Only
<1>8. CASE listing[a].inst = i
  <2>1. listing' = [listing EXCEPT ![a] = [inst |-> Install!Nobody, applied |-> FALSE]]
    BY <1>8 DEF Install!DeletesInstance
  <2> HIDE DEF a, i
  <2>2. /\ listing' \in [Install!Apps -> [inst : Nat, applied : BOOLEAN]] /\ listing'[a].inst = Install!Nobody /\ ~listing'[a].applied
        /\ \A b \in Install!Apps \ {a} : listing'[b] = listing[b]
    BY <1>1, <1>6, <2>1 DEF Install!Nobody
  <2>3. InstallTypes'
    BY <1>2, <1>4, <2>2 DEF InstallInv, InstallTypes, Only
  <2>4. Numbered'
    <3>1. \A b \in Install!Apps : listing'[b].inst <= installSpent'.install
      BY <1>2, <2>2 DEF InstallInv, InstallTypes, Numbered, Install!Nobody
    <3>2. \A r \in Install!Slots : work'[r].inst <= installSpent'.install
      BY <1>2, <1>4 DEF InstallInv, InstallTypes, Numbered, Only, Install!Nobody
    <3>3. \A b, c \in Install!Apps : b # c /\ listing'[b].inst # Install!Nobody => listing'[b].inst # listing'[c].inst
      BY <2>2 DEF InstallInv, Numbered
    <3>4. \A r \in Install!Slots, b \in Install!Apps : Fresh(r)' => work'[r].inst # Install!Nobody /\ work'[r].inst # listing'[b].inst
      BY <1>4, <2>2 DEF InstallInv, Numbered, Only, Fresh
    <3>5. \A r \in Install!Slots, b \in Install!Apps : Handles(r)' /\ b # work'[r].app => work'[r].inst # listing'[b].inst
      BY <1>4, <2>2 DEF InstallInv, Numbered, Only, Handles
    <3>6. \A r \in Install!Slots : Handles(r)' => work'[r].inst # Install!Nobody
      BY <1>4 DEF InstallInv, Numbered, Only, Handles
    <3>7. \A r, q \in Install!Slots : r # q /\ Fresh(r)' /\ Works(q)' => work'[r].inst # work'[q].inst
      BY <1>4 DEF InstallInv, Numbered, Only, Fresh, Works
    <3> QED BY <3>1, <3>2, <3>3, <3>4, <3>5, <3>6, <3>7 DEF Numbered
  <2>5. FilesKept'
    <3>1. ASSUME NEW b \in Install!Apps, listing'[b].inst # Install!Nobody
          PROVE  /\ listing'[b].inst \in secrets'
                 /\ \/ listing'[b].inst \in packages'
                    \/ \E r \in Install!Slots : Install!At(r, "delete")' /\ work'[r].app = b /\ work'[r].inst = listing'[b].inst
      <4>1. b # a /\ listing'[b] = listing[b] /\ Install!Installed(b) /\ listing[b].inst # i
        BY <1>5, <2>2, <3>1 DEF Install!Installed
      <4>2. /\ listing[b].inst \in secrets
            /\ \/ listing[b].inst \in packages
               \/ \E r \in Install!Slots : Install!At(r, "delete") /\ work[r].app = b /\ work[r].inst = listing[b].inst
        BY <4>1 DEF InstallInv, FilesKept
      <4>3. \A r \in Install!Slots : work[r].app = b => work'[r] = work[r]
        BY <1>4, <4>1 DEF Only, a
      <4> QED BY <1>2, <4>1, <4>2, <4>3 DEF Install!At
    <3> QED BY <1>7, <3>1 DEF FilesKept, Install!Installed
  <2>6. OneRequest'
    <3> SUFFICES ASSUME NEW r \in Install!Slots, Works(r)', work'[r].app \notin crowded'
                 PROVE  /\ \A q \in Install!Slots \ {r} : Works(q)' => work'[q].app # work'[r].app
                        /\ Handles(r)' => listing'[work'[r].app].inst = work'[r].inst
                        /\ Fresh(r)' => listing'[work'[r].app].inst = Install!Nobody
      BY DEF OneRequest, Install!Installed
    <3>1. \A q \in Install!Slots : Works(q)' => Works(q) /\ work'[q] = work[q] /\ q # s
      BY <1>4 DEF Works, Only
    <3>2. /\ \A q \in Install!Slots \ {r} : Works(q) => work[q].app # work[r].app
          /\ Handles(r) => listing[work[r].app].inst = work[r].inst
          /\ Fresh(r) => listing[work[r].app].inst = Install!Nobody
      BY <1>2, <3>1 DEF InstallInv, OneRequest, Install!Installed
    <3>3. work'[r] = work[r] /\ work[r].app # a /\ work[r].app \in Install!Apps
      BY <1>1, <3>1, <3>2 DEF a, InstallInv, InstallTypes, IsWork, Works
    <3>4. Handles(r)' = Handles(r) /\ Fresh(r)' = Fresh(r)
      BY <3>3 DEF Handles, Fresh
    <3> QED BY <2>2, <3>1, <3>2, <3>3, <3>4
  <2>7. AppliedIsInstalled'
    BY <2>2 DEF InstallInv, AppliedIsInstalled, Install!Installed
  <2>8. RoutesInTurn' /\ Served'
    <3>1. \A b \in Install!Apps : listing'[b].applied => listing[b].applied
      BY <2>2
    <3>2. ~listing'[work[s].app].applied BY <2>2 DEF a
    <3> QED BY <1>1, <1>2, <1>4, <3>1, <3>2, RoutesAside
  <2> QED BY <2>3, <2>4, <2>5, <2>6, <2>7, <2>8 DEF InstallInv
<1>9. CASE listing[a].inst # i
  <2>1. listing' = listing BY <1>9 DEF Install!DeletesInstance
  <2>2. InstallTypes' /\ Numbered' /\ OneRequest' /\ AppliedIsInstalled'
    <3>1. \A b \in Install!Apps : listing'[b].applied => Install!Installed(b)
      BY <2>1 DEF InstallInv, AppliedIsInstalled
    <3> QED BY <1>1, <1>2, <1>3, <1>4, <1>6, <2>1, <3>1, NumbersAside DEF Kept
  <2>3. FilesKept'
    <3>1. ASSUME NEW b \in Install!Apps, Install!Installed(b)
          PROVE  /\ listing[b].inst \in secrets'
                 /\ \/ listing[b].inst \in packages
                    \/ \E r \in Install!Slots : Install!At(r, "delete")' /\ work'[r].app = b /\ work'[r].inst = listing[b].inst
      <4>1. listing[b].inst # i BY <1>5, <1>9
      <4>2. /\ listing[b].inst \in secrets
            /\ \/ listing[b].inst \in packages
               \/ \E r \in Install!Slots : Install!At(r, "delete") /\ work[r].app = b /\ work[r].inst = listing[b].inst
        BY <3>1 DEF InstallInv, FilesKept
      <4>3. \A r \in Install!Slots : work[r].inst = listing[b].inst => work'[r] = work[r]
        BY <1>4, <4>1 DEF Only
      <4> QED BY <1>2, <4>1, <4>2, <4>3 DEF Install!At
    <3> QED BY <1>2, <1>7, <2>1, <3>1 DEF FilesKept, Install!Installed
  <2>4. work[s].app \in crowded'
    BY <1>1, <1>2, <1>9 DEF InstallInv, OneRequest
  <2>5. RoutesInTurn' /\ Served'
    BY <1>1, <1>2, <1>4, <2>1, <2>4, RoutesAside
  <2> QED BY <2>2, <2>3, <2>5 DEF InstallInv
<1> QED BY <1>8, <1>9

LEMMA InstallBegins ==
  ASSUME Install!InstallInit
  PROVE  InstallInv
<1>1. /\ \A s \in Install!Slots : work[s] = Install!Idle /\ work[s].kind = "none" /\ work[s].pc = "none" /\ work[s].inst = Install!Nobody
      /\ DOMAIN work = Install!Slots
  BY IdleIsWork DEF Install!InstallInit
<1>2. /\ \A a \in Install!Apps : listing[a].inst = Install!Nobody /\ ~listing[a].applied
      /\ listing \in [Install!Apps -> [inst : Nat, applied : BOOLEAN]]
      /\ installSpent.install = 0 /\ DOMAIN installSpent = {"install", "request", "failure"} /\ ~before.there
  BY DEF Install!InstallInit, Install!Nobody, Install!NoFile
<1>3. InstallTypes BY <1>1, <1>2, IdleIsWork DEF InstallTypes
<1>4. \A s \in Install!Slots : ~Fresh(s) /\ ~Handles(s) /\ ~Works(s) /\ ~Install!InRoutes(s)
  BY <1>1 DEF Fresh, Handles, Works, Install!InRoutes
<1>5. Numbered BY <1>1, <1>2, <1>4 DEF Numbered, Install!Nobody
<1>6. FilesKept /\ OneRequest /\ AppliedIsInstalled
  BY <1>1, <1>2, <1>4 DEF FilesKept, OneRequest, AppliedIsInstalled, Install!Installed, Install!At
<1>7. RoutesInTurn /\ Served
  BY <1>1, <1>2, <1>4 DEF RoutesInTurn, Served
<1> QED BY <1>3, <1>5, <1>6, <1>7 DEF InstallInv

LEMMA InstallStands ==
  ASSUME InstallInv, UNCHANGED Install!installVars
  PROVE  InstallInv'
<1> USE DEF Install!installVars, InstallInv
<1>1. InstallTypes' /\ Numbered' /\ AppliedIsInstalled'
  BY DEF InstallTypes, Numbered, AppliedIsInstalled, Install!Installed, Fresh, Handles, Works
<1>2. FilesKept' /\ OneRequest'
  BY DEF FilesKept, OneRequest, Install!Installed, Install!At, Fresh, Handles, Works
<1>3. \A s \in Install!Slots : Install!InRoutes(s)' = Install!InRoutes(s) /\ Install!AppliesTo(s)' = Install!AppliesTo(s) /\ Works(s)' = Works(s)
  BY DEF Install!InRoutes, Install!AppliesTo, Works
<1>4. RoutesInTurn' /\ Served' BY <1>3 DEF RoutesInTurn, Served
<1> QED BY <1>1, <1>2, <1>4

LEMMA InstallKept ==
  ASSUME InstallInv, Install!InstallNext
  PROVE  InstallInv'
<1>1. PICK s \in Install!Slots :
        \/ \E a \in Install!Apps : \/ Install!BeginInstall(s, a) \/ Install!BeginInstallJob(s, a) \/ Install!BeginExternalInstall(s, a)
                                   \/ Install!BeginStart(s, a) \/ Install!BeginUninstall(s, a)
        \/ Install!WorkStep(s)
  BY DEF Install!InstallNext
<1>2. CASE \E a \in Install!Apps : \/ Install!BeginInstall(s, a) \/ Install!BeginInstallJob(s, a) \/ Install!BeginExternalInstall(s, a)
                                   \/ Install!BeginStart(s, a) \/ Install!BeginUninstall(s, a)
  BY <1>2, BeginKept
<1>3. CASE Install!WorkStep(s)
  BY <1>3, SnapshotKept, CompletesKept, StartsKept, RecordsKept, DeletesKept, BuildsKept, RunsKept, ReadsKept,
     ValidatesKept, WritesKept, ReloadsKept, RemovesContainersKept, RemovesVolumesKept, DiscardsKept DEF Install!WorkStep
<1> QED BY <1>1, <1>2, <1>3

\* Whose containers and volume an app has: the instance's that is recorded as applied, or that
\* its one start is running.
Runs(s) == work[s].kind = "start"
DockerOwn ==
  /\ docker = [a \in Install!Apps |-> [run |-> docker[a].run, volume |-> docker[a].volume]]
  /\ \A a \in Install!Apps : docker[a].run \in {Install!Nobody, docker[a].volume}
  /\ \A a \in Install!Apps : listing[a].applied => docker[a].volume \in {Install!Nobody, listing[a].inst}
  /\ \A s \in Install!Slots : Runs(s) =>
       /\ \A r \in Install!Slots \ {s} : Runs(r) => work[r].app # work[s].app
       /\ listing[work[s].app].applied => listing[work[s].app].inst = work[s].inst
       /\ work[s].pc \notin {"build", "run"} => docker[work[s].app].volume \in {Install!Nobody, work[s].inst}

\* A request that starts nothing, or goes on with its start as before, and leaves no volume behind
\* that was not there.
LEMMA DockerAside ==
  ASSUME InstallInv, DockerOwn, NEW s \in Install!Slots, Only(s),
         docker' = [a \in Install!Apps |-> [run |-> docker'[a].run, volume |-> docker'[a].volume]],
         \A a \in Install!Apps : docker'[a].run \in {Install!Nobody, docker'[a].volume},
         \A a \in Install!Apps : docker'[a].volume \in {Install!Nobody, docker[a].volume},
         \A a \in Install!Apps : listing'[a].applied => listing[a].applied /\ listing'[a].inst = listing[a].inst,
         Runs(s)' => /\ Runs(s) /\ work'[s].app = work[s].app /\ work'[s].inst = work[s].inst
                     /\ work'[s].pc \in {"build", "run"} \/ work[s].pc \notin {"build", "run"}
  PROVE  DockerOwn'
<1>1. \A r \in Install!Slots : Runs(r)' => /\ Runs(r) /\ work'[r].app = work[r].app /\ work'[r].inst = work[r].inst
                                           /\ work'[r].pc \in {"build", "run"} \/ work[r].pc \notin {"build", "run"}
  BY DEF Only, Runs
<1>2. \A r \in Install!Slots : Runs(r) => work[r].app \in Install!Apps
  BY DEF Runs, InstallInv, InstallTypes, IsWork
<1>3. \A a \in Install!Apps : listing'[a].applied => docker'[a].volume \in {Install!Nobody, listing'[a].inst}
  BY DEF DockerOwn
<1>4. ASSUME NEW r \in Install!Slots, Runs(r)'
      PROVE  /\ \A q \in Install!Slots \ {r} : Runs(q)' => work'[q].app # work'[r].app
             /\ listing'[work'[r].app].applied => listing'[work'[r].app].inst = work'[r].inst
             /\ work'[r].pc \notin {"build", "run"} => docker'[work'[r].app].volume \in {Install!Nobody, work'[r].inst}
  BY <1>1, <1>2, <1>4 DEF DockerOwn
<1> QED BY <1>3, <1>4 DEF DockerOwn

\* A request that begins or turns into a start, of the instance recorded and the only one.
LEMMA StartsAlone ==
  ASSUME InstallInv, DockerOwn, NEW s \in Install!Slots, Only(s), docker' = docker, listing' = listing,
         Runs(s)' => /\ work'[s].pc = "build" /\ work'[s].app \in Install!Apps
                     /\ work'[s].inst = listing[work'[s].app].inst
                     /\ \A r \in Install!Slots \ {s} : Runs(r) => work[r].app # work'[s].app
  PROVE  DockerOwn'
<1>1. \A r \in Install!Slots \ {s} : work'[r] = work[r] BY DEF Only
<1> QED BY <1>1 DEF DockerOwn, Runs

LEMMA DockerKept ==
  ASSUME InstallInv, DockerOwn, Install!InstallNext
  PROVE  DockerOwn'
<1>1. PICK s \in Install!Slots :
        \/ \E a \in Install!Apps : \/ Install!BeginInstall(s, a) \/ Install!BeginInstallJob(s, a) \/ Install!BeginExternalInstall(s, a)
                                   \/ Install!BeginStart(s, a) \/ Install!BeginUninstall(s, a)
        \/ Install!WorkStep(s)
  BY DEF Install!InstallNext
<1>0. DOMAIN work = Install!Slots /\ IsWork(work[s]) /\ listing \in [Install!Apps -> [inst : Nat, applied : BOOLEAN]]
  BY DEF InstallInv, InstallTypes
<1>2. ASSUME NEW w, work' = [work EXCEPT ![s] = w] PROVE Only(s) /\ work'[s] = w
  BY <1>0, <1>2 DEF Only
<1>3. \A a \in Install!Apps : docker[a] = [run |-> docker[a].run, volume |-> docker[a].volume]
  BY DEF DockerOwn
<1>4. CASE \E a \in Install!Apps : \/ Install!BeginInstall(s, a) \/ Install!BeginInstallJob(s, a) \/ Install!BeginExternalInstall(s, a)
                                   \/ Install!BeginStart(s, a) \/ Install!BeginUninstall(s, a)
  <2>1. PICK a \in Install!Apps : \/ Install!BeginInstall(s, a) \/ Install!BeginInstallJob(s, a) \/ Install!BeginExternalInstall(s, a)
                                   \/ Install!BeginStart(s, a) \/ Install!BeginUninstall(s, a)
    BY <1>4
  <2>2. UNCHANGED <<listing, docker>>
    BY <2>1 DEF Install!BeginInstall, Install!BeginInstallJob, Install!BeginExternalInstall, Install!Begins, Install!BeginStart,
                Install!BeginUninstall, Install!records
  <2>3. CASE Install!BeginStart(s, a)
    <3>1. /\ work' = [work EXCEPT ![s] = [Install!Idle EXCEPT !.kind = "start", !.app = a, !.inst = listing[a].inst, !.pc = "build"]]
          /\ \A r \in Install!Slots : Runs(r) => work[r].app # a
      BY <2>3 DEF Install!BeginStart, Install!Under, Runs
    <3>2. Only(s) /\ work'[s] = [Install!Idle EXCEPT !.kind = "start", !.app = a, !.inst = listing[a].inst, !.pc = "build"]
      BY <1>2, <3>1
    <3>3. work'[s].pc = "build" /\ work'[s].app = a /\ work'[s].inst = listing[a].inst
      BY <3>2, IdleIsWork DEF IsWork
    <3> QED BY <2>2, <3>1, <3>2, <3>3, StartsAlone
  <2>4. CASE ~Install!BeginStart(s, a)
    <3>1. Only(s) /\ work'[s].kind # "start"
      <4>1. CASE Install!BeginUninstall(s, a)
        <5>1. work' = [work EXCEPT ![s] = [Install!Idle EXCEPT !.kind = "uninstall", !.app = a, !.inst = listing[a].inst, !.pc = "containers"]]
          BY <4>1 DEF Install!BeginUninstall
        <5>2. Only(s) /\ work'[s] = [Install!Idle EXCEPT !.kind = "uninstall", !.app = a, !.inst = listing[a].inst, !.pc = "containers"]
          BY <1>2, <5>1
        <5> QED BY <5>2, IdleIsWork DEF IsWork
      <4>2. CASE ~Install!BeginUninstall(s, a)
        <5>1. PICK asked : Install!Begins(s, a, asked)
          BY <2>1, <2>4, <4>2 DEF Install!BeginInstall, Install!BeginInstallJob, Install!BeginExternalInstall
        <5>2. PICK pc : work' = [work EXCEPT ![s] = [Install!Idle EXCEPT !.kind = "install", !.job = asked, !.app = a,
                                                      !.inst = installSpent.install + 1, !.pc = pc]]
          BY <5>1 DEF Install!Begins
        <5>3. Only(s) /\ work'[s] = [Install!Idle EXCEPT !.kind = "install", !.job = asked, !.app = a,
                                      !.inst = installSpent.install + 1, !.pc = pc]
          BY <1>2, <5>2
        <5> QED BY <5>3, IdleIsWork DEF IsWork
      <4> QED BY <4>1, <4>2
    <3> QED BY <2>2, <3>1, StartsAlone DEF Runs
  <2> QED BY <2>3, <2>4
<1>5. ASSUME Only(s), docker' = docker, listing' = listing, \/ ~Runs(s)'
             \/ /\ Runs(s) /\ work'[s].kind = "start" /\ work'[s].app = work[s].app /\ work'[s].inst = work[s].inst
                /\ work'[s].pc \in {"build", "run"} \/ work[s].pc \notin {"build", "run"}
      PROVE  DockerOwn'
  BY <1>5, DockerAside DEF DockerOwn, Runs
<1>6. \A pc : Install!Goes(s, pc) => /\ Only(s) /\ work'[s].kind = work[s].kind /\ work'[s].app = work[s].app
                                    /\ work'[s].inst = work[s].inst /\ work'[s].pc = pc
  <2> SUFFICES ASSUME NEW pc, Install!Goes(s, pc)
               PROVE  /\ Only(s) /\ work'[s].kind = work[s].kind /\ work'[s].app = work[s].app
                      /\ work'[s].inst = work[s].inst /\ work'[s].pc = pc
    OBVIOUS
  <2>1. work' = [work EXCEPT ![s] = [work[s] EXCEPT !.pc = pc]]
    BY <1>0 DEF Install!Goes
  <2> QED BY <1>0, <1>2, <2>1 DEF IsWork
<1>7. Install!Ends(s) => Only(s) /\ ~Runs(s)'
  BY <1>2, IdleIsWork DEF Install!Ends, Runs
<1>8. CASE Install!Snapshot(s) \/ Install!BuildsImages(s) \/ Install!ReadsRoutes(s) \/ Install!ValidatesRoutes(s)
           \/ Install!WritesRoutes(s) \/ Install!ReloadsCaddy(s) \/ Install!DiscardSnapshot(s)
  <2>1. UNCHANGED <<docker, listing>>
    BY <1>8 DEF Install!Snapshot, Install!BuildsImages, Install!ReadsRoutes, Install!ValidatesRoutes, Install!WritesRoutes,
                Install!ReloadsCaddy, Install!DiscardSnapshot, Install!records
  <2> DEFINE Settled == work[s].pc \notin {"build", "run"}
             GoesOnHere == \E pc : Install!Goes(s, pc)
             Alike == Only(s) /\ work'[s].kind = work[s].kind /\ work'[s].app = work[s].app /\ work'[s].inst = work[s].inst
  <2>2. \/ Install!Ends(s)
        \/ Install!Goes(s, "run") /\ work[s].pc = "build"
        \/ (GoesOnHere \/ Alike) /\ Settled
    <3>1. CASE Install!BuildsImages(s)
      BY <3>1 DEF Install!BuildsImages, Install!At
    <3>a. CASE Install!Snapshot(s)
      BY <3>a DEF Install!Snapshot, Install!At
    <3>b. CASE Install!ValidatesRoutes(s)
      BY <3>b DEF Install!ValidatesRoutes, Install!At
    <3>c. CASE Install!WritesRoutes(s)
      BY <3>c DEF Install!WritesRoutes, Install!At
    <3>d. CASE Install!ReloadsCaddy(s)
      BY <3>d DEF Install!ReloadsCaddy, Install!At
    <3>2. CASE Install!ReadsRoutes(s)
      <4>1. CASE Install!Goes(s, Install!AfterRoutes(s))
        BY <3>2, <4>1 DEF Install!ReadsRoutes, Install!At
      <4>2. CASE work' = [work EXCEPT ![s].next = Install!AppliesTo(s), ![s].pc = "validate"]
        <5>1. work' = [work EXCEPT ![s] = [work[s] EXCEPT !.next = Install!AppliesTo(s), !.pc = "validate"]]
          BY <1>0, <4>2
        <5>2. Only(s) /\ work'[s] = [work[s] EXCEPT !.next = Install!AppliesTo(s), !.pc = "validate"]
          BY <1>2, <5>1
        <5> QED BY <1>0, <3>2, <5>2 DEF IsWork, Install!ReadsRoutes, Install!At
      <4> QED BY <3>2, <4>1, <4>2 DEF Install!ReadsRoutes
    <3>3. CASE Install!DiscardSnapshot(s)
      <4>1. CASE Install!Goes(s, "delete")
        BY <3>3, <4>1 DEF Install!DiscardSnapshot, Install!At
      <4>2. Install!Goes(s, "delete") \/ Install!Ends(s)
        BY <1>0, <3>3 DEF Install!DiscardSnapshot, Install!Goes, Install!Ends
      <4> QED BY <4>1, <4>2
    <3> HIDE DEF Settled, GoesOnHere, Alike
    <3> QED BY <1>8, <3>1, <3>a, <3>b, <3>c, <3>d, <3>2, <3>3
  <2> QED BY <1>5, <1>6, <1>7, <2>1, <2>2 DEF Runs
<1>9. CASE Install!CompleteInstall(s)
  <2>0. work[s].pc = "record" /\ docker' = docker /\ work[s].kind # "start"
    BY <1>0, <1>9 DEF Install!CompleteInstall, Install!At, IsWork, InstallPlaces
  <2>1. Only(s) /\ ~Runs(s)'
    <3>1. PICK w : work' = [work EXCEPT ![s] = w] /\ w \in {Install!Idle, [work[s] EXCEPT !.pc = "installed"], [work[s] EXCEPT !.pc = "containers"]}
      <4>1. \/ work' = [work EXCEPT ![s] = Install!Idle] \/ work' = [work EXCEPT ![s] = [work[s] EXCEPT !.pc = "installed"]]
            \/ work' = [work EXCEPT ![s] = [work[s] EXCEPT !.pc = "containers"]]
        BY <1>0, <1>9 DEF Install!CompleteInstall
      <4> QED BY <4>1
    <3>2. w.kind # "start" BY <1>0, <2>0, <3>1, IdleIsWork DEF IsWork
    <3> QED BY <1>2, <3>1, <3>2 DEF Runs
  <2>2. \A a \in Install!Apps : listing'[a].applied => listing[a].applied /\ listing'[a].inst = listing[a].inst
    BY <1>0, <1>9 DEF Install!CompleteInstall, Install!InstallAppInstance
  <2> QED BY <2>0, <2>1, <2>2, DockerAside DEF DockerOwn
<1>10. CASE Install!StartsAfterInstall(s)
  <2>0. UNCHANGED <<docker, listing>> /\ work[s].pc = "installed" /\ work[s].kind = "install" /\ work[s].app \in Install!Apps
    BY <1>0, <1>10 DEF Install!StartsAfterInstall, Install!At, IsWork, InstallPlaces, Install!records
  <2>1. CASE Install!Ends(s)
    BY <1>5, <1>7, <2>0, <2>1
  <2>2. CASE /\ ~\E r \in Install!Under(work[s].app) : work[r].kind = "start"
             /\ work' = [work EXCEPT ![s].kind = "start", ![s].inst = listing[work[s].app].inst, ![s].pc = "build"]
    <3>1. work' = [work EXCEPT ![s] = [work[s] EXCEPT !.kind = "start", !.inst = listing[work[s].app].inst, !.pc = "build"]]
      BY <1>0, <2>2
    <3>2. Only(s) /\ work'[s] = [work[s] EXCEPT !.kind = "start", !.inst = listing[work[s].app].inst, !.pc = "build"]
      BY <1>2, <3>1
    <3>3. work'[s].pc = "build" /\ work'[s].app = work[s].app /\ work'[s].inst = listing[work[s].app].inst
      BY <1>0, <3>2 DEF IsWork
    <3>4. \A r \in Install!Slots \ {s} : Runs(r) => work[r].app # work[s].app
      BY <2>2 DEF Runs, Install!Under
    <3> QED BY <2>0, <3>2, <3>3, <3>4, StartsAlone
  <2> QED BY <1>10, <2>1, <2>2 DEF Install!StartsAfterInstall
<1>11. CASE Install!RecordsApplied(s)
  <2> DEFINE a == work[s].app
  <2>0. Only(s) /\ ~Runs(s)' /\ docker' = docker /\ work[s].pc = "applied" /\ Runs(s) /\ a \in Install!Apps
    BY <1>0, <1>7, <1>11 DEF Install!RecordsApplied, Install!At, IsWork, InstallPlaces, Runs
  <2>1. /\ docker[a].volume \in {Install!Nobody, work[s].inst}
        /\ \A r \in Install!Slots \ {s} : Runs(r) => work[r].app # a
    BY <2>0 DEF DockerOwn
  <2>2. /\ \A b \in Install!Apps \ {a} : listing'[b] = listing[b]
        /\ listing'[a].inst = listing[a].inst
        /\ listing'[a].applied => listing[a].applied \/ listing[a].inst = work[s].inst
    BY <1>0, <1>11, <2>0 DEF Install!RecordsApplied
  <2>3. \A r \in Install!Slots : Runs(r)' => r # s /\ Runs(r) /\ work'[r] = work[r] /\ work[r].app \in Install!Apps \ {a}
    BY <2>0, <2>1 DEF Only, Runs, InstallInv, InstallTypes, IsWork
  <2> HIDE DEF a
  <2>4. \A b \in Install!Apps : listing'[b].applied => docker[b].volume \in {Install!Nobody, listing'[b].inst}
    BY <2>1, <2>2 DEF DockerOwn
  <2>5. ASSUME NEW r \in Install!Slots, Runs(r)'
        PROVE  /\ \A q \in Install!Slots \ {r} : Runs(q)' => work'[q].app # work'[r].app
               /\ listing'[work'[r].app].applied => listing'[work'[r].app].inst = work'[r].inst
               /\ work'[r].pc \notin {"build", "run"} => docker[work'[r].app].volume \in {Install!Nobody, work'[r].inst}
    BY <2>2, <2>3, <2>5 DEF DockerOwn
  <2> QED BY <2>0, <2>4, <2>5 DEF DockerOwn
<1>12. CASE Install!DeletesInstance(s)
  <2>1. Only(s) /\ ~Runs(s)' /\ docker' = docker
    BY <1>7, <1>12 DEF Install!DeletesInstance
  <2>2. \A a \in Install!Apps : listing'[a].applied => listing[a].applied /\ listing'[a].inst = listing[a].inst
    BY <1>0, <1>12 DEF Install!DeletesInstance
  <2> QED BY <2>1, <2>2, DockerAside DEF DockerOwn
<1>13. CASE Install!RunsContainers(s)
  <2> DEFINE a == work[s].app
             i == work[s].inst
  <2>0. /\ listing' = listing /\ work[s].pc = "run" /\ Runs(s) /\ a \in Install!Apps
        /\ Only(s) /\ (Runs(s)' => work'[s].app = a /\ work'[s].inst = i)
    BY <1>0, <1>6, <1>7, <1>13 DEF Install!RunsContainers, Install!At, IsWork, InstallPlaces, Install!records, Runs
  <2>1. CASE Install!StaleVolume(s)
    <3>1. docker' = [docker EXCEPT ![a].run = Install!Nobody] /\ ~Runs(s)'
      BY <1>7, <1>13, <2>1 DEF Install!RunsContainers
    <3>2. docker' = [b \in Install!Apps |-> [run |-> IF b = a THEN Install!Nobody ELSE docker[b].run, volume |-> docker[b].volume]]
      BY <1>3, <2>0, <3>1 DEF DockerOwn
    <3> HIDE DEF a, i
    <3>3. \A b \in Install!Apps : docker'[b].volume = docker[b].volume /\ docker'[b].run \in {Install!Nobody, docker[b].run}
      BY <3>2
    <3>4. docker' = [b \in Install!Apps |-> [run |-> docker'[b].run, volume |-> docker'[b].volume]]
      BY <3>2
    <3> QED BY <2>0, <3>1, <3>3, <3>4, DockerAside DEF DockerOwn
  <2>2. CASE ~Install!StaleVolume(s)
    <3>0. docker[a].volume \in {Install!Nobody, i}
      BY <2>2 DEF Install!StaleVolume
    <3>1. PICK runner \in {Install!Nobody, i} : docker' = [docker EXCEPT ![a] = [run |-> runner, volume |-> i]]
      BY <1>13, <2>2 DEF Install!RunsContainers
    <3>2. docker' = [b \in Install!Apps |-> IF b = a THEN [run |-> runner, volume |-> i] ELSE [run |-> docker[b].run, volume |-> docker[b].volume]]
      BY <1>3, <2>0, <3>1 DEF DockerOwn
    <3>3. /\ \A r \in Install!Slots \ {s} : work'[r] = work[r] /\ (Runs(r) => work[r].app \in Install!Apps \ {a})
          /\ listing[a].applied => listing[a].inst = i
      BY <2>0 DEF DockerOwn, Only, Runs, InstallInv, InstallTypes, IsWork
    <3> HIDE DEF a, i
    <3>4. /\ docker'[a].run \in {Install!Nobody, i} /\ docker'[a].volume = i
          /\ \A b \in Install!Apps \ {a} : docker'[b].run = docker[b].run /\ docker'[b].volume = docker[b].volume
      BY <2>0, <3>2
    <3>5. docker' = [b \in Install!Apps |-> [run |-> docker'[b].run, volume |-> docker'[b].volume]]
      BY <3>2
    <3>6. \A b \in Install!Apps : /\ docker'[b].run \in {Install!Nobody, docker'[b].volume}
                                  /\ listing[b].applied => docker'[b].volume \in {Install!Nobody, listing[b].inst}
      BY <3>3, <3>4 DEF DockerOwn
    <3>7. ASSUME NEW r \in Install!Slots, Runs(r)'
          PROVE  /\ \A q \in Install!Slots \ {r} : Runs(q)' => work'[q].app # work'[r].app
                 /\ listing[work'[r].app].applied => listing[work'[r].app].inst = work'[r].inst
                 /\ work'[r].pc \notin {"build", "run"} => docker'[work'[r].app].volume \in {Install!Nobody, work'[r].inst}
      <4>1. CASE r = s
        BY <2>0, <3>3, <3>4, <3>7, <4>1 DEF Runs
      <4>2. CASE r # s
        <5>1. /\ work'[r] = work[r] /\ Runs(r) /\ work[r].app \in Install!Apps \ {a}
              /\ docker'[work[r].app].volume = docker[work[r].app].volume
          BY <3>3, <3>4, <3>7, <4>2 DEF Runs
        <5>2. \A q \in Install!Slots \ {r} : Runs(q)' => work'[q].app # work[r].app
          BY <2>0, <3>3, <5>1 DEF Runs, DockerOwn
        <5> QED BY <2>0, <5>1, <5>2 DEF DockerOwn
      <4> QED BY <4>1, <4>2
    <3> QED BY <2>0, <3>5, <3>6, <3>7 DEF DockerOwn
  <2> QED BY <2>1, <2>2
<1>14. CASE Install!RemovesContainers(s) \/ Install!RemovesVolumes(s)
  <2> DEFINE a == work[s].app
  <2>0. listing' = listing /\ work[s].kind # "none" /\ ~Runs(s) /\ a \in Install!Apps /\ Only(s) /\ ~Runs(s)'
    <3>1. listing' = listing /\ work[s].kind # "none" /\ work[s].pc \in {"containers", "volumes"}
      BY <1>14 DEF Install!RemovesContainers, Install!RemovesVolumes, Install!At, Install!records
    <3>2. ~Runs(s) /\ a \in Install!Apps
      BY <1>0, <3>1 DEF IsWork, InstallPlaces, Runs
    <3>3. Install!Ends(s) \/ \E pc : Install!Goes(s, pc)
      BY <1>14 DEF Install!RemovesContainers, Install!RemovesVolumes
    <3> QED BY <1>6, <1>7, <3>1, <3>2, <3>3 DEF Runs
  <2>1. \/ docker' = docker \/ docker' = [docker EXCEPT ![a].run = Install!Nobody]
        \/ docker' = [docker EXCEPT ![a].volume = Install!Nobody] /\ docker[a].run = Install!Nobody
    BY <1>14 DEF Install!RemovesContainers, Install!RemovesVolumes
  <2>2. PICK runner \in {Install!Nobody, docker[a].run}, volume \in {Install!Nobody, docker[a].volume} :
          /\ docker' = [b \in Install!Apps |-> IF b = a THEN [run |-> runner, volume |-> volume]
                                               ELSE [run |-> docker[b].run, volume |-> docker[b].volume]]
          /\ runner \in {Install!Nobody, volume}
    <3>0. docker[a].run \in {Install!Nobody, docker[a].volume}
      BY <2>0 DEF DockerOwn
    <3>1. CASE docker' = docker
      <4> WITNESS docker[a].run \in {Install!Nobody, docker[a].run}, docker[a].volume \in {Install!Nobody, docker[a].volume}
      <4> QED BY <1>3, <2>0, <3>0, <3>1 DEF DockerOwn
    <3>2. CASE docker' = [docker EXCEPT ![a].run = Install!Nobody]
      <4> WITNESS Install!Nobody \in {Install!Nobody, docker[a].run}, docker[a].volume \in {Install!Nobody, docker[a].volume}
      <4> QED BY <1>3, <2>0, <3>2 DEF DockerOwn
    <3>3. CASE docker' = [docker EXCEPT ![a].volume = Install!Nobody] /\ docker[a].run = Install!Nobody
      <4> WITNESS Install!Nobody \in {Install!Nobody, docker[a].run}, Install!Nobody \in {Install!Nobody, docker[a].volume}
      <4> QED BY <1>3, <2>0, <3>3 DEF DockerOwn
    <3> QED BY <2>1, <3>1, <3>2, <3>3
  <2> HIDE DEF a
  <2>3. \A b \in Install!Apps : docker'[b].run \in {Install!Nobody, docker'[b].volume}
                                /\ docker'[b].volume \in {Install!Nobody, docker[b].volume}
    BY <2>0, <2>2 DEF DockerOwn
  <2>4. docker' = [b \in Install!Apps |-> [run |-> docker'[b].run, volume |-> docker'[b].volume]]
    BY <2>2
  <2> QED BY <2>0, <2>3, <2>4, DockerAside
<1> QED BY <1>1, <1>4, <1>8, <1>9, <1>10, <1>11, <1>12, <1>13, <1>14 DEF Install!WorkStep

\* An app nothing is done to is whole.
LEMMA WholeThen ==
  ASSUME InstallInv, DockerOwn
  PROVE  Install!InstalledIsWhole
<1> SUFFICES ASSUME NEW a \in Install!Apps, Install!Installed(a), Install!Under(a) = {}
             PROVE  /\ listing[a].inst \in packages /\ listing[a].inst \in secrets
                    /\ listing[a].applied => {docker[a].run, docker[a].volume} \subseteq {Install!Nobody, listing[a].inst}
                    /\ (listing[a].applied /\ a \notin crowded) => a \in routes
  BY DEF Install!InstalledIsWhole
<1>1. \A s \in Install!Slots : ~(work[s].kind # "none" /\ work[s].app = a)
  BY DEF Install!Under
<1>2. listing[a].applied => {docker[a].run, docker[a].volume} \subseteq {Install!Nobody, listing[a].inst}
  BY DEF DockerOwn
<1> QED BY <1>1, <1>2 DEF InstallInv, FilesKept, Served, Install!At

(* Connections: what is stored of an app is what its rows would render to, and a save that is     *)
(* reported as put back has left the app as it was before.                                        *)

Dos      == {"write", "apply", "agent", "record", "health", "tidy", "restore", "end", "relink", "join",
             "complete", "stop", "disable", "remove", "delete", "enable"}
Ons      == {"end", "undo", "skip", "unlink", "lost"}
Steps    == [do : Dos, app : Connection!Apps, on : Ons]
Contents == [env : BOOLEAN, link : BOOLEAN, folder : BOOLEAN]

IsHandler(r) ==
  /\ DOMAIN r = {"op", "todo", "read", "address", "value", "drive", "before", "result"}
  /\ r.todo \in Seq(Steps)
  /\ DOMAIN r.before = {"env", "secret", "folder", "linked", "content"} /\ r.before.content \in Contents
  /\ r.before.linked \in BOOLEAN /\ r.before.folder \in BOOLEAN

StoreTypes ==
  /\ appRows \in [Connection!Apps -> {"installed", "disabled", "absent"}]
  /\ projected \in [Connection!Apps -> [content : Contents, applied : BOOLEAN, healthy : BOOLEAN]]
  /\ folder \in BOOLEAN /\ crossed \in BOOLEAN
  /\ DOMAIN runs = Connection!Apps /\ \A a \in Connection!Apps : DOMAIN runs[a] = {"on", "ok", "env", "link", "folder", "address"}
  /\ DOMAIN link = {"status", "url"}

ConnTypes == StoreTypes /\ DOMAIN handlers = Connection!Keys /\ \A h \in Connection!Keys : IsHandler(handlers[h])

\* What is left to do of a save that is undone.
LostShape(t) ==
  \/ t[1].do = "restore" /\ Len(t) = 4 /\ t[2].do = "apply" /\ t[3].do = "health" /\ t[4].do = "end"
  \/ t[1].do \in {"apply", "agent", "record"} /\ Len(t) = 3 /\ t[2].do = "health" /\ t[3].do = "end"
  \/ t[1].do = "health" /\ Len(t) = 2 /\ t[2].do = "end"
  \/ t[1].do = "end" /\ Len(t) = 1

\* Only a save writes, and only its steps undo it: the apply and the wait that follow the write,
\* or those of the undoing.
Shaped(r) ==
  LET t == r.todo IN t # <<>> =>
    /\ r.op # "none" /\ r.result # "rolled-back"
    /\ \A i \in 1..Len(t) :
         /\ t[i].on \in {"undo", "lost"} => r.op = "save" /\ t[i].app = "consumer"
         /\ t[i].on = "undo" => t[i].do \in {"apply", "agent", "record", "health"}
         /\ t[i].do \in {"restore", "end"} => t[i].on = "lost"
         /\ t[i].do = "write" => r.op = "save" /\ t[i].on = "end"
         /\ t[i].do = "delete" => r.op # "save" /\ i = Len(t)
    /\ \A i \in 2..Len(t) :
         /\ t[i].do \notin {"write", "restore", "agent", "record"}
         /\ t[i].on = "undo" => t[i - 1].do = "write" \/ t[i - 1].on = "undo"
         /\ t[i].on = "lost" => t[i - 1].on = "lost"
    /\ t[1].on = "lost" => LostShape(t)

\* An app that is to be disabled or enabled is there.
Refers ==
  ~crossed => \A h \in Connection!Keys : \A i \in 1..Len(handlers[h].todo) :
    handlers[h].todo[i].do \in {"disable", "enable"} => appRows[handlers[h].todo[i].app] # "absent"

OneByOne == ~crossed => \A h, g \in Connection!Keys : Connection!Busy(h) /\ Connection!Busy(g) => h = g

Stored == projected["consumer"].content
Present == \A a \in Connection!Apps : appRows[a] # "absent"

\* The projections are of the rows; those of the connection until an app is gone.
Rendered ==
  ~crossed /\ appRows["consumer"] # "absent" =>
    /\ Stored.env = (env # Connection!Unset) /\ Stored.folder = folder
    /\ Present => Stored.link = Connection!Linked

\* What a save remembers is of one moment, at which the connection was as it is.
Remembers(h) ==
  LET memory == handlers[h].before IN
  handlers[h].op = "save" /\ Connection!Busy(h) =>
    /\ memory.content.env = (memory.env # Connection!Unset) /\ memory.content.folder = memory.folder
    /\ memory.linked = Connection!Linked
    /\ Present => memory.content.link = Connection!Linked

Secret == IF env # Connection!Unset THEN secret ELSE Connection!Unset

\* How far a save is from what it remembers.
Undoes(h) ==
  LET t == handlers[h].todo memory == handlers[h].before step == t[1] IN
  handlers[h].op = "save" /\ Connection!Busy(h) =>
    /\ step.do = "write" => env = memory.env /\ folder = memory.folder
    /\ (step.on = "undo" \/ step.do = "restore") /\ handlers[h].value = Connection!Unset => secret = memory.secret
    /\ step.on = "lost" /\ step.do # "restore" =>
         env = memory.env /\ folder = memory.folder /\ secret = memory.secret /\ Stored = memory.content
    /\ step.on = "lost" /\ step.do = "agent" => handlers[h].read.env = Secret
    /\ step.on = "lost" /\ step.do \in {"record", "health", "end"} => runs["consumer"].env = Secret

Undone(h) ==
  handlers[h].op = "save" /\ ~Connection!Busy(h) /\ handlers[h].result = "rolled-back"
  /\ (\A other \in Connection!Keys \ {h} : handlers[other].op = "none") =>
    LET memory == handlers[h].before IN
    /\ env = memory.env /\ folder = memory.folder /\ secret = memory.secret
    /\ runs["consumer"].env = Secret

Saves == ~crossed => \A h \in Connection!Keys : Remembers(h) /\ Undoes(h) /\ Undone(h)

ConnInv ==
  /\ ConnTypes /\ \A h \in Connection!Keys : Shaped(handlers[h])
  /\ Refers /\ OneByOne /\ Rendered /\ Saves

OnlyHandler(h) == DOMAIN handlers' = Connection!Keys /\ \A g \in Connection!Keys \ {h} : handlers'[g] = handlers[g]

LEMMA AtStep ==
  ASSUME ConnInv, NEW h \in Connection!Keys, Connection!Busy(h)
  PROVE  LET t == handlers[h].todo IN
         /\ IsHandler(handlers[h]) /\ Shaped(handlers[h]) /\ DOMAIN handlers = Connection!Keys
         /\ t \in Seq(Steps) /\ t # <<>> /\ Len(t) \in Nat /\ Len(t) >= 1 /\ Head(t) = t[1] /\ t[1] \in Steps
         /\ Tail(t) \in Seq(Steps) /\ Len(Tail(t)) = Len(t) - 1 /\ \A i \in 1..(Len(t) - 1) : Tail(t)[i] = t[i + 1]
         /\ handlers[h].op # "none" /\ handlers[h].result # "rolled-back"
<1> DEFINE t == handlers[h].todo
<1>1. IsHandler(handlers[h]) /\ Shaped(handlers[h]) /\ DOMAIN handlers = Connection!Keys
  BY DEF ConnInv, ConnTypes
<1>2. t \in Seq(Steps) /\ t # <<>>
  BY <1>1 DEF IsHandler, Connection!Busy
<1>3. Len(t) \in Nat /\ Len(t) >= 1 BY <1>2, EmptySeq, LenProperties
<1>4. Head(t) = t[1] /\ t[1] \in Steps
  BY <1>2, <1>3, HeadTailProperties, ElementOfSeq
<1>5. Tail(t) \in Seq(Steps) /\ Len(Tail(t)) = Len(t) - 1 /\ \A i \in 1..(Len(t) - 1) : Tail(t)[i] = t[i + 1]
  BY <1>2, <1>3, HeadTailProperties
<1>6. handlers[h].op # "none" /\ handlers[h].result # "rolled-back"
  BY <1>1, <1>2 DEF Shaped
<1> QED BY <1>1, <1>2, <1>3, <1>4, <1>5, <1>6

\* While handlers move one by one, what is asked of the others' saves is asked of nothing.
LEMMA OneMoves ==
  ASSUME ConnInv, NEW h \in Connection!Keys, Connection!Busy(h), OnlyHandler(h), IsHandler(handlers'[h]), Shaped(handlers'[h]),
         handlers'[h].op = handlers[h].op, crossed' = crossed,
         ~crossed => Remembers(h)' /\ Undoes(h)' /\ Undone(h)'
  PROVE  /\ DOMAIN handlers' = Connection!Keys /\ \A g \in Connection!Keys : IsHandler(handlers'[g]) /\ Shaped(handlers'[g])
         /\ OneByOne' /\ Saves'
<1>1. DOMAIN handlers' = Connection!Keys /\ \A g \in Connection!Keys : IsHandler(handlers'[g]) /\ Shaped(handlers'[g])
  BY DEF ConnInv, ConnTypes, OnlyHandler
<1>2. \A g \in Connection!Keys : Connection!Busy(g)' => Connection!Busy(g)
  BY DEF Connection!Busy, OnlyHandler
<1>3. OneByOne' BY <1>2 DEF ConnInv, OneByOne
<1>4. Saves'
  <2> SUFFICES ASSUME ~crossed, NEW g \in Connection!Keys \ {h}
               PROVE  Remembers(g)' /\ Undoes(g)' /\ Undone(g)'
    BY DEF Saves
  <2>1. ~Connection!Busy(g)' BY <1>2 DEF ConnInv, OneByOne
  <2>2. handlers'[h].op # "none" BY AtStep
  <2>3. Remembers(g)' /\ Undoes(g)' BY <2>1 DEF Remembers, Undoes
  <2>4. Undone(g)' BY <2>2 DEF Undone
  <2> QED BY <2>3, <2>4
<1> QED BY <1>1, <1>3, <1>4

\* The rest of a list of steps is one.
LEMMA RestShaped ==
  ASSUME ConnInv, NEW h \in Connection!Keys, Connection!Busy(h), IsHandler(handlers'[h]),
         handlers'[h].op = handlers[h].op, handlers'[h].todo = Connection!Rest(h),
         handlers'[h].todo # <<>> => handlers'[h].result # "rolled-back"
  PROVE  Shaped(handlers'[h])
<1> DEFINE t == handlers[h].todo
           u == handlers'[h].todo
<1> SUFFICES ASSUME u # <<>> PROVE Shaped(handlers'[h])
  BY DEF Shaped
<1>1. /\ Shaped(handlers[h]) /\ t # <<>> /\ Len(t) \in Nat /\ Len(t) >= 1 /\ u = Tail(t)
      /\ u \in Seq(Steps) /\ Len(u) = Len(t) - 1 /\ \A i \in 1..(Len(t) - 1) : u[i] = t[i + 1]
  BY AtStep DEF Connection!Rest
<1>2. Len(t) >= 2 BY <1>1, EmptySeq
<1> HIDE DEF t, u
<1>3. /\ \A i \in 1..Len(t) :
           /\ t[i].on \in {"undo", "lost"} => handlers[h].op = "save" /\ t[i].app = "consumer"
           /\ t[i].on = "undo" => t[i].do \in {"apply", "agent", "record", "health"}
           /\ t[i].do \in {"restore", "end"} => t[i].on = "lost"
           /\ t[i].do = "write" => handlers[h].op = "save" /\ t[i].on = "end"
           /\ t[i].do = "delete" => handlers[h].op # "save" /\ i = Len(t)
      /\ \A i \in 2..Len(t) :
           /\ t[i].do \notin {"write", "restore", "agent", "record"}
           /\ t[i].on = "undo" => t[i - 1].do = "write" \/ t[i - 1].on = "undo"
           /\ t[i].on = "lost" => t[i - 1].on = "lost"
      /\ t[1].on = "lost" => LostShape(t)
      /\ handlers[h].op # "none"
  BY <1>1 DEF Shaped, t
<1>4. \A i \in 1..Len(u) :
        /\ u[i].on \in {"undo", "lost"} => handlers[h].op = "save" /\ u[i].app = "consumer"
        /\ u[i].on = "undo" => u[i].do \in {"apply", "agent", "record", "health"}
        /\ u[i].do \in {"restore", "end"} => u[i].on = "lost"
        /\ u[i].do = "write" => handlers[h].op = "save" /\ u[i].on = "end"
        /\ u[i].do = "delete" => handlers[h].op # "save" /\ i = Len(u)
  <2> SUFFICES ASSUME NEW i \in 1..Len(u)
               PROVE  /\ u[i].on \in {"undo", "lost"} => handlers[h].op = "save" /\ u[i].app = "consumer"
                      /\ u[i].on = "undo" => u[i].do \in {"apply", "agent", "record", "health"}
                      /\ u[i].do \in {"restore", "end"} => u[i].on = "lost"
                      /\ u[i].do = "write" => handlers[h].op = "save" /\ u[i].on = "end"
                      /\ u[i].do = "delete" => handlers[h].op # "save" /\ i = Len(u)
    OBVIOUS
  <2>1. u[i] = t[i + 1] /\ i + 1 \in 1..Len(t) BY <1>1
  <2>2. /\ t[i + 1].on \in {"undo", "lost"} => handlers[h].op = "save" /\ t[i + 1].app = "consumer"
        /\ t[i + 1].on = "undo" => t[i + 1].do \in {"apply", "agent", "record", "health"}
        /\ t[i + 1].do \in {"restore", "end"} => t[i + 1].on = "lost"
        /\ t[i + 1].do = "write" => handlers[h].op = "save" /\ t[i + 1].on = "end"
        /\ t[i + 1].do = "delete" => handlers[h].op # "save" /\ i + 1 = Len(t)
    BY <1>3, <2>1
  <2>3. i + 1 = Len(t) => i = Len(u)
    <3> DEFINE n == Len(t)
               m == Len(u)
    <3>1. n \in Nat /\ m = n - 1 /\ i \in 1..m BY <1>1
    <3> HIDE DEF n, m
    <3>2. i + 1 = n => i = m BY <3>1
    <3> QED BY <3>2 DEF n, m
  <2> QED BY <2>1, <2>2, <2>3
<1>5. \A i \in 2..Len(u) :
        /\ u[i].do \notin {"write", "restore", "agent", "record"}
        /\ u[i].on = "undo" => u[i - 1].do = "write" \/ u[i - 1].on = "undo"
        /\ u[i].on = "lost" => u[i - 1].on = "lost"
  <2> SUFFICES ASSUME NEW i \in 2..Len(u)
               PROVE  /\ u[i].do \notin {"write", "restore", "agent", "record"}
                      /\ u[i].on = "undo" => u[i - 1].do = "write" \/ u[i - 1].on = "undo"
                      /\ u[i].on = "lost" => u[i - 1].on = "lost"
    OBVIOUS
  <2>1. u[i] = t[i + 1] /\ u[i - 1] = t[i] /\ i + 1 \in 2..Len(t) /\ (i + 1) - 1 = i
    BY <1>1
  <2>2. /\ t[i + 1].do \notin {"write", "restore", "agent", "record"}
        /\ t[i + 1].on = "undo" => t[i].do = "write" \/ t[i].on = "undo"
        /\ t[i + 1].on = "lost" => t[i].on = "lost"
    BY <1>3, <2>1
  <2> QED BY <2>1, <2>2
<1>6. u[1].on = "lost" => LostShape(u)
  <2> SUFFICES ASSUME u[1].on = "lost" PROVE LostShape(u)
    OBVIOUS
  <2>1. u[1] = t[2] /\ t[1].on = "lost"
    <3>1. 1 \in 1..(Len(t) - 1) /\ 2 \in 2..Len(t) /\ 2 - 1 = 1 /\ 1 + 1 = 2
      BY <1>1, <1>2
    <3>2. u[1] = t[1 + 1] BY <1>1, <3>1
    <3>3. u[1] = t[2] BY <3>1, <3>2
    <3>4. t[2].on = "lost" => t[2 - 1].on = "lost" BY <1>3, <3>1
    <3>5. t[1].on = "lost" BY <3>1, <3>3, <3>4
    <3> QED BY <3>3, <3>5
  <2>2. LostShape(t) BY <1>3, <2>1
  <2>3. \A i \in 1..(Len(t) - 1) : u[i] = t[i + 1] BY <1>1
  <2>4. CASE Len(t) = 4 /\ t[2].do = "apply" /\ t[3].do = "health" /\ t[4].do = "end"
    <3>1. Len(u) = 3 /\ u[1] = t[2] BY <1>1, <2>3, <2>4
    <3>2. u[2] = t[3] BY <2>3, <2>4
    <3>3. u[3] = t[4] BY <2>3, <2>4
    <3> QED BY <2>4, <3>1, <3>2, <3>3 DEF LostShape
  <2>5. CASE Len(t) = 3 /\ t[2].do = "health" /\ t[3].do = "end"
    <3>1. Len(u) = 2 /\ u[1] = t[2] BY <1>1, <2>3, <2>5
    <3>2. u[2] = t[3] BY <2>3, <2>5
    <3> QED BY <2>5, <3>1, <3>2 DEF LostShape
  <2>6. CASE Len(t) = 2 /\ t[2].do = "end"
    <3>1. Len(u) = 1 /\ u[1] = t[2] BY <1>1, <2>3, <2>6
    <3> QED BY <2>6, <3>1 DEF LostShape
  <2>7. CASE Len(t) = 1
    BY <1>2, <2>7
  <2> QED BY <2>2, <2>4, <2>5, <2>6, <2>7 DEF LostShape
<1>7. handlers'[h].todo = u BY DEF u
<1> QED BY <1>3, <1>4, <1>5, <1>6, <1>7 DEF Shaped

\* The next step of a list is not one that only comes first, and is undone if this one is.
LEMMA NextStep ==
  ASSUME ConnInv, NEW h \in Connection!Keys, Connection!Busy(h), Tail(handlers[h].todo) # <<>>
  PROVE  LET t == handlers[h].todo u == Tail(t) IN
         /\ u[1].do \notin {"write", "restore", "agent", "record"}
         /\ u[1].on = "undo" => t[1].do = "write" \/ t[1].on = "undo"
         /\ u[1].on = "lost" => t[1].on = "lost"
         /\ u[1].do \in {"restore", "end"} => u[1].on = "lost"
         /\ t[1].do # "delete"
<1> DEFINE t == handlers[h].todo
           u == Tail(t)
<1>1. /\ Shaped(handlers[h]) /\ t # <<>> /\ Len(t) \in Nat /\ Len(t) >= 1
      /\ u \in Seq(Steps) /\ Len(u) = Len(t) - 1 /\ \A i \in 1..(Len(t) - 1) : u[i] = t[i + 1]
  BY AtStep
<1>2. Len(t) >= 2 BY <1>1, EmptySeq
<1>3. u[1] = t[2] /\ 2 \in 2..Len(t) /\ 2 \in 1..Len(t) /\ 1 \in 1..Len(t) /\ 2 - 1 = 1 /\ 1 # Len(t)
  BY <1>1, <1>2
<1>4. /\ t[2].do \notin {"write", "restore", "agent", "record"}
      /\ t[2].on = "undo" => t[2 - 1].do = "write" \/ t[2 - 1].on = "undo"
      /\ t[2].on = "lost" => t[2 - 1].on = "lost"
      /\ t[2].do \in {"restore", "end"} => t[2].on = "lost"
      /\ t[1].do = "delete" => 1 = Len(t)
  BY <1>1, <1>3 DEF Shaped
<1> QED BY <1>3, <1>4

\* The handler goes on to its next step, and what a save remembers is as it was.
LEMMA GoesToNext ==
  ASSUME ConnInv, NEW h \in Connection!Keys, Connection!Busy(h), OnlyHandler(h), crossed' = crossed,
         handlers'[h].todo = Connection!Rest(h),
         DOMAIN handlers'[h] = DOMAIN handlers[h],
         handlers'[h].op = handlers[h].op, handlers'[h].value = handlers[h].value, handlers'[h].read = handlers[h].read,
         handlers'[h].before = handlers[h].before,
         handlers'[h].result = handlers[h].result \/ handlers'[h].result # "rolled-back",
         LET step == Head(handlers[h].todo) IN
         /\ step.do \notin {"write", "restore"}
         /\ step.on \in {"undo", "lost"} =>
              /\ env' = env /\ folder' = folder /\ secret' = secret /\ Stored' = Stored
              /\ runs'["consumer"].env = runs["consumer"].env
         /\ step.on = "lost" => step.do \in {"record", "health"}
         /\ step.do # "delete" => Connection!Linked' = Connection!Linked /\ (~crossed => (Present' => Present))
  PROVE  /\ DOMAIN handlers' = Connection!Keys /\ \A g \in Connection!Keys : IsHandler(handlers'[g]) /\ Shaped(handlers'[g])
         /\ OneByOne' /\ Saves'
<1> DEFINE t == handlers[h].todo
           u == Tail(t)
<1>1. /\ IsHandler(handlers[h]) /\ u \in Seq(Steps) /\ Head(t) = t[1] /\ handlers'[h].todo = u
      /\ handlers[h].result # "rolled-back"
  BY AtStep DEF Connection!Rest
<1>2. IsHandler(handlers'[h]) BY <1>1 DEF IsHandler
<1>3. Shaped(handlers'[h]) BY <1>1, <1>2, RestShaped
<1>4. CASE u = <<>>
  <2>1. ~Connection!Busy(h)' /\ handlers'[h].result # "rolled-back"
    BY <1>1, <1>4 DEF Connection!Busy
  <2>2. Remembers(h)' /\ Undoes(h)' /\ Undone(h)'
    BY <2>1 DEF Remembers, Undoes, Undone
  <2> QED BY <1>2, <1>3, <2>2, OneMoves
<1>5. CASE u # <<>>
  <2>1. /\ u[1].do \notin {"write", "restore", "agent", "record"}
        /\ u[1].on = "undo" => t[1].do = "write" \/ t[1].on = "undo"
        /\ u[1].on = "lost" => t[1].on = "lost"
        /\ t[1].do # "delete"
    BY <1>5, NextStep
  <2>2. ASSUME ~crossed PROVE Remembers(h)' /\ Undoes(h)'
    <3>1. Remembers(h) /\ Undoes(h) BY <2>2 DEF ConnInv, Saves
    <3>2. Remembers(h)' BY <1>1, <2>1, <2>2, <3>1 DEF Remembers
    <3>3. Undoes(h)'
      <4> SUFFICES ASSUME handlers[h].op = "save"
                   PROVE  /\ u[1].do = "write" => env' = handlers[h].before.env /\ folder' = handlers[h].before.folder
                          /\ (u[1].on = "undo" \/ u[1].do = "restore") /\ handlers[h].value = Connection!Unset
                               => secret' = handlers[h].before.secret
                          /\ u[1].on = "lost" /\ u[1].do # "restore" =>
                               /\ env' = handlers[h].before.env /\ folder' = handlers[h].before.folder
                               /\ secret' = handlers[h].before.secret /\ Stored' = handlers[h].before.content
                          /\ u[1].on = "lost" /\ u[1].do = "agent" => handlers[h].read.env = Secret'
                          /\ u[1].on = "lost" /\ u[1].do \in {"record", "health", "end"} => runs'["consumer"].env = Secret'
        BY <1>1 DEF Undoes
      <4>1. /\ t[1].on = "undo" /\ handlers[h].value = Connection!Unset => secret = handlers[h].before.secret
            /\ t[1].on = "lost" /\ t[1].do # "restore" =>
                 /\ env = handlers[h].before.env /\ folder = handlers[h].before.folder
                 /\ secret = handlers[h].before.secret /\ Stored = handlers[h].before.content
            /\ t[1].on = "lost" /\ t[1].do \in {"record", "health"} => runs["consumer"].env = Secret
        BY <3>1 DEF Undoes
      <4>2. t[1].on \in {"undo", "lost"} => Secret' = Secret
        BY <1>1 DEF Secret
      <4> QED BY <1>1, <2>1, <4>1, <4>2
    <3> QED BY <3>2, <3>3
  <2>3. Undone(h)' BY <1>1, <1>5 DEF Connection!Busy, Undone
  <2> QED BY <1>2, <1>3, <2>2, <2>3, OneMoves
<1> QED BY <1>4, <1>5

\* The handler stops there.
LEMMA EndsThere ==
  ASSUME ConnInv, NEW h \in Connection!Keys, Connection!Busy(h), OnlyHandler(h), crossed' = crossed,
         handlers'[h].todo = <<>>, DOMAIN handlers'[h] = DOMAIN handlers[h],
         handlers'[h].op = handlers[h].op, handlers'[h].before = handlers[h].before,
         handlers'[h].result # "rolled-back" \/ (~crossed => Undone(h)')
  PROVE  /\ DOMAIN handlers' = Connection!Keys /\ \A g \in Connection!Keys : IsHandler(handlers'[g]) /\ Shaped(handlers'[g])
         /\ OneByOne' /\ Saves'
<1>1. IsHandler(handlers[h]) /\ <<>> \in Seq(Steps) BY AtStep, EmptySeq
<1>2. IsHandler(handlers'[h]) /\ Shaped(handlers'[h])
  BY <1>1 DEF IsHandler, Shaped
<1>3. ~Connection!Busy(h)' BY DEF Connection!Busy
<1>4. Remembers(h)' /\ Undoes(h)' /\ (handlers'[h].result # "rolled-back" => Undone(h)')
  BY <1>3 DEF Remembers, Undoes, Undone
<1> QED BY <1>2, <1>4, OneMoves

\* No app is gone that a step names.
LEMMA RefersOn ==
  ASSUME ConnInv, NEW h \in Connection!Keys, Connection!Busy(h), OnlyHandler(h), crossed' = crossed,
         \A i \in 1..Len(handlers'[h].todo) : handlers'[h].todo[i].do \in {"disable", "enable"} =>
           \E j \in 1..Len(handlers[h].todo) : handlers[h].todo[j] = handlers'[h].todo[i],
         handlers'[h].todo = <<>> \/ \A a \in Connection!Apps : appRows[a] # "absent" => appRows'[a] # "absent"
  PROVE  Refers'
<1> SUFFICES ASSUME ~crossed, NEW g \in Connection!Keys, NEW i \in 1..Len(handlers'[g].todo),
                    handlers'[g].todo[i].do \in {"disable", "enable"}
             PROVE  appRows'[handlers'[g].todo[i].app] # "absent"
  BY DEF Refers
<1>1. CASE g # h
  <2>1. handlers[g].todo = <<>>
    BY <1>1 DEF ConnInv, OneByOne, Connection!Busy
  <2>2. Len(handlers'[g].todo) = 0
    BY <1>1, <2>1, EmptySeq DEF OnlyHandler
  <2> QED BY <2>2
<1>2. CASE g = h
  <2>1. PICK j \in 1..Len(handlers[h].todo) : handlers[h].todo[j] = handlers'[h].todo[i]
    BY <1>2
  <2>2. appRows[handlers[h].todo[j].app] # "absent"
    BY <1>2, <2>1 DEF ConnInv, Refers
  <2>3. handlers[h].todo[j].app \in Connection!Apps
    <3>1. handlers[h].todo \in Seq(Steps) BY AtStep
    <3>2. handlers[h].todo[j] \in Steps BY <3>1, ElementOfSeq
    <3> QED BY <3>2 DEF Steps
  <2>4. handlers'[h].todo # <<>> BY <1>2, EmptySeq
  <2> QED BY <1>2, <2>1, <2>2, <2>3, <2>4
<1> QED BY <1>1, <1>2

LEMMA RefersToRest ==
  ASSUME ConnInv, NEW h \in Connection!Keys, Connection!Busy(h), OnlyHandler(h), crossed' = crossed,
         handlers'[h].todo = Connection!Rest(h),
         Head(handlers[h].todo).do = "delete" \/ \A a \in Connection!Apps : appRows[a] # "absent" => appRows'[a] # "absent"
  PROVE  Refers'
<1> DEFINE t == handlers[h].todo
           u == Tail(t)
<1>1. /\ Len(t) \in Nat /\ Len(t) >= 1 /\ u \in Seq(Steps) /\ Len(u) = Len(t) - 1 /\ Head(t) = t[1]
      /\ \A i \in 1..(Len(t) - 1) : u[i] = t[i + 1]
  BY AtStep
<1>2. \A i \in 1..Len(u) : \E j \in 1..Len(t) : t[j] = u[i]
  <2> SUFFICES ASSUME NEW i \in 1..Len(u) PROVE \E j \in 1..Len(t) : t[j] = u[i]
    OBVIOUS
  <2> HIDE DEF t, u
  <2>1. u[i] = t[i + 1] /\ i + 1 \in 1..Len(t) BY <1>1
  <2> QED BY <2>1
<1>3. u = <<>> \/ t[1].do # "delete" BY NextStep
<1>4. handlers'[h].todo = u BY DEF Connection!Rest
<1>5. \A i \in 1..Len(handlers'[h].todo) : \E j \in 1..Len(handlers[h].todo) : handlers[h].todo[j] = handlers'[h].todo[i]
  BY <1>2, <1>4
<1>6. handlers'[h].todo = <<>> \/ \A a \in Connection!Apps : appRows[a] # "absent" => appRows'[a] # "absent"
  BY <1>1, <1>3, <1>4
<1> QED BY <1>5, <1>6, RefersOn

\* What is kept of the handlers, and of the rendering, when a step does nothing to the rows.
HandlersKept ==
  /\ DOMAIN handlers' = Connection!Keys /\ \A g \in Connection!Keys : IsHandler(handlers'[g]) /\ Shaped(handlers'[g])
  /\ OneByOne' /\ Saves' /\ Refers'

LEMMA RenderedOn ==
  ASSUME ConnInv, crossed' = crossed, UNCHANGED <<env, folder>>, Stored' = Stored,
         ~crossed => (appRows'["consumer"] # "absent" => appRows["consumer"] # "absent"),
         ~crossed => (Present' => Present /\ Connection!Linked' = Connection!Linked)
  PROVE  Rendered'
BY DEF ConnInv, Rendered

\* A step changes one field or more of its handler, not which requests there are.
LEMMA FieldsOf ==
  ASSUME ConnInv, NEW h \in Connection!Keys, Connection!Busy(h), NEW r, handlers' = [handlers EXCEPT ![h] = r]
  PROVE  OnlyHandler(h) /\ handlers'[h] = r
BY AtStep DEF OnlyHandler

LEMMA AdvanceFields ==
  ASSUME ConnInv, NEW h \in Connection!Keys, Connection!Busy(h), NEW s, Connection!Todo(h, s)
  PROVE  /\ OnlyHandler(h) /\ DOMAIN handlers'[h] = DOMAIN handlers[h] /\ handlers'[h].todo = s
         /\ handlers'[h].op = handlers[h].op /\ handlers'[h].value = handlers[h].value
         /\ handlers'[h].read = handlers[h].read /\ handlers'[h].before = handlers[h].before
         /\ handlers'[h].result = handlers[h].result
<1> DEFINE r == [handlers[h] EXCEPT !.todo = s]
<1>1. handlers' = [handlers EXCEPT ![h] = r] BY DEF Connection!Todo
<1>2. IsHandler(handlers[h]) BY AtStep
<1>3. /\ DOMAIN r = DOMAIN handlers[h] /\ r.todo = s /\ r.op = handlers[h].op /\ r.value = handlers[h].value
      /\ r.read = handlers[h].read /\ r.before = handlers[h].before /\ r.result = handlers[h].result
  BY <1>2 DEF IsHandler
<1> HIDE DEF r
<1>4. OnlyHandler(h) /\ handlers'[h] = r BY <1>1, FieldsOf
<1> QED BY <1>3, <1>4

\* The same, with a result.
Results(h, s, result) == handlers' = [handlers EXCEPT ![h].todo = s, ![h].result = result]

LEMMA ResultFields ==
  ASSUME ConnInv, NEW h \in Connection!Keys, Connection!Busy(h), NEW s, NEW result, Results(h, s, result)
  PROVE  /\ OnlyHandler(h) /\ DOMAIN handlers'[h] = DOMAIN handlers[h] /\ handlers'[h].todo = s
         /\ handlers'[h].op = handlers[h].op /\ handlers'[h].value = handlers[h].value
         /\ handlers'[h].read = handlers[h].read /\ handlers'[h].before = handlers[h].before
         /\ handlers'[h].result = result
<1> DEFINE r == [handlers[h] EXCEPT !.todo = s, !.result = result]
<1>1. handlers' = [handlers EXCEPT ![h] = r] BY DEF Results
<1>2. IsHandler(handlers[h]) BY AtStep
<1>3. /\ DOMAIN r = DOMAIN handlers[h] /\ r.todo = s /\ r.op = handlers[h].op /\ r.value = handlers[h].value
      /\ r.read = handlers[h].read /\ r.before = handlers[h].before /\ r.result = result
  BY <1>2 DEF IsHandler
<1> HIDE DEF r
<1>4. OnlyHandler(h) /\ handlers'[h] = r BY <1>1, FieldsOf
<1> QED BY <1>3, <1>4

\* The steps that undo a save.
LEMMA UndoShaped ==
  /\ Connection!UndoSteps \in Seq(Steps) /\ Connection!UndoSteps # <<>> /\ Len(Connection!UndoSteps) = 4
  /\ Connection!UndoSteps[1] = Connection!Step("restore", "consumer", "lost") /\ Connection!UndoSteps[2] = Connection!Step("apply", "consumer", "lost")
  /\ Connection!UndoSteps[3] = Connection!Step("health", "consumer", "lost") /\ Connection!UndoSteps[4] = Connection!Step("end", "consumer", "lost")
<1>1. /\ Connection!Step("restore", "consumer", "lost") \in Steps /\ Connection!Step("apply", "consumer", "lost") \in Steps
      /\ Connection!Step("health", "consumer", "lost") \in Steps /\ Connection!Step("end", "consumer", "lost") \in Steps
  BY DEF Connection!Step, Steps, Dos, Ons, Connection!Apps
<1>2. Connection!UndoSteps \in Seq(Steps)
  BY <1>1 DEF Connection!UndoSteps
<1>3. Len(Connection!UndoSteps) = 4 BY DEF Connection!UndoSteps
<1>4. Connection!UndoSteps # <<>>
  <2>1. Len(<<>>) = 0 BY EmptySeq
  <2> QED BY <1>3, <2>1
<1> QED BY <1>2, <1>3, <1>4 DEF Connection!UndoSteps

\* Whatever a failure leads to, a save remembers what it remembered.
LEMMA FailsOn ==
  ASSUME ConnInv, NEW h \in Connection!Keys, Connection!Busy(h), Connection!Failed(h), crossed' = crossed,
         UNCHANGED <<appRows, env, secret, folder>>, Stored' = Stored
  PROVE  HandlersKept /\ Connection!Linked' = Connection!Linked /\ DOMAIN link' = {"status", "url"}
<1> DEFINE t == handlers[h].todo
<1>1. /\ IsHandler(handlers[h]) /\ Shaped(handlers[h]) /\ t # <<>> /\ Head(t) = t[1] /\ Len(t) >= 1 /\ Len(t) \in Nat
      /\ t \in Seq(Steps) /\ t[1] \in Steps
  BY AtStep
<1>2. DOMAIN link = {"status", "url"}
  BY DEF ConnInv, ConnTypes, StoreTypes
<1>3. Connection!Linked' = Connection!Linked /\ DOMAIN link' = {"status", "url"}
  <2>1. CASE UNCHANGED link
    BY <1>2, <2>1 DEF Connection!Linked
  <2>2. CASE link' = IF link.status = "none" THEN link ELSE [link EXCEPT !.status = "failed"]
    BY <1>2, <2>2 DEF Connection!Linked
  <2> QED BY <2>1, <2>2 DEF Connection!Failed
<1>4. (Present' <=> Present) /\ \A a \in Connection!Apps : appRows[a] # "absent" => appRows'[a] # "absent"
  BY DEF Present
<1>5. ASSUME NEW result, result # "rolled-back", Results(h, <<>>, result)
      PROVE  HandlersKept
  <2>1. /\ OnlyHandler(h) /\ DOMAIN handlers'[h] = DOMAIN handlers[h] /\ handlers'[h].todo = <<>>
        /\ handlers'[h].op = handlers[h].op /\ handlers'[h].before = handlers[h].before /\ handlers'[h].result = result
    BY <1>5, ResultFields
  <2>2. Len(handlers'[h].todo) = 0 BY <2>1, EmptySeq
  <2>3. Refers' BY <1>4, <2>1, <2>2, RefersOn
  <2>4. /\ DOMAIN handlers' = Connection!Keys /\ \A g \in Connection!Keys : IsHandler(handlers'[g]) /\ Shaped(handlers'[g])
        /\ OneByOne' /\ Saves'
    BY <1>5, <2>1, EndsThere
  <2> QED BY <2>3, <2>4 DEF HandlersKept
<1>6. CASE t[1].on \in {"end", "lost"} /\ handlers' = [handlers EXCEPT ![h].todo = <<>>,
                          ![h].result = IF t[1].on = "lost" THEN "neither" ELSE "failed"]
  <2> DEFINE result == IF t[1].on = "lost" THEN "neither" ELSE "failed"
  <2>1. result # "rolled-back" OBVIOUS
  <2>2. Results(h, <<>>, result) BY <1>6 DEF Results
  <2> HIDE DEF result
  <2> QED BY <1>3, <1>5, <2>1, <2>2
<1>7. CASE t[1].on = "unlink" /\ handlers' = [handlers EXCEPT ![h].todo = <<>>, ![h].result = "partial"]
  <2>1. Results(h, <<>>, "partial") BY <1>7 DEF Results
  <2> QED BY <1>3, <1>5, <2>1
<1>8. CASE t[1].on = "skip" /\ handlers' = [handlers EXCEPT ![h].todo = Tail(@), ![h].result = "partial"]
  <2>1. /\ OnlyHandler(h) /\ DOMAIN handlers'[h] = DOMAIN handlers[h] /\ handlers'[h].todo = Connection!Rest(h)
        /\ handlers'[h].op = handlers[h].op /\ handlers'[h].before = handlers[h].before /\ handlers'[h].result = "partial"
        /\ handlers'[h].value = handlers[h].value /\ handlers'[h].read = handlers[h].read
    <3>1. Results(h, Connection!Rest(h), "partial")
      BY <1>8 DEF Results, Connection!Rest
    <3> QED BY <3>1, ResultFields
  <2>2. t[1].do \notin {"write", "restore"}
    <3>1. 1 \in 1..Len(t) BY <1>1
    <3>2. (t[1].do \in {"restore", "end"} => t[1].on = "lost") /\ (t[1].do = "write" => t[1].on = "end")
      BY <1>1, <3>1 DEF Shaped
    <3> QED BY <1>8, <3>2
  <2>3. Refers' BY <1>4, <2>1, RefersToRest
  <2>4. handlers'[h].result # "rolled-back" BY <2>1
  <2> QED BY <1>1, <1>3, <1>4, <1>8, <2>1, <2>2, <2>3, <2>4, GoesToNext DEF HandlersKept
<1>9. CASE t[1].on = "undo" /\ Connection!Todo(h, Connection!UndoSteps)
  <2>1. /\ OnlyHandler(h) /\ DOMAIN handlers'[h] = DOMAIN handlers[h] /\ handlers'[h].todo = Connection!UndoSteps
        /\ handlers'[h].op = handlers[h].op /\ handlers'[h].before = handlers[h].before
        /\ handlers'[h].result = handlers[h].result
        /\ handlers'[h].value = handlers[h].value /\ handlers'[h].read = handlers[h].read
    BY <1>9, AdvanceFields
  <2>2. handlers[h].op = "save" /\ t[1].do \in {"apply", "agent", "record", "health"} /\ handlers[h].result # "rolled-back"
    <3>1. 1 \in 1..Len(t) BY <1>1
    <3> QED BY <1>1, <1>9, <3>1 DEF Shaped
  <2>3. IsHandler(handlers'[h]) BY <1>1, <2>1, UndoShaped DEF IsHandler
  <2>4. Shaped(handlers'[h])
    <3> DEFINE u == Connection!UndoSteps
    <3> HIDE DEF u
    <3>1. /\ Len(u) = 4 /\ u[1].do = "restore" /\ u[2].do = "apply" /\ u[3].do = "health" /\ u[4].do = "end"
          /\ \A i \in 1..4 : u[i].on = "lost" /\ u[i].app = "consumer"
      BY UndoShaped DEF Connection!Step, u
    <3>2. \A i \in 1..4 : u[i].do \in {"restore", "apply", "health", "end"}
      BY <3>1
    <3>3. \A i \in 2..4 : u[i].do \in {"apply", "health", "end"} /\ u[i].on = "lost" /\ u[i - 1].on = "lost"
      BY <3>1
    <3>4. LostShape(u) BY <3>1 DEF LostShape
    <3>5. handlers'[h].todo = u BY <2>1 DEF u
    <3>6. /\ \A i \in 1..Len(u) :
               /\ u[i].on \in {"undo", "lost"} => handlers'[h].op = "save" /\ u[i].app = "consumer"
               /\ u[i].on = "undo" => u[i].do \in {"apply", "agent", "record", "health"}
               /\ u[i].do \in {"restore", "end"} => u[i].on = "lost"
               /\ u[i].do = "write" => handlers'[h].op = "save" /\ u[i].on = "end"
               /\ u[i].do = "delete" => handlers'[h].op # "save" /\ i = Len(u)
      BY <2>1, <2>2, <3>1, <3>2
    <3>7. \A i \in 2..Len(u) :
             /\ u[i].do \notin {"write", "restore", "agent", "record"}
             /\ u[i].on = "undo" => u[i - 1].do = "write" \/ u[i - 1].on = "undo"
             /\ u[i].on = "lost" => u[i - 1].on = "lost"
      BY <3>1, <3>3
    <3> QED BY <2>1, <2>2, <3>4, <3>5, <3>6, <3>7 DEF Shaped
  <2>5. ASSUME ~crossed PROVE Remembers(h)' /\ Undoes(h)' /\ Undone(h)'
    <3>1. Remembers(h) /\ Undoes(h) BY <2>5 DEF ConnInv, Saves
    <3>2. Remembers(h)' BY <1>3, <1>4, <2>1, <3>1 DEF Remembers
    <3>3. Undoes(h)'
      <4>1. Connection!UndoSteps[1].do = "restore" /\ Connection!UndoSteps[1].on = "lost"
        BY UndoShaped DEF Connection!Step
      <4>2. handlers[h].value = Connection!Unset => secret = handlers[h].before.secret
        BY <1>9, <2>2, <3>1 DEF Undoes
      <4> QED BY <2>1, <4>1, <4>2 DEF Undoes
    <3>4. Undone(h)' BY <2>1, <2>2 DEF Undone
    <3> QED BY <3>2, <3>3, <3>4
  <2>6. Refers'
    <3>1. \A i \in 1..4 : Connection!UndoSteps[i].do \notin {"disable", "enable"}
      BY UndoShaped DEF Connection!Step
    <3>2. Len(handlers'[h].todo) = 4 BY <2>1, UndoShaped
    <3> QED BY <1>4, <2>1, <3>1, <3>2, RefersOn
  <2>7. /\ DOMAIN handlers' = Connection!Keys /\ \A g \in Connection!Keys : IsHandler(handlers'[g]) /\ Shaped(handlers'[g])
        /\ OneByOne' /\ Saves'
    BY <2>1, <2>3, <2>4, <2>5, OneMoves
  <2> QED BY <1>3, <2>6, <2>7 DEF HandlersKept
<1> QED BY <1>1, <1>3, <1>6, <1>7, <1>8, <1>9 DEF Connection!Failed

\* Which steps are undone when they fail, and which are of an undoing.
LEMMA Marked ==
  ASSUME ConnInv, NEW h \in Connection!Keys, Connection!Busy(h)
  PROVE  LET step == Head(handlers[h].todo) IN
         /\ step.on = "undo" => step.do \in {"apply", "agent", "record", "health"}
         /\ step.on = "lost" => step.do \in {"restore", "apply", "agent", "record", "health", "end"}
         /\ step.on \in {"undo", "lost"} => step.app = "consumer" /\ handlers[h].op = "save"
         /\ step.do \in {"restore", "end"} => step.on = "lost"
         /\ step.do = "write" => step.on = "end" /\ handlers[h].op = "save"
         /\ step.do = "delete" => handlers[h].op # "save"
         /\ step.app \in Connection!Apps
<1> DEFINE t == handlers[h].todo
<1>1. Shaped(handlers[h]) /\ t # <<>> /\ Len(t) \in Nat /\ Len(t) >= 1 /\ Head(t) = t[1] /\ t[1] \in Steps
  BY AtStep
<1>2. 1 \in 1..Len(t) BY <1>1
<1>3. /\ t[1].on \in {"undo", "lost"} => handlers[h].op = "save" /\ t[1].app = "consumer"
      /\ t[1].on = "undo" => t[1].do \in {"apply", "agent", "record", "health"}
      /\ t[1].do \in {"restore", "end"} => t[1].on = "lost"
      /\ t[1].do = "write" => handlers[h].op = "save" /\ t[1].on = "end"
      /\ t[1].do = "delete" => handlers[h].op # "save"
      /\ t[1].on = "lost" => LostShape(t)
  BY <1>1, <1>2 DEF Shaped
<1>4. t[1].on = "lost" => t[1].do \in {"restore", "apply", "agent", "record", "health", "end"}
  BY <1>3 DEF LostShape
<1> QED BY <1>1, <1>3, <1>4 DEF Steps

LEMMA KeptThen ==
  ASSUME HandlersKept, StoreTypes', Rendered'
  PROVE  ConnInv'
BY DEF HandlersKept, ConnInv, ConnTypes

\* A step is done, and nothing that a save remembers is another.
LEMMA AdvancesOn ==
  ASSUME ConnInv, NEW h \in Connection!Keys, Connection!Busy(h), Connection!Advance(h), crossed' = crossed,
         UNCHANGED <<env, folder, secret>>, Stored' = Stored, Connection!Linked' = Connection!Linked, StoreTypes',
         \A a \in Connection!Apps : appRows[a] # "absent" => appRows'[a] # "absent",
         ~crossed => \A a \in Connection!Apps : appRows'[a] # "absent" => appRows[a] # "absent",
         LET step == Head(handlers[h].todo) IN
         /\ step.do \notin {"write", "restore", "delete", "apply", "agent", "end"}
         /\ step.do \in {"record", "health"} => runs'["consumer"].env = runs["consumer"].env
  PROVE  ConnInv'
<1>1. /\ OnlyHandler(h) /\ DOMAIN handlers'[h] = DOMAIN handlers[h] /\ handlers'[h].todo = Connection!Rest(h)
      /\ handlers'[h].op = handlers[h].op /\ handlers'[h].value = handlers[h].value
      /\ handlers'[h].read = handlers[h].read /\ handlers'[h].before = handlers[h].before
      /\ handlers'[h].result = handlers[h].result
  BY AdvanceFields DEF Connection!Advance
<1>2. ~crossed => (Present' => Present) BY DEF Present
<1>3. Refers' BY <1>1, RefersToRest
<1>4. LET step == Head(handlers[h].todo) IN
      /\ step.on \in {"undo", "lost"} => runs'["consumer"].env = runs["consumer"].env
      /\ step.on = "lost" => step.do \in {"record", "health"}
  BY Marked
<1>5. /\ DOMAIN handlers' = Connection!Keys /\ \A g \in Connection!Keys : IsHandler(handlers'[g]) /\ Shaped(handlers'[g])
      /\ OneByOne' /\ Saves'
  BY <1>1, <1>2, <1>4, GoesToNext
<1>6. Rendered' BY <1>2, RenderedOn DEF Connection!Apps
<1> QED BY <1>3, <1>5, <1>6, KeptThen DEF HandlersKept

LEMMA FailsThere ==
  ASSUME ConnInv, NEW h \in Connection!Keys, Connection!Busy(h), Connection!Failed(h), crossed' = crossed,
         UNCHANGED <<appRows, env, secret, folder>>, Stored' = Stored,
         projected' \in [Connection!Apps -> [content : Contents, applied : BOOLEAN, healthy : BOOLEAN]],
         DOMAIN runs' = Connection!Apps, \A a \in Connection!Apps : DOMAIN runs'[a] = {"on", "ok", "env", "link", "folder", "address"}
  PROVE  ConnInv'
<1>1. HandlersKept /\ Connection!Linked' = Connection!Linked /\ DOMAIN link' = {"status", "url"}
  BY FailsOn
<1>2. StoreTypes' BY <1>1 DEF ConnInv, ConnTypes, StoreTypes
<1>3. Rendered' BY <1>1, RenderedOn DEF Present
<1> QED BY <1>1, <1>2, <1>3, KeptThen

\* How an app is known to be applied or healthy is not what is stored of it.
LEMMA StoredAside ==
  ASSUME StoreTypes, NEW a \in Connection!Apps, NEW p,
         projected' = [projected EXCEPT ![a] = p],
         p \in [content : Contents, applied : BOOLEAN, healthy : BOOLEAN], p.content = projected[a].content
  PROVE  Stored' = Stored /\ projected' \in [Connection!Apps -> [content : Contents, applied : BOOLEAN, healthy : BOOLEAN]]
BY DEF StoreTypes, Stored, Connection!Apps

LEMMA LinkAside ==
  ASSUME StoreTypes, NEW status, status # "none",
         link' = link \/ link' = IF link.status = "none" THEN link ELSE [link EXCEPT !.status = status]
  PROVE  Connection!Linked' = Connection!Linked /\ DOMAIN link' = {"status", "url"}
<1>1. DOMAIN link = {"status", "url"} BY DEF StoreTypes
<1>2. CASE link' = link
  BY <1>1, <1>2 DEF Connection!Linked
<1>3. CASE link.status # "none" /\ link' = [link EXCEPT !.status = status]
  BY <1>1, <1>3 DEF Connection!Linked
<1> QED BY <1>2, <1>3

LEMMA TidiesKept ==
  ASSUME ConnInv, NEW h \in Connection!Keys, Connection!TidySecrets(h)
  PROVE  ConnInv'
<1> DEFINE step == Head(handlers[h].todo)
<1>1. Connection!Busy(h) /\ step.do = "tidy"
  BY DEF Connection!TidySecrets, Connection!At
<1>2. step.on \notin {"undo", "lost"} BY <1>1, Marked
<1>3. UNCHANGED <<appRows, env, folder, link, projected, runs, crossed>>
  BY DEF Connection!TidySecrets
<1>4. Results(h, Connection!Rest(h), "applied")
  BY DEF Connection!TidySecrets, Results, Connection!Rest
<1>5. /\ OnlyHandler(h) /\ DOMAIN handlers'[h] = DOMAIN handlers[h] /\ handlers'[h].todo = Connection!Rest(h)
      /\ handlers'[h].op = handlers[h].op /\ handlers'[h].value = handlers[h].value
      /\ handlers'[h].read = handlers[h].read /\ handlers'[h].before = handlers[h].before
      /\ handlers'[h].result = "applied"
  BY <1>1, <1>4, ResultFields
<1>6. Refers' BY <1>1, <1>3, <1>5, RefersToRest
<1>7. Connection!Linked' = Connection!Linked /\ (Present' <=> Present) /\ Stored' = Stored
  BY <1>3 DEF Connection!Linked, Present, Stored
<1>8. handlers'[h].result # "rolled-back" BY <1>5
<1>9. /\ DOMAIN handlers' = Connection!Keys /\ \A g \in Connection!Keys : IsHandler(handlers'[g]) /\ Shaped(handlers'[g])
      /\ OneByOne' /\ Saves'
  BY <1>1, <1>2, <1>3, <1>5, <1>7, <1>8, GoesToNext
<1>10. Rendered' /\ StoreTypes'
  BY <1>3, <1>7, RenderedOn DEF ConnInv, ConnTypes, StoreTypes
<1> QED BY <1>6, <1>9, <1>10, KeptThen DEF HandlersKept

LEMMA EndsKept ==
  ASSUME ConnInv, NEW h \in Connection!Keys, Connection!EndRollback(h)
  PROVE  ConnInv'
<1> DEFINE step == Head(handlers[h].todo)
<1>1. Connection!Busy(h) /\ step.do = "end" /\ UNCHANGED <<appRows, env, secret, folder, link, projected, runs, crossed>>
  BY DEF Connection!EndRollback, Connection!At, Connection!store
<1>2. step.on = "lost" /\ handlers[h].op = "save" /\ step = handlers[h].todo[1]
  BY <1>1, Marked, AtStep
<1>3. Results(h, <<>>, "rolled-back")
  BY DEF Connection!EndRollback, Results
<1>4. /\ OnlyHandler(h) /\ DOMAIN handlers'[h] = DOMAIN handlers[h] /\ handlers'[h].todo = <<>>
      /\ handlers'[h].op = handlers[h].op /\ handlers'[h].before = handlers[h].before
  BY <1>1, <1>3, ResultFields
<1>5. ASSUME ~crossed PROVE Undone(h)'
  <2>1. Undoes(h) BY <1>5 DEF ConnInv, Saves
  <2>2. /\ env = handlers[h].before.env /\ folder = handlers[h].before.folder /\ secret = handlers[h].before.secret
        /\ runs["consumer"].env = Secret
    BY <1>1, <1>2, <2>1 DEF Undoes
  <2> QED BY <1>1, <1>4, <2>2 DEF Undone, Secret
<1>6. /\ DOMAIN handlers' = Connection!Keys /\ \A g \in Connection!Keys : IsHandler(handlers'[g]) /\ Shaped(handlers'[g])
      /\ OneByOne' /\ Saves'
  BY <1>1, <1>4, <1>5, EndsThere
<1>7. Len(handlers'[h].todo) = 0 BY <1>4, EmptySeq
<1>8. Refers' BY <1>1, <1>4, <1>7, RefersOn
<1>9. Rendered' /\ StoreTypes'
  BY <1>1, RenderedOn DEF ConnInv, ConnTypes, StoreTypes, Stored, Present, Connection!Linked
<1> QED BY <1>6, <1>8, <1>9, KeptThen DEF HandlersKept

LEMMA RecordedKept ==
  ASSUME ConnInv, NEW h \in Connection!Keys, Connection!ApplyAppProjections(h)
  PROVE  ConnInv'
<1> DEFINE a == Connection!AppOf(h)
<1>1. Connection!Busy(h) /\ Head(handlers[h].todo).do = "record" /\ a \in Connection!Apps
      /\ UNCHANGED <<appRows, env, secret, folder, runs, crossed>>
  BY Marked DEF Connection!ApplyAppProjections, Connection!At, Connection!AppOf
<1>2. StoreTypes BY DEF ConnInv, ConnTypes
<1>3. CASE projected' = [projected EXCEPT ![a] = Connection!Recorded(@)] /\ Connection!Advance(h) /\ UNCHANGED link
  <2>1. projected' = [projected EXCEPT ![a] = Connection!Recorded(projected[a])]
    BY <1>3
  <2>2. projected[a] \in [content : Contents, applied : BOOLEAN, healthy : BOOLEAN]
    BY <1>1, <1>2 DEF StoreTypes
  <2>3. Connection!Recorded(projected[a]) \in [content : Contents, applied : BOOLEAN, healthy : BOOLEAN]
        /\ Connection!Recorded(projected[a]).content = projected[a].content
    BY <2>2 DEF Connection!Recorded
  <2>4. Stored' = Stored /\ StoreTypes'
    BY <1>1, <1>2, <1>3, <2>1, <2>3, StoredAside DEF StoreTypes
  <2>5. Connection!Linked' = Connection!Linked
    BY <1>3 DEF Connection!Linked
  <2> QED BY <1>1, <1>3, <2>4, <2>5, AdvancesOn
<1>4. CASE Connection!Failed(h) /\ UNCHANGED projected
  BY <1>1, <1>2, <1>4, FailsThere DEF StoreTypes, Stored
<1> QED BY <1>3, <1>4 DEF Connection!ApplyAppProjections

LEMMA WaitKept ==
  ASSUME ConnInv, NEW h \in Connection!Keys, Connection!WaitForPackageHealth(h)
  PROVE  ConnInv'
<1> DEFINE a == Connection!AppOf(h)
<1>1. Connection!Busy(h) /\ Head(handlers[h].todo).do = "health" /\ a \in Connection!Apps
      /\ UNCHANGED <<appRows, env, secret, folder, crossed>>
  BY Marked DEF Connection!WaitForPackageHealth, Connection!At, Connection!AppOf
<1>2. StoreTypes BY DEF ConnInv, ConnTypes
<1>3. projected[a] \in [content : Contents, applied : BOOLEAN, healthy : BOOLEAN]
  BY <1>1, <1>2 DEF StoreTypes
<1>4. ASSUME NEW ok \in BOOLEAN, projected' = [projected EXCEPT ![a] = Connection!Checked(@, ok)]
      PROVE  Stored' = Stored /\ projected' \in [Connection!Apps -> [content : Contents, applied : BOOLEAN, healthy : BOOLEAN]]
  <2>1. projected' = [projected EXCEPT ![a] = Connection!Checked(projected[a], ok)]
    BY <1>4
  <2>2. Connection!Checked(projected[a], ok) \in [content : Contents, applied : BOOLEAN, healthy : BOOLEAN]
        /\ Connection!Checked(projected[a], ok).content = projected[a].content
    BY <1>3 DEF Connection!Checked
  <2> QED BY <1>1, <1>2, <2>1, <2>2, StoredAside
<1>5. CASE /\ Connection!Advance(h) /\ projected' = [projected EXCEPT ![a] = Connection!Checked(@, TRUE)] /\ UNCHANGED <<link, runs>>
  <2>1. Stored' = Stored /\ StoreTypes' /\ Connection!Linked' = Connection!Linked
    BY <1>1, <1>2, <1>4, <1>5 DEF StoreTypes, Connection!Linked
  <2> QED BY <1>1, <1>5, <2>1, AdvancesOn
<1>6. CASE /\ projected' = [projected EXCEPT ![a] = Connection!Checked(@, FALSE)]
           /\ runs' = [runs EXCEPT ![a].ok = FALSE] /\ Connection!Failed(h)
  <2>1. Stored' = Stored /\ projected' \in [Connection!Apps -> [content : Contents, applied : BOOLEAN, healthy : BOOLEAN]]
    BY <1>4, <1>6
  <2>2. DOMAIN runs' = Connection!Apps /\ \A b \in Connection!Apps : DOMAIN runs'[b] = {"on", "ok", "env", "link", "folder", "address"}
    BY <1>1, <1>2, <1>6 DEF StoreTypes
  <2> QED BY <1>1, <1>6, <2>1, <2>2, FailsThere
<1> QED BY <1>5, <1>6 DEF Connection!WaitForPackageHealth

LEMMA JoinsKept ==
  ASSUME ConnInv, NEW h \in Connection!Keys, Connection!ConnectNetwork(h)
  PROVE  ConnInv'
<1>1. Connection!Busy(h) /\ Head(handlers[h].todo).do = "join" /\ UNCHANGED <<appRows, env, secret, folder, projected, runs, crossed>>
  BY DEF Connection!ConnectNetwork, Connection!At
<1>2. StoreTypes /\ Stored' = Stored
  BY <1>1 DEF ConnInv, ConnTypes, Stored
<1>3. CASE Connection!Advance(h) /\ UNCHANGED link
  BY <1>1, <1>2, <1>3, AdvancesOn DEF StoreTypes, Connection!Linked
<1>4. CASE Connection!Failed(h)
  BY <1>1, <1>2, <1>4, FailsThere DEF StoreTypes
<1> QED BY <1>3, <1>4 DEF Connection!ConnectNetwork

LEMMA ConnCompletesKept ==
  ASSUME ConnInv, NEW h \in Connection!Keys, Connection!CompleteAppIntegration(h)
  PROVE  ConnInv'
<1>1. Connection!Busy(h) /\ Head(handlers[h].todo).do = "complete" /\ Connection!Advance(h)
      /\ UNCHANGED <<appRows, env, secret, folder, projected, runs, crossed>>
  BY DEF Connection!CompleteAppIntegration, Connection!At
<1>2. StoreTypes /\ Stored' = Stored
  BY <1>1 DEF ConnInv, ConnTypes, Stored
<1>3. Connection!Linked' = Connection!Linked /\ DOMAIN link' = {"status", "url"}
  BY <1>2, LinkAside DEF Connection!CompleteAppIntegration
<1> QED BY <1>1, <1>2, <1>3, AdvancesOn DEF StoreTypes

LEMMA DisablesKept ==
  ASSUME ConnInv, NEW h \in Connection!Keys, Connection!MarkAppDisabled(h)
  PROVE  ConnInv'
<1> DEFINE a == Connection!AppOf(h)
<1>1. Connection!Busy(h) /\ Head(handlers[h].todo).do = "disable" /\ Connection!Advance(h) /\ a \in Connection!Apps
      /\ UNCHANGED <<env, secret, folder, runs, crossed>> /\ appRows' = [appRows EXCEPT ![a] = "disabled"]
  BY Marked DEF Connection!MarkAppDisabled, Connection!At, Connection!AppOf
<1>2. StoreTypes BY DEF ConnInv, ConnTypes
<1>3. Connection!Linked' = Connection!Linked /\ DOMAIN link' = {"status", "url"}
  BY <1>2, LinkAside DEF Connection!MarkAppDisabled
<1>4. projected[a] \in [content : Contents, applied : BOOLEAN, healthy : BOOLEAN]
  BY <1>1, <1>2 DEF StoreTypes
<1> DEFINE p == [projected[a] EXCEPT !.applied = FALSE, !.healthy = FALSE]
<1>5. projected' = [projected EXCEPT ![a] = p]
  BY DEF Connection!MarkAppDisabled
<1>6. p \in [content : Contents, applied : BOOLEAN, healthy : BOOLEAN] /\ p.content = projected[a].content
  BY <1>4
<1> HIDE DEF p, a
<1>7. Stored' = Stored /\ projected' \in [Connection!Apps -> [content : Contents, applied : BOOLEAN, healthy : BOOLEAN]]
  BY <1>1, <1>2, <1>5, <1>6, StoredAside
<1>8. StoreTypes' /\ \A b \in Connection!Apps : appRows[b] # "absent" => appRows'[b] # "absent"
  BY <1>1, <1>2, <1>3, <1>7 DEF StoreTypes
<1>9. ~crossed => \A b \in Connection!Apps : appRows'[b] # "absent" => appRows[b] # "absent"
  <2> SUFFICES ASSUME ~crossed PROVE appRows[a] # "absent"
    BY <1>1, <1>2 DEF StoreTypes
  <2>1. handlers[h].todo[1].do = "disable" /\ handlers[h].todo[1].app = a /\ 1 \in 1..Len(handlers[h].todo)
    BY <1>1, AtStep DEF a, Connection!AppOf
  <2> QED BY <2>1 DEF ConnInv, Refers
<1> QED BY <1>1, <1>3, <1>7, <1>8, <1>9, AdvancesOn

LEMMA EnablesKept ==
  ASSUME ConnInv, NEW h \in Connection!Keys, Connection!MarkAppEnabled(h)
  PROVE  ConnInv'
<1> DEFINE a == Connection!AppOf(h)
<1>1. Connection!Busy(h) /\ Head(handlers[h].todo).do = "enable" /\ Connection!Advance(h) /\ a \in Connection!Apps
      /\ UNCHANGED <<env, secret, folder, link, projected, runs, crossed>> /\ appRows' = [appRows EXCEPT ![a] = "installed"]
  BY Marked DEF Connection!MarkAppEnabled, Connection!At, Connection!AppOf
<1>2. StoreTypes BY DEF ConnInv, ConnTypes
<1> HIDE DEF a
<1>3. StoreTypes' /\ (\A b \in Connection!Apps : appRows[b] # "absent" => appRows'[b] # "absent") /\ Stored' = Stored /\ Connection!Linked' = Connection!Linked
  BY <1>1, <1>2 DEF StoreTypes, Stored, Connection!Linked
<1>4. ~crossed => \A b \in Connection!Apps : appRows'[b] # "absent" => appRows[b] # "absent"
  <2> SUFFICES ASSUME ~crossed PROVE appRows[a] # "absent"
    BY <1>1, <1>2 DEF StoreTypes
  <2>1. handlers[h].todo[1].do = "enable" /\ handlers[h].todo[1].app = a /\ 1 \in 1..Len(handlers[h].todo)
    BY <1>1, AtStep DEF a, Connection!AppOf
  <2> QED BY <2>1 DEF ConnInv, Refers
<1> QED BY <1>1, <1>3, <1>4, AdvancesOn

LEMMA ConnDeletesKept ==
  ASSUME ConnInv, NEW h \in Connection!Keys, Connection!DeleteAppInstance(h)
  PROVE  ConnInv'
<1> DEFINE a == Connection!AppOf(h) step == Head(handlers[h].todo)
<1>1. Connection!Busy(h) /\ step.do = "delete" /\ Connection!Advance(h) /\ a \in Connection!Apps
      /\ UNCHANGED <<projected, runs, crossed>> /\ appRows' = [appRows EXCEPT ![a] = "absent"]
      /\ DOMAIN link' = {"status", "url"}
  BY Marked DEF Connection!DeleteAppInstance, Connection!At, Connection!AppOf
<1>2. StoreTypes /\ step.on \notin {"undo", "lost"}
  BY <1>1, Marked DEF ConnInv, ConnTypes
<1>3. /\ OnlyHandler(h) /\ DOMAIN handlers'[h] = DOMAIN handlers[h] /\ handlers'[h].todo = Connection!Rest(h)
      /\ handlers'[h].op = handlers[h].op /\ handlers'[h].value = handlers[h].value
      /\ handlers'[h].read = handlers[h].read /\ handlers'[h].before = handlers[h].before
      /\ handlers'[h].result = handlers[h].result
  BY <1>1, AdvanceFields DEF Connection!Advance
<1>4. Refers' BY <1>1, <1>3, RefersToRest
<1>5. /\ DOMAIN handlers' = Connection!Keys /\ \A g \in Connection!Keys : IsHandler(handlers'[g]) /\ Shaped(handlers'[g])
      /\ OneByOne' /\ Saves'
  BY <1>1, <1>2, <1>3, GoesToNext
<1>6. ~Present' /\ Stored' = Stored
  BY <1>1, <1>2 DEF Present, StoreTypes, Stored
<1>7. appRows'["consumer"] # "absent" => a # "consumer" /\ appRows["consumer"] # "absent" /\ env' = env /\ folder' = folder
  BY <1>1, <1>2 DEF Connection!DeleteAppInstance, StoreTypes, Connection!AppOf
<1>8. Rendered' BY <1>1, <1>6, <1>7 DEF ConnInv, Rendered
<1>9. StoreTypes'
  BY <1>1, <1>2 DEF StoreTypes, Connection!DeleteAppInstance
<1> QED BY <1>4, <1>5, <1>8, <1>9, KeptThen DEF HandlersKept

\* A step is taken further.
LEMMA BecomesOn ==
  ASSUME ConnInv, NEW h \in Connection!Keys, Connection!Busy(h), OnlyHandler(h), crossed' = crossed, NEW do,
         handlers'[h].todo = << [Head(handlers[h].todo) EXCEPT !.do = do] >> \o Connection!Rest(h),
         DOMAIN handlers'[h] = DOMAIN handlers[h],
         handlers'[h].op = handlers[h].op, handlers'[h].value = handlers[h].value,
         handlers'[h].before = handlers[h].before, handlers'[h].result = handlers[h].result,
         \/ Head(handlers[h].todo).do = "apply" /\ do = "agent"
         \/ Head(handlers[h].todo).do = "agent" /\ do = "record",
         UNCHANGED <<appRows, env, secret, folder>>, Stored' = Stored, Connection!Linked' = Connection!Linked,
         ~crossed /\ Head(handlers[h].todo).on = "lost" =>
           /\ do = "agent" => handlers'[h].read.env = Secret
           /\ do = "record" => runs'["consumer"].env = Secret
  PROVE  HandlersKept
<1> DEFINE t == handlers[h].todo
           step == [t[1] EXCEPT !.do = do]
           u == << step >> \o Tail(t)
<1>1. /\ IsHandler(handlers[h]) /\ Shaped(handlers[h]) /\ t # <<>> /\ Head(t) = t[1] /\ Len(t) >= 1 /\ Len(t) \in Nat
      /\ t \in Seq(Steps) /\ t[1] \in Steps /\ Tail(t) \in Seq(Steps) /\ Len(Tail(t)) = Len(t) - 1
      /\ \A i \in 1..(Len(t) - 1) : Tail(t)[i] = t[i + 1]
      /\ handlers[h].op # "none" /\ handlers[h].result # "rolled-back"
  BY AtStep
<1>2. step \in Steps /\ step.do = do /\ step.on = t[1].on /\ step.app = t[1].app
  BY <1>1 DEF Steps, Dos
<1> HIDE DEF step
<1>3. << step >> \in Seq(Steps) /\ Len(<< step >>) = 1 /\ << step >>[1] = step
  BY <1>2
<1>4. /\ u \in Seq(Steps) /\ Len(u) = Len(t) /\ u[1] = step
      /\ \A i \in 2..Len(t) : u[i] = Tail(t)[i - 1]
  <2>1. /\ u \in Seq(Steps) /\ Len(u) = 1 + (Len(t) - 1)
        /\ \A i \in 1..(1 + (Len(t) - 1)) : u[i] = IF i <= 1 THEN << step >>[i] ELSE Tail(t)[i - 1]
    BY <1>1, <1>3, ConcatProperties
  <2> HIDE DEF u, t
  <2> QED BY <1>1, <1>3, <2>1
<1>5. \A i \in 2..Len(t) : u[i] = t[i]
  <2> HIDE DEF u, t
  <2> SUFFICES ASSUME NEW i \in 2..Len(t) PROVE u[i] = t[i]
    OBVIOUS
  <2>1. i - 1 \in 1..(Len(t) - 1) /\ (i - 1) + 1 = i BY <1>1
  <2>2. Tail(t)[i - 1] = t[(i - 1) + 1] BY <1>1, <2>1
  <2> QED BY <1>4, <2>1, <2>2
<1>6. handlers'[h].todo = u /\ u # <<>>
  <2>1. handlers'[h].todo = u BY <1>1 DEF step, Connection!Rest
  <2>2. Len(<<>>) = 0 BY EmptySeq
  <2> HIDE DEF u, t
  <2>3. Len(u) >= 1 BY <1>1, <1>4
  <2> QED BY <2>1, <2>2, <2>3
<1>7. IsHandler(handlers'[h]) BY <1>1, <1>4, <1>6 DEF IsHandler
<1>8. /\ \A i \in 1..Len(t) :
           /\ t[i].on \in {"undo", "lost"} => handlers[h].op = "save" /\ t[i].app = "consumer"
           /\ t[i].on = "undo" => t[i].do \in {"apply", "agent", "record", "health"}
           /\ t[i].do \in {"restore", "end"} => t[i].on = "lost"
           /\ t[i].do = "write" => handlers[h].op = "save" /\ t[i].on = "end"
           /\ t[i].do = "delete" => handlers[h].op # "save" /\ i = Len(t)
      /\ \A i \in 2..Len(t) :
           /\ t[i].do \notin {"write", "restore", "agent", "record"}
           /\ t[i].on = "undo" => t[i - 1].do = "write" \/ t[i - 1].on = "undo"
           /\ t[i].on = "lost" => t[i - 1].on = "lost"
      /\ t[1].on = "lost" => LostShape(t)
  BY <1>1 DEF Shaped
<1>9. t[1].do \in {"apply", "agent"} /\ 1 \in 1..Len(t) BY <1>1
<1>10. Shaped(handlers'[h])
  <2> HIDE DEF u, t
  <2>1. ASSUME NEW i \in 1..Len(u)
        PROVE  /\ u[i].on \in {"undo", "lost"} => handlers[h].op = "save" /\ u[i].app = "consumer"
               /\ u[i].on = "undo" => u[i].do \in {"apply", "agent", "record", "health"}
               /\ u[i].do \in {"restore", "end"} => u[i].on = "lost"
               /\ u[i].do = "write" => handlers[h].op = "save" /\ u[i].on = "end"
               /\ u[i].do = "delete" => handlers[h].op # "save" /\ i = Len(u)
    <3>1. CASE i = 1
      <4>1. u[i] = step /\ do \in {"agent", "record"}
        BY <1>4, <3>1 DEF t
      <4> QED BY <1>2, <1>8, <1>9, <4>1
    <3>2. CASE i # 1
      <4>1. i \in 2..Len(t) /\ i \in 1..Len(t) BY <1>1, <1>4, <3>2
      <4>2. u[i] = t[i] BY <1>5, <4>1
      <4> QED BY <1>4, <1>8, <4>1, <4>2
    <3> QED BY <3>1, <3>2
  <2>2. ASSUME NEW i \in 2..Len(u)
        PROVE  /\ u[i].do \notin {"write", "restore", "agent", "record"}
               /\ u[i].on = "undo" => u[i - 1].do = "write" \/ u[i - 1].on = "undo"
               /\ u[i].on = "lost" => u[i - 1].on = "lost"
    <3>1. i \in 2..Len(t) /\ u[i] = t[i] BY <1>1, <1>4, <1>5
    <3>2. /\ t[i].do \notin {"write", "restore", "agent", "record"}
          /\ t[i].on = "undo" => t[i - 1].do = "write" \/ t[i - 1].on = "undo"
          /\ t[i].on = "lost" => t[i - 1].on = "lost"
      BY <1>8, <3>1
    <3>3. CASE i = 2
      <4>1. i - 1 = 1 BY <3>3
      <4>2. t[1].do # "write" BY <1>9
      <4> QED BY <1>2, <1>4, <3>1, <3>2, <4>1, <4>2
    <3>4. CASE i # 2
      <4>1. i - 1 \in 2..Len(t) BY <1>1, <3>1, <3>4
      <4>2. u[i - 1] = t[i - 1] BY <1>5, <4>1
      <4> QED BY <3>1, <3>2, <4>2
    <3> QED BY <3>3, <3>4
  <2>3. u[1].on = "lost" => LostShape(u)
    <3> SUFFICES ASSUME u[1].on = "lost" PROVE LostShape(u)
      OBVIOUS
    <3>1. LostShape(t) BY <1>2, <1>4, <1>8
    <3>2. Len(t) = 3 /\ t[2].do = "health" /\ t[3].do = "end"
      BY <1>9, <3>1 DEF LostShape
    <3>3. u[2] = t[2] /\ u[3] = t[3] /\ u[1].do \in {"agent", "record"} /\ Len(u) = 3
      BY <1>2, <1>4, <1>5, <3>2
    <3> QED BY <3>2, <3>3 DEF LostShape
  <2>4. handlers'[h].op # "none" /\ handlers'[h].result # "rolled-back"
    BY <1>1
  <2>5. \A i \in 1..Len(u) :
           /\ u[i].on \in {"undo", "lost"} => handlers'[h].op = "save" /\ u[i].app = "consumer"
           /\ u[i].on = "undo" => u[i].do \in {"apply", "agent", "record", "health"}
           /\ u[i].do \in {"restore", "end"} => u[i].on = "lost"
           /\ u[i].do = "write" => handlers'[h].op = "save" /\ u[i].on = "end"
           /\ u[i].do = "delete" => handlers'[h].op # "save" /\ i = Len(u)
    BY <2>1
  <2>6. \A i \in 2..Len(u) :
           /\ u[i].do \notin {"write", "restore", "agent", "record"}
           /\ u[i].on = "undo" => u[i - 1].do = "write" \/ u[i - 1].on = "undo"
           /\ u[i].on = "lost" => u[i - 1].on = "lost"
    BY <2>2
  <2>7. handlers'[h].todo = u BY <1>6
  <2> QED BY <2>3, <2>4, <2>5, <2>6, <2>7, ZenonT(30) DEF Shaped
<1>11. ASSUME ~crossed PROVE Remembers(h)' /\ Undoes(h)' /\ Undone(h)'
  <2>1. Remembers(h) /\ Undoes(h) BY <1>11 DEF ConnInv, Saves
  <2>2. Remembers(h)' BY <1>11, <2>1 DEF Remembers, Present
  <2>3. Undone(h)' BY <1>6 DEF Undone, Connection!Busy
  <2>4. Secret' = Secret BY DEF Secret
  <2>5. Undoes(h)'
    <3> SUFFICES ASSUME handlers[h].op = "save"
                 PROVE  /\ step.do = "write" => env = handlers[h].before.env /\ folder = handlers[h].before.folder
                        /\ (step.on = "undo" \/ step.do = "restore") /\ handlers[h].value = Connection!Unset
                             => secret = handlers[h].before.secret
                        /\ step.on = "lost" /\ step.do # "restore" =>
                             /\ env = handlers[h].before.env /\ folder = handlers[h].before.folder
                             /\ secret = handlers[h].before.secret /\ Stored = handlers[h].before.content
                        /\ step.on = "lost" /\ step.do = "agent" => handlers'[h].read.env = Secret
                        /\ step.on = "lost" /\ step.do \in {"record", "health", "end"} => runs'["consumer"].env = Secret
      BY <1>4, <1>6, <2>4 DEF Undoes
    <3>1. /\ t[1].on = "undo" /\ handlers[h].value = Connection!Unset => secret = handlers[h].before.secret
          /\ t[1].on = "lost" => /\ env = handlers[h].before.env /\ folder = handlers[h].before.folder
                                 /\ secret = handlers[h].before.secret /\ Stored = handlers[h].before.content
      BY <1>9, <2>1 DEF Undoes, Connection!Busy
    <3> QED BY <1>1, <1>2, <1>11, <3>1
  <2> QED BY <2>2, <2>3, <2>5
<1>12. Refers'
  <2>1. \A i \in 1..Len(u) : u[i].do \in {"disable", "enable"} => \E j \in 1..Len(t) : t[j] = u[i]
    <3> HIDE DEF u, t
    <3> SUFFICES ASSUME NEW i \in 1..Len(u), u[i].do \in {"disable", "enable"}
                 PROVE  \E j \in 1..Len(t) : t[j] = u[i]
      OBVIOUS
    <3>1. i # 1 BY <1>2, <1>4
    <3>2. i \in 2..Len(t) /\ i \in 1..Len(t) BY <1>1, <1>4, <3>1
    <3> QED BY <1>5, <3>2
  <2>2. \A i \in 1..Len(handlers'[h].todo) : handlers'[h].todo[i].do \in {"disable", "enable"} =>
           \E j \in 1..Len(handlers[h].todo) : handlers[h].todo[j] = handlers'[h].todo[i]
    BY <1>6, <2>1
  <2> QED BY <2>2, RefersOn
<1>13. /\ DOMAIN handlers' = Connection!Keys /\ \A g \in Connection!Keys : IsHandler(handlers'[g]) /\ Shaped(handlers'[g])
       /\ OneByOne' /\ Saves'
  BY <1>7, <1>10, <1>11, OneMoves
<1> QED BY <1>12, <1>13 DEF HandlersKept

LEMMA AppliesKept ==
  ASSUME ConnInv, NEW h \in Connection!Keys, Connection!ApplyPackageRuntime(h)
  PROVE  ConnInv'
<1> DEFINE a == Connection!AppOf(h)
           content == projected[a].content
           step == Head(handlers[h].todo)
           read == [env |-> IF content.env THEN secret ELSE Connection!Unset,
                    link |-> IF content.link THEN link.url ELSE Connection!Unset,
                    folder |-> content.folder, address |-> handlers[h].address]
<1>1. Connection!Busy(h) /\ step.do = "apply" /\ UNCHANGED <<appRows, env, secret, folder, projected, runs, crossed>>
  BY DEF Connection!ApplyPackageRuntime, Connection!At
<1>2. StoreTypes /\ Stored' = Stored
  BY <1>1 DEF ConnInv, ConnTypes, Stored
<1>3. CASE Connection!Failed(h)
  BY <1>1, <1>2, <1>3, FailsThere DEF StoreTypes
<1>4. CASE /\ UNCHANGED link
           /\ handlers' = [handlers EXCEPT ![h].todo = << [Head(@) EXCEPT !.do = "agent"] >> \o Tail(@), ![h].read = read]
  <2> DEFINE todo == << [Head(handlers[h].todo) EXCEPT !.do = "agent"] >> \o Connection!Rest(h)
             r == [handlers[h] EXCEPT !.todo = todo, !.read = read]
  <2>1. handlers' = [handlers EXCEPT ![h] = r]
    BY <1>4 DEF Connection!Rest
  <2>2. IsHandler(handlers[h]) BY <1>1, AtStep
  <2> HIDE DEF todo, read
  <2>3. /\ DOMAIN r = DOMAIN handlers[h] /\ r.todo = todo /\ r.op = handlers[h].op /\ r.value = handlers[h].value
        /\ r.read = read /\ r.before = handlers[h].before /\ r.result = handlers[h].result
    BY <2>2 DEF IsHandler
  <2> HIDE DEF r
  <2>4. OnlyHandler(h) /\ handlers'[h] = r BY <1>1, <2>1, FieldsOf
  <2>5. ASSUME ~crossed, step.on = "lost" PROVE read.env = Secret
    <3>1. handlers[h].op = "save" /\ step = handlers[h].todo[1] /\ a = "consumer"
      BY <1>1, <2>5, Marked, AtStep DEF Connection!AppOf
    <3>2. Remembers(h) /\ Undoes(h) BY <2>5 DEF ConnInv, Saves
    <3>3. env = handlers[h].before.env /\ Stored = handlers[h].before.content
      BY <1>1, <2>5, <3>1, <3>2 DEF Undoes
    <3>4. handlers[h].before.content.env = (handlers[h].before.env # Connection!Unset)
      BY <1>1, <3>1, <3>2 DEF Remembers
    <3>5. content.env = (env # Connection!Unset)
      BY <3>1, <3>3, <3>4 DEF Stored
    <3> QED BY <3>5 DEF read, Secret
  <2>6. Connection!Linked' = Connection!Linked
    BY <1>4 DEF Connection!Linked
  <2>7. HandlersKept
    BY <1>1, <1>2, <2>3, <2>4, <2>5, <2>6, BecomesOn DEF todo
  <2>8. StoreTypes' /\ Rendered'
    BY <1>1, <1>2, <1>4, <2>6, RenderedOn DEF StoreTypes, Present
  <2> QED BY <2>7, <2>8, KeptThen
<1> QED BY <1>3, <1>4 DEF Connection!ApplyPackageRuntime

LEMMA StartedRuns ==
  ASSUME StoreTypes, NEW h \in Connection!Keys, NEW healthy, Connection!AppOf(h) \in Connection!Apps, Connection!Started(h, healthy)
  PROVE  /\ DOMAIN runs' = Connection!Apps /\ \A a \in Connection!Apps : DOMAIN runs'[a] = {"on", "ok", "env", "link", "folder", "address"}
         /\ Connection!AppOf(h) = "consumer" => runs'["consumer"].env = handlers[h].read.env
<1> DEFINE container == [on |-> TRUE, ok |-> healthy, env |-> handlers[h].read.env, link |-> handlers[h].read.link,
                         folder |-> handlers[h].read.folder, address |-> handlers[h].read.address]
<1>1. runs' = [runs EXCEPT ![Connection!AppOf(h)] = container]
  BY DEF Connection!Started
<1>2. DOMAIN container = {"on", "ok", "env", "link", "folder", "address"} /\ container.env = handlers[h].read.env
  OBVIOUS
<1> HIDE DEF container
<1> QED BY <1>1, <1>2 DEF StoreTypes

LEMMA AgentAppliesKept ==
  ASSUME ConnInv, NEW h \in Connection!Keys, Connection!AgentApplies(h)
  PROVE  ConnInv'
<1> DEFINE step == Head(handlers[h].todo)
<1>1. Connection!Busy(h) /\ step.do = "agent" /\ UNCHANGED <<appRows, env, secret, folder, link, projected, crossed>> /\ Connection!Started(h, TRUE)
  BY DEF Connection!AgentApplies, Connection!At, Connection!store
<1>2. StoreTypes /\ Stored' = Stored /\ Connection!Linked' = Connection!Linked /\ (Present' <=> Present)
  BY <1>1 DEF ConnInv, ConnTypes, Stored, Connection!Linked, Present
<1>3. Connection!AppOf(h) \in Connection!Apps
  BY <1>1, Marked DEF Connection!AppOf
<1>4. /\ DOMAIN runs' = Connection!Apps /\ \A a \in Connection!Apps : DOMAIN runs'[a] = {"on", "ok", "env", "link", "folder", "address"}
      /\ Connection!AppOf(h) = "consumer" => runs'["consumer"].env = handlers[h].read.env
  BY <1>1, <1>2, <1>3, StartedRuns
<1>5. StoreTypes' /\ Rendered'
  BY <1>1, <1>2, <1>4, RenderedOn DEF StoreTypes
<1>6. CASE Connection!Todo(h, <<>>)
  <2>1. /\ OnlyHandler(h) /\ DOMAIN handlers'[h] = DOMAIN handlers[h] /\ handlers'[h].todo = <<>>
        /\ handlers'[h].op = handlers[h].op /\ handlers'[h].before = handlers[h].before
        /\ handlers'[h].result = handlers[h].result
    BY <1>1, <1>6, AdvanceFields
  <2>2. handlers'[h].result # "rolled-back" BY <1>1, <2>1, AtStep
  <2>3. Len(handlers'[h].todo) = 0 BY <2>1, EmptySeq
  <2>4. Refers' BY <1>1, <2>1, <2>3, RefersOn
  <2>5. /\ DOMAIN handlers' = Connection!Keys /\ \A g \in Connection!Keys : IsHandler(handlers'[g]) /\ Shaped(handlers'[g])
        /\ OneByOne' /\ Saves'
    BY <1>1, <2>1, <2>2, EndsThere
  <2> QED BY <1>5, <2>4, <2>5, KeptThen DEF HandlersKept
<1>7. CASE Connection!Become(h, "record")
  <2> DEFINE todo == << [Head(handlers[h].todo) EXCEPT !.do = "record"] >> \o Connection!Rest(h)
  <2>1. Connection!Todo(h, todo) BY <1>7 DEF Connection!Become
  <2> HIDE DEF todo
  <2>2. /\ OnlyHandler(h) /\ DOMAIN handlers'[h] = DOMAIN handlers[h] /\ handlers'[h].todo = todo
        /\ handlers'[h].op = handlers[h].op /\ handlers'[h].value = handlers[h].value
        /\ handlers'[h].read = handlers[h].read /\ handlers'[h].before = handlers[h].before
        /\ handlers'[h].result = handlers[h].result
    BY <1>1, <2>1, AdvanceFields
  <2>3. ASSUME ~crossed, step.on = "lost" PROVE runs'["consumer"].env = Secret
    <3>1. handlers[h].op = "save" /\ step = handlers[h].todo[1] /\ Connection!AppOf(h) = "consumer"
      BY <1>1, <2>3, Marked, AtStep DEF Connection!AppOf
    <3>2. Undoes(h) BY <2>3 DEF ConnInv, Saves
    <3>3. handlers[h].read.env = Secret
      BY <1>1, <2>3, <3>1, <3>2 DEF Undoes
    <3> QED BY <1>4, <3>1, <3>3
  <2>4. HandlersKept BY <1>1, <1>2, <2>2, <2>3, BecomesOn DEF todo
  <2> QED BY <1>5, <2>4, KeptThen
<1> QED BY <1>6, <1>7 DEF Connection!AgentApplies

LEMMA AgentFailsKept ==
  ASSUME ConnInv, NEW h \in Connection!Keys, Connection!AgentApplyFails(h)
  PROVE  ConnInv'
<1>1. Connection!Busy(h) /\ UNCHANGED <<appRows, env, secret, folder, projected, crossed>> /\ Connection!Failed(h)
      /\ (Connection!Started(h, FALSE) \/ UNCHANGED runs)
  BY DEF Connection!AgentApplyFails, Connection!At
<1>2. StoreTypes /\ Stored' = Stored
  BY <1>1 DEF ConnInv, ConnTypes, Stored
<1>3. Connection!AppOf(h) \in Connection!Apps
  BY <1>1, Marked DEF Connection!AppOf
<1>4. DOMAIN runs' = Connection!Apps /\ \A a \in Connection!Apps : DOMAIN runs'[a] = {"on", "ok", "env", "link", "folder", "address"}
  BY <1>1, <1>2, <1>3, StartedRuns DEF StoreTypes
<1> QED BY <1>1, <1>2, <1>4, FailsThere DEF StoreTypes

LEMMA StopsKept ==
  ASSUME ConnInv, NEW h \in Connection!Keys, Connection!StopAppService(h)
  PROVE  ConnInv'
<1>1. Connection!Busy(h) /\ Head(handlers[h].todo).do \in {"stop", "remove"} /\ runs' = [runs EXCEPT ![Connection!AppOf(h)] = Connection!Stopped]
      /\ UNCHANGED <<appRows, env, secret, folder, projected, crossed>>
  BY DEF Connection!StopAppService, Connection!At
<1>2. StoreTypes /\ Stored' = Stored
  BY <1>1 DEF ConnInv, ConnTypes, Stored
<1>3. Connection!AppOf(h) \in Connection!Apps
  BY <1>1, Marked DEF Connection!AppOf
<1>4. DOMAIN runs' = Connection!Apps /\ \A a \in Connection!Apps : DOMAIN runs'[a] = {"on", "ok", "env", "link", "folder", "address"}
  BY <1>1, <1>2, <1>3 DEF StoreTypes, Connection!Stopped
<1>5. CASE Connection!Failed(h)
  BY <1>1, <1>2, <1>4, <1>5, FailsThere DEF StoreTypes
<1>6. CASE Connection!Advance(h) /\ UNCHANGED link
  BY <1>1, <1>2, <1>4, <1>6, AdvancesOn DEF StoreTypes, Connection!Linked
<1>7. CASE Connection!Todo(h, <<>>) /\ UNCHANGED link
  <2>1. /\ OnlyHandler(h) /\ DOMAIN handlers'[h] = DOMAIN handlers[h] /\ handlers'[h].todo = <<>>
        /\ handlers'[h].op = handlers[h].op /\ handlers'[h].before = handlers[h].before
        /\ handlers'[h].result = handlers[h].result
    BY <1>1, <1>7, AdvanceFields
  <2>2. handlers'[h].result # "rolled-back" BY <1>1, <2>1, AtStep
  <2>3. Len(handlers'[h].todo) = 0 BY <2>1, EmptySeq
  <2>4. Refers' BY <1>1, <2>1, <2>3, RefersOn
  <2>5. /\ DOMAIN handlers' = Connection!Keys /\ \A g \in Connection!Keys : IsHandler(handlers'[g]) /\ Shaped(handlers'[g])
        /\ OneByOne' /\ Saves'
    BY <1>1, <2>1, <2>2, EndsThere
  <2>6. StoreTypes' /\ Rendered'
    BY <1>1, <1>2, <1>4, <1>7, RenderedOn DEF StoreTypes, Connection!Linked, Present
  <2> QED BY <2>4, <2>5, <2>6, KeptThen DEF HandlersKept
<1> QED BY <1>5, <1>6, <1>7 DEF Connection!StopAppService

\* What a save is put back from, but for its secret, is what it was told.
LEMMA ConnWritesKept ==
  ASSUME ConnInv, NEW h \in Connection!Keys, Connection!WriteSave(h)
  PROVE  ConnInv'
<1> DEFINE t == handlers[h].todo
           u == Tail(t)
           memory == handlers[h].before
           written == [memory EXCEPT !.secret = secret]
           r == [handlers[h] EXCEPT !.todo = Connection!Rest(h), !.before = written]
           value == handlers[h].value
           onDrive == memory.folder \/ handlers[h].drive
           content == Connection!RenderInstanceProjections(value, memory.linked, onDrive)
<1>1. Connection!Busy(h) /\ Head(t).do = "write" /\ UNCHANGED <<appRows, link, runs, crossed>>
  BY DEF Connection!WriteSave, Connection!At
<1>2. /\ IsHandler(handlers[h]) /\ Head(t) = t[1] /\ handlers[h].result # "rolled-back"
      /\ u \in Seq(Steps)
  BY <1>1, AtStep
<1>3. handlers[h].op = "save" /\ t[1].on = "end" BY <1>1, <1>2, Marked
<1>4. handlers' = [handlers EXCEPT ![h] = r]
  BY DEF Connection!WriteSave, Connection!Rest
<1>5. /\ DOMAIN written = DOMAIN memory /\ written.env = memory.env /\ written.secret = secret
      /\ written.folder = memory.folder /\ written.linked = memory.linked /\ written.content = memory.content
  BY <1>2 DEF IsHandler
<1>6. env' = value /\ secret' = (IF value = Connection!Unset THEN secret ELSE value) /\ folder' = (folder \/ handlers[h].drive)
      /\ projected' = [projected EXCEPT !["consumer"] = Connection!Replaced(@, content)]
  BY DEF Connection!WriteSave
<1> HIDE DEF written
<1>7. /\ DOMAIN r = DOMAIN handlers[h] /\ r.todo = Connection!Rest(h) /\ r.op = handlers[h].op /\ r.value = value
      /\ r.before = written /\ r.result = handlers[h].result
  BY <1>2 DEF IsHandler
<1> HIDE DEF r
<1>8. OnlyHandler(h) /\ handlers'[h] = r BY <1>1, <1>4, FieldsOf
<1>9. IsHandler(handlers'[h])
  BY <1>2, <1>5, <1>7, <1>8 DEF IsHandler, Connection!Rest
<1>10. Shaped(handlers'[h]) BY <1>1, <1>2, <1>7, <1>8, <1>9, RestShaped
<1>11. StoreTypes BY DEF ConnInv, ConnTypes
<1>12. content \in Contents /\ content.env = (value # Connection!Unset) /\ content.link = memory.linked /\ content.folder = onDrive
  BY <1>2 DEF Connection!RenderInstanceProjections, Contents, IsHandler
<1> HIDE DEF content
<1>13. StoreTypes' /\ Stored' = content
  <2>1. projected' = [projected EXCEPT !["consumer"] = Connection!Replaced(projected["consumer"], content)]
    BY <1>6
  <2>2. Connection!Replaced(projected["consumer"], content) \in [content : Contents, applied : BOOLEAN, healthy : BOOLEAN]
        /\ Connection!Replaced(projected["consumer"], content).content = content
    <3> DEFINE p == projected["consumer"]
    <3>1. p \in [content : Contents, applied : BOOLEAN, healthy : BOOLEAN]
      BY <1>11 DEF StoreTypes, Connection!Apps
    <3> HIDE DEF p
    <3>2. Connection!Replaced(p, content) \in [content : Contents, applied : BOOLEAN, healthy : BOOLEAN]
          /\ Connection!Replaced(p, content).content = content
      BY <1>12, <3>1 DEF Connection!Replaced
    <3> QED BY <3>2 DEF p
  <2>3. projected' \in [Connection!Apps -> [content : Contents, applied : BOOLEAN, healthy : BOOLEAN]] /\ Stored' = content
    BY <1>11, <2>1, <2>2 DEF StoreTypes, Stored, Connection!Apps
  <2> QED BY <1>1, <1>6, <1>11, <2>3 DEF StoreTypes
<1>14. Connection!Linked' = Connection!Linked /\ (Present' <=> Present)
  BY <1>1 DEF Connection!Linked, Present
<1>15. ASSUME ~crossed
       PROVE  /\ memory.content.env = (memory.env # Connection!Unset) /\ memory.content.folder = memory.folder
              /\ memory.linked = Connection!Linked /\ (Present => memory.content.link = Connection!Linked)
              /\ folder = memory.folder
  BY <1>1, <1>2, <1>3, <1>15 DEF ConnInv, Saves, Remembers, Undoes
<1>16. ASSUME ~crossed PROVE Remembers(h)' /\ Undoes(h)' /\ Undone(h)'
  <2>1. Remembers(h)'
    BY <1>5, <1>7, <1>8, <1>14, <1>15, <1>16 DEF Remembers
  <2>2. CASE u = <<>>
    <3>1. ~Connection!Busy(h)' /\ handlers'[h].result # "rolled-back"
      BY <1>2, <1>7, <1>8, <2>2 DEF Connection!Busy, Connection!Rest
    <3> QED BY <2>1, <3>1 DEF Undoes, Undone
  <2>3. CASE u # <<>>
    <3>1. /\ u[1].do \notin {"write", "restore"} /\ u[1].on # "lost" /\ handlers'[h].todo = u
      BY <1>1, <1>3, <1>7, <1>8, <2>3, NextStep DEF Connection!Rest
    <3>2. value = Connection!Unset => secret' = written.secret
      BY <1>5, <1>6
    <3> QED BY <1>7, <1>8, <2>1, <2>3, <3>1, <3>2 DEF Undoes, Undone, Connection!Busy
  <2> QED BY <2>2, <2>3
<1>17. /\ DOMAIN handlers' = Connection!Keys /\ \A g \in Connection!Keys : IsHandler(handlers'[g]) /\ Shaped(handlers'[g])
       /\ OneByOne' /\ Saves'
  BY <1>1, <1>7, <1>8, <1>9, <1>10, <1>16, OneMoves
<1>18. Refers' BY <1>1, <1>7, <1>8, RefersToRest
<1>19. Rendered' BY <1>1, <1>6, <1>12, <1>13, <1>14, <1>15 DEF Rendered
<1> QED BY <1>13, <1>17, <1>18, <1>19, KeptThen DEF HandlersKept

\* What an instance is to have is replaced, and nothing else of its record is lost.
LEMMA ReplacedHolds ==
  ASSUME NEW p \in [content : Contents, applied : BOOLEAN, healthy : BOOLEAN], NEW c \in Contents
  PROVE  /\ Connection!Replaced(p, c) \in [content : Contents, applied : BOOLEAN, healthy : BOOLEAN]
         /\ Connection!Replaced(p, c).content = c
<1>1. PICK b \in BOOLEAN : b = (p.applied /\ p.content = c)
  OBVIOUS
<1>2. Connection!Replaced(p, c) = [p EXCEPT !.content = c, !.applied = b]
  BY <1>1 DEF Connection!Replaced
<1> QED BY <1>2

\* The rows, the file and the projections are what the save remembers.
LEMMA RestoresKept ==
  ASSUME ConnInv, NEW h \in Connection!Keys, Connection!RollbackPackageEnvironment(h)
  PROVE  ConnInv'
<1> DEFINE t == handlers[h].todo
           u == Tail(t)
           memory == handlers[h].before
           content == memory.content
<1>1. /\ Connection!Busy(h) /\ Head(t).do = "restore" /\ UNCHANGED <<appRows, link, runs, crossed>> /\ Connection!Advance(h)
      /\ env' = memory.env /\ folder' = memory.folder
      /\ secret' = (IF handlers[h].value = Connection!Unset THEN secret ELSE memory.secret)
      /\ projected' = [projected EXCEPT !["consumer"] = Connection!Replaced(@, content)]
  <2>1. Connection!Busy(h) /\ Head(t).do = "restore" /\ UNCHANGED <<appRows, link, runs, crossed>> /\ Connection!Advance(h)
    BY DEF Connection!RollbackPackageEnvironment, Connection!At
  <2>2. /\ env' = memory.env /\ folder' = memory.folder
        /\ secret' = (IF handlers[h].value = Connection!Unset THEN secret ELSE memory.secret)
    BY DEF Connection!RollbackPackageEnvironment
  <2>3. projected' = [projected EXCEPT !["consumer"] = Connection!Replaced(@, content)]
    BY DEF Connection!RollbackPackageEnvironment
  <2> QED BY <2>1, <2>2, <2>3
<1>2. /\ IsHandler(handlers[h]) /\ Shaped(handlers[h]) /\ Head(t) = t[1] /\ handlers[h].result # "rolled-back"
      /\ u \in Seq(Steps) /\ t # <<>> /\ \A i \in 1..(Len(t) - 1) : u[i] = t[i + 1]
  BY <1>1, AtStep
<1>3. handlers[h].op = "save" /\ t[1].on = "lost" BY <1>1, <1>2, Marked
<1>4. u[1].do = "apply"
  <2>1. LostShape(t) BY <1>2, <1>3 DEF Shaped
  <2>2. Len(t) = 4 /\ t[2].do = "apply"
    BY <1>1, <1>2, <2>1 DEF LostShape
  <2>3. 1 \in 1..(Len(t) - 1) /\ 1 + 1 = 2 BY <2>2
  <2> QED BY <1>2, <2>2, <2>3
<1>5. /\ OnlyHandler(h) /\ DOMAIN handlers'[h] = DOMAIN handlers[h] /\ handlers'[h].todo = u
      /\ handlers'[h].op = handlers[h].op /\ handlers'[h].value = handlers[h].value
      /\ handlers'[h].read = handlers[h].read /\ handlers'[h].before = memory
      /\ handlers'[h].result = handlers[h].result
  BY <1>1, AdvanceFields DEF Connection!Advance, Connection!Rest
<1>6. IsHandler(handlers'[h]) BY <1>2, <1>5 DEF IsHandler
<1>7. Shaped(handlers'[h])
  BY <1>1, <1>2, <1>5, <1>6, RestShaped DEF Connection!Rest
<1>8. StoreTypes /\ content \in Contents /\ memory.folder \in BOOLEAN
  BY <1>2 DEF ConnInv, ConnTypes, IsHandler
<1>8a. projected' = [projected EXCEPT !["consumer"] = Connection!Replaced(projected["consumer"], content)]
  BY <1>1
<1> HIDE DEF content
<1>9. StoreTypes' /\ Stored' = content
  <2>1. projected' = [projected EXCEPT !["consumer"] = Connection!Replaced(projected["consumer"], content)]
    BY <1>8a
  <2>2. Connection!Replaced(projected["consumer"], content) \in [content : Contents, applied : BOOLEAN, healthy : BOOLEAN]
        /\ Connection!Replaced(projected["consumer"], content).content = content
    BY <1>8, ReplacedHolds DEF StoreTypes, Connection!Apps
  <2>3. projected' \in [Connection!Apps -> [content : Contents, applied : BOOLEAN, healthy : BOOLEAN]] /\ Stored' = content
    BY <1>8, <2>1, <2>2 DEF StoreTypes, Stored, Connection!Apps
  <2> QED BY <1>1, <1>8, <2>3 DEF StoreTypes
<1>10. Connection!Linked' = Connection!Linked /\ (Present' <=> Present)
  BY <1>1 DEF Connection!Linked, Present
<1>11. ASSUME ~crossed
       PROVE  /\ content.env = (memory.env # Connection!Unset) /\ content.folder = memory.folder
              /\ memory.linked = Connection!Linked /\ (Present => content.link = Connection!Linked)
              /\ secret' = memory.secret
  <2>1. Remembers(h) /\ Undoes(h) BY <1>11 DEF ConnInv, Saves
  <2>2. handlers[h].value = Connection!Unset => secret = memory.secret
    BY <1>1, <1>2, <1>3, <2>1 DEF Undoes
  <2>3. /\ content.env = (memory.env # Connection!Unset) /\ content.folder = memory.folder
        /\ memory.linked = Connection!Linked /\ (Present => content.link = Connection!Linked)
    BY <1>1, <1>3, <2>1 DEF Remembers, content
  <2>4. secret' = memory.secret BY <1>1, <2>2
  <2> QED BY <2>3, <2>4
<1>12. ASSUME ~crossed PROVE Remembers(h)' /\ Undoes(h)' /\ Undone(h)'
  <2>1. Remembers(h)'
    BY <1>5, <1>10, <1>11, <1>12 DEF Remembers, content
  <2>2. CASE u = <<>>
    <3>1. ~Connection!Busy(h)' /\ handlers'[h].result # "rolled-back"
      BY <1>2, <1>5, <2>2 DEF Connection!Busy
    <3> QED BY <2>1, <3>1 DEF Undoes, Undone
  <2>3. CASE u # <<>>
    <3>1. u[1].on # "undo" BY <1>1, <1>2, <1>3, <2>3, NextStep
    <3> QED BY <1>1, <1>4, <1>5, <1>9, <1>11, <1>12, <2>1, <2>3, <3>1 DEF Undoes, Undone, Connection!Busy, content
  <2> QED BY <2>2, <2>3
<1>13. /\ DOMAIN handlers' = Connection!Keys /\ \A g \in Connection!Keys : IsHandler(handlers'[g]) /\ Shaped(handlers'[g])
       /\ OneByOne' /\ Saves'
  BY <1>1, <1>5, <1>6, <1>7, <1>12, OneMoves
<1>14. Refers' BY <1>1, <1>5, RefersToRest DEF Connection!Rest
<1>15. Rendered' BY <1>1, <1>9, <1>10, <1>11 DEF Rendered
<1> QED BY <1>9, <1>13, <1>14, <1>15, KeptThen DEF HandlersKept

LEMMA JoinShaped ==
  /\ Connection!JoinSteps \in Seq(Steps) /\ Len(Connection!JoinSteps) = 3
  /\ Connection!JoinSteps[1] = Connection!Step("apply", "consumer", "unlink") /\ Connection!JoinSteps[2] = Connection!Step("join", "consumer", "unlink")
  /\ Connection!JoinSteps[3] = Connection!Step("complete", "consumer", "unlink")
<1>1. /\ Connection!Step("apply", "consumer", "unlink") \in Steps /\ Connection!Step("join", "consumer", "unlink") \in Steps
      /\ Connection!Step("complete", "consumer", "unlink") \in Steps
  BY DEF Connection!Step, Steps, Dos, Ons, Connection!Apps
<1> QED BY <1>1 DEF Connection!JoinSteps

LEMMA RelinksKept ==
  ASSUME ConnInv, NEW h \in Connection!Keys, Connection!ReapplyIntegrationRelationship(h)
  PROVE  ConnInv'
<1> DEFINE t == handlers[h].todo
           u == Connection!JoinSteps \o Tail(t)
<1>1. Connection!Busy(h) /\ Head(t).do = "relink" /\ UNCHANGED <<appRows, env, secret, folder, projected, runs, crossed>>
  BY DEF Connection!ReapplyIntegrationRelationship, Connection!At
<1>2. StoreTypes /\ Stored' = Stored /\ (Present' <=> Present) /\ DOMAIN link = {"status", "url"}
  BY <1>1 DEF ConnInv, ConnTypes, StoreTypes, Stored, Present
<1>3. CASE Connection!Advance(h) /\ (UNCHANGED link \/ (Connection!Linked /\ link' = [link EXCEPT !.status = "degraded"]))
  <2>1. Connection!Linked' = Connection!Linked /\ DOMAIN link' = {"status", "url"}
    BY <1>2, <1>3 DEF Connection!Linked
  <2> QED BY <1>1, <1>2, <1>3, <2>1, AdvancesOn DEF StoreTypes
<1>4. CASE Connection!Linked /\ link' = [link EXCEPT !.url = handlers[h].address] /\ Connection!Todo(h, Connection!JoinSteps \o Connection!Rest(h))
  <2>1. Connection!Linked' = Connection!Linked /\ DOMAIN link' = {"status", "url"}
    BY <1>2, <1>4 DEF Connection!Linked
  <2>2. /\ IsHandler(handlers[h]) /\ Shaped(handlers[h]) /\ t # <<>> /\ Head(t) = t[1] /\ Len(t) >= 1 /\ Len(t) \in Nat
        /\ t \in Seq(Steps) /\ t[1] \in Steps /\ Tail(t) \in Seq(Steps) /\ Len(Tail(t)) = Len(t) - 1
        /\ \A i \in 1..(Len(t) - 1) : Tail(t)[i] = t[i + 1]
        /\ handlers[h].op # "none" /\ handlers[h].result # "rolled-back"
    BY <1>1, AtStep
  <2>3. t[1].do = "relink" /\ t[1].on \notin {"undo", "lost"}
    BY <1>1, <2>2, Marked
  <2>4. /\ OnlyHandler(h) /\ DOMAIN handlers'[h] = DOMAIN handlers[h] /\ handlers'[h].todo = u
        /\ handlers'[h].op = handlers[h].op /\ handlers'[h].value = handlers[h].value
        /\ handlers'[h].read = handlers[h].read /\ handlers'[h].before = handlers[h].before
        /\ handlers'[h].result = handlers[h].result
    BY <1>1, <1>4, AdvanceFields DEF Connection!Rest
  <2>5. /\ u \in Seq(Steps) /\ Len(u) = Len(t) + 2
        /\ \A i \in 1..3 : u[i] = Connection!JoinSteps[i]
        /\ \A i \in 4..Len(u) : u[i] = Tail(t)[i - 3]
    <3>1. /\ u \in Seq(Steps) /\ Len(u) = 3 + (Len(t) - 1)
          /\ \A i \in 1..(3 + (Len(t) - 1)) : u[i] = IF i <= 3 THEN Connection!JoinSteps[i] ELSE Tail(t)[i - 3]
      <4> DEFINE s == Connection!JoinSteps v == Tail(t)
      <4>1. s \in Seq(Steps) /\ v \in Seq(Steps) /\ u = s \o v /\ Len(s) = 3 /\ Len(v) = Len(t) - 1
        BY <2>2, JoinShaped
      <4> HIDE DEF s, v, u, t
      <4>2. /\ s \o v \in Seq(Steps) /\ Len(s \o v) = Len(s) + Len(v)
            /\ \A i \in 1..(Len(s) + Len(v)) : (s \o v)[i] = IF i <= Len(s) THEN s[i] ELSE v[i - Len(s)]
        BY <4>1, ConcatProperties
      <4>3. /\ u \in Seq(Steps) /\ Len(u) = 3 + (Len(t) - 1)
            /\ \A i \in 1..(3 + (Len(t) - 1)) : u[i] = IF i <= 3 THEN s[i] ELSE v[i - 3]
        BY <4>1, <4>2
      <4> QED BY <4>3 DEF s, v
    <3> HIDE DEF u, t
    <3>2. \A i \in 1..3 : i \in 1..(3 + (Len(t) - 1)) /\ i <= 3 BY <2>2
    <3>3. \A i \in 4..Len(u) : i \in 1..(3 + (Len(t) - 1)) /\ ~(i <= 3)
      BY <2>2, <3>1
    <3>4. Len(u) = Len(t) + 2 BY <2>2, <3>1
    <3> QED BY <3>1, <3>2, <3>3, <3>4
  <2>6. \A i \in 4..Len(u) : u[i] = t[i - 2] /\ i - 2 \in 2..Len(t)
    <3> HIDE DEF u, t
    <3> SUFFICES ASSUME NEW i \in 4..Len(u) PROVE u[i] = t[i - 2] /\ i - 2 \in 2..Len(t)
      OBVIOUS
    <3>1. i - 3 \in 1..(Len(t) - 1) /\ (i - 3) + 1 = i - 2 /\ i - 2 \in 2..Len(t)
      BY <2>2, <2>5
    <3>2. Tail(t)[i - 3] = t[(i - 3) + 1] BY <2>2, <3>1
    <3> QED BY <2>5, <3>1, <3>2
  <2>7. /\ \A i \in 1..3 : u[i].on = "unlink" /\ u[i].do \in {"apply", "join", "complete"}
        /\ u[1].do = "apply" /\ u[1].on = "unlink"
    <3>1. \A i \in 1..3 : Connection!JoinSteps[i].on = "unlink" /\ Connection!JoinSteps[i].do \in {"apply", "join", "complete"}
      BY JoinShaped DEF Connection!Step
    <3>2. Connection!JoinSteps[1].do = "apply" /\ Connection!JoinSteps[1].on = "unlink"
      BY JoinShaped DEF Connection!Step
    <3> HIDE DEF u
    <3> QED BY <2>5, <3>1, <3>2
  <2>8. IsHandler(handlers'[h]) BY <2>2, <2>4, <2>5 DEF IsHandler
  <2>9. /\ \A i \in 1..Len(t) :
             /\ t[i].on \in {"undo", "lost"} => handlers[h].op = "save" /\ t[i].app = "consumer"
             /\ t[i].on = "undo" => t[i].do \in {"apply", "agent", "record", "health"}
             /\ t[i].do \in {"restore", "end"} => t[i].on = "lost"
             /\ t[i].do = "write" => handlers[h].op = "save" /\ t[i].on = "end"
             /\ t[i].do = "delete" => handlers[h].op # "save" /\ i = Len(t)
        /\ \A i \in 2..Len(t) :
             /\ t[i].do \notin {"write", "restore", "agent", "record"}
             /\ t[i].on = "undo" => t[i - 1].do = "write" \/ t[i - 1].on = "undo"
             /\ t[i].on = "lost" => t[i - 1].on = "lost"
    BY <2>2 DEF Shaped
  <2>10. Shaped(handlers'[h])
    <3> HIDE DEF u, t
    <3>1. ASSUME NEW i \in 1..Len(u)
          PROVE  /\ u[i].on \in {"undo", "lost"} => handlers[h].op = "save" /\ u[i].app = "consumer"
                 /\ u[i].on = "undo" => u[i].do \in {"apply", "agent", "record", "health"}
                 /\ u[i].do \in {"restore", "end"} => u[i].on = "lost"
                 /\ u[i].do = "write" => handlers[h].op = "save" /\ u[i].on = "end"
                 /\ u[i].do = "delete" => handlers[h].op # "save" /\ i = Len(u)
      <4>1. CASE i \in 1..3
        BY <2>7, <4>1
      <4>2. CASE i \in 4..Len(u)
        <5>1. u[i] = t[i - 2] /\ i - 2 \in 1..Len(t) /\ (i - 2 = Len(t) => i = Len(u))
          BY <2>2, <2>5, <2>6, <4>2
        <5> QED BY <2>9, <5>1
      <4> QED BY <2>2, <2>5, <4>1, <4>2
    <3>2. ASSUME NEW i \in 2..Len(u)
          PROVE  /\ u[i].do \notin {"write", "restore", "agent", "record"}
                 /\ u[i].on = "undo" => u[i - 1].do = "write" \/ u[i - 1].on = "undo"
                 /\ u[i].on = "lost" => u[i - 1].on = "lost"
      <4>1. CASE i \in 1..3
        BY <2>7, <4>1
      <4>2. CASE i \in 4..Len(u)
        <5>1. u[i] = t[i - 2] /\ i - 2 \in 2..Len(t) BY <2>6, <4>2
        <5>2. /\ t[i - 2].do \notin {"write", "restore", "agent", "record"}
              /\ t[i - 2].on = "undo" => t[(i - 2) - 1].do = "write" \/ t[(i - 2) - 1].on = "undo"
              /\ t[i - 2].on = "lost" => t[(i - 2) - 1].on = "lost"
          BY <2>9, <5>1
        <5>3. CASE i = 4
          <6>1. (i - 2) - 1 = 1 BY <5>3
          <6> QED BY <2>3, <5>1, <5>2, <6>1
        <5>4. CASE i # 4
          <6>1. i - 1 \in 4..Len(u) /\ (i - 1) - 2 = (i - 2) - 1
            BY <2>2, <2>5, <4>2, <5>4
          <6>2. u[i - 1] = t[(i - 2) - 1] BY <2>6, <6>1
          <6> QED BY <5>1, <5>2, <6>2
        <5> QED BY <5>3, <5>4
      <4> QED BY <2>2, <2>5, <4>1, <4>2
    <3>3. u[1].on # "lost" BY <2>7
    <3>4. handlers'[h].op # "none" /\ handlers'[h].result # "rolled-back" /\ handlers'[h].todo = u
      BY <2>2, <2>4 DEF u, t
    <3>5. \A i \in 1..Len(u) :
             /\ u[i].on \in {"undo", "lost"} => handlers'[h].op = "save" /\ u[i].app = "consumer"
             /\ u[i].on = "undo" => u[i].do \in {"apply", "agent", "record", "health"}
             /\ u[i].do \in {"restore", "end"} => u[i].on = "lost"
             /\ u[i].do = "write" => handlers'[h].op = "save" /\ u[i].on = "end"
             /\ u[i].do = "delete" => handlers'[h].op # "save" /\ i = Len(u)
      BY <2>4, <3>1
    <3> QED BY <3>2, <3>3, <3>4, <3>5 DEF Shaped
  <2>11. ASSUME ~crossed PROVE Remembers(h)' /\ Undoes(h)' /\ Undone(h)'
    <3>1. Remembers(h) BY <2>11 DEF ConnInv, Saves
    <3>2. Remembers(h)' BY <1>1, <1>2, <2>1, <2>4, <3>1 DEF Remembers
    <3>3. u[1].on = "unlink" /\ u[1].do = "apply" BY <2>7
    <3>3a. Undoes(h)'
      BY <2>4, <3>3 DEF Undoes
    <3>3b. Undone(h)'
      BY <2>2, <2>4 DEF Undone
    <3> QED BY <3>2, <3>3a, <3>3b
  <2>12. Refers'
    <3>1. ASSUME NEW i \in 1..Len(u), u[i].do \in {"disable", "enable"} PROVE \E j \in 1..Len(t) : t[j] = u[i]
      <4> HIDE DEF u, t
      <4>1. i \notin 1..3 BY <2>7, <3>1
      <4>2. i \in 4..Len(u) BY <2>2, <2>5, <4>1
      <4>3. u[i] = t[i - 2] /\ i - 2 \in 1..Len(t) BY <2>2, <2>6, <4>2
      <4> QED BY <4>3
    <3>2. \A i \in 1..Len(handlers'[h].todo) : handlers'[h].todo[i].do \in {"disable", "enable"} =>
             \E j \in 1..Len(handlers[h].todo) : handlers[h].todo[j] = handlers'[h].todo[i]
      BY <2>4, <3>1
    <3> QED BY <1>1, <2>4, <3>2, RefersOn
  <2>13. /\ DOMAIN handlers' = Connection!Keys /\ \A g \in Connection!Keys : IsHandler(handlers'[g]) /\ Shaped(handlers'[g])
         /\ OneByOne' /\ Saves'
    BY <1>1, <2>4, <2>8, <2>10, <2>11, OneMoves
  <2>14. StoreTypes' /\ Rendered'
    BY <1>1, <1>2, <2>1, RenderedOn DEF StoreTypes
  <2> QED BY <2>12, <2>13, <2>14, KeptThen DEF HandlersKept
<1> QED BY <1>3, <1>4 DEF Connection!ReapplyIntegrationRelationship

\* A request that begins is the only one, or two are in flight from here on.
LEMMA Begins ==
  ASSUME ConnInv, NEW h \in Connection!Keys, NEW r, handlers' = [handlers EXCEPT ![h] = r],
         IsHandler(r), Shaped(r), r.todo # <<>>,
         crossed' = (crossed \/ \E other \in Connection!Keys \ {h} : Connection!Busy(other)), UNCHANGED appRows,
         ~crossed => \A i \in 1..Len(r.todo) : r.todo[i].do \in {"disable", "enable"} => appRows[r.todo[i].app] # "absent",
         ~crossed => Remembers(h)' /\ Undoes(h)'
  PROVE  HandlersKept
<1>1. DOMAIN handlers = Connection!Keys /\ \A g \in Connection!Keys : IsHandler(handlers[g]) /\ Shaped(handlers[g])
  BY DEF ConnInv, ConnTypes
<1>2. DOMAIN handlers' = Connection!Keys /\ handlers'[h] = r /\ \A g \in Connection!Keys \ {h} : handlers'[g] = handlers[g]
  BY <1>1
<1>3. DOMAIN handlers' = Connection!Keys /\ \A g \in Connection!Keys : IsHandler(handlers'[g]) /\ Shaped(handlers'[g])
  BY <1>1, <1>2
<1>4. ASSUME ~crossed' PROVE ~crossed /\ \A g \in Connection!Keys \ {h} : ~Connection!Busy(g)'
  BY <1>2, <1>4 DEF Connection!Busy
<1>5. OneByOne' BY <1>4 DEF OneByOne
<1>6. Saves'
  <2> SUFFICES ASSUME ~crossed', NEW g \in Connection!Keys PROVE Remembers(g)' /\ Undoes(g)' /\ Undone(g)'
    BY DEF Saves
  <2>1. r.op # "none" /\ Connection!Busy(h)'
    BY <1>2 DEF Shaped, Connection!Busy
  <2>2. CASE g = h
    BY <1>4, <2>1, <2>2 DEF Undone
  <2>3. CASE g # h
    <3>1. ~Connection!Busy(g)' BY <1>4, <2>3
    <3>2. Undone(g)' BY <1>2, <2>1, <2>3 DEF Undone
    <3> QED BY <3>1, <3>2 DEF Remembers, Undoes
  <2> QED BY <2>2, <2>3
<1>7. Refers'
  <2> SUFFICES ASSUME ~crossed', NEW g \in Connection!Keys, NEW i \in 1..Len(handlers'[g].todo),
                      handlers'[g].todo[i].do \in {"disable", "enable"}
               PROVE  appRows[handlers'[g].todo[i].app] # "absent"
    BY DEF Refers
  <2>1. CASE g = h
    BY <1>2, <1>4, <2>1
  <2>2. CASE g # h
    <3>1. handlers'[g].todo = <<>> BY <1>4, <2>2 DEF Connection!Busy
    <3>2. Len(handlers'[g].todo) = 0 BY <3>1, EmptySeq
    <3> QED BY <3>2
  <2> QED BY <2>1, <2>2
<1> QED BY <1>3, <1>5, <1>6, <1>7 DEF HandlersKept

\* The steps of which most requests are made.
PlainSteps ==
  {s \in Steps : /\ s.on \notin {"undo", "lost"}
                 /\ s.do \notin {"write", "restore", "agent", "record", "end", "delete"}
                 /\ s.do \in {"disable", "enable"} => appRows[s.app] # "absent"}

LEMMA PlainShaped ==
  ASSUME NEW r, r.todo \in Seq(PlainSteps), r.op # "none", r.result # "rolled-back"
  PROVE  Shaped(r) /\ r.todo \in Seq(Steps)
         /\ \A i \in 1..Len(r.todo) : r.todo[i].do \in {"disable", "enable"} => appRows[r.todo[i].app] # "absent"
<1> DEFINE t == r.todo
<1>1. Len(t) \in Nat /\ \A i \in 1..Len(t) : t[i] \in PlainSteps
  BY ElementOfSeq, LenProperties
<1>2. t \in Seq(Steps) BY DEF PlainSteps
<1>3. \A i \in 1..Len(t) : /\ t[i].on \notin {"undo", "lost"}
                           /\ t[i].do \notin {"write", "restore", "agent", "record", "end", "delete"}
                           /\ t[i].do \in {"disable", "enable"} => appRows[t[i].app] # "absent"
  BY <1>1 DEF PlainSteps
<1>4. t # <<>> => 1 \in 1..Len(t) BY <1>1, <1>2, EmptySeq
<1>5. \A i \in 2..Len(t) : i \in 1..Len(t) BY <1>1
<1> HIDE DEF t
<1>6. r.todo = t BY DEF t
<1> QED BY <1>2, <1>3, <1>4, <1>5, <1>6 DEF Shaped

\* What Begin writes, whatever the drive.
Begun(h, op, todo, value) == \E drive \in BOOLEAN : Connection!Begin(h, op, todo, value, drive)

LEMMA BeginsAs ==
  ASSUME ConnInv, NEW h \in Connection!Keys, NEW op, NEW todo, NEW value, Begun(h, op, todo, value),
         todo \in Seq(Steps)
  PROVE  \E r : /\ handlers' = [handlers EXCEPT ![h] = r] /\ IsHandler(r) /\ r.op = op /\ r.todo = todo
                /\ r.value = value /\ r.result = "none"
                /\ r.before.env = env /\ r.before.folder = folder /\ r.before.linked = Connection!Linked
                /\ r.before.content = Stored
                /\ crossed' = (crossed \/ \E other \in Connection!Keys \ {h} : Connection!Busy(other))
                /\ handlers'[h] = r
<1>0. PICK drive \in BOOLEAN : Connection!Begin(h, op, todo, value, drive)
  BY DEF Begun
<1> DEFINE memory == [env |-> env, secret |-> Connection!Unset, folder |-> folder,
                      linked |-> Connection!Linked, content |-> projected["consumer"].content]
           r == [op |-> op, todo |-> todo, read |-> Connection!NoRead, address |-> suite, value |-> value,
                 drive |-> drive, result |-> "none", before |-> memory]
<1>1. handlers' = [handlers EXCEPT ![h] = r] /\ crossed' = (crossed \/ \E other \in Connection!Keys \ {h} : Connection!Busy(other))
  BY <1>0 DEF Connection!Begin
<1>2. StoreTypes /\ DOMAIN handlers = Connection!Keys
  BY DEF ConnInv, ConnTypes
<1>3. Stored \in Contents /\ folder \in BOOLEAN /\ Connection!Linked \in BOOLEAN
  BY <1>2 DEF StoreTypes, Stored, Connection!Apps, Connection!Linked
<1>4. /\ DOMAIN memory = {"env", "secret", "folder", "linked", "content"} /\ memory.env = env
      /\ memory.folder = folder /\ memory.linked = Connection!Linked /\ memory.content = Stored
  BY DEF Stored
<1> HIDE DEF memory
<1>5. /\ DOMAIN r = {"op", "todo", "read", "address", "value", "drive", "before", "result"}
      /\ r.op = op /\ r.todo = todo /\ r.value = value /\ r.result = "none" /\ r.before = memory
  OBVIOUS
<1> HIDE DEF r
<1>6. handlers'[h] = r BY <1>1, <1>2
<1>7. IsHandler(r) BY <1>3, <1>4, <1>5 DEF IsHandler
<1> QED BY <1>1, <1>4, <1>5, <1>6, <1>7

\* What is stored, and the types of it, when a request begins.
LEMMA BeginsAside ==
  ASSUME ConnInv, NEW h \in Connection!Keys, crossed' = (crossed \/ \E other \in Connection!Keys \ {h} : Connection!Busy(other)),
         UNCHANGED <<appRows, env, folder, link, projected, runs>>
  PROVE  StoreTypes' /\ Rendered'
BY DEF ConnInv, ConnTypes, StoreTypes, Rendered, Stored, Present, Connection!Linked

LEMMA PlainBegins ==
  ASSUME ConnInv, NEW h \in Connection!Keys, NEW op, NEW todo, NEW value, Begun(h, op, todo, value),
         op \notin {"none", "save"}, todo \in Seq(PlainSteps), todo # <<>>, UNCHANGED appRows
  PROVE  HandlersKept
<1>1. todo \in Seq(Steps) BY DEF PlainSteps
<1>2. PICK r : /\ handlers' = [handlers EXCEPT ![h] = r] /\ IsHandler(r) /\ r.op = op /\ r.todo = todo
               /\ r.value = value /\ r.result = "none"
               /\ r.before.env = env /\ r.before.folder = folder /\ r.before.linked = Connection!Linked
               /\ r.before.content = Stored
               /\ crossed' = (crossed \/ \E other \in Connection!Keys \ {h} : Connection!Busy(other))
               /\ handlers'[h] = r
  BY <1>1, BeginsAs
<1>3. Shaped(r) /\ \A i \in 1..Len(r.todo) : r.todo[i].do \in {"disable", "enable"} => appRows[r.todo[i].app] # "absent"
  BY <1>2, PlainShaped
<1>4. Remembers(h)' /\ Undoes(h)' BY <1>2 DEF Remembers, Undoes
<1> QED BY <1>2, <1>3, <1>4, Begins

LEMMA StepIsPlain ==
  ASSUME NEW do \in Dos, NEW a \in Connection!Apps, NEW on \in Ons \ {"undo", "lost"},
         do \notin {"write", "restore", "agent", "record", "end", "delete"},
         do \in {"disable", "enable"} => appRows[a] # "absent"
  PROVE  Connection!Step(do, a, on) \in PlainSteps
BY DEF PlainSteps, Connection!Step, Steps

LEMMA RelinkIsPlain == Connection!Relink \in PlainSteps
BY StepIsPlain DEF Connection!Relink, Dos, Ons, Connection!Apps

\* Requests of one app's steps.
LEMMA RequestsKept ==
  ASSUME ConnInv, NEW a \in Connection!Apps,
         \/ Connection!PerformRestartPackageRuntime(a) \/ Connection!PerformEnablePackage(a) \/ Connection!PerformDisablePackage(a)
         \/ Connection!StartPackageRuntime(a)
  PROVE  ConnInv'
<1>1. a \in Connection!Keys /\ "none" \in Connection!Keys /\ UNCHANGED <<Connection!store, runs>>
  BY DEF Connection!Apps, Connection!Keys, Connection!PerformRestartPackageRuntime, Connection!PerformEnablePackage, Connection!PerformDisablePackage, Connection!StartPackageRuntime
<1>2. UNCHANGED <<appRows, env, folder, link, projected, runs>>
  BY <1>1 DEF Connection!store
<1>3. ASSUME NEW h \in Connection!Keys, NEW op, NEW todo, Begun(h, op, todo, Connection!Unset), op \notin {"none", "save"},
             todo \in Seq(PlainSteps), todo # <<>>
      PROVE  ConnInv'
  <2>1. HandlersKept BY <1>2, <1>3, PlainBegins
  <2>2. StoreTypes' /\ Rendered'
    BY <1>2, <1>3, BeginsAside DEF Begun, Connection!Begin
  <2> QED BY <2>1, <2>2, KeptThen
<1>4. Connection!Step("apply", a, "end") \in PlainSteps /\ Connection!Step("stop", a, "end") \in PlainSteps
  BY StepIsPlain DEF Dos, Ons
<1>5. CASE Connection!PerformRestartPackageRuntime(a)
  <2> DEFINE todo == << Connection!Step("apply", a, "end"), Connection!Relink >>
  <2>1. Begun(a, "restart", todo, Connection!Unset)
    BY <1>5 DEF Connection!PerformRestartPackageRuntime, Begun
  <2>2. todo \in Seq(PlainSteps) /\ Len(todo) = 2 BY <1>4, RelinkIsPlain
  <2> HIDE DEF todo
  <2>3. todo # <<>> BY <2>2, EmptySeq
  <2> QED BY <1>1, <1>3, <2>1, <2>2, <2>3
<1>6. CASE Connection!PerformEnablePackage(a)
  <2> DEFINE first == << Connection!Step("apply", a, "end") >>
             then == IF appRows[a] = "disabled" THEN << Connection!Step("enable", a, "end") >> ELSE <<>>
             last == << Connection!Relink >>
             todo == first \o then \o last
  <2>1. Begun(a, "enable", todo, Connection!Unset)
    BY <1>6 DEF Connection!PerformEnablePackage, Begun
  <2>2. first \in Seq(PlainSteps) /\ last \in Seq(PlainSteps) /\ Len(last) = 1
    BY <1>4, RelinkIsPlain
  <2>3. then \in Seq(PlainSteps)
    <3>1. CASE appRows[a] = "disabled"
      <4>1. Connection!Step("enable", a, "end") \in PlainSteps
        BY <3>1, StepIsPlain DEF Dos, Ons
      <4> QED BY <3>1, <4>1
    <3>2. CASE appRows[a] # "disabled"
      BY <3>2, EmptySeq
    <3> QED BY <3>1, <3>2
  <2> HIDE DEF first, then, last
  <2>4. first \o then \in Seq(PlainSteps)
    BY <2>2, <2>3, ConcatProperties
  <2> DEFINE both == first \o then
  <2>6. Len(both) \in Nat /\ todo = both \o last BY <2>4, LenProperties
  <2> HIDE DEF todo, both
  <2>5. todo \in Seq(PlainSteps) /\ Len(todo) = Len(both) + 1
    <3>1. both \in Seq(PlainSteps) BY <2>4 DEF both
    <3>2. both \o last \in Seq(PlainSteps) /\ Len(both \o last) = Len(both) + Len(last)
      BY <2>2, <3>1, ConcatProperties
    <3> QED BY <2>2, <2>6, <3>2
  <2>7. todo # <<>> BY <2>5, <2>6, EmptySeq
  <2> QED BY <1>1, <1>3, <2>1, <2>5, <2>7
<1>7. CASE Connection!PerformDisablePackage(a)
  <2> DEFINE todo == << Connection!Step("stop", a, "end"), Connection!Step("disable", a, "end") >>
  <2>1. Begun(a, "disable", todo, Connection!Unset)
    BY <1>7 DEF Connection!PerformDisablePackage, Begun
  <2>2. Connection!Step("disable", a, "end") \in PlainSteps
    BY <1>7, StepIsPlain DEF Dos, Ons, Connection!PerformDisablePackage
  <2>3. todo \in Seq(PlainSteps) /\ Len(todo) = 2 BY <1>4, <2>2
  <2> HIDE DEF todo
  <2>4. todo # <<>> BY <2>3, EmptySeq
  <2> QED BY <1>1, <1>3, <2>1, <2>3, <2>4
<1>8. CASE Connection!StartPackageRuntime(a)
  <2> DEFINE todo == << Connection!Step("apply", a, "end") >>
  <2>1. Begun("none", "start", todo, Connection!Unset)
    BY <1>8 DEF Connection!StartPackageRuntime, Begun
  <2>2. todo \in Seq(PlainSteps) /\ Len(todo) = 1 BY <1>4
  <2>3. todo # <<>> OBVIOUS
  <2> HIDE DEF todo
  <2> QED BY <1>1, <1>3, <2>1, <2>2, <2>3
<1> QED BY <1>5, <1>6, <1>7, <1>8

LEMMA UninstallsKept ==
  ASSUME ConnInv, NEW a \in Connection!Apps, Connection!PerformUninstallPackage(a)
  PROVE  ConnInv'
<1> DEFINE todo == << Connection!Step("remove", a, "end"), Connection!Step("delete", a, "end") >>
<1>1. a \in Connection!Keys /\ UNCHANGED <<appRows, env, folder, link, projected, runs>> 
      /\ Begun(a, "uninstall", todo, Connection!Unset)
  BY DEF Connection!Apps, Connection!Keys, Connection!PerformUninstallPackage, Connection!store, Begun
<1>2. Connection!Step("remove", a, "end") \in Steps /\ Connection!Step("delete", a, "end") \in Steps
  BY DEF Connection!Step, Steps, Dos, Ons
<1>3. todo \in Seq(Steps) /\ Len(todo) = 2 /\ todo[1] = Connection!Step("remove", a, "end") /\ todo[2] = Connection!Step("delete", a, "end")
  BY <1>2
<1> HIDE DEF todo
<1>4. todo # <<>> BY <1>3, EmptySeq
<1>5. PICK r : /\ handlers' = [handlers EXCEPT ![a] = r] /\ IsHandler(r) /\ r.op = "uninstall" /\ r.todo = todo
               /\ r.value = Connection!Unset /\ r.result = "none"
               /\ r.before.env = env /\ r.before.folder = folder /\ r.before.linked = Connection!Linked
               /\ r.before.content = Stored
               /\ crossed' = (crossed \/ \E other \in Connection!Keys \ {a} : Connection!Busy(other))
               /\ handlers'[a] = r
  BY <1>1, <1>3, BeginsAs
<1>6. \A i \in 1..Len(todo) : i \in {1, 2} /\ todo[i].on = "end" /\ todo[i].do \in {"remove", "delete"}
                              /\ (todo[i].do = "delete" => i = 2)
  BY <1>3 DEF Connection!Step
<1>7. \A i \in 2..Len(todo) : i \in 1..Len(todo) BY <1>3
<1>8. Shaped(r)
  <2>1. todo[1].on = "end" BY <1>3 DEF Connection!Step
  <2> QED BY <1>3, <1>5, <1>6, <1>7, <2>1 DEF Shaped
<1>9. \A i \in 1..Len(r.todo) : r.todo[i].do \notin {"disable", "enable"}
  BY <1>5, <1>6
<1>10. Remembers(a)' /\ Undoes(a)' BY <1>5 DEF Remembers, Undoes
<1>11. HandlersKept BY <1>1, <1>4, <1>5, <1>8, <1>9, <1>10, Begins
<1>12. StoreTypes' /\ Rendered' BY <1>1, <1>5, BeginsAside
<1> QED BY <1>11, <1>12, KeptThen

\* The five steps of a save.
SaveSteps == << Connection!Step("write", "consumer", "end"), Connection!Step("apply", "consumer", "undo"),
                Connection!Step("health", "consumer", "undo"), Connection!Step("tidy", "consumer", "end"), Connection!Relink >>

LEMMA SaveShaped ==
  ASSUME NEW r, r.todo = SaveSteps, r.op = "save", r.result = "none"
  PROVE  SaveSteps \in Seq(Steps) /\ SaveSteps # <<>> /\ Shaped(r)
         /\ \A i \in 1..Len(SaveSteps) : SaveSteps[i].do \notin {"disable", "enable"}
         /\ SaveSteps[1].do = "write" /\ SaveSteps[1].on = "end"
<1> DEFINE t == SaveSteps
<1>1. /\ Connection!Step("write", "consumer", "end") \in Steps /\ Connection!Step("apply", "consumer", "undo") \in Steps
      /\ Connection!Step("health", "consumer", "undo") \in Steps /\ Connection!Step("tidy", "consumer", "end") \in Steps
      /\ Connection!Relink \in Steps
  BY DEF Connection!Step, Steps, Dos, Ons, Connection!Apps, Connection!Relink
<1>2. t \in Seq(Steps) /\ Len(t) = 5 BY <1>1 DEF SaveSteps
<1>3. /\ t[1] = Connection!Step("write", "consumer", "end") /\ t[2] = Connection!Step("apply", "consumer", "undo")
      /\ t[3] = Connection!Step("health", "consumer", "undo") /\ t[4] = Connection!Step("tidy", "consumer", "end")
      /\ t[5] = Connection!Step("relink", "consumer", "unlink")
  BY DEF SaveSteps, Connection!Relink
<1> HIDE DEF t
<1>4. t # <<>> BY <1>2, EmptySeq
<1>5. /\ t[1].do = "write" /\ t[1].on = "end" /\ t[2].do = "apply" /\ t[2].on = "undo" /\ t[2].app = "consumer"
      /\ t[3].do = "health" /\ t[3].on = "undo" /\ t[3].app = "consumer" /\ t[4].do = "tidy" /\ t[4].on = "end"
      /\ t[5].do = "relink" /\ t[5].on = "unlink"
  BY <1>3 DEF Connection!Step
<1>6. \A i \in 1..Len(t) : i \in {1, 2, 3, 4, 5} BY <1>2
<1>7. \A i \in 2..Len(t) : i \in {2, 3, 4, 5} BY <1>2
<1>8. \A i \in 1..Len(t) :
         /\ t[i].on \in {"undo", "lost"} => r.op = "save" /\ t[i].app = "consumer"
         /\ t[i].on = "undo" => t[i].do \in {"apply", "agent", "record", "health"}
         /\ t[i].do \in {"restore", "end"} => t[i].on = "lost"
         /\ t[i].do = "write" => r.op = "save" /\ t[i].on = "end"
         /\ t[i].do = "delete" => r.op # "save" /\ i = Len(t)
  BY <1>5, <1>6
<1>9. 3 - 1 = 2 /\ 2 - 1 = 1 OBVIOUS
<1>10. \A i \in 2..Len(t) :
         /\ t[i].do \notin {"write", "restore", "agent", "record"}
         /\ t[i].on = "undo" => t[i - 1].do = "write" \/ t[i - 1].on = "undo"
         /\ t[i].on = "lost" => t[i - 1].on = "lost"
  BY <1>5, <1>7, <1>9
<1>11. r.todo = t /\ t = SaveSteps BY DEF t
<1>12. Shaped(r) BY <1>5, <1>8, <1>10, <1>11 DEF Shaped
<1>13. \A i \in 1..Len(t) : t[i].do \notin {"disable", "enable"}
  BY <1>5, <1>6
<1> QED BY <1>2, <1>4, <1>5, <1>11, <1>12, <1>13

LEMMA SavesKept ==
  ASSUME ConnInv, NEW value, NEW drive \in BOOLEAN, Connection!PerformSavePackageEnvironment(value, drive)
  PROVE  ConnInv'
<1> DEFINE h == "consumer"
<1>1. h \in Connection!Keys /\ UNCHANGED <<appRows, env, folder, link, projected, runs>> /\ appRows["consumer"] = "installed"
  BY DEF Connection!Keys, Connection!PerformSavePackageEnvironment, Connection!store
<1>2. Begun(h, "save", SaveSteps, value)
  BY DEF Connection!PerformSavePackageEnvironment, SaveSteps, Begun
<1>3. SaveSteps \in Seq(Steps)
  <2>1. \E r : r.todo = SaveSteps /\ r.op = "save" /\ r.result = "none"
    <3> DEFINE r == [todo |-> SaveSteps, op |-> "save", result |-> "none"]
    <3>1. r.todo = SaveSteps /\ r.op = "save" /\ r.result = "none"
      OBVIOUS
    <3> QED BY <3>1
  <2> QED BY <2>1, SaveShaped
<1>4. PICK r : /\ handlers' = [handlers EXCEPT ![h] = r] /\ IsHandler(r) /\ r.op = "save" /\ r.todo = SaveSteps
               /\ r.value = value /\ r.result = "none"
               /\ r.before.env = env /\ r.before.folder = folder /\ r.before.linked = Connection!Linked
               /\ r.before.content = Stored
               /\ crossed' = (crossed \/ \E other \in Connection!Keys \ {h} : Connection!Busy(other))
               /\ handlers'[h] = r
  BY <1>1, <1>2, <1>3, BeginsAs
<1>5. /\ SaveSteps # <<>> /\ Shaped(r)
      /\ \A i \in 1..Len(SaveSteps) : SaveSteps[i].do \notin {"disable", "enable"}
      /\ SaveSteps[1].do = "write" /\ SaveSteps[1].on = "end"
  BY <1>4, SaveShaped
<1>6. ASSUME ~crossed PROVE Remembers(h)' /\ Undoes(h)'
  <2>1. /\ Stored.env = (env # Connection!Unset) /\ Stored.folder = folder
        /\ Present => Stored.link = Connection!Linked
    BY <1>1, <1>6 DEF ConnInv, Rendered
  <2>2. Connection!Linked' = Connection!Linked /\ (Present' <=> Present)
    BY <1>1 DEF Connection!Linked, Present
  <2>3. Remembers(h)' BY <1>4, <2>1, <2>2 DEF Remembers
  <2>4. Undoes(h)' BY <1>1, <1>4, <1>5 DEF Undoes
  <2> QED BY <2>3, <2>4
<1>7. HandlersKept BY <1>1, <1>4, <1>5, <1>6, Begins
<1>8. StoreTypes' /\ Rendered' BY <1>1, <1>4, BeginsAside
<1> QED BY <1>7, <1>8, KeptThen

LEMMA ConnectsKept ==
  ASSUME ConnInv, Connection!ConnectPackages
  PROVE  ConnInv'
<1> DEFINE h == "none"
           content == Connection!RenderInstanceProjections(env, TRUE, folder)
<1>1. h \in Connection!Keys /\ UNCHANGED <<appRows, env, folder, runs>> /\ Begun(h, "connect", Connection!JoinSteps, Connection!Unset)
  BY DEF Connection!Keys, Connection!ConnectPackages, Begun
<1>2. /\ link' = [status |-> "applying", url |-> suite]
      /\ projected' = [projected EXCEPT !["consumer"] = Connection!Replaced(projected["consumer"], content)]
  BY DEF Connection!ConnectPackages
<1>3. StoreTypes BY DEF ConnInv, ConnTypes
<1>4. content \in Contents /\ content.env = (env # Connection!Unset) /\ content.folder = folder /\ content.link = TRUE
  BY <1>3 DEF StoreTypes, Contents, Connection!RenderInstanceProjections
<1> HIDE DEF content
<1>5. Connection!Replaced(projected["consumer"], content) \in [content : Contents, applied : BOOLEAN, healthy : BOOLEAN]
      /\ Connection!Replaced(projected["consumer"], content).content = content
  BY <1>3, <1>4, ReplacedHolds DEF StoreTypes, Connection!Apps
<1>6. projected' \in [Connection!Apps -> [content : Contents, applied : BOOLEAN, healthy : BOOLEAN]] /\ Stored' = content
  BY <1>2, <1>3, <1>5 DEF StoreTypes, Stored, Connection!Apps
<1>7. Connection!Linked' = TRUE /\ DOMAIN link' = {"status", "url"}
  BY <1>2 DEF Connection!Linked
<1>8. Connection!JoinSteps \in Seq(PlainSteps) /\ Connection!JoinSteps # <<>>
  <2>1. /\ Connection!Step("apply", "consumer", "unlink") \in PlainSteps /\ Connection!Step("join", "consumer", "unlink") \in PlainSteps
        /\ Connection!Step("complete", "consumer", "unlink") \in PlainSteps
    BY StepIsPlain DEF Dos, Ons, Connection!Apps
  <2>2. Connection!JoinSteps \in Seq(PlainSteps)
    BY <2>1 DEF Connection!JoinSteps
  <2> QED BY <2>2, JoinShaped, EmptySeq
<1>9. HandlersKept BY <1>1, <1>8, PlainBegins
<1>10. crossed' = (crossed \/ \E other \in Connection!Keys \ {h} : Connection!Busy(other))
  BY DEF Connection!ConnectPackages, Connection!Begin
<1>11. StoreTypes' BY <1>1, <1>3, <1>6, <1>7, <1>10 DEF StoreTypes
<1>12. Rendered' BY <1>1, <1>4, <1>6, <1>7 DEF Rendered
<1> QED BY <1>9, <1>11, <1>12, KeptThen

\* The suite moves: the apps are rebuilt one by one, and relinked at the end.
LEMMA ReconcilesKept ==
  ASSUME ConnInv, Connection!ReconcilePublicUrls
  PROVE  ConnInv'
<1> DEFINE h == "none"
           each(a) == IF appRows[a] = "installed" THEN << Connection!Step("apply", a, "skip") >> ELSE <<>>
           first == each("consumer")
           then == each("provider")
           last == << Connection!Relink >>
           todo == first \o then \o last
           r == [Connection!Idle EXCEPT !.op = "reconcile", !.address = "new", !.todo = todo]
<1>1. h \in Connection!Keys /\ UNCHANGED <<appRows, env, folder, link, projected, runs>>
      /\ handlers' = [handlers EXCEPT ![h] = r]
      /\ crossed' = (crossed \/ \E other \in Connection!Keys \ {h} : Connection!Busy(other))
  BY DEF Connection!Keys, Connection!ReconcilePublicUrls
<1>2. first \in Seq(PlainSteps) /\ then \in Seq(PlainSteps) /\ last \in Seq(PlainSteps) /\ Len(last) = 1
  <2>1. Connection!Step("apply", "consumer", "skip") \in PlainSteps /\ Connection!Step("apply", "provider", "skip") \in PlainSteps
    BY StepIsPlain DEF Dos, Ons, Connection!Apps
  <2>2. last \in Seq(PlainSteps) /\ Len(last) = 1 BY RelinkIsPlain
  <2>3. << Connection!Step("apply", "consumer", "skip") >> \in Seq(PlainSteps)
        /\ << Connection!Step("apply", "provider", "skip") >> \in Seq(PlainSteps)
        /\ <<>> \in Seq(PlainSteps)
    BY <2>1, EmptySeq
  <2> QED BY <2>2, <2>3
<1> HIDE DEF first, then, last
<1> DEFINE both == first \o then
<1>3. both \in Seq(PlainSteps) BY <1>2, ConcatProperties
<1>4. Len(both) \in Nat /\ todo = both \o last BY <1>3, LenProperties
<1> HIDE DEF both, todo
<1>5. both \o last \in Seq(PlainSteps) /\ Len(both \o last) = Len(both) + Len(last)
  BY <1>2, <1>3, ConcatProperties
<1>6. todo \in Seq(PlainSteps) /\ todo # <<>>
  BY <1>2, <1>4, <1>5, EmptySeq
<1>7. /\ DOMAIN r = {"op", "todo", "read", "address", "value", "drive", "before", "result"}
      /\ r.op = "reconcile" /\ r.todo = todo /\ r.result = "none" /\ r.before = Connection!NoMemory
  BY DEF Connection!Idle
<1> HIDE DEF r
<1>8. Shaped(r) /\ todo \in Seq(Steps)
      /\ \A i \in 1..Len(r.todo) : r.todo[i].do \in {"disable", "enable"} => appRows[r.todo[i].app] # "absent"
  BY <1>6, <1>7, PlainShaped
<1>9. IsHandler(r)
  BY <1>7, <1>8 DEF IsHandler, Connection!NoMemory, Contents
<1>10. handlers'[h] = r BY <1>1 DEF ConnInv, ConnTypes
<1>11. Remembers(h)' /\ Undoes(h)' BY <1>7, <1>10 DEF Remembers, Undoes
<1>12. HandlersKept BY <1>1, <1>6, <1>7, <1>8, <1>9, <1>11, Begins
<1>13. StoreTypes' /\ Rendered' BY <1>1, BeginsAside
<1> QED BY <1>12, <1>13, KeptThen

LEMMA IdleIsShaped == IsHandler(Connection!Idle) /\ Shaped(Connection!Idle) /\ Connection!Idle.op = "none" /\ Connection!Idle.todo = <<>>
<1>1. <<>> \in Seq(Steps) BY EmptySeq
<1>2. Connection!Idle.todo = <<>> /\ Connection!Idle.op = "none"
  BY DEF Connection!Idle
<1>3. IsHandler(Connection!Idle)
  BY <1>1, <1>2 DEF IsHandler, Connection!Idle, Connection!NoMemory, Contents
<1> QED BY <1>2, <1>3 DEF Shaped

\* What a kill leaves of a request is what the agent is doing for it.
Left(r) == [r EXCEPT !.op = "orphan", !.todo = << [Head(@) EXCEPT !.on = "end"] >>]

LEMMA LeftShaped ==
  ASSUME NEW r, IsHandler(r), Shaped(r), r.todo # <<>>, Head(r.todo).do \in {"agent", "stop", "remove"}
  PROVE  /\ IsHandler(Left(r)) /\ Shaped(Left(r)) /\ Left(r).op = "orphan"
         /\ \A i \in 1..Len(Left(r).todo) : Left(r).todo[i].do \notin {"disable", "enable"}
<1> DEFINE step == [Head(r.todo) EXCEPT !.on = "end"]
           t == << step >>
           l == Left(r)
<1>1. r.todo \in Seq(Steps) /\ r.result # "rolled-back"
  BY DEF IsHandler, Shaped
<1>2. Head(r.todo) \in Steps BY <1>1, HeadTailProperties
<1>3. step \in Steps /\ step.on = "end" /\ step.do \in {"agent", "stop", "remove"}
  BY <1>2 DEF Steps, Ons
<1>4. DOMAIN l = DOMAIN r /\ l.op = "orphan" /\ l.todo = t /\ l.before = r.before /\ l.result = r.result
  BY DEF IsHandler, Left
<1> HIDE DEF l, step
<1>5. t \in Seq(Steps) /\ Len(t) = 1 /\ t[1] = step BY <1>3
<1> HIDE DEF t
<1>6. \A i \in 1..Len(t) : t[i] = step BY <1>5
<1>7. \A i \in 2..Len(t) : FALSE BY <1>5
<1>8. IsHandler(l) BY <1>4, <1>5 DEF IsHandler
<1>9. Shaped(l) BY <1>1, <1>3, <1>4, <1>5, <1>6, <1>7 DEF Shaped
<1>10. \A i \in 1..Len(l.todo) : l.todo[i].do \notin {"disable", "enable"}
  BY <1>3, <1>4, <1>6
<1> QED BY <1>4, <1>8, <1>9, <1>10 DEF l

LEMMA KilledKept ==
  ASSUME ConnInv, Connection!Killed
  PROVE  ConnInv'
<1> DEFINE stays(g) == Connection!Busy(g) /\ Head(handlers[g].todo).do \in {"agent", "stop", "remove"}
<1>1. handlers' = [g \in Connection!Keys |-> IF stays(g) THEN Left(handlers[g]) ELSE Connection!Idle]
  BY DEF Connection!Killed, Left
<1>2. UNCHANGED <<appRows, env, secret, folder, link, projected, runs, crossed>>
  BY DEF Connection!Killed, Connection!store
<1>3. ASSUME NEW g \in Connection!Keys
      PROVE  /\ IsHandler(handlers'[g]) /\ Shaped(handlers'[g]) /\ handlers'[g].op # "save"
             /\ Connection!Busy(g)' => Connection!Busy(g)
             /\ \A i \in 1..Len(handlers'[g].todo) : handlers'[g].todo[i].do \notin {"disable", "enable"}
  <2>1. IsHandler(handlers[g]) /\ Shaped(handlers[g])
    BY DEF ConnInv, ConnTypes
  <2>2. CASE stays(g)
    <3>1. handlers'[g] = Left(handlers[g]) /\ handlers[g].todo # <<>> /\ Connection!Busy(g)
      BY <1>1, <2>2 DEF Connection!Busy
    <3>2. /\ IsHandler(Left(handlers[g])) /\ Shaped(Left(handlers[g])) /\ Left(handlers[g]).op = "orphan"
          /\ \A i \in 1..Len(Left(handlers[g]).todo) : Left(handlers[g]).todo[i].do \notin {"disable", "enable"}
      BY <2>1, <2>2, <3>1, LeftShaped
    <3> HIDE DEF stays
    <3> QED BY <3>1, <3>2
  <2>3. CASE ~stays(g)
    <3>1. handlers'[g] = Connection!Idle BY <1>1, <2>3
    <3>2. Len(handlers'[g].todo) = 0 /\ ~Connection!Busy(g)'
      BY <3>1, IdleIsShaped, EmptySeq DEF Connection!Busy
    <3> QED BY <3>1, <3>2, IdleIsShaped
  <2> QED BY <2>2, <2>3
<1>4. DOMAIN handlers' = Connection!Keys BY <1>1
<1>5. OneByOne' /\ Saves' /\ Refers'
  <2>1. OneByOne' BY <1>2, <1>3 DEF ConnInv, OneByOne
  <2>2. Saves' BY <1>3 DEF Saves, Remembers, Undoes, Undone
  <2>3. Refers' BY <1>3 DEF Refers
  <2> QED BY <2>1, <2>2, <2>3
<1>6. HandlersKept BY <1>3, <1>4, <1>5 DEF HandlersKept
<1>7. StoreTypes' /\ Rendered'
  BY <1>2 DEF ConnInv, ConnTypes, StoreTypes, Rendered, Stored, Present, Connection!Linked
<1> QED BY <1>6, <1>7, KeptThen

\* Every step of a handler keeps the invariant.
LEMMA StepsKeep ==
  ASSUME ConnInv, NEW h \in Connection!Keys, Connection!ConnStep(h)
  PROVE  ConnInv'
<1>1. CASE Connection!WriteSave(h) BY <1>1, ConnWritesKept
<1>2. CASE Connection!RollbackPackageEnvironment(h) BY <1>2, RestoresKept
<1>3. CASE Connection!TidySecrets(h) BY <1>3, TidiesKept
<1>4. CASE Connection!EndRollback(h) BY <1>4, EndsKept
<1>5. CASE Connection!ApplyPackageRuntime(h) BY <1>5, AppliesKept
<1>6. CASE Connection!AgentApplies(h) BY <1>6, AgentAppliesKept
<1>7. CASE Connection!AgentApplyFails(h) BY <1>7, AgentFailsKept
<1>8. CASE Connection!ApplyAppProjections(h) BY <1>8, RecordedKept
<1>9. CASE Connection!WaitForPackageHealth(h) BY <1>9, WaitKept
<1>10. CASE Connection!ReapplyIntegrationRelationship(h) BY <1>10, RelinksKept
<1>11. CASE Connection!ConnectNetwork(h) BY <1>11, JoinsKept
<1>12. CASE Connection!CompleteAppIntegration(h) BY <1>12, ConnCompletesKept
<1>13. CASE Connection!StopAppService(h) BY <1>13, StopsKept
<1>14. CASE Connection!MarkAppDisabled(h) BY <1>14, DisablesKept
<1>15. CASE Connection!MarkAppEnabled(h) BY <1>15, EnablesKept
<1>16. CASE Connection!DeleteAppInstance(h) BY <1>16, ConnDeletesKept
<1> QED BY <1>1, <1>2, <1>3, <1>4, <1>5, <1>6, <1>7, <1>8, <1>9, <1>10, <1>11, <1>12, <1>13, <1>14, <1>15,
           <1>16 DEF Connection!ConnStep

LEMMA ConnBegins == Connection!ConnInit => ConnInv
<1> SUFFICES ASSUME Connection!ConnInit PROVE ConnInv
  OBVIOUS
<1>1. handlers = [h \in Connection!Keys |-> Connection!Idle] /\ env = Connection!Unset /\ folder = FALSE /\ crossed = FALSE
      /\ appRows = [a \in Connection!Apps |-> "installed"]
  BY DEF Connection!ConnInit
<1>2. PICK connected \in BOOLEAN :
       /\ link = [status |-> IF connected THEN "active" ELSE "none",
                  url |-> IF connected THEN "old" ELSE Connection!Unset]
       /\ projected = [a \in Connection!Apps |-> [content |-> [Connection!Plain EXCEPT !.link = connected /\ a = "consumer"],
                                                  applied |-> TRUE, healthy |-> TRUE]]
       /\ runs = [a \in Connection!Apps |-> [Connection!Stopped EXCEPT !.on = TRUE, !.ok = TRUE,
                                             !.link = IF connected /\ a = "consumer" THEN "old" ELSE Connection!Unset]]
  BY DEF Connection!ConnInit
<1>3. ASSUME NEW a \in Connection!Apps, NEW p, p = projected[a]
      PROVE  p \in [content : Contents, applied : BOOLEAN, healthy : BOOLEAN] /\ p.content.env = FALSE
             /\ p.content.folder = FALSE /\ (a = "consumer" => p.content.link = connected)
  <2>1. PICK v \in BOOLEAN : v = (connected /\ a = "consumer")
    OBVIOUS
  <2>2. (a = "consumer" => v = connected) BY <2>1
  <2> DEFINE c == [Connection!Plain EXCEPT !.link = v]
  <2>3. c \in Contents BY DEF Contents, Connection!Plain
  <2>4. c.env = FALSE /\ c.folder = FALSE BY DEF Connection!Plain
  <2>4a. c.link = v
    BY DEF Connection!Plain
  <2>5. p = [content |-> [Connection!Plain EXCEPT !.link = connected /\ a = "consumer"], applied |-> TRUE, healthy |-> TRUE]
    BY <1>2, <1>3
  <2>6. p = [content |-> c, applied |-> TRUE, healthy |-> TRUE]
    BY <2>1, <2>5
  <2> HIDE DEF c
  <2> QED BY <2>2, <2>3, <2>4, <2>4a, <2>6
<1>4. /\ Stored.env = FALSE /\ Stored.folder = FALSE /\ Stored.link = connected
      /\ projected \in [Connection!Apps -> [content : Contents, applied : BOOLEAN, healthy : BOOLEAN]]
  <2>1. DOMAIN projected = Connection!Apps /\ projected = [a \in Connection!Apps |-> projected[a]]
    BY <1>2
  <2>2. projected \in [Connection!Apps -> [content : Contents, applied : BOOLEAN, healthy : BOOLEAN]]
    BY <1>3, <2>1
  <2>3. Stored.env = FALSE /\ Stored.folder = FALSE /\ Stored.link = connected
    BY <1>3 DEF Stored, Connection!Apps
  <2> QED BY <2>2, <2>3
<1>5. DOMAIN runs = Connection!Apps /\ \A a \in Connection!Apps : DOMAIN runs[a] = {"on", "ok", "env", "link", "folder", "address"}
  BY <1>2 DEF Connection!Stopped
<1>6. DOMAIN link = {"status", "url"} /\ Connection!Linked = connected
  BY <1>2 DEF Connection!Linked
<1>7. StoreTypes BY <1>1, <1>4, <1>5, <1>6 DEF StoreTypes
<1>8. \A h \in Connection!Keys : handlers[h] = Connection!Idle /\ ~Connection!Busy(h) /\ Len(handlers[h].todo) = 0
  BY <1>1, IdleIsShaped, EmptySeq DEF Connection!Busy
<1>9. ConnTypes /\ \A h \in Connection!Keys : Shaped(handlers[h])
  BY <1>1, <1>7, <1>8, IdleIsShaped DEF ConnTypes
<1>10. Refers BY <1>8 DEF Refers
<1>11. OneByOne /\ Saves
  BY <1>8, IdleIsShaped DEF OneByOne, Saves, Remembers, Undoes, Undone
<1>12. Rendered BY <1>1, <1>4, <1>6 DEF Rendered
<1> QED BY <1>9, <1>10, <1>11, <1>12 DEF ConnInv

LEMMA ConnKept ==
  ASSUME ConnInv, Connection!ConnNext \/ UNCHANGED Connection!connVars
  PROVE  ConnInv'
<1>1. CASE UNCHANGED Connection!connVars
  BY <1>1 DEF Connection!connVars, ConnInv, ConnTypes, StoreTypes, Refers, OneByOne, Rendered, Saves, Remembers, Undoes, Undone,
     Connection!Busy, Connection!Linked, Stored, Present, Secret
<1>2. CASE Connection!ConnNext
  <2>1. ASSUME NEW a \in Connection!Apps,
               \/ Connection!PerformRestartPackageRuntime(a) \/ Connection!PerformEnablePackage(a) \/ Connection!PerformDisablePackage(a)
               \/ Connection!StartPackageRuntime(a)
        PROVE  ConnInv'
    BY <2>1, RequestsKept
  <2>2. ASSUME NEW a \in Connection!Apps, Connection!PerformUninstallPackage(a) PROVE ConnInv'
    BY <2>2, UninstallsKept
  <2>3. ASSUME NEW value \in Connection!Settings, NEW drive \in BOOLEAN, Connection!PerformSavePackageEnvironment(value, drive) PROVE ConnInv'
    BY <2>3, SavesKept
  <2>4. CASE Connection!ConnectPackages BY <2>4, ConnectsKept
  <2>5. CASE Connection!ReconcilePublicUrls BY <2>5, ReconcilesKept
  <2>6. CASE Connection!Killed BY <2>6, KilledKept
  <2>7. ASSUME NEW h \in Connection!Keys, Connection!ConnStep(h) PROVE ConnInv'
    BY <2>7, StepsKeep
  <2> QED BY <1>2, <2>1, <2>2, <2>3, <2>4, <2>5, <2>6, <2>7 DEF Connection!ConnNext
<1> QED BY <1>1, <1>2

\* What the two properties ask follows from it.
LEMMA StoredIsReproducible == ConnInv => Connection!ProjectionsAreReproducible
<1> SUFFICES ASSUME ConnInv, ~crossed, Present
             PROVE  projected["consumer"].content = Connection!RenderInstanceProjections(env, Connection!Linked, folder)
  BY DEF Connection!ProjectionsAreReproducible, Present
<1>1. appRows["consumer"] # "absent" BY DEF Present, Connection!Apps
<1>2. Stored.env = (env # Connection!Unset) /\ Stored.folder = folder /\ Stored.link = Connection!Linked
  BY <1>1 DEF ConnInv, Rendered
<1>3. Stored \in Contents
  BY DEF ConnInv, ConnTypes, StoreTypes, Stored, Connection!Apps
<1>4. Stored = [env |-> Stored.env, link |-> Stored.link, folder |-> Stored.folder]
  BY <1>3 DEF Contents
<1> QED BY <1>2, <1>4 DEF Stored, Connection!RenderInstanceProjections

LEMMA UndoneIsAsBefore == ConnInv => Connection!RolledBackIsAsBefore
<1> SUFFICES ASSUME ConnInv, NEW h \in Connection!Keys, handlers[h].result = "rolled-back", ~crossed, ~Connection!Busy(h),
                    handlers[h].op = "save", \A other \in Connection!Keys \ {h} : handlers[other].op = "none"
             PROVE  LET memory == handlers[h].before IN
                    /\ env = memory.env /\ folder = memory.folder
                    /\ env # Connection!Unset => secret = memory.secret /\ runs["consumer"].env = memory.secret
                    /\ env = Connection!Unset => runs["consumer"].env = Connection!Unset
  BY DEF Connection!RolledBackIsAsBefore
<1>1. Undone(h) BY DEF ConnInv, Saves
<1> QED BY <1>1 DEF Undone, Secret

------------------------------------------------------------------------------
(* The suite's address: until an apply is cut off from the change that asked for it, nothing waits *)
(* in the agent's queue that could undo what the change is sure of, and the token of the address   *)
(* in force is on the host, in the checkpoint of a move in flight, or in one that was kept.        *)

Hostnames    == Domains \cup Doors \cup {Move!NoName}
RunPcs   == {"done", "dns", "apply", "applying", "record", "committing", "undoing", "failing", "offer",
             "discard", "apps"}
Waiting  == {"dns", "apply", "applying", "record", "undoing"}
Settling == {"committing", "offer", "discard", "apps"}
Renderings    == [domain : Hostnames, doors : SUBSET Doors]
JobPcs   == {"idle", "start", "write", "install", "restart", "certificate", "restore"}
Jobs     == [op : {"none", "ensure", "apply", "commit", "rollback"}, pc : JobPcs, domain : Hostnames,
             useParked : BOOLEAN, n : Nat, rendered : Renderings]
Requests == {r \in Jobs : r.op # "none" /\ r.pc = "start"}

SuiteTypes ==
  /\ address \in [kind : {"lan", "door", "domain"}, name : Hostnames \cup {"lan"}, scheme : {"http", "https"}]
  /\ address.kind = "door" => address.name \in Doors
  /\ address.kind = "domain" => address.name \in Domains
  /\ offer \in Domains \cup {Move!NoName} /\ door.live \in Doors /\ DOMAIN door = {"live", "issued"}
  /\ DOMAIN change = {"status", "stage", "target"}
  /\ run \in [pc : RunPcs, target : Hostnames, useParked : BOOLEAN, n : Nat, cancel : BOOLEAN]
  /\ Move!Running => run.target \in Domains \cup Doors
  /\ run.pc \in {"dns", "apply", "applying", "undoing", "committing", "offer", "discard"} => run.target \in Domains
  /\ Move!Running => change.status = "applying"

HostTypes ==
  /\ web \in [file : Renderings, token : Hostnames, live : [file : Renderings, token : Hostnames]]
  /\ DOMAIN saved \subseteq Nat
  /\ \A n \in DOMAIN saved : saved[n] \in [file : Renderings, token : Hostnames, marked : BOOLEAN]
  /\ queue \in Seq(Requests) /\ job \in Jobs /\ (job.op = "none" => job = Move!NoJob)
  /\ uses \in [{"change", "tick", "fail", "death", "offer", "update", "move"} -> Nat]

\* A checkpoint's number is of a change that has begun.
UnderWay ==
  /\ Move!Running => run.n > uses.change
  /\ \A n \in DOMAIN saved : n > uses.change

\* Who waits for an apply or a rollback is the change that asked, and nothing follows it.
InTurn ==
  /\ \A i \in 1..Len(queue) : LET r == queue[i] IN
       /\ r.op = "apply" => run.pc = "applying" /\ r.n = run.n /\ r.domain = run.target /\ i = Len(queue)
       /\ r.op = "rollback" => run.pc = "undoing" /\ r.n = run.n /\ Len(queue) = 1 /\ job.op = "none"
  /\ job.op = "apply" => run.pc = "applying" /\ job.n = run.n /\ job.domain = run.target /\ queue = <<>>
  /\ job.op = "rollback" => run.pc = "undoing" /\ job.n = run.n /\ queue = <<>>

QueuedOnly(ops) == job.op \in ops \cup {"none"} /\ \A i \in 1..Len(queue) : queue[i].op \in ops

Recording == run.pc = "record" /\ run.target \in Domains

Alone ==
  /\ Recording => QueuedOnly({})
  /\ run.pc = "undoing" => QueuedOnly({"rollback"})
  /\ run.pc \in Settling /\ run.target \in Domains => QueuedOnly({"commit"})

\* What the web server was given.
Given ==
  /\ job.op = "ensure" /\ job.pc = "write" /\ address.kind = "domain" => job.rendered.domain = address.name
  /\ job.op = "apply" /\ job.pc \in {"restart", "certificate"} =>
       web.file.domain = job.domain /\ (track = "home" => web.token = job.domain)
  /\ Recording => web.file.domain = run.target /\ (track = "home" => web.token = run.target)
  /\ run.pc \in Settling /\ run.target \in Domains =>
       address.kind = "domain" /\ address.name = run.target /\ web.file.domain = run.target
  /\ run.pc \in Settling /\ run.target \notin Domains => address.kind = "door"
  /\ change.status = "applied" /\ ~Move!Running /\ address.kind = "domain" => web.file.domain = address.name

Committing(n) ==
  \/ job.op = "commit" /\ job.n = n
  \/ \E i \in 1..Len(queue) : queue[i].op = "commit" /\ queue[i].n = n

\* A checkpoint nothing will remove.
Orphan == \E n \in DOMAIN saved : ~Committing(n) /\ ~(run.pc \in Waiting /\ run.n = n)

Replaced   == \/ job.op = "apply" /\ job.pc \in {"restart", "certificate", "restore"}
              \/ Recording \/ run.pc = "undoing"
Remembered == Replaced \/ (job.op = "apply" /\ job.pc # "start")
Right(token) == track = "home" /\ address.kind = "domain" => token = address.name

TokenIsKept ==
  /\ ~Replaced => Right(web.token) \/ Orphan
  /\ Remembered => run.n \in DOMAIN saved /\ (Right(saved[run.n].token) \/ Orphan)

AddressInv == SuiteTypes /\ HostTypes /\ UnderWay /\ InTurn /\ Alone /\ Given /\ TokenIsKept

Budgeted == uses \in [{"change", "tick", "fail", "death", "offer", "update", "move"} -> Nat]
Burns    == uses' \in [{"change", "tick", "fail", "death", "offer", "update", "move"} -> Nat]
            /\ uses'.change <= uses.change

LEMMA SpendingBurns ==
  ASSUME Budgeted, NEW what \in {"change", "tick", "fail", "death", "offer", "update", "move"}, Move!Spend(what)
  PROVE  Burns /\ (what = "change" => uses.change \in Nat /\ uses'.change < uses.change)
<1>1. uses.change \in Nat /\ uses[what] \in Nat /\ uses[what] - 1 \in Nat
  BY DEF Budgeted, Move!Spend
<1>2. uses' = [uses EXCEPT ![what] = uses[what] - 1] BY DEF Move!Spend
<1>3. QED BY <1>1, <1>2 DEF Burns, Budgeted

LEMMA FailingBurns ==
  ASSUME Budgeted, Move!Fine \/ Move!MayFail
  PROVE  Burns
<1>1. CASE Move!Fine
  BY <1>1 DEF Move!Fine, Burns, Budgeted
<1>2. CASE Move!MayFail
  BY <1>2, SpendingBurns DEF Move!MayFail
<1>3. QED BY <1>1, <1>2

\* Nothing but what is asked, offered or reported changes.
LEMMA Steady ==
  ASSUME AddressInv, SuiteTypes', Burns, UNCHANGED <<track, address, run, web, saved, queue, job>>,
         change'.status = change.status
  PROVE  AddressInv'
<1>1. HostTypes' BY DEF AddressInv, HostTypes, Burns
<1>2. UnderWay'
  <2>1. uses.change \in Nat /\ uses'.change \in Nat /\ uses'.change <= uses.change
    BY DEF AddressInv, HostTypes, Burns
  <2>2. run.n \in Nat BY DEF AddressInv, SuiteTypes
  <2>3. Move!Running' = Move!Running /\ DOMAIN saved \subseteq Nat
    BY DEF AddressInv, HostTypes, Move!Running
  <2>4. QED BY <2>1, <2>2, <2>3 DEF AddressInv, UnderWay
<1>3. InTurn' /\ Alone'
  BY DEF AddressInv, InTurn, Alone, QueuedOnly, Recording
<1>4. Given' BY DEF AddressInv, Given, Recording, Move!Running
<1>5. TokenIsKept'
  BY DEF AddressInv, TokenIsKept, Replaced, Remembered, Recording, Right, Orphan, Committing
<1>6. QED BY <1>1, <1>2, <1>3, <1>4, <1>5 DEF AddressInv

\* The change goes on by itself, outside the phases in which the agent works for it.
LEMMA RunOnly ==
  ASSUME AddressInv, SuiteTypes', Burns, UNCHANGED <<track, address, web, saved, queue, job>>,
         run.pc \notin {"applying", "undoing"}, run'.pc \notin {"applying", "undoing"}, ~Recording, ~Recording',
         run'.pc \in Settling => run.pc \in Settling /\ run'.target = run.target,
         run'.pc # "done" => run'.n > uses'.change,
         run'.pc \in Waiting => (run.pc \in Waiting /\ run'.n = run.n) \/ run'.n \notin DOMAIN saved,
         change'.status = "applied" /\ run'.pc = "done" /\ address.kind = "domain" => web.file.domain = address.name
  PROVE  AddressInv'
<1>1. HostTypes' BY DEF AddressInv, HostTypes, Burns
<1>2. UnderWay'
  <2>1. uses.change \in Nat /\ uses'.change \in Nat /\ uses'.change <= uses.change
    BY DEF AddressInv, HostTypes, Burns
  <2>2. Move!Running' => run'.n > uses'.change BY DEF Move!Running
  <2>3. \A n \in DOMAIN saved : n \in Nat /\ n > uses.change
    BY DEF AddressInv, UnderWay, HostTypes
  <2>4. \A n \in DOMAIN saved' : n > uses'.change BY <2>1, <2>3
  <2>5. QED BY <2>2, <2>4 DEF UnderWay
<1>3. InTurn' BY DEF AddressInv, InTurn
<1>4. Alone' BY DEF AddressInv, Alone, QueuedOnly
<1>5. job.op # "apply" /\ job.op # "rollback" BY DEF AddressInv, InTurn
<1>6. Given' BY <1>5 DEF AddressInv, Given, Recording, Move!Running
<1>7. Orphan => Orphan' BY DEF Orphan, Committing
<1>8. TokenIsKept'
  BY <1>5, <1>7 DEF AddressInv, TokenIsKept, Replaced, Remembered, Right
<1>9. QED BY <1>1, <1>2, <1>3, <1>4, <1>6, <1>8 DEF AddressInv

LEMMA Going ==
  ASSUME SuiteTypes, NEW pc \in RunPcs, Move!GoesTo(pc)
  PROVE  /\ run' \in [pc : RunPcs, target : Hostnames, useParked : BOOLEAN, n : Nat, cancel : BOOLEAN]
         /\ run'.pc = pc /\ run'.target = run.target /\ run'.n = run.n
PROOF
  BY DEF SuiteTypes, Move!GoesTo

LEMMA AddressStarts ==
  ASSUME Move!AddressInit
  PROVE  AddressInv
<1>1. SuiteTypes
  <2>1. (CHOOSE d \in Doors : TRUE) \in Doors BY NamesAreDistinct
  <2>2. QED BY <2>1 DEF Move!AddressInit, SuiteTypes, Move!Idle, Hostnames, RunPcs, Move!Running
<1>2. HostTypes
  <2>1. <<>> \in Seq(Requests) /\ DOMAIN <<>> = {} BY EmptySeq
  <2>2. Move!Rendering(Move!NoName) \in Renderings
    BY <1>1 DEF Move!Rendering, Renderings, Hostnames, Move!AddressInit, SuiteTypes
  <2>3. Move!NoJob \in Jobs /\ Move!NoJob.op = "none"
    BY DEF Move!NoJob, Jobs, JobPcs, Hostnames, Renderings
  <2>4. QED BY <2>1, <2>2, <2>3, BudgetsAreCounts DEF Move!AddressInit, HostTypes, Hostnames
<1>3. DOMAIN <<>> = {} /\ Len(<<>>) = 0 BY EmptySeq
<1>4. UnderWay /\ InTurn /\ Alone /\ Given
  BY <1>3 DEF Move!AddressInit, UnderWay, Move!Idle, Move!Running, InTurn, Alone, QueuedOnly, Given, Move!NoJob, Recording, Settling
<1>5. TokenIsKept
  BY DEF Move!AddressInit, TokenIsKept, Replaced, Remembered, Move!NoJob, Move!Idle, Recording, Right
<1>6. QED BY <1>1, <1>2, <1>4, <1>5 DEF AddressInv

\* What changes no more than the address's surroundings.
LEMMA SurroundingsKeep ==
  ASSUME AddressInv,
         \/ Move!DoorMoves \/ Move!CertificateArrives \/ Move!DismissOffer \/ Move!TickUnheard \/ Move!TickProbes \/ Move!WaitForDns
         \/ \E d \in Domains : Move!RestoreOffers(d)
  PROVE  AddressInv'
<1> USE DEF AddressInv
<1>0. SuiteTypes /\ Budgeted BY DEF HostTypes, Budgeted
<1>1. CASE Move!DoorMoves
  <2>1. Burns /\ SuiteTypes'
    BY <1>0, <1>1, SpendingBurns DEF Move!DoorMoves, SuiteTypes, Move!suiteVars, Move!Here, Move!Running
  <2>2. QED BY <2>1, <1>1, Steady DEF Move!DoorMoves, Move!suiteVars, Move!agentVars, Move!Here
<1>2. CASE Move!CertificateArrives
  <2>1. Burns /\ SuiteTypes'
    BY <1>0, <1>2 DEF Move!CertificateArrives, SuiteTypes, Move!suiteVars, Move!Here, Move!Running, Burns, Budgeted
  <2>2. QED
    BY <2>1, <1>2, Steady DEF Move!CertificateArrives, Move!suiteVars, Move!agentVars, Move!Here
<1>3. CASE Move!DismissOffer
  <2>1. Burns /\ SuiteTypes'
    BY <1>0, <1>3, FailingBurns DEF Move!DismissOffer, SuiteTypes, Move!Here, Move!Running
  <2>2. QED BY <2>1, <1>3, Steady DEF Move!DismissOffer, Move!Here
<1>4. CASE Move!TickUnheard
  <2>1. Burns /\ SuiteTypes'
    BY <1>0, <1>4, FailingBurns DEF Move!TickUnheard, SuiteTypes, Move!Here, Move!Running
  <2>2. QED BY <2>1, <1>4, Steady DEF Move!TickUnheard, Move!agentVars, Move!Here
<1>5. CASE Move!TickProbes
  <2>1. Burns /\ SuiteTypes'
    BY <1>0, <1>5 DEF Move!TickProbes, SuiteTypes, Move!Here, Move!Running, Burns, Budgeted
  <2>2. QED BY <2>1, <1>5, Steady DEF Move!TickProbes, Move!agentVars, Move!Here
<1>6. CASE Move!WaitForDns
  <2>1. Burns BY <1>0, <1>6 DEF Move!WaitForDns, Burns, Budgeted
  <2>2. change' = [change EXCEPT !.stage = "dns"] /\ change'.status = change.status
    BY <1>0, <1>6 DEF Move!WaitForDns, Move!Stage, SuiteTypes
  <2>3. SuiteTypes'
    BY <2>2, <1>0, <1>6 DEF Move!WaitForDns, SuiteTypes, Move!Here, Move!Running
  <2>4. QED BY <2>1, <2>2, <2>3, <1>6, Steady DEF Move!WaitForDns, Move!agentVars, Move!Here
<1>7. CASE \E d \in Domains : Move!RestoreOffers(d)
  <2>1. Burns /\ SuiteTypes'
    BY <1>0, <1>7, SpendingBurns DEF Move!RestoreOffers, SuiteTypes, Move!Here, Move!Running
  <2>2. QED BY <2>1, <1>7, Steady DEF Move!RestoreOffers, Move!Here
<1>8. QED BY <1>1, <1>2, <1>3, <1>4, <1>5, <1>6, <1>7

\* Setup is completed through a door: no change has begun, and none of the address's parts is of a domain.
LEMMA RecordDoorKeeps ==
  ASSUME AddressInv, Move!RecordDoor
  PROVE  AddressInv'
<1> USE DEF AddressInv
<1>1. /\ address'.kind = "door" /\ address' \in [kind : {"lan", "door", "domain"}, name : Hostnames \cup {"lan"}, scheme : {"http", "https"}]
      /\ address'.name \in Doors
  BY DEF Move!RecordDoor, SuiteTypes, Hostnames
<1>2. SuiteTypes' /\ ~Move!Running
  BY <1>1 DEF Move!RecordDoor, SuiteTypes, Move!Here, Move!Running
<1>3. HostTypes' /\ UnderWay' /\ InTurn' /\ Alone'
  BY DEF Move!RecordDoor, HostTypes, UnderWay, InTurn, Alone, QueuedOnly, Recording, Move!Running, Move!Here, Move!agentVars
<1>4. Given'
  BY <1>1, <1>2 DEF Move!RecordDoor, Given, Recording, Move!Running, Move!Here, Move!agentVars, Settling
<1>5. TokenIsKept'
  BY <1>1 DEF Move!RecordDoor, TokenIsKept, Replaced, Remembered, Recording, Right, Move!Here, Move!agentVars
<1>6. QED BY <1>2, <1>3, <1>4, <1>5

\* A change that begins has a number no checkpoint has.
LEMMA BeginKeeps ==
  ASSUME AddressInv, NEW target \in Domains \cup Doors, NEW useParked \in BOOLEAN, NEW first \in {"dns", "apply", "record"},
         first = "record" => target \in Doors, first # "record" => target \in Domains,
         Move!BeginChange(target, useParked, first)
  PROVE  AddressInv'
<1> USE DEF AddressInv
<1>0. Domains \cap Doors = {} BY NamesAreDistinct
<1>1. Burns /\ uses.change \in Nat /\ uses'.change < uses.change
  BY SpendingBurns DEF Move!BeginChange, HostTypes, Budgeted
<1>2. /\ run'.pc = first /\ run'.target = target /\ run'.n = uses.change /\ change'.status = "applying"
      /\ run' \in [pc : RunPcs, target : Hostnames, useParked : BOOLEAN, n : Nat, cancel : BOOLEAN]
  BY <1>1 DEF Move!BeginChange, RunPcs, Hostnames
<1>3. SuiteTypes'
  BY <1>2 DEF Move!BeginChange, SuiteTypes, Move!Here, Move!Running
<1>4. run'.n \notin DOMAIN saved /\ run'.n > uses'.change
  BY <1>1, <1>2 DEF UnderWay, HostTypes
<1>5. run.pc = "done" /\ ~Recording /\ ~Recording' /\ run'.pc \notin Settling
  BY <1>0, <1>2 DEF Move!BeginChange, Move!Running, Recording, Settling
<1>6. UNCHANGED <<track, address, web, saved, queue, job>>
  BY DEF Move!BeginChange, Move!Here, Move!agentVars
<1>7. run'.pc \notin {"applying", "undoing"} /\ run'.pc # "done" BY <1>2
<1>8. QED BY <1>1, <1>2, <1>3, <1>4, <1>5, <1>6, <1>7, RunOnly

LEMMA ChangesBegin ==
  ASSUME AddressInv, Move!MoveToOffered \/ Move!FollowDoor \/ Move!TickMoves \/ \E d \in Domains : Move!MoveToDomain(d)
  PROVE  AddressInv'
<1>1. door.live \in Doors /\ (offer # Move!NoName => offer \in Domains)
  BY DEF AddressInv, SuiteTypes
<1>2. CASE Move!MoveToOffered
  <2>1. PICK yes \in BOOLEAN : Move!BeginChange(offer, yes, "apply") /\ offer \in Domains
    BY <1>1, <1>2 DEF Move!MoveToOffered
  <2>2. QED BY <2>1, BeginKeeps
<1>3. CASE Move!FollowDoor
  <2>1. PICK no \in BOOLEAN : Move!BeginChange(door.live, no, "record")
    BY <1>3 DEF Move!FollowDoor
  <2>2. QED BY <2>1, <1>1, BeginKeeps
<1>4. CASE Move!TickMoves
  <2>1. CASE Move!DoorIsHeld /\ Move!BeginChange(door.live, FALSE, "record")
    <3>1. PICK no \in BOOLEAN : Move!BeginChange(door.live, no, "record")
      BY <2>1
    <3>2. QED BY <3>1, <1>1, BeginKeeps
  <2>2. CASE UNCHANGED <<Move!Here, address, offer, change, run, held, door, Move!agentVars, severed, uses>>
    <3>1. Burns /\ SuiteTypes'
      BY <2>2 DEF AddressInv, SuiteTypes, HostTypes, Burns, Move!Running
    <3>2. QED BY <2>2, <3>1, Steady DEF Move!Here, Move!agentVars
  <2>3. QED BY <1>4, <2>1, <2>2 DEF Move!TickMoves
<1>5. CASE \E d \in Domains : Move!MoveToDomain(d)
  <2>1. PICK d \in Domains, first \in {"dns", "apply"}, no \in BOOLEAN : Move!BeginChange(d, no, first)
    BY <1>5 DEF Move!MoveToDomain
  <2>2. QED BY <2>1, BeginKeeps
<1>6. QED BY <1>2, <1>3, <1>4, <1>5

LEMMA Failing ==
  ASSUME SuiteTypes, Move!Failed
  PROVE  /\ run' \in [pc : RunPcs, target : Hostnames, useParked : BOOLEAN, n : Nat, cancel : BOOLEAN]
         /\ run'.pc = "done" /\ change'.status = "failed" /\ DOMAIN change' = {"status", "stage", "target"}
PROOF
  BY DEF SuiteTypes, Move!Failed, Move!Idle, RunPcs, Hostnames

LEMMA DnsKeeps ==
  ASSUME AddressInv, Move!DnsEnds \/ Move!CancelChange
  PROVE  AddressInv'
<1> USE DEF AddressInv
<1>1. run.pc = "dns" /\ Burns /\ UNCHANGED <<track, address, offer, door, web, saved, queue, job>>
  BY DEF Move!DnsEnds, Move!CancelChange, Move!RunAt, Burns, HostTypes, Move!Here, Move!agentVars
<1>2. CASE Move!DnsEnds /\ Move!GoesTo("apply") /\ UNCHANGED change
  <2>1. /\ run' \in [pc : RunPcs, target : Hostnames, useParked : BOOLEAN, n : Nat, cancel : BOOLEAN]
        /\ run'.pc = "apply" /\ run'.target = run.target /\ run'.n = run.n
    BY <1>2, Going DEF RunPcs
  <2>2. SuiteTypes' BY <1>1, <1>2, <2>1 DEF SuiteTypes, Move!Running
  <2>3. run'.n > uses'.change
    BY <1>1, <2>1 DEF UnderWay, Move!Running, Burns, HostTypes, SuiteTypes
  <2>4. QED BY <1>1, <2>1, <2>2, <2>3, RunOnly DEF Recording, Settling, Waiting
<1>3. CASE Move!DnsEnds /\ Move!Failed
  <2>1. SuiteTypes' BY <1>1, <1>3, Failing DEF SuiteTypes, Move!Running
  <2>2. QED BY <1>1, <1>3, <2>1, Failing, RunOnly DEF Recording, Settling, Waiting
<1>4. CASE Move!CancelChange
  <2>1. /\ run' \in [pc : RunPcs, target : Hostnames, useParked : BOOLEAN, n : Nat, cancel : BOOLEAN]
        /\ run'.pc = "dns" /\ run'.target = run.target /\ run'.n = run.n /\ UNCHANGED change
    BY <1>1, <1>4 DEF SuiteTypes, Move!CancelChange
  <2>2. SuiteTypes' BY <1>1, <2>1 DEF SuiteTypes, Move!Running
  <2>3. run'.n > uses'.change
    BY <1>1, <2>1 DEF UnderWay, Move!Running, Burns, HostTypes, SuiteTypes
  <2>4. QED BY <1>1, <2>1, <2>2, <2>3, RunOnly DEF Recording, Settling, Waiting
<1>5. QED BY <1>2, <1>3, <1>4 DEF Move!DnsEnds

LEMMA RecordFailsKeeps ==
  ASSUME AddressInv, Move!RecordFails
  PROVE  AddressInv'
<1> USE DEF AddressInv
<1>1. run.pc = "failing" /\ Burns /\ UNCHANGED <<track, address, offer, door, web, saved, queue, job>> /\ Move!Failed
  BY DEF Move!RecordFails, Move!RunAt, Burns, HostTypes, Move!Here, Move!agentVars
<1>2. SuiteTypes' BY <1>1, Failing DEF SuiteTypes, Move!Running
<1>3. QED BY <1>1, <1>2, Failing, RunOnly DEF Recording, Settling, Waiting

\* What follows the record of the address.
LEMMA SettlingKeeps ==
  ASSUME AddressInv, Move!CommitUnheard \/ Move!ClearsOffer \/ Move!RunDiscards \/ Move!Rebake
  PROVE  AddressInv'
<1> USE DEF AddressInv
<1>1. /\ run.pc \in Settling /\ Burns /\ UNCHANGED <<track, address, door, web, saved, queue, job>>
      /\ offer' \in Domains \cup {Move!NoName}
  <2>1. Burns
    BY FailingBurns DEF Move!CommitUnheard, Move!ClearsOffer, Move!RunDiscards, Move!Rebake, Burns, HostTypes, Budgeted
  <2>2. QED
    BY <2>1 DEF Move!CommitUnheard, Move!ClearsOffer, Move!RunDiscards, Move!Rebake, Move!RunAt, Move!Here, Move!agentVars, Settling, SuiteTypes
<1>2. ASSUME NEW pc \in {"offer", "discard", "apps"}, Move!GoesTo(pc), UNCHANGED change, run.pc # "apps"
      PROVE  AddressInv'
  <2>1. /\ run' \in [pc : RunPcs, target : Hostnames, useParked : BOOLEAN, n : Nat, cancel : BOOLEAN]
        /\ run'.pc = pc /\ run'.target = run.target /\ run'.n = run.n
    BY <1>2, Going DEF RunPcs
  <2>2. SuiteTypes'
    BY <1>1, <1>2, <2>1 DEF SuiteTypes, Move!Running, Settling
  <2>3. run'.n > uses'.change
    BY <1>1, <2>1 DEF UnderWay, Move!Running, Burns, HostTypes, SuiteTypes, Settling
  <2>4. QED BY <1>1, <2>1, <2>2, <2>3, RunOnly DEF Recording, Settling, Waiting
<1>3. CASE Move!CommitUnheard
  BY <1>2, <1>3 DEF Move!CommitUnheard, Move!RunAt
<1>4. CASE Move!ClearsOffer
  BY <1>2, <1>4 DEF Move!ClearsOffer, Move!RunAt
<1>5. CASE Move!RunDiscards
  BY <1>2, <1>5 DEF Move!RunDiscards, Move!RunAt
<1>6. CASE Move!Rebake
  <2>1. /\ run.pc = "apps" /\ run' = Move!Idle /\ DOMAIN change' = {"status", "stage", "target"}
    BY <1>6 DEF Move!Rebake, Move!RunAt, SuiteTypes
  <2>2. SuiteTypes'
    BY <1>1, <2>1 DEF SuiteTypes, Move!Running, Move!Idle, RunPcs, Hostnames
  <2>3. address.kind = "domain" => web.file.domain = address.name
    BY <1>1 DEF Given
  <2>4. QED BY <1>1, <2>1, <2>2, <2>3, RunOnly DEF Recording, Settling, Waiting, Move!Idle
<1>7. QED BY <1>3, <1>4, <1>5, <1>6

LEMMA SuiteRestartsKeeps ==
  ASSUME AddressInv, Move!SuiteRestarts, ~severed'
  PROVE  AddressInv'
<1> USE DEF AddressInv
<1>1. /\ run.pc \notin {"applying", "record", "undoing"} /\ run' = Move!Idle
      /\ UNCHANGED <<track, address, offer, door, web, saved, queue, job>>
  BY DEF Move!SuiteRestarts, Move!Cuts, Move!Here, Move!agentVars
<1>2. Burns BY SpendingBurns DEF Move!SuiteRestarts, HostTypes, Budgeted
<1>3. DOMAIN change' = {"status", "stage", "target"}
      /\ (change'.status = "applied" => change.status = "applied" /\ ~Move!Running)
  BY DEF Move!SuiteRestarts, SuiteTypes
<1>4. SuiteTypes'
  BY <1>1, <1>3 DEF SuiteTypes, Move!Running, Move!Idle, RunPcs, Hostnames
<1>5. change'.status = "applied" /\ address.kind = "domain" => web.file.domain = address.name
  BY <1>3 DEF Given
<1>6. QED BY <1>1, <1>2, <1>4, <1>5, RunOnly DEF Recording, Settling, Waiting, Move!Idle

\* What is in the queue after one more request.
LEMMA Asking ==
  ASSUME HostTypes, NEW request, Move!Asks(request), request.op \in {"ensure", "apply", "commit", "rollback"},
         request.domain \in Hostnames, request.n \in Nat, request.useParked \in BOOLEAN
  PROVE  /\ queue' \in Seq(Requests) /\ Len(queue) \in Nat /\ Len(queue') = Len(queue) + 1
         /\ \A i \in 1..Len(queue) : queue'[i] = queue[i]
         /\ queue'[Len(queue')].op = request.op /\ queue'[Len(queue')].n = request.n
         /\ queue'[Len(queue')].domain = request.domain
<1> DEFINE asked == [Move!NoJob EXCEPT !.op = request.op, !.pc = "start", !.n = request.n,
                            !.domain = request.domain, !.useParked = request.useParked]
<1>1. asked \in Jobs /\ asked.op = request.op /\ asked.n = request.n /\ asked.domain = request.domain /\ asked.pc = "start"
  BY DEF Move!NoJob, Jobs, JobPcs, Renderings, Hostnames
<1>2. asked \in Requests BY <1>1 DEF Requests
<1>3. queue' = Append(queue, asked) /\ queue \in Seq(Requests)
  BY DEF Move!Asks, HostTypes
<1> HIDE DEF asked
<1>4. QED BY <1>1, <1>2, <1>3, AppendProperties

LEMMA TickStartsKeeps ==
  ASSUME AddressInv, Move!TickStarts
  PROVE  AddressInv'
<1> USE DEF AddressInv
<1>1. /\ run.pc = "done" /\ UNCHANGED <<track, address, offer, change, run, door, web, saved, job>>
      /\ Move!Asks(Move!Plain("ensure", 0))
  BY DEF Move!TickStarts, Move!Running, Move!Here
<1>2. Burns BY SpendingBurns DEF Move!TickStarts, HostTypes, Budgeted
<1>3. SuiteTypes' BY <1>1 DEF SuiteTypes, Move!Running
<1>4. /\ queue' \in Seq(Requests) /\ Len(queue) \in Nat /\ Len(queue') = Len(queue) + 1
      /\ \A i \in 1..Len(queue) : queue'[i] = queue[i]
      /\ queue'[Len(queue')].op = "ensure"
  <2> DEFINE asked == Move!Plain("ensure", 0)
  <2>1. asked.op = "ensure" /\ asked.n \in Nat /\ asked.domain \in Hostnames /\ asked.useParked \in BOOLEAN /\ Move!Asks(asked)
    BY <1>1 DEF Move!Plain, Hostnames
  <2> HIDE DEF asked
  <2>2. QED BY <2>1, Asking
<1>5. HostTypes' /\ UnderWay'
  <2>1. HostTypes' BY <1>1, <1>2, <1>4 DEF HostTypes, Burns
  <2>2. uses.change \in Nat /\ uses'.change \in Nat /\ uses'.change <= uses.change /\ DOMAIN saved \subseteq Nat
    BY <1>2 DEF HostTypes, Burns
  <2>3. UnderWay' BY <2>2, <1>1 DEF UnderWay, Move!Running
  <2>4. QED BY <2>1, <2>3
<1>6. \A i \in 1..Len(queue') : i \in 1..Len(queue) \/ i = Len(queue')
  BY <1>4
<1>7. InTurn' /\ Alone'
  BY <1>1, <1>4, <1>6 DEF InTurn, Alone, Recording, Settling
<1>8. Given' BY <1>1 DEF Given, Recording, Move!Running
<1>9. Orphan => Orphan' BY <1>1, <1>4, <1>6 DEF Orphan, Committing
<1>10. TokenIsKept'
  BY <1>1, <1>9 DEF TokenIsKept, Replaced, Remembered, Recording, Right, InTurn
<1>11. QED BY <1>3, <1>5, <1>7, <1>8, <1>10

LEMMA AskApplyKeeps ==
  ASSUME AddressInv, Move!AskApply
  PROVE  AddressInv'
<1> USE DEF AddressInv
<1> DEFINE asked == [op |-> "apply", n |-> run.n, domain |-> run.target, useParked |-> run.useParked]
<1>1. /\ run.pc = "apply" /\ UNCHANGED <<track, address, offer, door, web, saved, job, uses>>
      /\ Move!Asks(asked) /\ Move!GoesTo("applying") /\ Move!Stage("caddy")
  BY DEF Move!AskApply, Move!RunAt, Move!Here
<1>2. /\ run' \in [pc : RunPcs, target : Hostnames, useParked : BOOLEAN, n : Nat, cancel : BOOLEAN]
      /\ run'.pc = "applying" /\ run'.target = run.target /\ run'.n = run.n
  BY <1>1, Going DEF RunPcs
<1>3. SuiteTypes' BY <1>1, <1>2 DEF SuiteTypes, Move!Running, Move!Stage
<1>4. /\ asked.op = "apply" /\ asked.n = run.n /\ asked.domain = run.target
      /\ asked.n \in Nat /\ asked.domain \in Hostnames /\ asked.useParked \in BOOLEAN
  BY DEF SuiteTypes
<1> HIDE DEF asked
<1>5. /\ queue' \in Seq(Requests) /\ Len(queue) \in Nat /\ Len(queue') = Len(queue) + 1
      /\ \A i \in 1..Len(queue) : queue'[i] = queue[i]
      /\ queue'[Len(queue')].op = "apply" /\ queue'[Len(queue')].n = run.n /\ queue'[Len(queue')].domain = run.target
  BY <1>1, <1>4, Asking
<1>6. HostTypes' /\ UnderWay'
  BY <1>1, <1>2, <1>5 DEF HostTypes, UnderWay, Move!Running
<1>7. \A i \in 1..Len(queue') : i \in 1..Len(queue) \/ i = Len(queue')
  BY <1>5
<1>8. job.op \notin {"apply", "rollback"} /\ \A i \in 1..Len(queue) : queue[i].op \notin {"apply", "rollback"}
  BY <1>1 DEF InTurn
<1>9. InTurn' /\ Alone'
  BY <1>1, <1>2, <1>5, <1>7, <1>8 DEF InTurn, Alone, Recording, Settling
<1>10. Given'
  BY <1>1, <1>2, <1>8 DEF Given, Recording, Move!Running, Settling
<1>11. Orphan => Orphan'
  BY <1>1, <1>2, <1>5, <1>7 DEF Orphan, Committing, Waiting
<1>12. TokenIsKept'
  BY <1>1, <1>2, <1>8, <1>11 DEF TokenIsKept, Replaced, Remembered, Recording, Right
<1>13. QED BY <1>3, <1>6, <1>9, <1>10, <1>12

\* The record of a domain meets an agent with nothing to do, and hands it one thing.
LEMMA RecordKeeps ==
  ASSUME AddressInv, Move!Record
  PROVE  AddressInv'
<1> USE DEF AddressInv
<1>1. /\ run.pc = "record" /\ UNCHANGED <<track, offer, door, web, saved, job>> /\ Move!Stage("recorded")
      /\ run.target \in Domains \cup Doors /\ change.status = "applying" /\ run.n \in Nat
  BY DEF Move!Record, Move!RunAt, Move!Here, SuiteTypes, Move!Running
<1>2. Burns BY FailingBurns DEF Move!Record, HostTypes, Budgeted
<1>3. Domains \cap Doors = {} BY NamesAreDistinct
<1>4. change'.status = "applying" /\ DOMAIN change' = {"status", "stage", "target"}
  BY <1>1 DEF Move!Stage, SuiteTypes
<1>5. ASSUME NEW pc \in {"committing", "undoing"}, NEW op \in {"commit", "rollback"}, run.target \in Domains, Move!GoesTo(pc),
             Move!Asks(Move!Plain(op, run.n))
      PROVE  /\ run' \in [pc : RunPcs, target : Hostnames, useParked : BOOLEAN, n : Nat, cancel : BOOLEAN]
             /\ run'.pc = pc /\ run'.target = run.target /\ run'.n = run.n
             /\ HostTypes' /\ UnderWay' /\ job.op = "none" /\ Len(queue') = 1
             /\ queue'[1].op = op /\ queue'[1].n = run.n
             /\ run.n \in DOMAIN saved /\ web.file.domain = run.target /\ (track = "home" => web.token = run.target)
             /\ (Right(saved[run.n].token) \/ Orphan)
             /\ \A n \in DOMAIN saved : ~Committing(n) /\ (n # run.n => ~Committing(n)')
    <2> DEFINE asked == Move!Plain(op, run.n)
    <2>1. asked.op = op /\ asked.n = run.n /\ asked.n \in Nat /\ asked.domain \in Hostnames /\ asked.useParked \in BOOLEAN /\ Move!Asks(asked)
      BY <1>1, <1>5 DEF Move!Plain, Hostnames
    <2> HIDE DEF asked
    <2>2. /\ queue' \in Seq(Requests) /\ Len(queue) \in Nat /\ Len(queue') = Len(queue) + 1
          /\ queue'[Len(queue')].op = op /\ queue'[Len(queue')].n = run.n
      BY <2>1, Asking
    <2>3. job.op = "none" /\ Len(queue) = 0 /\ \A i \in 1..Len(queue) : FALSE
      BY <1>1, <1>5, <2>2 DEF Alone, QueuedOnly, Recording
    <2>4. Len(queue') = 1 /\ queue'[1].op = op /\ queue'[1].n = run.n
      BY <2>2, <2>3
    <2>5. /\ run' \in [pc : RunPcs, target : Hostnames, useParked : BOOLEAN, n : Nat, cancel : BOOLEAN]
          /\ run'.pc = pc /\ run'.target = run.target /\ run'.n = run.n
      BY <1>5, Going DEF RunPcs
    <2>6. HostTypes' /\ UnderWay'
      <3>1. HostTypes' BY <1>1, <1>2, <2>2 DEF HostTypes, Burns
      <3>2. uses.change \in Nat /\ uses'.change \in Nat /\ uses'.change <= uses.change /\ DOMAIN saved \subseteq Nat
        BY <1>2 DEF HostTypes, Burns
      <3>3. UnderWay' BY <3>2, <1>1, <2>5 DEF UnderWay, Move!Running
      <3>4. QED BY <3>1, <3>3
    <2>7. run.n \in DOMAIN saved /\ (Right(saved[run.n].token) \/ Orphan)
      BY <1>1, <1>5 DEF TokenIsKept, Remembered, Replaced, Recording
    <2>8. web.file.domain = run.target /\ (track = "home" => web.token = run.target)
      BY <1>1, <1>5 DEF Given, Recording
    <2>9. \A n \in DOMAIN saved : ~Committing(n) /\ (n # run.n => ~Committing(n)')
      BY <1>1, <2>3, <2>4 DEF Committing
    <2>10. QED BY <2>3, <2>4, <2>5, <2>6, <2>7, <2>8, <2>9
<1>6. CASE run.target \in Domains /\ address' = Move!Target /\ Move!Asks(Move!Plain("commit", run.n)) /\ Move!GoesTo("committing")
  <2>1. address' = [kind |-> "domain", name |-> run.target, scheme |-> "https"]
    BY <1>6 DEF Move!Target
  <2>2. SuiteTypes'
    BY <2>1, <1>1, <1>4, <1>5, <1>6 DEF SuiteTypes, Move!Running, Hostnames
  <2>3. InTurn' /\ Alone'
    BY <1>1, <1>5, <1>6 DEF InTurn, Alone, QueuedOnly, Recording
  <2>4. Given'
    BY <2>1, <1>1, <1>4, <1>5, <1>6 DEF Given, Recording, Move!Running
  <2>5. TokenIsKept'
    BY <2>1, <1>1, <1>5, <1>6 DEF TokenIsKept, Replaced, Remembered, Recording, Right
  <2>6. QED BY <2>2, <2>3, <2>4, <2>5, <1>5, <1>6
<1>7. CASE run.target \in Domains /\ UNCHANGED address /\ Move!Asks(Move!Plain("rollback", run.n)) /\ Move!GoesTo("undoing")
  <2>2. SuiteTypes'
    BY <1>1, <1>4, <1>5, <1>7 DEF SuiteTypes, Move!Running, Hostnames
  <2>3. InTurn' /\ Alone'
    BY <1>1, <1>5, <1>7 DEF InTurn, Alone, QueuedOnly, Recording, Settling
  <2>4. Given'
    BY <1>1, <1>4, <1>5, <1>7 DEF Given, Recording, Move!Running, Settling
  <2>5. Orphan => Orphan' BY <1>1, <1>5, <1>7 DEF Orphan, Waiting
  <2>6. TokenIsKept'
    BY <2>5, <1>1, <1>5, <1>7 DEF TokenIsKept, Replaced, Remembered, Recording, Right
  <2>7. QED BY <2>2, <2>3, <2>4, <2>6, <1>5, <1>7
<1>8. CASE run.target \notin Domains
  <2>1. PICK pc \in {"apps", "failing"} :
          Move!GoesTo(pc) /\ UNCHANGED queue /\ IF pc = "apps" THEN address' = Move!Target ELSE UNCHANGED address
    BY <1>8 DEF Move!Record
  <2>2. /\ run' \in [pc : RunPcs, target : Hostnames, useParked : BOOLEAN, n : Nat, cancel : BOOLEAN]
        /\ run'.pc = pc /\ run'.target = run.target /\ run'.n = run.n
    BY <2>1, Going DEF RunPcs
  <2>3. pc = "apps" => /\ address'.kind = "door" /\ address'.name = run.target
                       /\ address' \in [kind : {"lan", "door", "domain"}, name : Hostnames \cup {"lan"}, scheme : {"http", "https"}]
    BY <2>1, <1>1, <1>8 DEF Move!Target, Hostnames
  <2>4. SuiteTypes'
    BY <2>1, <2>2, <2>3, <1>1, <1>4, <1>8 DEF SuiteTypes, Move!Running
  <2>5. HostTypes' /\ UnderWay'
    <3>1. uses.change \in Nat /\ uses'.change \in Nat /\ uses'.change <= uses.change
      BY <1>2 DEF HostTypes, Burns
    <3>2. run.n > uses.change /\ run.n \in Nat
      BY <1>1 DEF UnderWay, Move!Running, SuiteTypes
    <3>3. \A n \in DOMAIN saved : n \in Nat /\ n > uses.change
      BY DEF UnderWay, HostTypes
    <3>4. \A n \in DOMAIN saved' : n > uses'.change BY <3>1, <3>3, <1>1
    <3>5. UnderWay' BY <3>1, <3>2, <3>4, <2>2 DEF UnderWay
    <3>6. HostTypes' BY <2>1, <1>1, <1>2 DEF HostTypes, Burns
    <3>7. QED BY <3>5, <3>6
  <2>6. job.op \notin {"apply", "rollback"} /\ \A i \in 1..Len(queue) : queue[i].op \notin {"apply", "rollback"}
    BY <1>1 DEF InTurn
  <2>7. InTurn' /\ Alone'
    BY <2>1, <2>2, <2>6, <1>1, <1>8 DEF InTurn, Alone, Recording
  <2>8. Given'
    BY <2>1, <2>2, <2>3, <2>6, <1>1, <1>4, <1>8 DEF Given, Recording, Move!Running, Settling
  <2>9. Orphan => Orphan'
    BY <2>1, <2>2, <1>1 DEF Orphan, Committing, Waiting
  <2>10. Right(web.token) \/ Orphan
    BY <2>6, <1>1, <1>8 DEF TokenIsKept, Replaced, Recording
  <2>11. TokenIsKept'
    BY <2>1, <2>2, <2>3, <2>6, <2>9, <2>10, <1>1, <1>8 DEF TokenIsKept, Replaced, Remembered, Recording, Right
  <2>12. QED BY <2>4, <2>5, <2>7, <2>8, <2>11
<1>9. QED BY <1>6, <1>7, <1>8 DEF Move!Record

\* An update's own rendering is of the recorded address, and no change is there for it to disturb.
LEMMA UpdateKeeps ==
  ASSUME AddressInv, Move!UpdateRenders, ~severed'
  PROVE  AddressInv'
<1> USE DEF AddressInv
<1>1. /\ ~Move!Running /\ UNCHANGED <<track, address, offer, change, run, door, saved, queue, job>>
      /\ web' = Move!Reloads([web EXCEPT !.file = Move!Rendering(Move!RecordedDomain)])
  BY DEF Move!UpdateRenders, Move!Here, Move!suiteVars
<1>2. Burns BY SpendingBurns DEF Move!UpdateRenders, HostTypes, Budgeted
<1>3. /\ Move!Rendering(Move!RecordedDomain) \in Renderings
      /\ address.kind = "domain" => Move!Rendering(Move!RecordedDomain).domain = address.name
  BY DEF Move!Rendering, Move!RecordedDomain, Renderings, Hostnames, SuiteTypes
<1>4. /\ web' \in [file : Renderings, token : Hostnames, live : [file : Renderings, token : Hostnames]]
      /\ web'.file = Move!Rendering(Move!RecordedDomain) /\ web'.token = web.token
  BY <1>1, <1>3 DEF Move!Reloads, HostTypes
<1>5. SuiteTypes' /\ HostTypes' /\ UnderWay'
  <2>1. uses.change \in Nat /\ uses'.change \in Nat /\ uses'.change <= uses.change
    BY <1>2 DEF HostTypes, Burns
  <2>2. \A n \in DOMAIN saved : n \in Nat /\ n > uses.change
    BY DEF UnderWay, HostTypes
  <2>3. \A n \in DOMAIN saved' : n > uses'.change BY <2>1, <2>2, <1>1
  <2>4. UnderWay' BY <2>3, <1>1 DEF UnderWay, Move!Running
  <2>5. HostTypes' BY <1>1, <1>2, <1>4 DEF HostTypes, Burns
  <2>6. SuiteTypes' BY <1>1 DEF SuiteTypes, Move!Running
  <2>7. QED BY <2>4, <2>5, <2>6
<1>6. InTurn' /\ Alone' BY <1>1 DEF InTurn, Alone, QueuedOnly, Recording
<1>7. job.op # "apply" /\ run.pc = "done"
  BY <1>1 DEF InTurn, Move!Running
<1>8. Given'
  BY <1>1, <1>3, <1>4, <1>7 DEF Given, Recording, Move!Running, Settling
<1>9. TokenIsKept'
  BY <1>1, <1>4, <1>7 DEF TokenIsKept, Replaced, Remembered, Recording, Right, Orphan, Committing
<1>10. QED BY <1>5, <1>6, <1>8, <1>9

LEMMA AgentDiesKeeps ==
  ASSUME AddressInv, Move!AgentDies, ~severed'
  PROVE  AddressInv'
<1> USE DEF AddressInv
<1>1. /\ run.pc \notin {"applying", "undoing"} /\ job.op # "apply"
      /\ UNCHANGED <<track, address, offer, change, door, web, saved>> /\ job' = Move!NoJob /\ queue' = <<>>
  BY DEF Move!AgentDies, Move!Here
<1>2. Burns BY SpendingBurns DEF Move!AgentDies, HostTypes, Budgeted
<1>3. /\ run' \in [pc : RunPcs, target : Hostnames, useParked : BOOLEAN, n : Nat, cancel : BOOLEAN]
      /\ run'.pc = (IF run.pc = "committing" THEN "offer" ELSE run.pc) /\ run'.target = run.target /\ run'.n = run.n
  <2>1. CASE run.pc = "committing"
    BY <2>1 DEF Move!AgentDies, SuiteTypes, RunPcs
  <2>2. CASE run.pc # "committing"
    BY <2>2, <1>1 DEF Move!AgentDies, SuiteTypes
  <2>3. QED BY <2>1, <2>2
<1>4. SuiteTypes' BY <1>1, <1>3 DEF SuiteTypes, Move!Running
<1>5. <<>> \in Seq(Requests) /\ Len(<<>>) = 0 /\ Move!NoJob \in Jobs /\ Move!NoJob.op = "none"
  BY EmptySeq DEF Move!NoJob, Jobs, JobPcs, Renderings, Hostnames
<1>6. HostTypes' /\ UnderWay'
  <2>1. uses.change \in Nat /\ uses'.change \in Nat /\ uses'.change <= uses.change
    BY <1>2 DEF HostTypes, Burns
  <2>2. Move!Running' => Move!Running BY <1>1, <1>3 DEF Move!Running
  <2>3. UnderWay'
    <3>1. Move!Running' => run'.n > uses'.change
      BY <1>3, <2>1, <2>2 DEF UnderWay, SuiteTypes
    <3>2. \A n \in DOMAIN saved' : n > uses'.change
      BY <1>1, <2>1 DEF UnderWay, HostTypes
    <3>3. QED BY <3>1, <3>2 DEF UnderWay
  <2>4. HostTypes' BY <1>1, <1>2, <1>5 DEF HostTypes, Burns
  <2>5. QED BY <2>3, <2>4
<1>7. InTurn' /\ Alone' /\ \A n : ~Committing(n)'
  BY <1>1, <1>3, <1>5 DEF InTurn, Alone, QueuedOnly, Recording, Committing
<1>8. Given'
  BY <1>1, <1>3, <1>5 DEF Given, Recording, Move!Running, Settling
<1>9. Orphan => Orphan' BY <1>1, <1>3, <1>7 DEF Orphan, Waiting
<1>10. TokenIsKept'
  BY <1>1, <1>3, <1>5, <1>9 DEF TokenIsKept, Replaced, Remembered, Recording, Right
<1>11. QED BY <1>4, <1>6, <1>7, <1>8, <1>10

LEMMA AgentTakesKeeps ==
  ASSUME AddressInv, Move!AgentTakes
  PROVE  AddressInv'
<1> USE DEF AddressInv
<1>1. /\ job = Move!NoJob /\ job.op = "none" /\ job.pc = "idle" /\ queue # <<>> /\ queue \in Seq(Requests)
      /\ job' = Head(queue) /\ queue' = Tail(queue)
      /\ UNCHANGED <<track, address, offer, change, run, door, web, saved, uses>>
  BY DEF Move!AgentTakes, Move!Here, Move!suiteVars, HostTypes, Move!NoJob
<1>2. /\ Len(queue) \in Nat /\ Len(queue) >= 1 /\ queue[1] \in Requests /\ job' = queue[1]
      /\ queue' \in Seq(Requests) /\ Len(queue') = Len(queue) - 1
      /\ \A i \in 1..Len(queue') : queue'[i] = queue[i + 1] /\ i + 1 \in 1..Len(queue)
  BY <1>1, HeadTailProperties, EmptySeq, LenProperties, ElementOfSeq
<1>3. job' \in Jobs /\ job'.op # "none" /\ job'.pc = "start"
  BY <1>2 DEF Requests
<1>4. SuiteTypes' /\ HostTypes' /\ UnderWay'
  BY <1>1, <1>2, <1>3 DEF SuiteTypes, HostTypes, UnderWay, Move!Running
<1>5. Len(queue) = 1 => queue' = <<>> BY <1>2, EmptySeq
<1>6. 1 \in 1..Len(queue) BY <1>2
<1>7. InTurn'
  <2>1. ASSUME NEW i \in 1..Len(queue') PROVE
          /\ queue'[i].op = "apply" => run.pc = "applying" /\ queue'[i].n = run.n /\ queue'[i].domain = run.target /\ i = Len(queue')
          /\ queue'[i].op # "rollback"
    <3>1. queue'[i] = queue[i + 1] /\ i + 1 \in 1..Len(queue) /\ Len(queue') = Len(queue) - 1 /\ i >= 1 /\ i \in Nat
      BY <2>1, <1>2
    <3>2. queue[i + 1].op = "rollback" => Len(queue) = 1
      BY <3>1 DEF InTurn
    <3>3. queue'[i].op # "rollback" BY <3>1, <3>2, <1>2
    <3>4. queue[i + 1].op = "apply" => run.pc = "applying" /\ queue[i + 1].n = run.n /\ queue[i + 1].domain = run.target /\ i + 1 = Len(queue)
      BY <3>1 DEF InTurn
    <3>5. QED BY <3>1, <3>3, <3>4, <1>2
  <2>2. job'.op = "apply" => run.pc = "applying" /\ job'.n = run.n /\ job'.domain = run.target /\ queue' = <<>>
    BY <1>2, <1>5, <1>6 DEF InTurn
  <2>3. job'.op = "rollback" => run.pc = "undoing" /\ job'.n = run.n /\ queue' = <<>>
    BY <1>2, <1>5, <1>6 DEF InTurn
  <2>4. QED BY <2>1, <2>2, <2>3, <1>1 DEF InTurn
<1>8. Alone' BY <1>1, <1>2, <1>6 DEF Alone, QueuedOnly, Recording
<1>9. Given' BY <1>1, <1>3 DEF Given, Recording, Move!Running
<1>10. Orphan => Orphan' BY <1>1, <1>2, <1>6 DEF Orphan, Committing
<1>11. TokenIsKept'
  BY <1>1, <1>3, <1>10 DEF TokenIsKept, Replaced, Remembered, Recording, Right
<1>12. QED BY <1>4, <1>7, <1>8, <1>9, <1>11

\* An ensure is rendered of the recorded address, and written before anything behind it in the queue.
LEMMA EnsureRendersKeeps ==
  ASSUME AddressInv, Move!EnsureRenders
  PROVE  AddressInv'
<1> USE DEF AddressInv
<1>1. /\ job.op = "ensure" /\ job' = [job EXCEPT !.pc = "write", !.rendered = Move!Rendering(Move!RecordedDomain)]
      /\ UNCHANGED <<track, address, offer, change, run, door, web, saved, queue, uses>>
  BY DEF Move!EnsureRenders, Move!Doing, Move!Quiet, Move!Here, Move!suiteVars
<1>2. /\ Move!Rendering(Move!RecordedDomain) \in Renderings
      /\ address.kind = "domain" => Move!Rendering(Move!RecordedDomain).domain = address.name
  BY DEF Move!Rendering, Move!RecordedDomain, Renderings, Hostnames, SuiteTypes
<1>3. job' \in Jobs /\ job'.op = "ensure" /\ job'.n = job.n /\ job'.rendered = Move!Rendering(Move!RecordedDomain)
  BY <1>1, <1>2 DEF HostTypes, Jobs, JobPcs
<1>4. SuiteTypes' /\ HostTypes' /\ UnderWay'
  BY <1>1, <1>3 DEF SuiteTypes, HostTypes, UnderWay, Move!Running
<1>5. InTurn' /\ Alone'
  BY <1>1, <1>3 DEF InTurn, Alone, QueuedOnly, Recording
<1>6. Given' BY <1>1, <1>2, <1>3 DEF Given, Recording, Move!Running
<1>7. Orphan => Orphan' BY <1>1, <1>3 DEF Orphan, Committing
<1>8. TokenIsKept'
  BY <1>1, <1>3, <1>7 DEF TokenIsKept, Replaced, Remembered, Recording, Right
<1>9. QED BY <1>4, <1>5, <1>6, <1>8

LEMMA EnsureWritesKeeps ==
  ASSUME AddressInv, Move!EnsureWrites
  PROVE  AddressInv'
<1> USE DEF AddressInv
<1>1. /\ job.op = "ensure" /\ job.pc = "write" /\ job' = Move!NoJob
      /\ UNCHANGED <<track, address, offer, change, run, door, saved, queue>>
  BY DEF Move!EnsureWrites, Move!Doing, Move!ToTick, Move!Here
<1>2. Burns BY FailingBurns DEF Move!EnsureWrites, HostTypes, Budgeted
<1>3. job.rendered \in Renderings /\ Move!NoJob \in Jobs /\ Move!NoJob.op = "none"
  BY DEF HostTypes, Jobs, Move!NoJob, JobPcs, Renderings, Hostnames
<1>4. /\ web' \in [file : Renderings, token : Hostnames, live : [file : Renderings, token : Hostnames]] /\ web'.token = web.token
      /\ web'.file = job.rendered \/ web' = web
  <2>1. CASE web' = Move!Reloads([web EXCEPT !.file = job.rendered])
    BY <2>1, <1>3 DEF Move!Reloads, HostTypes
  <2>2. CASE UNCHANGED web
    BY <2>2 DEF HostTypes
  <2>3. QED BY <2>1, <2>2 DEF Move!EnsureWrites
<1>5. SuiteTypes' /\ HostTypes' /\ UnderWay'
  <2>1. SuiteTypes' /\ HostTypes'
    BY <1>1, <1>2, <1>3, <1>4 DEF SuiteTypes, HostTypes, Move!Running, Burns
  <2>2. uses.change \in Nat /\ uses'.change \in Nat /\ uses'.change <= uses.change /\ DOMAIN saved \subseteq Nat
    BY <1>2 DEF HostTypes, Burns
  <2>3. run.n \in Nat BY DEF SuiteTypes
  <2>4. QED BY <2>1, <2>2, <2>3, <1>1 DEF UnderWay, Move!Running
<1>6. InTurn' /\ Alone' /\ ~Recording /\ run.pc # "undoing" /\ ~(run.pc \in Settling /\ run.target \in Domains)
  BY <1>1, <1>3 DEF InTurn, Alone, QueuedOnly, Recording
<1>7. Given'
  BY <1>1, <1>3, <1>4, <1>6 DEF Given, Recording, Move!Running
<1>8. Orphan => Orphan' BY <1>1, <1>3 DEF Orphan, Committing
<1>9. TokenIsKept'
  BY <1>1, <1>3, <1>4, <1>6, <1>8 DEF TokenIsKept, Replaced, Remembered, Recording, Right
<1>10. QED BY <1>5, <1>6, <1>7, <1>9

\* What an answer does to the change that waits for it.
LEMMA Answering ==
  ASSUME SuiteTypes, NEW pc \in RunPcs, Move!ToRun(pc)
  PROVE  /\ UNCHANGED <<track, address, offer, change, door>>
         /\ run' \in [pc : RunPcs, target : Hostnames, useParked : BOOLEAN, n : Nat, cancel : BOOLEAN]
         /\ run'.target = run.target /\ run'.n = run.n /\ run'.pc = (IF Move!Answers THEN pc ELSE run.pc)
<1>1. CASE Move!Answers
  BY <1>1, Going DEF Move!ToRun, Move!Here
<1>2. CASE ~Move!Answers
  BY <1>2 DEF Move!ToRun, Move!Here, SuiteTypes
<1>3. QED BY <1>1, <1>2

\* While the agent applies, nothing else is asked of it.
LEMMA WhileApplying ==
  ASSUME AddressInv, job.op = "apply"
  PROVE  /\ run.pc = "applying" /\ job.n = run.n /\ job.domain = run.target /\ queue = <<>> /\ Move!Answers
         /\ run.target \in Domains /\ run.n \in Nat /\ change.status = "applying"
         /\ Len(queue) = 0 /\ \A n : ~Committing(n)
<1>1. /\ run.pc = "applying" /\ job.n = run.n /\ job.domain = run.target /\ queue = <<>>
  BY DEF AddressInv, InTurn
<1>2. Len(queue) = 0 BY <1>1, EmptySeq
<1>3. QED
  BY <1>1, <1>2 DEF AddressInv, Move!Answers, Move!Waits, SuiteTypes, Move!Running, Committing

LEMMA WhileUndoing ==
  ASSUME AddressInv, job.op = "rollback"
  PROVE  /\ run.pc = "undoing" /\ job.n = run.n /\ queue = <<>> /\ Move!Answers
         /\ run.n \in Nat /\ change.status = "applying" /\ Len(queue) = 0 /\ \A n : ~Committing(n)
<1>1. /\ run.pc = "undoing" /\ job.n = run.n /\ queue = <<>>
  BY DEF AddressInv, InTurn
<1>2. Len(queue) = 0 BY <1>1, EmptySeq
<1>3. QED
  BY <1>1, <1>2 DEF AddressInv, Move!Answers, Move!Waits, SuiteTypes, Move!Running, Committing

\* An apply that fails with nothing changed on the host, or that put everything back as it was, or
\* that did not; and a rollback, likewise.
LEMMA JobFailsKeeps ==
  ASSUME AddressInv, job.op \in {"apply", "rollback"}, job' = Move!NoJob, Move!ToRun("failing"), Burns, UNCHANGED queue, HostTypes',
         DOMAIN saved' \subseteq DOMAIN saved,
         Right(web'.token) \/ Orphan'
  PROVE  AddressInv'
<1> USE DEF AddressInv
<1>1. /\ run.pc \in {"applying", "undoing"} /\ queue = <<>> /\ Move!Answers /\ Len(queue) = 0
      /\ change.status = "applying" /\ run.n \in Nat
  BY WhileApplying, WhileUndoing
<1>2. /\ UNCHANGED <<track, address, offer, change, door>>
      /\ run' \in [pc : RunPcs, target : Hostnames, useParked : BOOLEAN, n : Nat, cancel : BOOLEAN]
      /\ run'.target = run.target /\ run'.n = run.n /\ run'.pc = "failing"
  BY <1>1, Answering DEF RunPcs
<1>3. SuiteTypes' /\ Move!NoJob.op = "none"
  BY <1>1, <1>2 DEF SuiteTypes, Move!Running, Move!NoJob
<1>4. UnderWay'
  <2>1. uses.change \in Nat /\ uses'.change \in Nat /\ uses'.change <= uses.change /\ DOMAIN saved \subseteq Nat
    BY DEF HostTypes, Burns
  <2>2. QED BY <2>1, <1>1, <1>2 DEF UnderWay, Move!Running
<1>5. InTurn' /\ Alone'
  BY <1>1, <1>2, <1>3 DEF InTurn, Alone, QueuedOnly, Recording, Settling
<1>6. Given'
  BY <1>1, <1>2, <1>3 DEF Given, Recording, Move!Running, Settling
<1>7. TokenIsKept'
  BY <1>2, <1>3 DEF TokenIsKept, Replaced, Remembered, Recording, Right
<1>8. QED BY <1>3, <1>4, <1>5, <1>6, <1>7

\* The checkpoint is of the token that was right, and the number it is kept under is the change's own.
LEMMA ApplyChecksKeeps ==
  ASSUME AddressInv, Move!ApplyChecks
  PROVE  AddressInv'
<1> USE DEF AddressInv
<1>1. /\ job.op = "apply" /\ job.pc = "start" /\ UNCHANGED <<web, parked, queue>> /\ job \in Jobs /\ job.n \in Nat
  BY DEF Move!ApplyChecks, Move!Doing, HostTypes, Jobs
<1>2. /\ run.pc = "applying" /\ job.n = run.n /\ job.domain = run.target /\ queue = <<>> /\ Len(queue) = 0
      /\ run.n \in Nat /\ change.status = "applying" /\ \A n : ~Committing(n)
  BY <1>1, WhileApplying
<1>3. Right(web.token) \/ Orphan
  BY <1>1, <1>2 DEF TokenIsKept, Replaced, Recording
<1>4. Burns BY FailingBurns DEF Move!ApplyChecks, HostTypes, Budgeted
<1>5. CASE job' = Move!NoJob /\ Move!ToRun("failing") /\ UNCHANGED saved
  <2>1. HostTypes' /\ Move!NoJob.op = "none"
    BY <1>1, <1>4, <1>5 DEF HostTypes, Burns, Move!NoJob, Jobs, JobPcs, Renderings, Hostnames
  <2>2. track' = track /\ address' = address
    BY <1>5 DEF Move!ToRun, Move!Here
  <2>3. run'.pc = "failing"
    BY <1>1, <1>5, Answering, WhileApplying DEF RunPcs
  <2>4. Orphan => Orphan'
    BY <1>1, <1>2, <1>5, <2>1, <2>3 DEF Orphan, Committing, Waiting
  <2>5. Right(web'.token) \/ Orphan' BY <1>1, <1>3, <2>2, <2>4 DEF Right
  <2>6. QED BY <2>1, <2>5, <1>1, <1>4, <1>5, JobFailsKeeps
<1>6. CASE /\ saved' = [n \in DOMAIN saved \cup {job.n} |-> IF n = job.n THEN Move!Checkpoint ELSE saved[n]]
           /\ Move!Proceeds("install") /\ Move!Fine /\ Move!Quiet
  <2>1. /\ DOMAIN saved' = DOMAIN saved \cup {run.n} /\ saved'[run.n] = Move!Checkpoint
        /\ \A n \in DOMAIN saved \ {run.n} : saved'[n] = saved[n]
    BY <1>2, <1>6
  <2>2. Move!Checkpoint \in [file : Renderings, token : Hostnames, marked : BOOLEAN] /\ Move!Checkpoint.token = web.token
    BY <1>1 DEF Move!Checkpoint, HostTypes, Jobs
  <2>3. /\ job' \in Jobs /\ job'.op = "apply" /\ job'.pc = "install" /\ job'.n = job.n /\ job'.domain = job.domain
    BY <1>1, <1>6 DEF Move!Proceeds, Jobs, JobPcs
  <2>4. UNCHANGED <<track, address, offer, change, run, door, uses>>
    BY <1>6 DEF Move!Quiet, Move!Fine, Move!Here, Move!suiteVars
  <2>5. SuiteTypes' BY <2>4 DEF SuiteTypes, Move!Running
  <2>6. HostTypes' BY <1>1, <1>2, <2>1, <2>2, <2>3, <2>4 DEF HostTypes
  <2>7. UnderWay' BY <1>2, <2>1, <2>4 DEF UnderWay, Move!Running
  <2>8. InTurn' /\ Alone'
    BY <1>1, <1>2, <2>3, <2>4 DEF InTurn, Alone, QueuedOnly, Recording, Settling
  <2>9. Given'
    BY <1>1, <1>2, <2>3, <2>4 DEF Given, Recording, Move!Running, Settling
  <2>10. Orphan => Orphan'
    BY <1>1, <1>2, <2>1, <2>3, <2>4 DEF Orphan, Committing, Waiting
  <2>11. TokenIsKept'
    BY <1>1, <1>2, <1>3, <2>1, <2>2, <2>3, <2>4, <2>10 DEF TokenIsKept, Replaced, Remembered, Recording, Right
  <2>12. QED BY <2>5, <2>6, <2>7, <2>8, <2>9, <2>11
<1>7. QED BY <1>5, <1>6 DEF Move!ApplyChecks

\* The steps of an apply after its checkpoint, while the change waits for it.
LEMMA ApplyGoesOn ==
  ASSUME AddressInv, job.op = "apply", job.pc # "start", NEW pc \in {"restart", "certificate", "restore"},
         Move!Proceeds(pc), Move!Quiet, Burns, UNCHANGED <<saved, queue>>,
         web' \in [file : Renderings, token : Hostnames, live : [file : Renderings, token : Hostnames]],
         pc \in {"restart", "certificate"} => web'.file.domain = job.domain /\ (track = "home" => web'.token = job.domain)
  PROVE  AddressInv'
<1> USE DEF AddressInv
<1>1. /\ run.pc = "applying" /\ job.n = run.n /\ job.domain = run.target /\ queue = <<>> /\ Len(queue) = 0
      /\ run.n \in Nat /\ change.status = "applying" /\ \A n : ~Committing(n)
  BY WhileApplying
<1>2. /\ job' \in Jobs /\ job'.op = "apply" /\ job'.pc = pc /\ job'.n = job.n /\ job'.domain = job.domain
  BY DEF Move!Proceeds, Jobs, JobPcs, HostTypes
<1>3. UNCHANGED <<track, address, offer, change, run, door>>
  BY DEF Move!Quiet, Move!Here, Move!suiteVars
<1>4. SuiteTypes' /\ HostTypes'
  BY <1>2, <1>3 DEF SuiteTypes, Move!Running, HostTypes, Burns
<1>5. UnderWay'
  <2>1. uses.change \in Nat /\ uses'.change \in Nat /\ uses'.change <= uses.change /\ DOMAIN saved \subseteq Nat
    BY DEF HostTypes, Burns
  <2>2. QED BY <2>1, <1>1, <1>3 DEF UnderWay, Move!Running
<1>6. InTurn' /\ Alone'
  BY <1>1, <1>2, <1>3 DEF InTurn, Alone, QueuedOnly, Recording, Settling
<1>7. Given'
  BY <1>1, <1>2, <1>3 DEF Given, Recording, Move!Running, Settling
<1>8. Orphan => Orphan' BY <1>1, <1>2, <1>3 DEF Orphan, Committing
<1>9. run.n \in DOMAIN saved /\ (Right(saved[run.n].token) \/ Orphan)
  BY DEF TokenIsKept, Remembered
<1>10. TokenIsKept'
  BY <1>1, <1>2, <1>3, <1>8, <1>9 DEF TokenIsKept, Replaced, Remembered, Recording, Right
<1>11. QED BY <1>4, <1>5, <1>6, <1>7, <1>10

LEMMA ApplyInstallsKeeps ==
  ASSUME AddressInv, Move!ApplyInstalls
  PROVE  AddressInv'
<1>1. /\ job.op = "apply" /\ job.pc = "install" /\ Move!Proceeds("restart") /\ Move!Quiet /\ UNCHANGED <<saved, queue, uses>>
      /\ web' = [web EXCEPT !.file = Move!Rendering(job.domain), !.token = IF track = "home" THEN job.domain ELSE web.token]
  BY DEF Move!ApplyInstalls, Move!Doing
<1>2. Burns BY <1>1 DEF Burns, AddressInv, HostTypes
<1>3. job.domain \in Hostnames BY DEF AddressInv, HostTypes, Jobs
<1>4. Move!Rendering(job.domain) \in Renderings /\ Move!Rendering(job.domain).domain = job.domain
  BY <1>3 DEF Move!Rendering, Renderings, AddressInv, SuiteTypes
<1>5. /\ web' \in [file : Renderings, token : Hostnames, live : [file : Renderings, token : Hostnames]]
      /\ web'.file = Move!Rendering(job.domain) /\ (track = "home" => web'.token = job.domain)
  BY <1>1, <1>3, <1>4 DEF AddressInv, HostTypes
<1>6. QED BY <1>1, <1>2, <1>4, <1>5, ApplyGoesOn

LEMMA ApplyRestartsKeeps ==
  ASSUME AddressInv, Move!ApplyRestarts
  PROVE  AddressInv'
<1>1. /\ job.op = "apply" /\ job.pc = "restart" /\ Move!Quiet /\ UNCHANGED <<saved, queue>>
  BY DEF Move!ApplyRestarts, Move!Doing
<1>2. Burns
  BY FailingBurns DEF Move!ApplyRestarts, AddressInv, HostTypes, Budgeted
<1>3. /\ web.file.domain = job.domain /\ (track = "home" => web.token = job.domain)
      /\ web \in [file : Renderings, token : Hostnames, live : [file : Renderings, token : Hostnames]]
  BY <1>1 DEF AddressInv, Given, HostTypes
<1>4. CASE web' = Move!Caddy(web) /\ Move!Proceeds("certificate")
  <2>1. /\ web' \in [file : Renderings, token : Hostnames, live : [file : Renderings, token : Hostnames]]
        /\ web'.file = web.file /\ web'.token = web.token
    BY <1>3, <1>4 DEF Move!Caddy
  <2>2. QED BY <1>1, <1>2, <1>3, <1>4, <2>1, ApplyGoesOn
<1>5. CASE UNCHANGED web /\ Move!Proceeds("restore")
  BY <1>1, <1>2, <1>3, <1>5, ApplyGoesOn
<1>6. QED BY <1>4, <1>5 DEF Move!ApplyRestarts

LEMMA ApplyAnswersKeeps ==
  ASSUME AddressInv, Move!ApplyAnswers
  PROVE  AddressInv'
<1> USE DEF AddressInv
<1>1. /\ job.op = "apply" /\ job.pc = "certificate" /\ UNCHANGED <<web, saved, queue>>
      /\ web \in [file : Renderings, token : Hostnames, live : [file : Renderings, token : Hostnames]]
      /\ web.file.domain = job.domain /\ (track = "home" => web.token = job.domain)
  BY DEF Move!ApplyAnswers, Move!Doing, HostTypes, Given
<1>2. Burns BY FailingBurns DEF Move!ApplyAnswers, HostTypes, Budgeted
<1>3. CASE Move!Proceeds("restore") /\ Move!Quiet
  BY <1>1, <1>2, <1>3, ApplyGoesOn
<1>4. CASE job' = Move!NoJob /\ Move!ToRun("record")
  <2>1. /\ run.pc = "applying" /\ job.n = run.n /\ job.domain = run.target /\ queue = <<>> /\ Move!Answers /\ Len(queue) = 0
        /\ change.status = "applying" /\ run.n \in Nat /\ run.target \in Domains /\ \A n : ~Committing(n)
    BY <1>1, WhileApplying
  <2>2. /\ UNCHANGED <<track, address, offer, change, door>>
        /\ run' \in [pc : RunPcs, target : Hostnames, useParked : BOOLEAN, n : Nat, cancel : BOOLEAN]
        /\ run'.target = run.target /\ run'.n = run.n /\ run'.pc = "record"
    BY <1>4, <2>1, Answering DEF RunPcs
  <2>3. SuiteTypes' /\ Move!NoJob.op = "none" /\ Move!NoJob \in Jobs
    BY <2>1, <2>2 DEF SuiteTypes, Move!Running, Move!NoJob, Jobs, JobPcs, Renderings, Hostnames
  <2>4. HostTypes' BY <1>1, <1>2, <1>4, <2>3 DEF HostTypes, Burns
  <2>5. UnderWay'
    <3>1. uses.change \in Nat /\ uses'.change \in Nat /\ uses'.change <= uses.change /\ DOMAIN saved \subseteq Nat
      BY <1>2 DEF HostTypes, Burns
    <3>2. QED BY <3>1, <1>1, <2>1, <2>2 DEF UnderWay, Move!Running
  <2>6. InTurn' /\ Alone' /\ \A n : ~Committing(n)'
    BY <1>1, <1>4, <2>1, <2>2, <2>3 DEF InTurn, Alone, QueuedOnly, Recording, Settling, Committing
  <2>7. Given'
    BY <1>1, <1>4, <2>1, <2>2, <2>3 DEF Given, Recording, Move!Running, Settling
  <2>8. Orphan => Orphan' BY <1>1, <2>1, <2>2, <2>6 DEF Orphan, Waiting
  <2>9. run.n \in DOMAIN saved /\ (Right(saved[run.n].token) \/ Orphan)
    BY <1>1 DEF TokenIsKept, Remembered
  <2>10. TokenIsKept'
    BY <1>1, <1>4, <2>1, <2>2, <2>3, <2>8, <2>9 DEF TokenIsKept, Replaced, Remembered, Recording, Right
  <2>11. QED BY <2>3, <2>4, <2>5, <2>6, <2>7, <2>10
<1>5. QED BY <1>3, <1>4 DEF Move!ApplyAnswers

\* What is put back is of the checkpoint, and its token was right; what is not put back keeps its checkpoint.
LEMMA RestoringKeeps ==
  ASSUME AddressInv, job.op \in {"apply", "rollback"}, Remembered, job' = Move!NoJob, Move!ToRun("failing"), UNCHANGED queue,
         \/ web' = Move!Restored(job.n) /\ saved' = Move!Without(job.n) /\ Move!Fine
         \/ Move!MayFail /\ UNCHANGED <<web, saved>>
  PROVE  AddressInv'
<1> USE DEF AddressInv
<1>1. /\ run.pc \in {"applying", "undoing"} /\ job.n = run.n /\ Move!Answers /\ queue = <<>> /\ Len(queue) = 0 /\ run.n \in Nat
      /\ \A n : ~Committing(n)
  BY WhileApplying, WhileUndoing
<1>2. /\ UNCHANGED <<track, address>> /\ run'.n = run.n /\ run'.pc = "failing"
  BY <1>1, Answering DEF RunPcs
<1>3. Burns BY FailingBurns DEF HostTypes, Budgeted
<1>4. run.n \in DOMAIN saved /\ (Right(saved[run.n].token) \/ Orphan)
  BY DEF TokenIsKept
<1>5. Move!NoJob \in Jobs /\ Move!NoJob.op = "none" /\ \A n : ~Committing(n)'
  BY <1>1 DEF Move!NoJob, Jobs, JobPcs, Renderings, Hostnames, Committing
<1>6. CASE web' = Move!Restored(job.n) /\ saved' = Move!Without(job.n)
  <2>1. saved[run.n] \in [file : Renderings, token : Hostnames, marked : BOOLEAN]
    BY <1>4 DEF HostTypes
  <2>2. web' \in [file : Renderings, token : Hostnames, live : [file : Renderings, token : Hostnames]] /\ web'.token = saved[run.n].token
    BY <1>1, <1>6, <2>1 DEF Move!Restored, Move!Caddy, HostTypes
  <2>3. DOMAIN saved' = DOMAIN saved \ {run.n} /\ \A n \in DOMAIN saved' : saved'[n] = saved[n]
    BY <1>1, <1>6 DEF Move!Without
  <2>4. HostTypes' BY <1>1, <1>3, <1>5, <2>2, <2>3 DEF HostTypes, Burns
  <2>5. Orphan => Orphan' BY <1>1, <1>2, <1>5, <2>3 DEF Orphan, Waiting
  <2>6. Right(web'.token) \/ Orphan' BY <1>4, <2>2, <2>5
  <2>7. QED BY <1>3, <2>3, <2>4, <2>6, JobFailsKeeps
<1>7. CASE UNCHANGED <<web, saved>>
  <2>1. HostTypes' BY <1>1, <1>3, <1>5, <1>7 DEF HostTypes, Burns
  <2>2. Orphan' BY <1>2, <1>4, <1>5, <1>7 DEF Orphan, Waiting
  <2>3. QED BY <1>3, <1>7, <2>1, <2>2, JobFailsKeeps
<1>8. QED BY <1>6, <1>7

LEMMA RestoresKeep ==
  ASSUME AddressInv, Move!ApplyRestores \/ Move!RollbackEnds
  PROVE  AddressInv'
<1>1. CASE Move!ApplyRestores
  BY <1>1, RestoringKeeps DEF Move!ApplyRestores, Move!Doing, Remembered
<1>2. CASE Move!RollbackEnds
  <2>1. job.op = "rollback" BY <1>2 DEF Move!RollbackEnds, Move!Doing
  <2>2. Remembered BY <2>1, WhileUndoing DEF Remembered, Replaced
  <2>3. QED BY <1>2, <2>1, <2>2, RestoringKeeps DEF Move!RollbackEnds
<1>3. QED BY <1>1, <1>2

\* A commit removes the checkpoint it was asked to remove, and no other.
LEMMA CommitEndsKeeps ==
  ASSUME AddressInv, Move!CommitEnds
  PROVE  AddressInv'
<1> USE DEF AddressInv
<1>1. /\ job.op = "commit" /\ job' = Move!NoJob /\ UNCHANGED <<web, queue, uses>> /\ Move!ToRun("offer") /\ saved' = Move!Without(job.n)
  BY DEF Move!CommitEnds, Move!Doing
<1>2. /\ UNCHANGED <<track, address, offer, change, door>>
      /\ run' \in [pc : RunPcs, target : Hostnames, useParked : BOOLEAN, n : Nat, cancel : BOOLEAN]
      /\ run'.target = run.target /\ run'.n = run.n
      /\ \/ run.pc = "committing" /\ run'.pc = "offer"
         \/ run'.pc = run.pc
  BY <1>1, Answering DEF RunPcs, Move!Answers, Move!Waits
<1>3. DOMAIN saved' = DOMAIN saved \ {job.n} /\ \A n \in DOMAIN saved' : saved'[n] = saved[n]
  BY <1>1 DEF Move!Without
<1>4. Move!NoJob \in Jobs /\ Move!NoJob.op = "none"
  BY DEF Move!NoJob, Jobs, JobPcs, Renderings, Hostnames
<1>5. SuiteTypes' BY <1>2 DEF SuiteTypes, Move!Running
<1>6. HostTypes' /\ UnderWay'
  BY <1>1, <1>2, <1>3, <1>4 DEF HostTypes, UnderWay, Move!Running
<1>7. InTurn' /\ Alone'
  BY <1>1, <1>2, <1>4 DEF InTurn, Alone, QueuedOnly, Recording, Settling
<1>8. Given'
  BY <1>1, <1>2, <1>4 DEF Given, Recording, Move!Running, Settling
<1>9. Orphan => Orphan'
  BY <1>1, <1>2, <1>3, <1>4 DEF Orphan, Committing, Waiting
<1>10. ~Recording /\ run.pc # "undoing" BY <1>1 DEF Alone, QueuedOnly
<1>11. TokenIsKept'
  BY <1>1, <1>2, <1>4, <1>9, <1>10 DEF TokenIsKept, Replaced, Remembered, Recording, Right
<1>12. QED BY <1>5, <1>6, <1>7, <1>8, <1>11

\* Once an apply is cut off, it stays so.
LEMMA SeveredStays ==
  ASSUME Move!AddressNext, severed
  PROVE  severed'
<1> USE DEF Move!Here, Move!suiteVars, Move!agentVars
<1>1. CASE Move!DoorMoves \/ Move!CertificateArrives \/ Move!RecordDoor \/ Move!DismissOffer \/ \E d \in Domains : Move!RestoreOffers(d)
  BY <1>1 DEF Move!DoorMoves, Move!CertificateArrives, Move!RecordDoor, Move!DismissOffer, Move!RestoreOffers
<1>2. CASE Move!MoveToOffered \/ Move!FollowDoor \/ \E d \in Domains : Move!MoveToDomain(d)
  BY <1>2 DEF Move!MoveToOffered, Move!FollowDoor, Move!MoveToDomain, Move!BeginChange
<1>3. CASE Move!WaitForDns \/ Move!DnsEnds \/ Move!CancelChange \/ Move!AskApply \/ Move!ApplyUnheard \/ Move!Record \/ Move!RecordFails
  BY <1>3 DEF Move!WaitForDns, Move!DnsEnds, Move!CancelChange, Move!AskApply, Move!ApplyUnheard, Move!Record, Move!RecordFails
<1>4. CASE Move!CommitUnheard \/ Move!ClearsOffer \/ Move!RunDiscards \/ Move!Rebake
  BY <1>4 DEF Move!CommitUnheard, Move!ClearsOffer, Move!RunDiscards, Move!Rebake
<1>5. CASE Move!TickStarts \/ Move!TickUnheard \/ Move!TickProbes \/ Move!TickMoves
  BY <1>5 DEF Move!TickStarts, Move!TickUnheard, Move!TickProbes, Move!TickMoves, Move!BeginChange
<1>6. CASE Move!AgentTakes \/ Move!EnsureRenders \/ Move!EnsureWrites
  BY <1>6 DEF Move!AgentTakes, Move!EnsureRenders, Move!EnsureWrites, Move!Quiet, Move!ToTick
<1>7. CASE Move!ApplyChecks \/ Move!ApplyInstalls \/ Move!ApplyRestarts \/ Move!ApplyAnswers \/ Move!ApplyRestores
  BY <1>7 DEF Move!ApplyChecks, Move!ApplyInstalls, Move!ApplyRestarts, Move!ApplyAnswers, Move!ApplyRestores, Move!Quiet, Move!ToRun
<1>8. CASE Move!CommitEnds \/ Move!RollbackEnds
  BY <1>8 DEF Move!CommitEnds, Move!RollbackEnds, Move!ToRun
<1>9. CASE Move!SuiteRestarts \/ Move!AgentDies \/ Move!UpdateRenders
  BY <1>9 DEF Move!SuiteRestarts, Move!AgentDies, Move!UpdateRenders, Move!Cuts
<1>10. QED BY <1>1, <1>2, <1>3, <1>4, <1>5, <1>6, <1>7, <1>8, <1>9 DEF Move!AddressNext

LEMMA AddressKeeps ==
  ASSUME severed \/ AddressInv, Move!AddressNext
  PROVE  (severed \/ AddressInv)'
<1>1. CASE severed
  BY <1>1, SeveredStays
<1>2. CASE AddressInv /\ ~severed'
  <2>1. ~Move!ApplyUnheard BY <1>2 DEF Move!ApplyUnheard
  <2>2. CASE Move!DoorMoves \/ Move!CertificateArrives \/ Move!DismissOffer \/ Move!TickUnheard \/ Move!TickProbes \/ Move!WaitForDns
             \/ \E d \in Domains : Move!RestoreOffers(d)
    BY <1>2, <2>2, SurroundingsKeep
  <2>3. CASE Move!RecordDoor
    BY <1>2, <2>3, RecordDoorKeeps
  <2>4. CASE Move!MoveToOffered \/ Move!FollowDoor \/ Move!TickMoves \/ \E d \in Domains : Move!MoveToDomain(d)
    BY <1>2, <2>4, ChangesBegin
  <2>5. CASE Move!DnsEnds \/ Move!CancelChange
    BY <1>2, <2>5, DnsKeeps
  <2>6. CASE Move!AskApply
    BY <1>2, <2>6, AskApplyKeeps
  <2>7. CASE Move!Record
    BY <1>2, <2>7, RecordKeeps
  <2>8. CASE Move!RecordFails
    BY <1>2, <2>8, RecordFailsKeeps
  <2>9. CASE Move!CommitUnheard \/ Move!ClearsOffer \/ Move!RunDiscards \/ Move!Rebake
    BY <1>2, <2>9, SettlingKeeps
  <2>10. CASE Move!TickStarts
    BY <1>2, <2>10, TickStartsKeeps
  <2>11. CASE Move!AgentTakes
    BY <1>2, <2>11, AgentTakesKeeps
  <2>12. CASE Move!EnsureRenders
    BY <1>2, <2>12, EnsureRendersKeeps
  <2>13. CASE Move!EnsureWrites
    BY <1>2, <2>13, EnsureWritesKeeps
  <2>14. CASE Move!ApplyChecks
    BY <1>2, <2>14, ApplyChecksKeeps
  <2>15. CASE Move!ApplyInstalls
    BY <1>2, <2>15, ApplyInstallsKeeps
  <2>16. CASE Move!ApplyRestarts
    BY <1>2, <2>16, ApplyRestartsKeeps
  <2>17. CASE Move!ApplyAnswers
    BY <1>2, <2>17, ApplyAnswersKeeps
  <2>18. CASE Move!ApplyRestores \/ Move!RollbackEnds
    BY <1>2, <2>18, RestoresKeep
  <2>19. CASE Move!CommitEnds
    BY <1>2, <2>19, CommitEndsKeeps
  <2>20. CASE Move!SuiteRestarts
    BY <1>2, <2>20, SuiteRestartsKeeps
  <2>21. CASE Move!AgentDies
    BY <1>2, <2>21, AgentDiesKeeps
  <2>22. CASE Move!UpdateRenders
    BY <1>2, <2>22, UpdateKeeps
  <2>23. QED
    BY <2>1, <2>2, <2>3, <2>4, <2>5, <2>6, <2>7, <2>8, <2>9, <2>10, <2>11, <2>12, <2>13, <2>14, <2>15, <2>16,
       <2>17, <2>18, <2>19, <2>20, <2>21, <2>22 DEF Move!AddressNext
<1>3. QED BY <1>1, <1>2

LEMMA AddressFollows ==
  ASSUME severed \/ AddressInv
  PROVE  Move!TokenIsTheAddress /\ Move!ChangeOwnsTheWebServer
<1>1. Move!TokenIsTheAddress
  <2>1. ASSUME AddressInv, Move!AllQuiet, DOMAIN saved = {}
        PROVE  Right(web.token)
    <3>1. run.pc = "done" /\ job.op = "none"
      BY <2>1 DEF Move!AllQuiet, Move!Running, Move!NoJob
    <3>2. ~Replaced /\ ~Orphan
      BY <2>1, <3>1 DEF Replaced, Recording, Orphan
    <3>3. QED BY <2>1, <3>2 DEF AddressInv, TokenIsKept
  <2>2. QED BY <2>1 DEF Move!TokenIsTheAddress, Right
<1>2. Move!ChangeOwnsTheWebServer
  BY DEF AddressInv, Given, Move!ChangeOwnsTheWebServer
<1>3. QED BY <1>1, <1>2

LEMMA AddressStands ==
  ASSUME AddressInv, UNCHANGED moveVars
  PROVE  AddressInv'
<1> USE DEF moveVars
<1>1. SuiteTypes' /\ HostTypes' /\ UnderWay'
  BY DEF AddressInv, SuiteTypes, HostTypes, UnderWay, Move!Running
<1>2. InTurn' /\ Alone' /\ Given'
  BY DEF AddressInv, InTurn, Alone, QueuedOnly, Recording, Given, Move!Running
<1>3. TokenIsKept'
  BY DEF AddressInv, TokenIsKept, Replaced, Remembered, Recording, Right, Orphan, Committing
<1>4. QED BY <1>1, <1>2, <1>3 DEF AddressInv

------------------------------------------------------------------------------
(* The parts, side by side. *)

\* The installs' invariant holds whichever part moves.
LEMMA InstallInvHolds == Spec => [](InstallInv /\ DockerOwn)
<1>1. Init => InstallInv /\ DockerOwn
  <2>1. ASSUME Install!InstallInit PROVE DockerOwn
    BY <2>1, IdleIsWork DEF Install!InstallInit, DockerOwn, Runs
  <2> QED BY <2>1, InstallBegins DEF Init
<1>2. InstallInv /\ DockerOwn /\ [Next]_vars => (InstallInv /\ DockerOwn)'
  <2> SUFFICES ASSUME InstallInv, DockerOwn, [Next]_vars PROVE InstallInv' /\ DockerOwn'
    OBVIOUS
  <2>1. CASE InstallMoves
    BY <2>1, InstallKept, DockerKept DEF InstallMoves
  <2>2. CASE UNCHANGED installVars
    <3>1. DockerOwn' BY <2>2 DEF installVars, DockerOwn, Runs
    <3> QED BY <2>2, <3>1, InstallStands DEF installVars, Install!installVars
  <2> QED BY <2>1, <2>2 DEF Next, vars, ManifestMoves, ConnectionMoves, MoveMoves, OfficialMoves, SourceMoves
<1> QED BY <1>1, <1>2, PTL DEF Spec

\* So does the connections'.
LEMMA ConnInvHolds == Spec => []ConnInv
<1>1. Init => ConnInv BY ConnBegins DEF Init
<1>2. ConnInv /\ [Next]_vars => ConnInv'
  <2> SUFFICES ASSUME ConnInv, [Next]_vars PROVE ConnInv'
    OBVIOUS
  <2>1. CASE ConnectionMoves
    BY <2>1, ConnKept DEF ConnectionMoves
  <2>2. CASE UNCHANGED connectionVars
    BY <2>2, ConnKept DEF connectionVars, Connection!connVars
  <2> QED BY <2>1, <2>2 DEF Next, vars, ManifestMoves, InstallMoves, MoveMoves, OfficialMoves, SourceMoves
<1> QED BY <1>1, <1>2, PTL DEF Spec

\* An app recorded as installed has its files and secrets, and once applied runs no other
\* instance's containers and volume, however installs, starts and uninstalls overlap and fail;
\* it has its route too where no two requests worked on it or on the routes at once.  What is
\* stored of a connected app is what its rows render to, and a save reported as put back that no
\* other request crossed has left the app as it was (app-package-service.cjs installPackage,
\* savePackageEnvironment).
THEOREM AppsStayAsRecorded == Spec => []AppsAreAsRecorded
<1>1. InstallInv /\ DockerOwn /\ ConnInv => AppsAreAsRecorded
  BY WholeThen, StoredIsReproducible, UndoneIsAsBefore DEF AppsAreAsRecorded
<1> QED BY <1>1, InstallInvHolds, ConnInvHolds, PTL

\* And the address's, which ends where an apply is cut off.
LEMMA AddressInvHolds == Spec => [](severed \/ AddressInv)
<1>1. Init => severed \/ AddressInv BY AddressStarts DEF Init
<1>2. (severed \/ AddressInv) /\ [Next]_vars => (severed \/ AddressInv)'
  <2> SUFFICES ASSUME severed \/ AddressInv, [Next]_vars PROVE (severed \/ AddressInv)'
    OBVIOUS
  <2>1. CASE MoveMoves
    BY <2>1, AddressKeeps DEF MoveMoves
  <2>2. CASE UNCHANGED moveVars
    BY <2>2, AddressStands DEF moveVars
  <2> QED BY <2>1, <2>2 DEF Next, vars, ManifestMoves, ConnectionMoves, InstallMoves, OfficialMoves, SourceMoves
<1> QED BY <1>1, <1>2, PTL DEF Spec

\* However moves of the address, the watch, restarts and failures overlap, the token on the host
\* is at rest the one of the address in force, and the web server serves the domain a completed
\* move recorded, unless an apply was cut off from the change that asked for it; and a revision
\* counted as pushed is the one the host's holds were written from, unless an answer was lost and
\* the server left its track (suite-address-service.cjs run, agent-core.cjs serveDomain,
\* services.cjs onRefreshed).
THEOREM HostKeepsFollowing == Spec => []HostFollowsTheSuite
<1>1. (severed \/ AddressInv) /\ CatalogInv => HostFollowsTheSuite
  BY AddressFollows, HoldsFollow DEF HostFollowsTheSuite
<1> QED BY <1>1, AddressInvHolds, CatalogInvHolds, PTL

------------------------------------------------------------------------------
(* The database across releases. *)

(* The schema: each migration's tables, and what the next one makes of them. *)

TableNames ==
  {"owners", "sessions", "https_settings", "homepage_revisions", "homepage_operations",
   "app_instances", "app_instance_config", "app_instance_projections", "app_operations",
   "app_instance_guides", "app_integrations", "security_events", "app_sources",
   "owner_terms_acceptances", "owner_preferences", "app_instance_env", "smtp_settings",
   "login_throttle", "known_browsers", "sign_in_alert_state", "address_changes",
   "app_instance_folders"}

LEMMA MigrationsAsWritten ==
  ASSUME NEW v \in Nat
  PROVE  /\ Creation(v) \subseteq TableNames /\ Drops(v) \subseteq {"https_settings"}
         /\ v # 2 => "https_settings" \notin Creation(v)
         /\ "https_settings" \in Drops(v) => v = 19
         /\ Drops(19) = {"https_settings"}
<1>1. Creates(v) \subseteq TableNames /\ (v # 2 => "https_settings" \notin Creates(v))
  BY DEF Creates, TableNames
<1>2. CreatesNext(v) \subseteq TableNames /\ "https_settings" \notin CreatesNext(v)
  BY DEF CreatesNext, TableNames
<1>3. CreatesLater(v) \subseteq TableNames /\ "https_settings" \notin CreatesLater(v)
  BY DEF CreatesLater, TableNames
<1>4. Drops(v) \subseteq {"https_settings"} /\ ("https_settings" \in Drops(v) => v = 19)
      /\ Drops(19) = {"https_settings"}
  BY DEF Drops
<1> QED BY <1>1, <1>2, <1>3, <1>4 DEF Creation

LEMMA SchemaGrows ==
  ASSUME NEW n \in Nat
  PROVE  SchemaAt(n + 1) = (SchemaAt(n) \cup Creation(n + 1)) \ Drops(n + 1)
<1>1. 1 .. n + 1 = (1 .. n) \cup {n + 1} /\ n + 1 \in Nat OBVIOUS
<1>2. \A w \in 1 .. n : w \in Nat /\ w # n + 1 OBVIOUS
<1>3. ASSUME NEW t \in Creation(n + 1), NEW w \in 1 .. n
      PROVE  t \notin Drops(w)
  <2> SUFFICES ASSUME t \in Drops(w) PROVE FALSE
    OBVIOUS
  <2>1. t = "https_settings" /\ w = 19 /\ n + 1 = 2
    BY <1>1, <1>2, <1>3, MigrationsAsWritten
  <2> QED BY <2>1
<1> DEFINE c(k) == UNION {Creation(w) : w \in 1 .. k}
           d(k) == UNION {Drops(w) : w \in 1 .. k}
<1>4. c(n + 1) = c(n) \cup Creation(n + 1) BY <1>1
<1>5. d(n + 1) = d(n) \cup Drops(n + 1) BY <1>1
<1>6. \A t \in Creation(n + 1) : t \notin d(n) BY <1>3
<1>7. SchemaAt(n + 1) = c(n + 1) \ d(n + 1) /\ SchemaAt(n) = c(n) \ d(n)
  BY DEF SchemaAt
<1> HIDE DEF c, d
<1> QED BY <1>4, <1>5, <1>6, <1>7

LEMMA SchemaStarts == SchemaAt(0) = {}
<1>1. 1 .. 0 = {} OBVIOUS
<1> QED BY <1>1 DEF SchemaAt

LEMMA DroppedIsGone ==
  ASSUME NEW n \in Nat, NEW v \in 1 .. n, NEW t \in SchemaAt(n)
  PROVE  t \notin Drops(v)
BY DEF SchemaAt

(* The inductive invariant.                                                  *)

RowIds == TableNames \cup {"1"} \cup Packages
DataRows == [table : TableNames, id : RowIds, of : SUBSET RowIds, seen : Nat]
RowsKept(table) == table \in {"owners", "app_instances"} \cup Singles

\* Rows are found with their parents, and one that is written again under its table's name.
RowsHang(content) ==
  /\ content \subseteq DataRows
  /\ \A r \in content : ~RowsKept(r.table) => r.id = r.table
  /\ \A r \in content : Parent(r.table) # "none" =>
       \A i \in r.of : \E p \in content : p.table = Parent(r.table) /\ p.id = i

\* A file is as some migration left it.
FileIsSound(d) ==
  /\ d = [there |-> d.there, applied |-> d.applied, tables |-> d.tables, rows |-> d.rows]
  /\ \E n \in 0 .. release : d.applied = 1 .. n /\ d.tables = SchemaAt(n)
  /\ RowsHang(d.rows)

StoreInv ==
  /\ release \in Nat /\ now \in Nat
  /\ count \in [writes : Nat, refusals : Nat, kills : Nat, restores : Nat, deletes : Nat]
  /\ FileIsSound(db) /\ FileIsSound(backup)

LEMMA FileSays ==
  ASSUME FileIsSound(db), release \in Nat
  PROVE  SchemaIsSound
<1>1. PICK n \in 0 .. release : db.applied = 1 .. n /\ db.tables = SchemaAt(n)
  BY DEF FileIsSound
<1>2. n \in Nat /\ Cardinality(1 .. n) = n
  <2>1. n \in Nat /\ 1 \in Int /\ n \in Int BY <1>1
  <2> QED BY <2>1, FS_Interval
<1>3. SchemaIsRecorded BY <1>1, <1>2 DEF SchemaIsRecorded
<1>4. NoRowIsLeftBehind
  BY DEF FileIsSound, RowsHang, NoRowIsLeftBehind, Ids, Rows
<1> QED BY <1>3, <1>4 DEF SchemaIsSound

\* What is next to migrate follows what was.
LEMMA NextMigration ==
  ASSUME release \in Nat, NEW n \in 0 .. release, db.applied = 1 .. n
  PROVE  /\ Pending = (n + 1) .. release
         /\ Pending # {} => n + 1 \in 1 .. release /\ Min(Pending) = n + 1
<1>1. Pending = (n + 1) .. release BY DEF Pending
<1>2. ASSUME Pending # {}
      PROVE  n + 1 \in 1 .. release /\ Min(Pending) = n + 1
  <2>1. n + 1 \in Pending /\ \A y \in Pending : n + 1 <= y /\ y \in Int
    BY <1>1, <1>2
  <2>2. Min(Pending) \in Pending /\ \A y \in Pending : Min(Pending) <= y
    BY <2>1 DEF Min
  <2> QED BY <1>1, <2>1, <2>2
<1> QED BY <1>1, <1>2

LEMMA EmptyIsSound ==
  ASSUME release \in Nat
  PROVE  FileIsSound(Empty)
<1>1. /\ Empty.applied = {} /\ Empty.tables = {} /\ Empty.rows = {}
      /\ Empty = [there |-> Empty.there, applied |-> Empty.applied, tables |-> Empty.tables, rows |-> Empty.rows]
  BY DEF Empty
<1>2. 0 \in 0 .. release /\ 1 .. 0 = {} OBVIOUS
<1> QED BY <1>1, <1>2, SchemaStarts DEF FileIsSound, RowsHang

LEMMA ThereKeeps ==
  ASSUME FileIsSound(db), NEW d, d = [db EXCEPT !.there = TRUE]
  PROVE  FileIsSound(d) /\ d.rows = db.rows /\ d.applied = db.applied
<1>1. d = [there |-> TRUE, applied |-> db.applied, tables |-> db.tables, rows |-> db.rows]
  BY DEF FileIsSound
<1>2. d = [there |-> d.there, applied |-> d.applied, tables |-> d.tables, rows |-> d.rows]
      /\ d.applied = db.applied /\ d.tables = db.tables /\ d.rows = db.rows
  BY <1>1
<1> QED BY <1>2 DEF FileIsSound

\* A row that is added comes with its parents.
LEMMA RowsAdded ==
  ASSUME RowsHang(db.rows), NEW new \in SUBSET DataRows,
         \A r \in new : ~RowsKept(r.table) => r.id = r.table,
         \A r \in new : Parent(r.table) # "none" =>
           \A i \in r.of : \E p \in db.rows \cup new : p.table = Parent(r.table) /\ p.id = i
  PROVE  RowsHang(db.rows \cup new)
BY DEF RowsHang

\* Rows of the same kinds under the same ids and parents.
LEMMA RowsReplaced ==
  ASSUME RowsHang(db.rows), NEW content \in SUBSET DataRows,
         \A r \in content : \E s \in db.rows : Same(s, r),
         \A r \in db.rows : r.table \in {"owners", "app_instances"} =>
           \E s \in content : Same(r, s)
  PROVE  RowsHang(content)
<1>1. \A t \in TableNames : Parent(t) \in {"none", "owners", "app_instances"}
  BY DEF Parent
<1>2. \A r \in content : ~RowsKept(r.table) => r.id = r.table
  BY DEF RowsHang, Same
<1>3. ASSUME NEW r \in content, Parent(r.table) # "none", NEW i \in r.of
      PROVE  \E p \in content : p.table = Parent(r.table) /\ p.id = i
  <2>1. PICK s \in db.rows : s.table = r.table /\ s.of = r.of
    BY DEF Same
  <2>2. PICK p \in db.rows : p.table = Parent(r.table) /\ p.id = i
    BY <1>3, <2>1 DEF RowsHang
  <2>3. p.table \in {"owners", "app_instances"}
    BY <1>1, <1>3, <2>2 DEF DataRows
  <2> QED BY <2>2, <2>3 DEF Same
<1> QED BY <1>2, <1>3 DEF RowsHang

LEMMA MigratingKeeps ==
  ASSUME release \in Nat, now \in Nat, IdleLife \in Nat \ {0}, FileIsSound(db), Pending # {},
         NEW d, d = Migrated(Min(Pending))
  PROVE  /\ FileIsSound(d)
         /\ \A r \in db.rows : r.table \in SchemaAt(release) => \E s \in d.rows : Same(r, s)
         /\ 20 \in d.applied \ db.applied => \A s \in d.rows : s.table = "sessions" => Live(s, now)
<1>1. PICK n \in 0 .. release : db.applied = 1 .. n /\ db.tables = SchemaAt(n)
  BY DEF FileIsSound
<1> DEFINE v == n + 1
<1>2. v \in 1 .. release /\ Min(Pending) = v /\ n \in Nat /\ v \in Nat
  BY <1>1, NextMigration
<1>3. /\ d.applied = 1 .. v /\ d.tables = SchemaAt(v) /\ v \in 0 .. release
      /\ d.rows = {r \in Rebuilt(v, db.rows) : r.table \notin Drops(v)} \cup Single(v)
      /\ d = [there |-> d.there, applied |-> d.applied, tables |-> d.tables, rows |-> d.rows]
  <2>1. d = [there |-> TRUE, applied |-> (1 .. n) \cup {v}, tables |-> (SchemaAt(n) \cup Creation(v)) \ Drops(v),
             rows |-> {r \in Rebuilt(v, db.rows) : r.table \notin Drops(v)} \cup Single(v)]
    BY <1>1, <1>2 DEF Migrated
  <2>2. (1 .. n) \cup {v} = 1 .. v /\ v \in 0 .. release BY <1>2
  <2>3. (SchemaAt(n) \cup Creation(v)) \ Drops(v) = SchemaAt(v)
    BY <1>2, SchemaGrows
  <2> QED BY <2>1, <2>2, <2>3
<1> DEFINE moved == {r \in Rebuilt(v, db.rows) : r.table \notin Drops(v)}
<1>4. \A r \in Rebuilt(v, db.rows) :
        r \in DataRows /\ \E s \in db.rows : Same(s, r) /\ (r.table = "sessions" /\ v = 20 => r.seen = now)
  <2> SUFFICES ASSUME NEW s \in db.rows, NEW r,
                      r = IF s.table \in Rebuilds(v) /\ s.table = "sessions" THEN [s EXCEPT !.seen = now] ELSE s
               PROVE  r \in DataRows /\ Same(s, r) /\ (r.table = "sessions" /\ v = 20 => r.seen = now)
    BY DEF Rebuilt
  <2>1. s \in DataRows BY DEF FileIsSound, RowsHang
  <2>2. v = 20 => Rebuilds(v) = {"sessions"} BY DEF Rebuilds
  <2>3. CASE r = [s EXCEPT !.seen = now]
    BY <2>1, <2>3 DEF Same, DataRows
  <2>4. CASE r = s /\ ~(s.table \in Rebuilds(v) /\ s.table = "sessions")
    BY <2>1, <2>2, <2>4 DEF Same
  <2> QED BY <2>3, <2>4
<1>5. \A s \in db.rows : \E r \in Rebuilt(v, db.rows) : Same(s, r)
  <2> SUFFICES ASSUME NEW s \in db.rows
               PROVE  \E r \in Rebuilt(v, db.rows) : Same(s, r)
    OBVIOUS
  <2> DEFINE r == IF s.table \in Rebuilds(v) /\ s.table = "sessions" THEN [s EXCEPT !.seen = now] ELSE s
  <2>1. r \in Rebuilt(v, db.rows) BY DEF Rebuilt
  <2>2. s \in DataRows BY DEF FileIsSound, RowsHang
  <2>3. Same(s, r) BY <2>2 DEF Same, DataRows
  <2> QED BY <2>1, <2>3
<1>6. Drops(v) \subseteq {"https_settings"} BY <1>2, MigrationsAsWritten
<1>7. moved \subseteq DataRows /\ (\A r \in moved : \E s \in db.rows : Same(s, r))
      /\ \A r \in db.rows : r.table \notin Drops(v) => \E s \in moved : Same(r, s)
  BY <1>4, <1>5 DEF Same
<1>8. RowsHang(moved)
  <2>1. \A r \in db.rows : r.table \in {"owners", "app_instances"} => \E s \in moved : Same(r, s)
    BY <1>6, <1>7
  <2> HIDE DEF moved
  <2> QED BY <1>7, <2>1, RowsReplaced DEF FileIsSound
<1>9. \A r \in Single(v) : r \in DataRows /\ r.table \in Singles /\ r.of = {}
  <2>1. Creation(v) \subseteq TableNames BY <1>2, MigrationsAsWritten
  <2> SUFFICES ASSUME NEW t \in Creation(v) \cap Singles, NEW r, r = Row(t, "1", {})
               PROVE  r \in DataRows /\ r.table \in Singles /\ r.of = {}
    BY DEF Single
  <2> QED BY <2>1 DEF Row, DataRows, RowIds
<1>10. RowsHang(d.rows)
  <2>1. \A r \in Single(v) : RowsKept(r.table) BY <1>9 DEF RowsKept
  <2> HIDE DEF moved
  <2>2. d.rows = moved \cup Single(v) BY <1>3 DEF moved
  <2> QED BY <1>8, <1>9, <2>1, <2>2 DEF RowsHang
<1>11. \A r \in db.rows : r.table \in SchemaAt(release) => \E s \in d.rows : Same(r, s)
  <2>1. \A t \in SchemaAt(release) : t \notin Drops(v)
    BY <1>2, DroppedIsGone
  <2> QED BY <1>3, <1>7, <2>1
<1>12. ASSUME 20 \in d.applied \ db.applied, NEW s \in d.rows, s.table = "sessions"
       PROVE  Live(s, now)
  <2>1. v = 20 BY <1>1, <1>2, <1>3, <1>12
  <2>2. s \in moved BY <1>3, <1>9, <1>12 DEF Singles
  <2>3. s.seen = now BY <1>4, <1>12, <2>1, <2>2
  <2> QED BY <2>3 DEF Live
<1> QED BY <1>3, <1>10, <1>11, <1>12 DEF FileIsSound

\* What a step keeps: the content of every table that stays, and the sessions.
Upholds ==
  /\ StoreInv'
  /\ Upgrades

LEMMA OpeningKeeps ==
  ASSUME IdleLife \in Nat \ {0}, StoreInv, Start \/ Migrate \/ Opened \/ OpeningFails \/ Killed
  PROVE  Upholds
<1>0. /\ release \in Nat /\ now \in Nat
      /\ count \in [writes : Nat, refusals : Nat, kills : Nat, restores : Nat, deletes : Nat]
      /\ FileIsSound(db) /\ FileIsSound(backup)
      /\ release' = release /\ backup' = backup /\ now' = now
      /\ count' \in [writes : Nat, refusals : Nat, kills : Nat, restores : Nat, deletes : Nat]
  BY DEF StoreInv, Start, Migrate, Opened, OpeningFails, Killed
<1>1. ASSUME FileIsSound(db'),
             ~FirstStart => \A r \in db.rows : r.table \in SchemaAt(release) => \E s \in db'.rows : Same(r, s),
             20 \in db'.applied \ db.applied => \A s \in db'.rows : s.table = "sessions" => Live(s, now)
      PROVE  Upholds
  <2>1. FileIsSound(db)' /\ FileIsSound(backup)'
    BY <1>0, <1>1 DEF FileIsSound
  <2>2. StoreInv' BY <1>0, <2>1 DEF StoreInv
  <2> QED BY <1>0, <1>1, <2>2 DEF Upholds, Upgrades, KeepsTheData, SignsNobodyOut
<1>2. ASSUME db'.rows = db.rows, db'.applied = db.applied, FileIsSound(db')
      PROVE  Upholds
  BY <1>1, <1>2 DEF Same
<1>3. CASE Start
  <2>1. db' = [db EXCEPT !.there = TRUE] BY <1>3 DEF Start
  <2> QED BY <1>0, <1>2, <2>1, ThereKeeps
<1>4. CASE Migrate
  <2>1. Pending # {} /\ db' = Migrated(Min(Pending)) BY <1>4 DEF Migrate
  <2>2. /\ FileIsSound(db')
        /\ \A r \in db.rows : r.table \in SchemaAt(release) => \E s \in db'.rows : Same(r, s)
        /\ 20 \in db'.applied \ db.applied => \A s \in db'.rows : s.table = "sessions" => Live(s, now)
    BY <1>0, <2>1, MigratingKeeps
  <2> QED BY <1>1, <2>2
<1>5. CASE Opened
  BY <1>0, <1>2, <1>5 DEF Opened
<1>6. CASE OpeningFails
  <2>1. CASE process.existed
    <3>1. db' = [db EXCEPT !.there = TRUE]
      BY <1>6, <2>1 DEF OpeningFails, TakenAway, RolledBack
    <3> QED BY <1>0, <1>2, <3>1, ThereKeeps
  <2>2. CASE ~process.existed
    <3>1. db' = Empty /\ FirstStart
      BY <1>6, <2>2 DEF OpeningFails, TakenAway, FirstStart
    <3>2. FileIsSound(db') /\ db'.applied = {}
      BY <1>0, <3>1, EmptyIsSound DEF Empty
    <3> QED BY <1>1, <3>1, <3>2
  <2> QED BY <2>1, <2>2
<1>7. CASE Killed
  <2>1. CASE Pending = {}
    BY <1>0, <1>2, <1>7, <2>1 DEF Killed
  <2>2. CASE Pending # {}
    <3>1. db' = [db EXCEPT !.there = TRUE]
      BY <1>7, <2>2 DEF Killed, RolledBack
    <3> QED BY <1>0, <1>2, <3>1, ThereKeeps
  <2> QED BY <2>1, <2>2
<1> QED BY <1>3, <1>4, <1>5, <1>6, <1>7

\* A step of the services at the content of the open database.
LEMMA WritingKeeps ==
  ASSUME StoreInv, NEW content, db' = [db EXCEPT !.rows = content],
         RowsHang(content), UNCHANGED <<release, backup, now>>,
         count' \in [writes : Nat, refusals : Nat, kills : Nat, restores : Nat, deletes : Nat],
         \/ count'.deletes # count.deletes
         \/ \A r \in db.rows : \E s \in content : Same(r, s)
  PROVE  Upholds
<1>1. /\ db'.applied = db.applied /\ db'.tables = db.tables /\ db'.rows = content
      /\ db' = [there |-> db'.there, applied |-> db'.applied, tables |-> db'.tables, rows |-> db'.rows]
  <2>1. db' = [there |-> db.there, applied |-> db.applied, tables |-> db.tables, rows |-> content]
    BY DEF StoreInv, FileIsSound
  <2> QED BY <2>1
<1>2. FileIsSound(db)' /\ FileIsSound(backup)'
  BY <1>1 DEF StoreInv, FileIsSound
<1>3. StoreInv' BY <1>2 DEF StoreInv
<1>4. Upgrades BY <1>1 DEF Upgrades, KeepsTheData, SignsNobodyOut
<1> QED BY <1>3, <1>4 DEF Upholds

LEMMA InsertingKeeps ==
  ASSUME StoreInv, NEW t \in db.tables, NEW of \in SUBSET (Packages \cup {"1"}), Insert(t, of)
  PROVE  Upholds
<1>0. /\ RowsHang(db.rows) /\ now \in Nat
      /\ count \in [writes : Nat, refusals : Nat, kills : Nat, restores : Nat, deletes : Nat]
  BY DEF StoreInv, FileIsSound
<1>1. t \in TableNames
  <2>1. PICK n \in 0 .. release : db.tables = SchemaAt(n)
    BY DEF StoreInv, FileIsSound
  <2>2. \A w \in 1 .. n : Creation(w) \subseteq TableNames
    BY MigrationsAsWritten
  <2> QED BY <2>1, <2>2 DEF SchemaAt
<1> DEFINE new == Row(t, t, of)
           content == Rewritten(t, of)
<1>2. /\ new \in DataRows /\ new.table = t /\ new.id = t /\ new.of = of
  BY <1>0, <1>1 DEF Row, DataRows, RowIds
<1>3. /\ db' = [db EXCEPT !.rows = content] /\ count' = [count EXCEPT !.writes = @ + 1]
      /\ UNCHANGED <<release, backup, now>>
      /\ ~RowsKept(t)
      /\ Parent(t) # "none" => of \subseteq Ids(Parent(t))
  BY DEF Insert, RowsKept
<1>4. content = {r \in db.rows : ~(r.table = t /\ r.of = of)} \cup {new}
  BY DEF Rewritten
<1> HIDE DEF new, content
<1>5. \A r \in db.rows : \E s \in content : Same(r, s)
  <2> TAKE r \in db.rows
  <2>1. CASE r.table = t /\ r.of = of
    <3>1. r.id = t BY <1>0, <1>3, <2>1 DEF RowsHang
    <3> QED BY <1>2, <1>4, <2>1, <3>1 DEF Same
  <2>2. CASE ~(r.table = t /\ r.of = of)
    BY <1>4, <2>2 DEF Same
  <2> QED BY <2>1, <2>2
<1>6. RowsHang(content)
  <2>1. RowsHang(db.rows \cup {new})
    <3>1. \A i \in of : Parent(t) # "none" => \E p \in db.rows : p.table = Parent(t) /\ p.id = i
      BY <1>3 DEF Ids, Rows
    <3> QED BY <1>0, <1>2, <3>1, RowsAdded
  <2>2. \A r \in db.rows \cup {new} : \E s \in content : Same(r, s)
    BY <1>4, <1>5 DEF Same
  <2>3. content \subseteq db.rows \cup {new} BY <1>4
  <2>4. ASSUME NEW r \in content, Parent(r.table) # "none", NEW i \in r.of
        PROVE  \E p \in content : p.table = Parent(r.table) /\ p.id = i
    <3>1. PICK p \in db.rows \cup {new} : p.table = Parent(r.table) /\ p.id = i
      BY <2>1, <2>3, <2>4 DEF RowsHang
    <3> QED BY <2>2, <3>1 DEF Same
  <2>5. content \subseteq DataRows /\ \A r \in content : ~RowsKept(r.table) => r.id = r.table
    BY <2>1, <2>3 DEF RowsHang
  <2> QED BY <2>4, <2>5 DEF RowsHang
<1>7. count' \in [writes : Nat, refusals : Nat, kills : Nat, restores : Nat, deletes : Nat]
  BY <1>0, <1>3
<1> QED BY <1>3, <1>5, <1>6, <1>7, WritingKeeps

LEMMA OwnerCreated ==
  ASSUME StoreInv, CreateOwner
  PROVE  Upholds
<1>0. RowsHang(db.rows) /\ now \in Nat BY DEF StoreInv, FileIsSound
<1> DEFINE o == Row("owners", "1", {})
           s == Row("sessions", "sessions", {"1"})
           new == {o, s}
<1>1. /\ o \in DataRows /\ o.table = "owners" /\ o.id = "1" /\ o.of = {}
      /\ s \in DataRows /\ s.table = "sessions" /\ s.id = "sessions" /\ s.of = {"1"}
  BY <1>0 DEF Row, DataRows, RowIds, TableNames
<1>2. db' = [db EXCEPT !.rows = db.rows \cup new] /\ UNCHANGED <<release, backup, now, count>>
  BY DEF CreateOwner
<1>3. Parent("owners") = "none" /\ Parent("sessions") = "owners" /\ RowsKept("owners")
  BY DEF Parent, RowsKept
<1> HIDE DEF o, s
<1>4. RowsHang(db.rows \cup new)
  <2>1. /\ new \in SUBSET DataRows
        /\ \A r \in new : ~RowsKept(r.table) => r.id = r.table
        /\ \A r \in new : Parent(r.table) # "none" =>
             \A i \in r.of : \E p \in db.rows \cup new : p.table = Parent(r.table) /\ p.id = i
    BY <1>1, <1>3
  <2> HIDE DEF new
  <2> QED BY <1>0, <2>1, RowsAdded
<1>5. \A r \in db.rows : \E x \in db.rows \cup new : Same(r, x)
  BY DEF Same
<1> HIDE DEF new
<1>6. count' \in [writes : Nat, refusals : Nat, kills : Nat, restores : Nat, deletes : Nat]
  BY <1>2 DEF StoreInv
<1> QED BY <1>2, <1>4, <1>5, <1>6, WritingKeeps

LEMMA AppInstalled ==
  ASSUME StoreInv, NEW a \in Packages, InstallAppInstance(a)
  PROVE  Upholds
<1>0. RowsHang(db.rows) /\ now \in Nat BY DEF StoreInv, FileIsSound
<1> DEFINE new == InstallRows(a)
<1>1. db' = [db EXCEPT !.rows = db.rows \cup new] /\ UNCHANGED <<release, backup, now, count>>
  BY DEF InstallAppInstance
<1> DEFINE x == Row("app_instances", a, {})
<1>2. /\ x \in DataRows /\ x.table = "app_instances" /\ x.id = a /\ x.of = {} /\ x \in new
  BY <1>0 DEF Row, DataRows, RowIds, TableNames, InstallRows
<1>3. ASSUME NEW r \in new, r # x
      PROVE  r \in DataRows /\ r.id = r.table /\ Parent(r.table) = "app_instances" /\ r.of = {a}
  <2>1. PICK t \in {"app_instance_config", "app_instance_projections", "app_operations"} : r = Row(t, t, {a})
    BY <1>3 DEF InstallRows
  <2>2. t \in TableNames /\ Parent(t) = "app_instances"
    BY DEF TableNames, Parent
  <2> QED BY <1>0, <2>1, <2>2 DEF Row, DataRows, RowIds
<1>4. Parent("app_instances") = "none" /\ RowsKept("app_instances")
  BY DEF Parent, RowsKept
<1> HIDE DEF new, x
<1>5. RowsHang(db.rows \cup new)
  <2>1. /\ new \in SUBSET DataRows
        /\ \A r \in new : ~RowsKept(r.table) => r.id = r.table
        /\ \A r \in new : Parent(r.table) # "none" =>
             \A i \in r.of : \E p \in db.rows \cup new : p.table = Parent(r.table) /\ p.id = i
    BY <1>2, <1>3, <1>4
  <2> QED BY <1>0, <2>1, RowsAdded
<1>6. \A r \in db.rows : \E s \in db.rows \cup new : Same(r, s)
  BY DEF Same
<1>7. count' \in [writes : Nat, refusals : Nat, kills : Nat, restores : Nat, deletes : Nat]
  BY <1>1 DEF StoreInv
<1> QED BY <1>1, <1>5, <1>6, <1>7, WritingKeeps

LEMMA AppDeleted ==
  ASSUME StoreInv, NEW a \in Packages, DeleteAppInstance(a)
  PROVE  Upholds
<1>0. /\ RowsHang(db.rows)
      /\ count \in [writes : Nat, refusals : Nat, kills : Nat, restores : Nat, deletes : Nat]
  BY DEF StoreInv, FileIsSound
<1> DEFINE content == {r \in db.rows : ~(r.table = "app_instances" /\ r.id = a)} \ Cascade(a)
<1>1. /\ db' = [db EXCEPT !.rows = content] /\ count' = [count EXCEPT !.deletes = @ + 1]
      /\ UNCHANGED <<release, backup, now>>
  BY DEF DeleteAppInstance
<1>2. /\ count' \in [writes : Nat, refusals : Nat, kills : Nat, restores : Nat, deletes : Nat]
      /\ count'.deletes # count.deletes
  BY <1>0, <1>1
<1>3. RowsHang(content)
  <2>1. content \subseteq db.rows OBVIOUS
  <2>2. ASSUME NEW r \in content, Parent(r.table) # "none", NEW i \in r.of
        PROVE  \E p \in content : p.table = Parent(r.table) /\ p.id = i
    <3>1. PICK p \in db.rows : p.table = Parent(r.table) /\ p.id = i
      BY <1>0, <2>2 DEF RowsHang
    <3>2. Parent(p.table) = "none"
      <4>1. p.table \in {"owners", "app_instances"}
        BY <3>1, <2>2 DEF Parent
      <4> QED BY <4>1 DEF Parent
    <3>3. p \notin Cascade(a) BY <3>2 DEF Cascade
    <3>4. ~(p.table = "app_instances" /\ p.id = a)
      BY <2>2, <3>1 DEF Cascade
    <3> QED BY <3>1, <3>3, <3>4
  <2>3. content \subseteq DataRows /\ \A r \in content : ~RowsKept(r.table) => r.id = r.table
    BY <1>0, <2>1 DEF RowsHang
  <2> HIDE DEF content
  <2> QED BY <2>2, <2>3 DEF RowsHang
<1> HIDE DEF content
<1> QED BY <1>1, <1>2, <1>3, WritingKeeps

LEMMA SessionSeen ==
  ASSUME StoreInv, MarkSeen
  PROVE  Upholds
<1>0. RowsHang(db.rows) /\ now \in Nat BY DEF StoreInv, FileIsSound
<1>1. PICK r \in db.rows :
        /\ r.table = "sessions"
        /\ db' = [db EXCEPT !.rows = (db.rows \ {r}) \cup {[r EXCEPT !.seen = now]}]
        /\ UNCHANGED <<release, backup, now, count>>
  BY DEF MarkSeen, Rows
<1> DEFINE u == [r EXCEPT !.seen = now]
           content == (db.rows \ {r}) \cup {u}
<1>2. u \in DataRows /\ Same(r, u) /\ Same(u, r)
  BY <1>0 DEF RowsHang, DataRows, Same
<1> HIDE DEF u
<1>3. \A s \in db.rows : \E x \in content : Same(s, x) BY <1>2 DEF Same
<1>4. content \in SUBSET DataRows /\ \A x \in content : \E s \in db.rows : Same(s, x)
  BY <1>0, <1>2 DEF RowsHang, Same
<1>5. db' = [db EXCEPT !.rows = content] BY <1>1 DEF u
<1> HIDE DEF content
<1>6. RowsHang(content) BY <1>0, <1>3, <1>4, RowsReplaced
<1>7. count' \in [writes : Nat, refusals : Nat, kills : Nat, restores : Nat, deletes : Nat]
  BY <1>1 DEF StoreInv
<1> QED BY <1>1, <1>3, <1>5, <1>6, <1>7, WritingKeeps

\* Stops, updates, time, a backup and its restore.
LEMMA FileMovesKeep ==
  ASSUME StoreInv, Releases \subseteq Nat,
         Stop \/ SnapshotSqlite \/ Restore \/ Tick \/ \E r \in Releases : Update(r)
  PROVE  Upholds
<1>0. /\ release \in Nat /\ now \in Nat
      /\ count \in [writes : Nat, refusals : Nat, kills : Nat, restores : Nat, deletes : Nat]
      /\ FileIsSound(db) /\ FileIsSound(backup)
  BY DEF StoreInv
<1>1. ASSUME release' \in Nat, now' \in Nat, count' = count, release <= release',
             db' = db, backup' = backup \/ backup' = db
      PROVE  Upholds
  <2>1. \A n \in 0 .. release : n \in 0 .. release' BY <1>0, <1>1
  <2>2. FileIsSound(db)' /\ FileIsSound(backup)'
    BY <1>0, <1>1, <2>1 DEF FileIsSound
  <2>3. StoreInv' BY <1>0, <1>1, <2>2 DEF StoreInv
  <2> QED BY <1>1, <2>3 DEF Upholds, Upgrades, KeepsTheData, SignsNobodyOut, Same
<1>2. CASE Stop \/ SnapshotSqlite \/ Tick
  BY <1>0, <1>1, <1>2 DEF Stop, SnapshotSqlite, Tick
<1>3. ASSUME NEW r \in Releases, Update(r)
      PROVE  Upholds
  <2>1. r \in Nat OBVIOUS
  <2> QED BY <1>0, <1>1, <1>3, <2>1 DEF Update
<1>4. CASE Restore
  <2>1. /\ db' = backup /\ backup' = backup /\ release' = release /\ now' = now
        /\ count' = [count EXCEPT !.restores = @ + 1]
    BY <1>4 DEF Restore
  <2>2. /\ count' \in [writes : Nat, refusals : Nat, kills : Nat, restores : Nat, deletes : Nat]
        /\ count'.restores # count.restores
    BY <1>0, <2>1
  <2>3. FileIsSound(db)' /\ FileIsSound(backup)'
    BY <1>0, <2>1 DEF FileIsSound
  <2>4. StoreInv' BY <1>0, <2>1, <2>2, <2>3 DEF StoreInv
  <2> QED BY <2>2, <2>4 DEF Upholds, Upgrades, KeepsTheData, SignsNobodyOut
<1> QED BY <1>2, <1>3, <1>4

LEMMA StoreSteps ==
  ASSUME IdleLife \in Nat \ {0}, Releases \subseteq Nat, StoreInv, [StoreNext]_storeVars
  PROVE  StoreInv' /\ [Upgrades]_storeVars
<1>1. CASE UNCHANGED storeVars
  BY <1>1 DEF storeVars, StoreInv, FileIsSound
<1>2. CASE StoreNext
  <2>1. Upholds
    BY <1>2, OpeningKeeps, InsertingKeeps, OwnerCreated, AppInstalled, AppDeleted, SessionSeen,
       FileMovesKeep DEF StoreNext
  <2> QED BY <2>1 DEF Upholds
<1> QED BY <1>1, <1>2

LEMMA StoreStarts ==
  ASSUME Releases \subseteq Nat, StoreInit
  PROVE  StoreInv
<1>1. release \in Nat BY DEF StoreInit
<1> QED BY <1>1, EmptyIsSound DEF StoreInit, StoreInv

\* Whatever release opens the database, and wherever a migration is cut off or refused or a
\* backup is put back: the migrations recorded say exactly which tables there are, and no row
\* of an app outlives the app (migrate, transaction, deleteAppInstance).
THEOREM SchemaStaysSound ==
  ASSUME IdleLife \in Nat \ {0}, Releases \subseteq Nat
  PROVE  StoreSpec => []SchemaIsSound
<1>1. StoreInit => StoreInv BY StoreStarts
<1>2. StoreInv /\ [StoreNext]_storeVars => StoreInv' BY StoreSteps
<1>3. StoreInv => SchemaIsSound BY FileSays DEF StoreInv
<1> QED BY <1>1, <1>2, <1>3, PTL DEF StoreSpec

\* No start, update or failure loses a row of a table that stays, and the migration that brings
\* the expiry of sessions signs nobody out (migrations 12, 19 and 20).
THEOREM UpdatesKeepEveryRow ==
  ASSUME IdleLife \in Nat \ {0}, Releases \subseteq Nat
  PROVE  StoreSpec => UpdatesKeepTheData
<1>1. StoreInit => StoreInv BY StoreStarts
<1>2. StoreInv /\ [StoreNext]_storeVars => StoreInv' /\ [Upgrades]_storeVars
  BY StoreSteps
<1> QED BY <1>1, <1>2, PTL DEF StoreSpec, UpdatesKeepTheData
=============================================================================
