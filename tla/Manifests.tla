----------------------------- MODULE Manifests -----------------------------
(***************************************************************************)
(* A package's manifest, from the publisher's edit to what the owner's app *)
(* is started with: the semantic checks a manifest must pass, the config   *)
(* rows and folders an install keeps, the environment rendered from them,  *)
(* the comparison an update is previewed with, and the update itself.      *)
(*                                                                         *)
(* One package of one source.  A template is a pair <<namespace, key>>;    *)
(* "text" is a value without a reference.  A setup field is known by its   *)
(* shape, and its value by who chose it and by the version it was chosen   *)
(* under.  Connections between apps, which this module only sees as an     *)
(* integration slot that is joined or not, are in module Connections; the  *)
(* containers an update builds are in AppUpdates.                          *)
(***************************************************************************)
EXTENDS Naturals, Sequences, FiniteSets

CONSTANTS MaxEdits,     \* changes the publisher makes, each of one part of the manifest
          MaxSaves,     \* owner environment saves
          MaxVariables, \* variables in one save
          MaxLinks      \* connections and disconnections, and relay changes

VARIABLES offered,      \* the manifest the source serves
          installed,    \* the manifest of the installed snapshot, NoPackage before
          rows,         \* config rows of the instance: field -> value
          ownerEnv,     \* the variables the owner set: <<service, name>> pairs
          linked,       \* the integration slot is joined
          relay,        \* the owner's email relay is configured
          placed,       \* names of the folders that are on a drive
          refused,      \* what the last install or update was refused for
          did           \* edits, saves and links so far

manifestVars == <<offered, installed, rows, ownerEnv, linked, relay, placed, refused, did>>

Services == {"web", "db"}
Fields   == {"name", "token"}
Names    == {"A", "B"}
Files    == {"icon", "shot", "e2e"}

Unset == <<"unset", "">>
Text  == <<"text", "">>

(***************************************************************************)
(* Setup fields.                                                           *)
(***************************************************************************)
Absent    == "absent"
Shapes    == {Absent, "optional", "defaulted", "required", "ownerDefault",
              "generated", "secret", "secretDefault"}
\* Fields that may stay without a value: a default out of the owner's profile is
\* resolved only by the form, and comes to nothing where the form sends nothing.
MayBeEmpty      == {"optional", "ownerDefault"}
Declared(m)     == {f \in Fields : m.fields[f] # Absent}
IsRequired(s)   == s \in {"required", "secret", "generated"}
IsSecret(s)     == s \in {"generated", "secret", "secretDefault"}
HeldRows(r)     == {f \in Fields : r[f].source # "none"}
NoRow           == [source |-> "none", version |-> 0, secret |-> FALSE]

NoPackage == [version |-> 0]
Base == [version |-> 1, trust |-> "unverified",
         fields  |-> [name |-> "optional", token |-> "generated"],
         env     |-> [s \in Services |-> [n \in Names |->
                        IF s = "web" /\ n = "A" THEN <<"secret", "token">> ELSE Unset]],
         mention |-> [default |-> Text, bridge |-> Text, export |-> Text, label |-> Text, guide |-> Text],
         volumes |-> [web |-> {"v1"}, db |-> {"v2"}],
         services |-> Services,
         routes  |-> << [host |-> "app", service |-> "web", api |-> FALSE] >>,
         tile    |-> TRUE,
         health  |-> "web",
         folders |-> {}, needsDrive |-> FALSE,
         files   |-> {"icon", "shot"}, listed |-> {"shot"}, shots |-> {"shot"},
         slot    |-> [accepts |-> {"calendar"}, target |-> "web", allowed |-> {"B"}, sets |-> {"B"}],
         requires |-> {},
         breaking |-> {}, platform |-> TRUE, agent |-> 1, hosts |-> {}]

(***************************************************************************)
(* validateManifestSemantics: what the JSON Schema cannot express.         *)
(***************************************************************************)
PackageFiles(m)      == m.listed \subseteq (m.files \ {"e2e"})
SetupSemantics(m)    == \A f \in Fields : m.fields[f] # "secretDefault"
ResourceSemantics(m) == m.volumes["web"] \cap m.volumes["db"] = {}
StorageSemantics(m)  == \A folder \in m.folders :
                          /\ folder.service \in m.services
                          /\ \A other \in m.folders \ {folder} :
                               /\ other.name # folder.name
                               /\ <<other.service, other.path>> # <<folder.service, folder.path>>
RouteSemantics(m) ==
  /\ \A i, j \in DOMAIN m.routes : m.routes[i].host = m.routes[j].host => i = j
  /\ \A i \in DOMAIN m.routes : m.routes[i].service \in m.services
  /\ m.routes[1].api => ~m.tile
HealthSemantics(m)       == m.health \in m.services
CatalogSemantics(m)      == m.shots \subseteq m.files /\ m.shots \subseteq m.listed
IconSemantics(m)         == "icon" \in m.files
ConfigTargetsSemantics(m) == m.slot.target \in m.services
IntegrationsSemantics(m) == m.slot.accepts # {} /\ (m.slot.allowed # {} => m.slot.sets \subseteq m.slot.allowed)

\* Which namespaces a place in the manifest may refer to, and which keys.
Runtime == {"app", "config", "secret"}
AllowedNamespaces(location) ==
  CASE location = "env"     -> Runtime \cup {"smtp"}
    [] location \in {"bridge", "export"} -> Runtime
    [] location = "default" -> {"owner"}
    [] location = "guide"   -> {"app", "config"}
    [] OTHER                -> {}
TemplateKeys(m, namespace) ==
  CASE namespace = "config" -> {f \in Declared(m) : ~IsSecret(m.fields[f])}
    [] namespace = "secret" -> {f \in Declared(m) : IsSecret(m.fields[f])}
    [] namespace = "app"    -> {"publicUrl"}
    [] namespace = "owner"  -> {"email"}
    [] OTHER                -> {"host"}
CheckTemplate(m, location, t) ==
  t \in {Unset, Text} \/ (t[1] \in AllowedNamespaces(location) /\ t[2] \in TemplateKeys(m, t[1]))
Templates(m) ==
  /\ \A location \in DOMAIN m.mention : CheckTemplate(m, location, m.mention[location])
  /\ \A s \in m.services, n \in Names : CheckTemplate(m, "env", m.env[s][n])

ValidateManifest(m) ==
  /\ PackageFiles(m) /\ SetupSemantics(m) /\ ResourceSemantics(m) /\ StorageSemantics(m)
  /\ RouteSemantics(m) /\ HealthSemantics(m) /\ CatalogSemantics(m) /\ IconSemantics(m)
  /\ Templates(m) /\ ConfigTargetsSemantics(m) /\ IntegrationsSemantics(m)

(***************************************************************************)
(* Rendering.  The stored projection keeps references; what the agent is   *)
(* handed has them resolved, a name at a time.                             *)
(***************************************************************************)
ResolveTemplate(t, held) ==
  IF t[1] \in {"config", "secret"} /\ held[t[2]].source # "none" THEN <<"value", t[2]>>
  ELSE IF t[1] = "smtp" THEN <<"value", "relay">>
  ELSE IF t[1] \in {"text", "app"} THEN Text
  ELSE t
RenderEnvironment(m, held, configured, s, n) ==
  IF m.env[s][n][1] = "smtp" /\ ~configured THEN Unset ELSE ResolveTemplate(m.env[s][n], held)
IntegrationEnvPatches(m, joined, s) == IF joined /\ m.slot.target = s THEN m.slot.sets ELSE {}
ManagedEnvNames(m, joined, s) ==
  {n \in Names : m.env[s][n] # Unset} \cup IntegrationEnvPatches(m, joined, s)
OwnerEnvPatches(m, joined, s, env) ==
  {n \in Names : s \in m.services /\ <<s, n>> \in env /\ n \notin ManagedEnvNames(m, joined, s)}

\* Owner variables first, integration variables second: the later patch wins.
Materialized(s, n) ==
  IF n \in IntegrationEnvPatches(installed, linked, s) THEN <<"integration", n>>
  ELSE IF n \in OwnerEnvPatches(installed, linked, s, ownerEnv) THEN <<"owner", n>>
  ELSE RenderEnvironment(installed, rows, relay, s, n)
(***************************************************************************)
(* createConfigRows: a row for every field of `asked` that has a value,    *)
(* `supplied` being the ones the owner's form sent.                        *)
(***************************************************************************)
HasValue(m, f, supplied) == f \in supplied \/ m.fields[f] \in {"generated", "defaulted"}
SetupMissing(m, asked, supplied) ==
  {f \in asked : IsRequired(m.fields[f]) /\ ~HasValue(m, f, supplied)}
CreateConfigRows(m, asked, supplied) ==
  [f \in Fields |->
     IF f \in asked /\ HasValue(m, f, supplied)
     THEN [source |-> IF f \in supplied THEN "user" ELSE m.fields[f],
           version |-> m.version, secret |-> IsSecret(m.fields[f])]
     ELSE NoRow]
AskedByUpdateAll(m, held) == Declared(m)
AskedByUpdateRequired(m, held) == {f \in Declared(m) : IsRequired(m.fields[f])} \ HeldRows(held)
\* An update makes rows for the fields the instance does not hold yet.
AskedByUpdate(m, held) == Declared(m) \ HeldRows(held)

FolderNames(m) == {folder.name : folder \in m.folders}
StorageRequired(m) == m.needsDrive /\ m.folders # {}
PlaceFolders(m, held, drive) == IF drive THEN FolderNames(m) \ held ELSE {}

(***************************************************************************)
(* compareAppPackages: the preview of an update.                           *)
(***************************************************************************)
AllVolumes(m) == UNION {m.volumes[s] : s \in m.services}
BreakingAreas(i, c) ==
  {"setup" : f \in {g \in Declared(i) : IF c.fields[g] = Absent THEN IsRequired(i.fields[g])
                                        ELSE IsSecret(i.fields[g]) # IsSecret(c.fields[g])}}
  \cup {"volumes" : v \in AllVolumes(i) \ AllVolumes(c)}
RequiredInput(i, c) ==
  {f \in Declared(c) \ Declared(i) : IsRequired(c.fields[f]) /\ c.fields[f] # "generated"}
NewStorage(i, c, held) ==
  c.folders # {} /\ held = {} /\ (i.folders # {} => c.needsDrive)
UnmetRequirements(m, provided) == m.requires # {} /\ m.requires \cap provided = {}
RequestedPermissions(m) ==
  {<<"route", m.routes[i].host>> : i \in DOMAIN m.routes} \cup {<<"volume", v>> : v \in AllVolumes(m)}
  \cup {<<"folder", n>> : n \in FolderNames(m)}
AddedPermissions(i, c) == RequestedPermissions(c) \ RequestedPermissions(i)
AddedOutboundHosts(i, c) == c.hosts \ i.hosts
OwnerAction(i, c) ==
  \/ RequiredInput(i, c) # {} \/ BreakingAreas(i, c) # {}
  \/ AddedPermissions(i, c) # {} /\ c.trust # "mos-reviewed"
  \/ AddedOutboundHosts(i, c) # {}
  \/ UnmetRequirements(c, {}) /\ ~UnmetRequirements(i, {})
Unsupported(i, c) ==
  ~c.platform \/ c.agent > 1 \/ ~(BreakingAreas(i, c) \subseteq c.breaking)
Compatibility(i, c) ==
  IF Unsupported(i, c) THEN "unsupported"
  ELSE IF OwnerAction(i, c) THEN "owner-action-required" ELSE "compatible"
UpdateAvailable(i, c) == c.version > i.version
\* What the preview dialog asks of the owner: setup values, and a drive.
AsksForDrive(i, c, held) == NewStorage(i, c, held) /\ StorageRequired(c)

(***************************************************************************)
(* Init and the actions.                                                   *)
(***************************************************************************)
Accepted == <<"nothing", "none">>

ManifestInit ==
  /\ offered = Base
  /\ installed = NoPackage
  /\ rows = [f \in Fields |-> NoRow]
  /\ ownerEnv = {} /\ linked = FALSE /\ relay = FALSE /\ placed = {}
  /\ refused = Accepted
  /\ did = [edits |-> 0, saves |-> 0, links |-> 0]

Folder(name, service, path) == [name |-> name, service |-> service, path |-> path]
Web(host, service, api) == [host |-> host, service |-> service, api |-> api]
WithFolder(m, folder, needs) == [m EXCEPT !.folders = @ \cup {folder}, !.needsDrive = needs]
WithoutDb(m) ==
  [m EXCEPT !.services = {"web"}, !.volumes["db"] = {}, !.env["db"] = [n \in Names |-> Unset],
            !.folders = {folder \in @ : folder.service = "web"}]

\* One thing a publisher changes, the wrong ones included.
Edited(m) ==
       {[m EXCEPT !.fields[f] = shape] : f \in Fields, shape \in Shapes}
  \cup {[m EXCEPT !.env["web"][n] = t] : n \in Names,
          t \in {Unset, Text, <<"config", "name">>, <<"smtp", "host">>, <<"owner", "email">>}}
  \cup {[m EXCEPT !.mention[l] = <<"app", "publicUrl">>] : l \in DOMAIN m.mention}
  \cup {[m EXCEPT !.volumes["web"] = vs] : vs \in {{}, {"v1", "v2"}}}
  \cup {WithFolder(m, f, needs) :
          f \in {Folder("pics", "web", "/p"), Folder("docs", "db", "/p"), Folder("pics", "db", "/q")},
          needs \in BOOLEAN}
  \cup {[m EXCEPT !.routes = @ \o << Web("api", "db", TRUE) >>],
        [m EXCEPT !.routes = @ \o << Web("app", "db", TRUE) >>],
        [m EXCEPT !.routes = << Web("app", "web", TRUE) >>, !.tile = FALSE],
        [m EXCEPT !.routes = << Web("app", "web", TRUE) >>], WithoutDb(m)}
  \cup {[m EXCEPT !.health = s] : s \in {"db", "outside"}}
  \cup {[m EXCEPT !.files = @ \ {"shot"}], [m EXCEPT !.listed = {}, !.shots = {}],
        [m EXCEPT !.listed = {}], [m EXCEPT !.listed = {"e2e"}], [m EXCEPT !.files = @ \ {"icon"}]}
  \cup {[m EXCEPT !.slot.target = "db"], [m EXCEPT !.slot.accepts = {}],
        [m EXCEPT !.slot.sets = {"A"}], [m EXCEPT !.slot.sets = {"A"}, !.slot.allowed = {"A", "B"}]}
  \cup {[m EXCEPT !.breaking = {"setup", "volumes"}], [m EXCEPT !.platform = FALSE],
        [m EXCEPT !.agent = 2], [m EXCEPT !.hosts = {"h"}], [m EXCEPT !.requires = {"calendar"}]}

PublishManifest ==
  /\ did.edits < MaxEdits
  /\ \E m \in Edited(offered) : offered' = [m EXCEPT !.version = @ + 1]
  /\ did' = [did EXCEPT !.edits = @ + 1]
  /\ UNCHANGED <<installed, rows, ownerEnv, linked, relay, placed, refused>>

\* Refusing leaves everything as it was; `code` is the first failed check, with
\* what the preview of a refused update had said.
Refuse(code) ==
  /\ refused # code /\ refused' = code
  /\ UNCHANGED <<offered, installed, rows, ownerEnv, linked, relay, placed, did>>

InstallPackage ==
  /\ installed = NoPackage /\ ValidateManifest(offered)
  /\ \E supplied \in SUBSET {f \in Declared(offered) : offered.fields[f] # "generated"},
       drive \in BOOLEAN :
       \/ ~offered.platform /\ Refuse(<<"APP_HOST_REQUIREMENT_UNMET", "none">>)
       \/ offered.platform /\ StorageRequired(offered) /\ ~drive /\ Refuse(<<"APP_STORAGE_DRIVE_REQUIRED", "none">>)
       \/ /\ offered.platform /\ (StorageRequired(offered) => drive)
          /\ SetupMissing(offered, Declared(offered), supplied) # {}
          /\ Refuse(<<"APP_SETUP_REQUIRED", "none">>)
       \/ /\ offered.platform /\ (StorageRequired(offered) => drive)
          /\ SetupMissing(offered, Declared(offered), supplied) = {}
          /\ rows' = CreateConfigRows(offered, Declared(offered), supplied)
          /\ placed' = PlaceFolders(offered, {}, drive)
          /\ installed' = offered /\ refused' = Accepted
          /\ UNCHANGED <<offered, ownerEnv, linked, relay, did>>

\* Every value the preview asked for is given: the form cannot be sent without.
ApplyAppUpdate ==
  /\ installed # NoPackage /\ ValidateManifest(offered)
  /\ LET asked    == AskedByUpdate(offered, rows)
         supplied == RequiredInput(installed, offered)
         drive    == placed # {} \/ AsksForDrive(installed, offered, placed)
     IN \/ /\ Unsupported(installed, offered) /\ Refuse(<<"APP_UPDATE_UNSUPPORTED", "unsupported">>)
        \/ /\ ~Unsupported(installed, offered) /\ ~UpdateAvailable(installed, offered)
           /\ Refuse(<<"APP_UPDATE_NOT_AVAILABLE", "none">>)
        \/ /\ ~Unsupported(installed, offered) /\ UpdateAvailable(installed, offered)
           /\ SetupMissing(offered, asked, supplied) # {}
           /\ Refuse(<<"APP_SETUP_REQUIRED", Compatibility(installed, offered)>>)
        \/ /\ ~Unsupported(installed, offered) /\ UpdateAvailable(installed, offered)
           /\ SetupMissing(offered, asked, supplied) = {}
           /\ LET added == CreateConfigRows(offered, asked, supplied)
              IN rows' = [f \in Fields |-> IF f \in HeldRows(added) THEN added[f] ELSE rows[f]]
           /\ placed' = placed \cup PlaceFolders(offered, placed, drive)
           /\ installed' = offered /\ refused' = Accepted
           /\ UNCHANGED <<offered, ownerEnv, linked, relay, did>>

\* The submitted set replaces the stored one; one managed name refuses it all.
SavePackageEnvironment ==
  /\ installed # NoPackage /\ did.saves < MaxSaves
  /\ \E set \in SUBSET (installed.services \X Names) :
       /\ Cardinality(set) <= MaxVariables
       /\ \A entry \in set : entry[2] \notin ManagedEnvNames(installed, linked, entry[1])
       /\ ownerEnv' = set
  /\ did' = [did EXCEPT !.saves = @ + 1]
  /\ UNCHANGED <<offered, installed, rows, linked, relay, placed, refused>>

ConnectPackages ==
  /\ installed # NoPackage /\ ~linked /\ did.links < MaxLinks
  /\ linked' = TRUE /\ did' = [did EXCEPT !.links = @ + 1]
  /\ UNCHANGED <<offered, installed, rows, ownerEnv, relay, placed, refused>>

SaveRelay ==
  /\ did.links < MaxLinks
  /\ relay' = ~relay /\ did' = [did EXCEPT !.links = @ + 1]
  /\ UNCHANGED <<offered, installed, rows, ownerEnv, linked, placed, refused>>

ManifestNext ==
  \/ PublishManifest \/ InstallPackage \/ ApplyAppUpdate
  \/ SavePackageEnvironment \/ ConnectPackages \/ SaveRelay
ManifestSpec == ManifestInit /\ [][ManifestNext]_manifestVars

(***************************************************************************)
(* What must hold.                                                         *)
(***************************************************************************)
\* Type invariant: rows only for fields, variables only for services, and an
\* installed manifest is one that passed every check.
ManifestTypeOK ==
  /\ \A f \in Fields : rows[f].source \in Shapes \cup {"none", "user"}
  /\ ownerEnv \subseteq Services \X Names
  /\ linked \in BOOLEAN /\ relay \in BOOLEAN /\ placed \subseteq {"pics", "docs"}
  /\ installed # NoPackage => ValidateManifest(installed)

Started == {e \in Services \X Names : installed # NoPackage /\ e[1] \in installed.services}

\* A container is never started with a reference in place of a value, unless it
\* is to an optional field that has no default, or one out of the owner's profile,
\* through every update that adds, drops or changes fields.  (createConfigRows in
\* app-package-internals.cjs and the rows an update adds in app-update-service.cjs.)
ReferencesResolve ==
  \A e \in Started :
    LET value == Materialized(e[1], e[2])
    IN value[1] \in {"config", "secret"} => installed.fields[value[2]] \in MayBeEmpty

\* One step: what is held stays as it is, and a folder that is placed stays placed.
KeepsValues ==
  installed # NoPackage => /\ \A f \in HeldRows(rows) : rows'[f] = rows[f]
                           /\ placed \subseteq placed'

\* An update never replaces a value the app already holds, nor moves a folder
\* off its drive.  (heldKeys and foldersAddedBy in app-update-service.cjs.)
UpdatesKeepValues == [][KeepsValues]_manifestVars

\* An update the preview calls compatible, asking nothing of the owner, is not
\* then refused for want of a setup value.  (requiredInput in
\* app-update-comparison.cjs, the rows made in app-update-service.cjs.)
CompatibleJustApplies == refused # <<"APP_SETUP_REQUIRED", "compatible">>
=============================================================================
