-------------------------------- MODULE Offers --------------------------------
(***************************************************************************)
(* Where an app package comes from and what a server takes from there: the *)
(* packages in its own checkout, the cached official catalog, and the .mos *)
(* folder of a repository the owner added.  A package is its contents: two *)
(* records are the same bytes exactly when they are equal.                 *)
(***************************************************************************)
EXTENDS Integers, Sequences, FiniteSets

CONSTANTS
  OfficialPackages,  \* every package the project ever publishes
  ExternalPackages,  \* every package the added repository ever holds
  Folders,           \* names of folders the repository's .mos may hold
  Links,             \* subdomains of the owner's Homepage links
  Lacking,           \* what this server at first does not have for an app
  Budgets            \* bounds: how many catalogs and repositories are published, updates of
                     \* MOS itself, and previews, installs, updates, removals and links

VARIABLES
  published,  \* per ref: the catalog its tip holds, a package per official id
  repository, \* the added repository's .mos folder: a package per slot
  mos,        \* this server: MOS's version, the ref it follows, its checkout, what it lacks
  catalog,    \* official-catalog.json: the cached catalog and the ref it is of
  cards,      \* the cached listing of the repository
  apps,       \* app_instances: the package each installed id runs
  links,      \* the subdomains Homepage links serve
  confirmed,  \* per installed id: the preview the owner holds
  consented,  \* per installed id: the access the owner was asked for
  downgrades, \* how often the owner chose an older package
  uses        \* how much of each bound is left

offerVars == <<published, repository, mos, catalog, cards, apps, links, confirmed,
               consented, downgrades, uses>>

(***************************************************************************)
(* Versions: the core number and the identifiers of the prerelease.        *)
(***************************************************************************)
Sign(n) == IF n > 0 THEN 1 ELSE IF n < 0 THEN -1 ELSE 0

\* A numeric identifier is below every word; words by their place in the order.
CompareIdentifiers(l, r) ==
  IF l.numeric # r.numeric THEN IF l.numeric THEN -1 ELSE 1 ELSE Sign(l.rank - r.rank)

ComparePrereleases(l, r) ==
  LET apart == {i \in 1..Len(l) \cap 1..Len(r) : CompareIdentifiers(l[i], r[i]) # 0}
      first == CHOOSE i \in apart : \A j \in apart : i <= j
  IN  IF apart = {} THEN Sign(Len(l) - Len(r)) ELSE CompareIdentifiers(l[first], r[first])

CompareSemver(l, r) ==
  CASE l.core # r.core -> Sign(l.core - r.core)
    [] l.pre = <<>> /\ r.pre = <<>> -> 0
    [] l.pre = <<>> -> 1
    [] r.pre = <<>> -> -1
    [] OTHER -> ComparePrereleases(l.pre, r.pre)

(***************************************************************************)
(* Identities.  An external package is installed under an id of its source *)
(* and answers under the reserved prefix.                                  *)
(***************************************************************************)
InstalledId(external, id) == [external |-> external, id |-> id]
OfficialIds == {p.id : p \in OfficialPackages}
Ids == {InstalledId(FALSE, id) : id \in OfficialIds}
         \cup {InstalledId(TRUE, p.id) : p \in ExternalPackages}
Slots == Folders \cup {"root"}
Refs  == {"main", "branch"}

Absent       == [id |-> "none"]
Installed(i) == apps[i] # Absent
NoCatalog    == [ref |-> "none", packages |-> [id \in OfficialIds |-> Absent]]
NoPreview    == [token |-> Absent, asks |-> {}]

\* Over every file of the package in one order: equal for equal contents only.
Digest(p) == p

EffectiveHost(i, p) == [external |-> i.external, host |-> p.host]
\* The Homepage link already serving the app's address.
AddressTaken(i, p) == ~i.external /\ p.host \in links
\* The hosts the other installed apps' projections serve.
ServedByOthers(i) == {EffectiveHost(j, apps[j]) : j \in {j \in Ids \ {i} : Installed(j)}}
RouteHostsAvailable(i, p) == EffectiveHost(i, p) \notin ServedByOthers(i)

\* What a package asks MOS for: its address, volumes, slots and provision.
RequestedPermissions(i, p) == p.asks \cup {EffectiveHost(i, p).host}

(***************************************************************************)
(* Privacy reviews.  A review says which bytes it is of, the two facts     *)
(* that decide a posture, and the posture.                                 *)
(***************************************************************************)
PostureOf(egress, control) ==
  CASE egress = "none" /\ control = "nothing-to-decide"          -> "private-by-default"
    [] egress = "none" /\ control = "disabled-by-mos"            -> "privacy-configured"
    [] egress = "external-contact" /\ control = "left-to-owner"  -> "owner-disableable"
    [] egress = "external-contact" /\ control = "accepted-by-mos" -> "external-dependency"
    [] OTHER -> "no posture"
\* The publishing check's rules for the assessment itself.
AssessmentIsSound(review) ==
  /\ review.posture = PostureOf(review.egress, review.control)
  /\ review.posture # "no posture" /\ review.evidence
  /\ (review.egress = "none") = (review.outbound = {})

\* The rule the server itself applies: the review is of these very bytes.
ReviewBinds(p) == p.review.binds /\ p.review.of = p.id
Reviewed(p)    == p.review.status = "reviewed"
ReviewAccepted(p) == Reviewed(p) => ReviewBinds(p)

\* What the app's card shows: only a package of MOS's own shows a review.
PrivacyShown(i) == IF i.external THEN "not-assessed"
                   ELSE IF Reviewed(apps[i]) THEN apps[i].review.posture ELSE "review-required"

(***************************************************************************)
(* What one folder of the repository is read as.  Every rule broken is an  *)
(* error of the package; only a package without errors is installable.     *)
(***************************************************************************)
Published(r) == IF r["root"] # Absent THEN {"root"} ELSE {s \in Folders : r[s] # Absent}

ManifestErrors(p)   == IF p.sound THEN {} ELSE {"manifest"}
IdentityErrors(p)   == {e \in {"official-id", "reserved-prefix", "self-assertion"} :
                          \/ e = "official-id" /\ p.id \in {o.id : o \in {mos.checkout[id] : id \in OfficialIds}}
                          \/ e # "official-id" /\ e \in p.claims}
CapabilityErrors(p) == p.claims \cap {"forbidden-capability", "host-path", "long-host"}
PlatformErrors(p)   == IF mos.version < p.min THEN {"platform"} ELSE {}
FolderErrors(s, p)  == IF s # "root" /\ s # p.id THEN {"folder"} ELSE {}
PackageErrors(s, p) == ManifestErrors(p) \cup IdentityErrors(p) \cup CapabilityErrors(p)
                         \cup PlatformErrors(p) \cup FolderErrors(s, p)

\* The archive's reader refuses the whole folder over one entry it cannot place.
ArchiveRefused   == \E s \in Slots : repository[s] # Absent /\ "link" \in repository[s].claims
ReadPackage(s)   == [id |-> InstalledId(TRUE, repository[s].id), package |-> repository[s],
                     errors |-> PackageErrors(s, repository[s])]
ListPackages     == IF ArchiveRefused THEN {} ELSE {ReadPackage(s) : s \in Published(repository)}
\* The package an install or an update names; nothing is chosen for the owner.
Selected(i)      == {entry \in ListPackages : entry.id = i /\ entry.errors = {}}

(***************************************************************************)
(* The two channels of an official package.                                *)
(***************************************************************************)
InCatalog(id) == catalog.packages[id]
\* A branch's catalog is written for the code that follows it.
MeetsMinimumMos(min) == catalog.ref = "branch" \/ mos.version >= min

CheckoutCandidate(i) ==
  LET p == mos.checkout[i.id]
  IN  IF /\ p.sound
         /\ Installed(i) => CompareSemver(p.version, apps[i].version) > 0
         /\ InCatalog(i.id) # Absent => CompareSemver(p.version, InCatalog(i.id).version) > 0
      THEN p ELSE Absent
\* What the Apps page says of an installed official app.
OfficialOffer(i) ==
  IF CheckoutCandidate(i) # Absent
  THEN [package |-> CheckoutCandidate(i), takes |-> TRUE]
  ELSE IF /\ InCatalog(i.id) # Absent
          /\ CompareSemver(InCatalog(i.id).version, apps[i].version) > 0
       THEN [package |-> InCatalog(i.id), takes |-> MeetsMinimumMos(InCatalog(i.id).min)]
       ELSE [package |-> Absent, takes |-> FALSE]
\* Of an external one: from the cached listing, as old as the last look.
ExternalOffer(i) ==
  {card.package : card \in {card \in cards : /\ card.id = i /\ card.errors = {}
                                              /\ CompareSemver(card.package.version, apps[i].version) > 0}}

\* The Apps page: an installed app with what it is offered, every package of the
\* checkout, and what the added source lists that is not installed.
AppsPage ==
  {[id |-> i, status |-> "installed", installs |-> TRUE,
    offers |-> IF i.external THEN ExternalOffer(i) ELSE {OfficialOffer(i).package} \ {Absent}] :
      i \in {i \in Ids : Installed(i)}}
  \cup {[id |-> InstalledId(FALSE, id), status |-> "not-installed", installs |-> mos.checkout[id].sound, offers |-> {}] :
      id \in {id \in OfficialIds : ~Installed(InstalledId(FALSE, id))}}
  \cup {[id |-> card.id, status |-> "external", installs |-> card.errors = {}, offers |-> {}] :
      card \in {card \in cards : ~Installed(card.id)}}

\* The candidate an update downloads, decided by the source the app came from.
OfficialCandidate(i) ==
  IF CheckoutCandidate(i) # Absent
  THEN [package |-> CheckoutCandidate(i), met |-> TRUE]
  ELSE [package |-> InCatalog(i.id),
        met |-> InCatalog(i.id) # Absent /\ MeetsMinimumMos(InCatalog(i.id).min)]
Candidates(i) ==
  IF i.external THEN {[package |-> e.package, met |-> FALSE] : e \in Selected(i)}
  ELSE {OfficialCandidate(i)} \ {[package |-> Absent, met |-> FALSE]}

(***************************************************************************)
(* The comparison the owner previews and confirms.                         *)
(***************************************************************************)
TokenOfInstalled(i, p) == [installed |-> Digest(apps[i])]   \* mutant: without the candidate
Token(i, p) == [installed |-> Digest(apps[i]), candidate |-> Digest(p)]
\* What a package needs from the server, HTTPS say, and the server does not have.
HostRequirementsMet(p) == p.needs \cap mos.lacks = {}
Supported(c) == /\ c.met \/ mos.version >= c.package.min
                /\ c.package.sound /\ HostRequirementsMet(c.package)
\* What an app needs another to provide, when no installed app provides it.
ProvidedTo(i) == UNION {apps[j].provides : j \in {j \in Ids \ {i} : Installed(j)}}
UnmetRequirements(i, p) == IF p.requires \cap ProvidedTo(i) = {} THEN p.requires ELSE {}
AddedPermissions(i, p) == RequestedPermissions(i, p) \ RequestedPermissions(i, apps[i])
\* What makes an update the owner's to decide: wider access of a package nobody
\* reviewed, and an outside host the installed version uses not contact.
Asks(i, p) == (IF i.external THEN AddedPermissions(i, p) ELSE {})
                \cup (IF i.external \/ ~Reviewed(p) \/ ~Reviewed(apps[i]) THEN {}
                      ELSE p.review.outbound \ apps[i].review.outbound)
                \cup (IF UnmetRequirements(i, apps[i]) = {} THEN UnmetRequirements(i, p) ELSE {})

(***************************************************************************)
(* What is published.                                                      *)
(***************************************************************************)
Uses(what) == uses[what] > 0 /\ uses' = [uses EXCEPT ![what] = @ - 1]
Decides == Uses("decision")

OfferInit ==
  /\ \E p \in [OfficialIds -> OfficialPackages] :
       /\ \A id \in OfficialIds : p[id].id = id /\ p[id].sound /\ p[id].min <= 1
       /\ published = [ref \in Refs |-> p]
       /\ mos = [version |-> 1, ref |-> "main", checkout |-> p, lacks |-> Lacking]
  /\ repository = [s \in Slots |-> Absent]
  /\ catalog = NoCatalog /\ cards = {} /\ apps = [i \in Ids |-> Absent] /\ links = {}
  /\ confirmed = [i \in Ids |-> NoPreview] /\ consented = [i \in Ids |-> {}]
  /\ downgrades = 0 /\ uses \in Budgets

\* A catalog only lists packages that read well.
Publish(ref, p) ==
  /\ Uses("publish") /\ p.sound
  /\ published' = [published EXCEPT ![ref][p.id] = p]
  /\ UNCHANGED <<repository, mos, catalog, cards, apps, links, confirmed, consented, downgrades>>

Push(slot, p) ==
  /\ Uses("publish") /\ repository[slot] # p
  /\ repository' = [repository EXCEPT ![slot] = p]
  /\ UNCHANGED <<published, mos, catalog, cards, apps, links, confirmed, consented, downgrades>>

(***************************************************************************)
(* What the server reads.                                                  *)
(***************************************************************************)
RefreshCatalog ==
  /\ catalog' = [ref |-> mos.ref, packages |-> published[mos.ref]] /\ catalog' # catalog
  /\ UNCHANGED <<published, repository, mos, cards, apps, links, confirmed, consented, downgrades, uses>>

RefreshSource ==
  /\ ~ArchiveRefused /\ cards' = ListPackages /\ cards' # cards
  /\ UNCHANGED <<published, repository, mos, catalog, apps, links, confirmed, consented, downgrades, uses>>

\* A release brings its own checkout; a move to a branch brings that branch's.
MosUpdate(ref, p) ==
  /\ Uses("mos")
  /\ mos' = [version |-> IF ref = "main" THEN mos.version + 1 ELSE mos.version, ref |-> ref,
             checkout |-> [mos.checkout EXCEPT ![p.id] = p], lacks |-> mos.lacks]
  /\ UNCHANGED <<published, repository, catalog, cards, apps, links, confirmed, consented, downgrades>>

\* The suite is served over HTTPS, a drive is plugged in.
HostGains(what) ==
  /\ what \in mos.lacks /\ mos' = [mos EXCEPT !.lacks = @ \ {what}]
  /\ UNCHANGED <<published, repository, catalog, cards, apps, links, confirmed, consented, downgrades, uses>>

(***************************************************************************)
(* What the owner does.                                                    *)
(***************************************************************************)
InstalledAs(i, p) ==
  /\ apps' = [apps EXCEPT ![i] = p] /\ consented' = [consented EXCEPT ![i] = RequestedPermissions(i, p)]
  /\ UNCHANGED <<published, repository, mos, catalog, cards, links, downgrades>>

\* Installed from the checkout whatever the catalog says; the version of MOS it
\* names is for the catalog's packages and is not looked at.
InstallPackage(i) ==
  LET p == mos.checkout[i.id]
  IN  /\ ~i.external /\ ~Installed(i) /\ p.sound /\ HostRequirementsMet(p)
      /\ ~AddressTaken(i, p) /\ ReviewAccepted(p) /\ Decides /\ InstalledAs(i, p) /\ UNCHANGED confirmed

InstallExternalPackage(i) ==
  /\ i.external /\ ~Installed(i) /\ Decides /\ UNCHANGED confirmed
  /\ \E e \in Selected(i) : /\ HostRequirementsMet(e.package) /\ RouteHostsAvailable(i, e.package)
                             /\ InstalledAs(i, e.package)

PreparePackageUpdate(i) ==
  /\ Installed(i) /\ Decides
  /\ \E c \in Candidates(i) :
       confirmed' = [confirmed EXCEPT ![i] = [token |-> Token(i, c.package), asks |-> Asks(i, c.package)]]
  /\ UNCHANGED <<published, repository, mos, catalog, cards, apps, links, consented, downgrades>>

\* The candidate is downloaded anew and must be the one the owner confirmed.
Updatable(i, c) ==
  /\ confirmed[i] # NoPreview /\ confirmed[i].token = Token(i, c.package)
  /\ Supported(c) /\ CompareSemver(c.package.version, apps[i].version) # 0
  /\ i.external => RouteHostsAvailable(i, c.package)
  /\ ReviewAccepted(c.package) \/ i.external

UpdateApplied(i, p) ==
  /\ apps' = [apps EXCEPT ![i] = p] /\ confirmed' = [confirmed EXCEPT ![i] = NoPreview]
  /\ consented' = [consented EXCEPT ![i] = RequestedPermissions(i, apps[i]) \cup confirmed[i].asks]
  /\ UNCHANGED <<published, repository, mos, catalog, cards, links>>

StagePackageUpdate(i) ==
  /\ Installed(i) /\ Decides /\ UNCHANGED downgrades
  /\ \E c \in Candidates(i) : /\ Updatable(i, c)
                               /\ CompareSemver(c.package.version, apps[i].version) > 0
                               /\ UpdateApplied(i, c.package)
\* The explicit decision to take an older package.
StageDowngrade(i) ==
  /\ Installed(i) /\ Decides /\ downgrades' = downgrades + 1
  /\ \E c \in Candidates(i) : /\ Updatable(i, c)
                               /\ CompareSemver(c.package.version, apps[i].version) < 0
                               /\ UpdateApplied(i, c.package)

Uninstall(i) ==
  /\ Installed(i) /\ Decides /\ apps' = [apps EXCEPT ![i] = Absent]
  /\ confirmed' = [confirmed EXCEPT ![i] = NoPreview]
  /\ consented' = [consented EXCEPT ![i] = {}]
  /\ UNCHANGED <<published, repository, mos, catalog, cards, links, downgrades>>

\* A link may not take the address of an installed app.
AddLink(host) ==
  /\ Decides /\ host \notin links
  /\ \A i \in Ids : Installed(i) => EffectiveHost(i, apps[i]) # [external |-> FALSE, host |-> host]
  /\ links' = links \cup {host}
  /\ UNCHANGED <<published, repository, mos, catalog, cards, apps, confirmed, consented, downgrades>>

OfferNext ==
  \/ \E ref \in Refs, p \in OfficialPackages : Publish(ref, p) \/ MosUpdate(ref, p)
  \/ \E slot \in Slots, p \in ExternalPackages \cup {Absent} : Push(slot, p)
  \/ RefreshCatalog \/ RefreshSource
  \/ \E what \in Lacking : HostGains(what)
  \/ \E i \in Ids : \/ InstallPackage(i) \/ InstallExternalPackage(i)
                    \/ PreparePackageUpdate(i) \/ StagePackageUpdate(i) \/ StageDowngrade(i)
                    \/ Uninstall(i)
  \/ \E host \in Links : AddLink(host)

OfferSpec == OfferInit /\ [][OfferNext]_offerVars

(***************************************************************************)
(* Properties.  The order of versions a property speaks of is given by     *)
(* rank, each package's place among the releases, and not computed.        *)
(***************************************************************************)
OfferTypeOK ==
  /\ \A i \in Ids : apps[i] \in {Absent} \cup (IF i.external THEN ExternalPackages ELSE OfficialPackages)
  /\ links \subseteq Links /\ catalog.ref \in Refs \cup {"none"}

\* An app never runs an older package than before unless the owner chose one,
\* however its source was rewritten between the look and the update.
GoesNotBack ==
  \A i \in Ids : (Installed(i) /\ apps'[i] # Absent /\ downgrades' = downgrades)
                   => apps'[i].rank >= apps[i].rank
NeverGoesBack == [][GoesNotBack]_offerVars

\* No external app answers at another installed app's address, however many
\* were installed and whatever their updates moved.
AddressesAreDistinct ==
  \A i, j \in {i \in Ids : Installed(i)} :
    (i # j /\ i.external) => EffectiveHost(i, apps[i]) # EffectiveHost(j, apps[j])

\* An external app runs only access the owner was shown, at the install or in
\* the preview of the update that brought it.
AccessIsConsented ==
  \A i \in Ids : Installed(i) /\ i.external => RequestedPermissions(i, apps[i]) \subseteq consented[i]

\* The update the Apps page offers for an official app is the one that would be
\* taken: the same package, and not one this server's version refuses.
OfferIsTheCandidate ==
  \A card \in AppsPage : ~card.id.external =>
    \A p \in card.offers : \E c \in Candidates(card.id) :
       c.package = p /\ (OfficialOffer(card.id).takes => (c.met \/ mos.version >= p.min))

\* An installed id is the app it was, whatever folder its source keeps it in.
IdentityIsKept == \A i \in Ids : Installed(i) => apps[i].id = i.id

\* A review an app's card shows is of the package it runs.
ReviewIsOfThePackage ==
  \A i \in Ids : (Installed(i) /\ PrivacyShown(i) \notin {"not-assessed", "review-required"})
                   => apps[i].review.binds

\* No external app answers at another app's address, the access it has is what the owner
\* was asked for, and an update offered, previewed and reviewed is of that very package
\* (official-catalog-service.cjs, app-update-service.cjs).
OffersAreSound ==
  AddressesAreDistinct /\ AccessIsConsented /\ OfferIsTheCandidate /\ IdentityIsKept /\ ReviewIsOfThePackage

\* package-contracts.cjs:370-374: the server enforces a review's semantics.
PostureIsDerived ==
  \A i \in Ids : (Installed(i) /\ ~i.external /\ Reviewed(apps[i])) => AssessmentIsSound(apps[i].review)
=============================================================================
