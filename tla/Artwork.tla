------------------------------- MODULE Artwork --------------------------------
(***************************************************************************)
(* The logos on one side of a roadmap node.  A logo is named by the file   *)
(* of the staged set that draws it: some come as a pair, one file for a    *)
(* light canvas and one for a dark one.  The file's artwork is embedded    *)
(* when the logo is picked, or fetched afterwards for one that came by its *)
(* name only; an upload carries its own.                                   *)
(***************************************************************************)
EXTENDS Naturals, FiniteSets, SequencesExt

CONSTANTS
    Logos,         \* brands of the staged set
    Paired,        \* those drawn by a file of its own for each canvas
    NoFile,
    IconsPerSide,  \* LIMITS.iconsPerSide
    MaxPicks,      \* bound: logos picked
    MaxUploads,    \* bound
    MaxFailures,   \* bound: fetches that fail
    MaxFlips,      \* bound: changes of the canvas
    MaxVisits,     \* bound: reloads and shared links opened
    Leaves         \* whether the owner leaves the chooser while it fetches

VARIABLES
    icons,      \* entry.icons: [file, source, art]
    canvas,     \* the scheme of the canvas: "light" or "dark"
    chooser,    \* the panel: [open, adding]
    fetching,   \* logos picked whose artwork is on its way: [file, shown]
    flips,      \* schemes being applied, the catalog on its way
    hydration,  \* [on, pending, stale]: artwork fetched for what is on screen,
                \* and what was being fetched for earlier documents
    attempted,  \* files whose artwork could not be had, this visit
    count       \* [picks, uploads, failures, flips, visits]

artworkVars == <<icons, canvas, chooser, fetching, flips, hydration, attempted, count>>

Schemes == {"light", "dark"}
File(logo, scheme) == [logo |-> logo, for |-> IF logo \in Paired THEN scheme ELSE "both"]
Upload(n) == [logo |-> n, for |-> "upload"]
Icon(file, source, art) == [file |-> file, source |-> source, art |-> art]

Full == Len(icons) >= IconsPerSide

(* Selected under either file of its pair, it is not offered again. *)
Selected(file) == \E i \in DOMAIN icons :
                    icons[i].source = "dashboard" /\ icons[i].file.logo = file.logo

-----------------------------------------------------------------------------
(* What is on screen changed: artwork is fetched for the logos that have   *)
(* none, the ones that failed before excepted, and what was being fetched  *)
(* for the earlier document is no longer applied.                          *)
Missing(list) == {list[i].file : i \in {j \in DOMAIN list :
                    list[j].source = "dashboard" /\ list[j].art = NoFile}}

HydrationOf(list, failed, stale) ==
    LET pending == Missing(list) \ failed IN
    [on |-> pending # {}, pending |-> pending, stale |-> stale]

Drawn(list, failed) ==
    /\ icons' = list
    /\ hydration' = HydrationOf(list, failed, hydration.stale \cup hydration.pending)

Fetched(list, got) ==
    [i \in DOMAIN list |->
       IF list[i].source = "dashboard" /\ list[i].art = NoFile /\ list[i].file \in got
       THEN [list[i] EXCEPT !.art = list[i].file] ELSE list[i]]

Remembered(pending, got) == attempted \cup (pending \ got)

(* Some arrive and some fail; only the failures are remembered. *)
ArtworkArrives(got) ==
    LET failed == hydration.pending \ got IN
    /\ hydration.on
    /\ count.failures + Cardinality(failed) <= MaxFailures
    /\ attempted' = Remembered(hydration.pending, got)
    /\ icons' = Fetched(icons, got)
    /\ hydration' = IF got = {} THEN [hydration EXCEPT !.on = FALSE, !.pending = {}]
                    ELSE HydrationOf(icons', attempted', hydration.stale)
    /\ count' = [count EXCEPT !.failures = @ + Cardinality(failed)]
    /\ UNCHANGED <<canvas, chooser, fetching, flips>>

(* What was fetched for an earlier document is not applied; that it failed *)
(* is remembered.                                                          *)
StaleFails(file) ==
    /\ file \in hydration.stale /\ count.failures < MaxFailures
    /\ attempted' = attempted \cup {file}
    /\ hydration' = [hydration EXCEPT !.stale = @ \ {file}]
    /\ count' = [count EXCEPT !.failures = @ + 1]
    /\ UNCHANGED <<icons, canvas, chooser, fetching, flips>>

-----------------------------------------------------------------------------
(* Picking.                                                                *)
LeaveChooser ==
    /\ Leaves \/ chooser.adding = NoFile
    /\ chooser.open
    /\ chooser' = [open |-> FALSE, adding |-> NoFile]
    /\ fetching' = [n \in DOMAIN fetching |-> [fetching[n] EXCEPT !.shown = FALSE]]
    /\ UNCHANGED <<icons, canvas, flips, hydration, attempted, count>>

OpenChooser ==
    /\ ~chooser.open
    /\ chooser' = [open |-> TRUE, adding |-> NoFile]
    /\ UNCHANGED <<icons, canvas, fetching, flips, hydration, attempted, count>>

(* The file is the one for the canvas as it is when the logo is picked. *)
IconIdForScheme(logo, scheme) == File(logo, scheme)

AddIcon(logo) ==
    LET file == IconIdForScheme(logo, canvas) IN
    /\ chooser.open /\ chooser.adding = NoFile /\ ~Selected(file) /\ ~Full
    /\ count.picks < MaxPicks
    /\ chooser' = [chooser EXCEPT !.adding = file]
    /\ fetching' = Append(fetching, [file |-> file, shown |-> TRUE])
    /\ count' = [count EXCEPT !.picks = @ + 1]
    /\ UNCHANGED <<icons, canvas, flips, hydration, attempted>>

AddIconToEntry(list, icon) == IF Len(list) >= IconsPerSide THEN list ELSE Append(list, icon)

NoLongerAdding(n) ==
    IF fetching[n].shown THEN [chooser EXCEPT !.adding = NoFile] ELSE chooser

(* It lands wherever the node is by then, the chooser open or not. *)
IconArrives(n) ==
    /\ Drawn(AddIconToEntry(icons, Icon(fetching[n].file, "dashboard", fetching[n].file)),
             attempted)
    /\ chooser' = NoLongerAdding(n)
    /\ fetching' = RemoveAt(fetching, n)
    /\ UNCHANGED <<canvas, flips, attempted, count>>

IconRefused(n) ==
    /\ count.failures < MaxFailures
    /\ chooser' = NoLongerAdding(n)
    /\ fetching' = RemoveAt(fetching, n)
    /\ count' = [count EXCEPT !.failures = @ + 1]
    /\ UNCHANGED <<icons, canvas, flips, hydration, attempted>>

UploadIcon ==
    LET file == Upload(count.uploads + 1) IN
    /\ chooser.open /\ ~Full /\ count.uploads < MaxUploads
    /\ Drawn(AddIconToEntry(icons, Icon(file, "upload", file)), attempted)
    /\ count' = [count EXCEPT !.uploads = @ + 1]
    /\ UNCHANGED <<canvas, chooser, fetching, flips, attempted>>

RemoveIcon(i) ==
    /\ chooser.open
    /\ Drawn(RemoveAt(icons, i), attempted)
    /\ UNCHANGED <<canvas, chooser, fetching, flips, attempted, count>>

-----------------------------------------------------------------------------
(* The canvas.                                                             *)
ApplyScheme(scheme) ==
    /\ ~chooser.open /\ count.flips < MaxFlips
    /\ flips' = Append(flips, scheme)
    /\ count' = [count EXCEPT !.flips = @ + 1]
    /\ UNCHANGED <<icons, canvas, chooser, fetching, hydration, attempted>>

(* A logo of a pair is pointed at its other file, whose artwork it has not *)
(* got yet.                                                                *)
Repointed(list, scheme) ==
    [i \in DOMAIN list |->
       LET file == IconIdForScheme(list[i].file.logo, scheme) IN
       IF list[i].source = "dashboard" /\ list[i].file.logo \in Paired /\ file # list[i].file
       THEN [list[i] EXCEPT !.file = file, !.art = NoFile] ELSE list[i]]

(* Without the catalog the palette changes all the same. *)
SchemeLands(known) ==
    /\ flips # <<>> /\ (~known => count.failures < MaxFailures)
    /\ canvas' = Head(flips) /\ flips' = Tail(flips)
    /\ Drawn(IF known THEN Repointed(icons, Head(flips)) ELSE icons, attempted)
    /\ count' = [count EXCEPT !.failures = IF known THEN @ ELSE @ + 1]
    /\ UNCHANGED <<chooser, fetching, attempted>>

(* A background picked by hand moves no logo. *)
PickBackground(scheme) ==
    /\ ~chooser.open /\ scheme # canvas /\ count.flips < MaxFlips
    /\ canvas' = scheme
    /\ Drawn(icons, attempted)
    /\ count' = [count EXCEPT !.flips = @ + 1]
    /\ UNCHANGED <<chooser, fetching, flips, attempted>>

-----------------------------------------------------------------------------
(* The next visit: what was on its way is gone and every file is tried     *)
(* again.  A link carries the staged logos by name only.                   *)
Stripped(list) ==
    [i \in DOMAIN list |-> IF list[i].source = "dashboard" THEN [list[i] EXCEPT !.art = NoFile]
                           ELSE list[i]]

Visit(list) ==
    /\ count.visits < MaxVisits
    /\ attempted' = {} /\ fetching' = <<>> /\ flips' = <<>>
    /\ chooser' = [open |-> TRUE, adding |-> NoFile]
    /\ icons' = list
    /\ hydration' = HydrationOf(list, {}, {})
    /\ count' = [count EXCEPT !.visits = @ + 1]
    /\ UNCHANGED canvas

Reload == Visit(icons)
OpenSharedLink == Visit(Stripped(icons))

-----------------------------------------------------------------------------
(* A template brings its logos by name. *)
ArtworkInit ==
    /\ icons \in {<<>>} \cup {<<Icon(File(l, "light"), "dashboard", NoFile)>> : l \in Logos}
    /\ canvas = "light"
    /\ hydration = HydrationOf(icons, {}, {})
    /\ chooser = [open |-> TRUE, adding |-> NoFile]
    /\ fetching = <<>> /\ flips = <<>> /\ attempted = {}
    /\ count = [picks |-> 0, uploads |-> 0, failures |-> 0, flips |-> 0, visits |-> 0]

ArtworkNext ==
    \/ LeaveChooser \/ OpenChooser \/ UploadIcon \/ Reload \/ OpenSharedLink
    \/ \E got \in SUBSET hydration.pending : ArtworkArrives(got)
    \/ \E file \in hydration.stale : StaleFails(file)
    \/ \E logo \in Logos : AddIcon(logo)
    \/ \E n \in DOMAIN fetching : IconArrives(n) \/ IconRefused(n)
    \/ \E i \in DOMAIN icons : RemoveIcon(i)
    \/ \E scheme \in Schemes : ApplyScheme(scheme) \/ PickBackground(scheme)
    \/ \E known \in BOOLEAN : SchemeLands(known)

ArtworkSpec == ArtworkInit /\ [][ArtworkNext]_artworkVars

-----------------------------------------------------------------------------
(* However fetches, flips of the canvas and edits interleave, what a logo  *)
(* draws is the artwork of the file it names, an upload never loses the    *)
(* only copy of its artwork, and a logo without artwork is one whose fetch *)
(* failed on this visit or is still on its way (icon-hydration.ts:9-50).   *)
ArtworkFollowsTheIcon ==
    \A i \in DOMAIN icons :
      /\ icons[i].art \in {NoFile, icons[i].file}
      /\ icons[i].source = "upload" => icons[i].art # NoFile
      /\ icons[i].art = NoFile =>
           icons[i].file \in hydration.pending \cup attempted
      /\ Cardinality(attempted) <= count.failures

(* A side holds no logo twice, under either file of its pair               *)
(* (page.tsx:1584-1601).                                                   *)
NoLogoTwice ==
    \A i, j \in DOMAIN icons :
      (icons[i].source = "dashboard" /\ icons[j].source = "dashboard"
        /\ icons[i].file.logo = icons[j].file.logo) => i = j
=============================================================================
