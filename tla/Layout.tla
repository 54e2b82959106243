-------------------------------- MODULE Layout --------------------------------
(***************************************************************************)
(* How a roadmap is drawn: the design the owner sets in the inspector, the *)
(* geometry the layout engine derives from it and from the row of nodes,   *)
(* and the boxes the canvas fills.  Lengths are counted in a thousandth    *)
(* of a pixel, shares in hundredths.  A label is a sequence of lines, each *)
(* a sequence of word lengths.  The row is given in drawing order, the     *)
(* done nodes first, as Roadmap shows it to be.                            *)
(***************************************************************************)
EXTENDS Integers, FiniteSets, SequencesExt

CONSTANTS
    Rows,          \* rows of nodes to draw
    Default,       \* the design a roadmap starts with
    Scales, Spacings, LaneGaps, IconSizes,      \* values a slider is dragged to
    Sizes, Margins, NodeWidths, Tensions,       \* values typed into a field
    Legend,        \* how long the two labels of the legend are
    BrandChars, NoteChars,                      \* and the signature's two lines
    MaxEdits       \* bound: changes to the design

VARIABLES
    design,     \* doc.layout and doc.metadata, as far as they move anything
    row,        \* the nodes, each with whether it is done on the day shown
    edits

layoutVars == <<design, row, edits>>

Px == 1000
Larger(a, b) == IF a >= b THEN a ELSE b
Smaller(a, b) == IF a <= b THEN a ELSE b
Largest(S) == CHOOSE x \in S : \A y \in S : x >= y
Share(x, hundredths) == (x * hundredths) \div 100
Clamp(v, range) == Smaller(range[2], Larger(range[1], v))
Whole(x) == ((x + Px \div 2) \div Px) * Px
Ceil(x) == ((x + Px - 1) \div Px) * Px

LayoutRanges ==
    [width |-> <<760 * Px, 8000 * Px>>, height |-> <<640 * Px, 5000 * Px>>,
     outer |-> <<24 * Px, 300 * Px>>, spacing |-> <<8 * Px, 400 * Px>>,
     scale |-> <<80, 240>>, minNode |-> <<54 * Px, 280 * Px>>,
     icon |-> <<24 * Px, 110 * Px>>, lanes |-> <<150 * Px, 650 * Px>>,
     tension |-> <<35, 140>>]

-----------------------------------------------------------------------------
(* Type.                                                                   *)
IsSocial(d) == d.mode = "fixed" /\ d.height >= 1400 * Px

PlateHalf == 38 * Px

Metrics(d) ==
    LET s == d.scale * 10
        Sized(social, other) == (IF IsSocial(d) THEN social ELSE other) * s
    IN [scale |-> s, title |-> Sized(64, 52), subtitle |-> Sized(22, 18), lane |-> 14 * s,
        category |-> Sized(15, 12), glyph |-> Sized(34, 30), nodeLabel |-> Sized(14, 13),
        nodeLine |-> 17 * s, date |-> 13 * s, legend |-> Sized(22, 14),
        dot |-> Sized(12, 9), brand |-> Sized(33, 22), mark |-> Sized(76, 50),
        laneOffset |-> PlateHalf + 28 * s, categoryOffset |-> PlateHalf + 68 * s,
        labelOffset |-> PlateHalf + 40 * s, dateOffset |-> 36 * s, timelineOffset |-> 16 * s]

(* Each explicit line is broken before the word that no longer fits, and   *)
(* three lines are kept.                                                   *)
Wrap(words) ==
    FoldLeft(LAMBDA lines, word :
               IF lines # <<>> /\ Last(lines) + 1 + word <= 22
               THEN Append(Front(lines), Last(lines) + 1 + word) ELSE Append(lines, word),
             <<>>, words)

SplitLabel(label) ==
    LET lines == FlattenSeq([i \in DOMAIN label |->
                   IF label[i] = <<>> THEN <<0>> ELSE Wrap(label[i])])
    IN SubSeq(lines, 1, Smaller(3, Len(lines)))

Longest(label) == Largest({1} \cup Range(SplitLabel(label)))

EstimateLabelWidth(label, size) ==
    Smaller((260 * size) \div 14, Longest(label) * Share(size, 56) + 16 * Px)

LabelReach(labels, m) ==
    LET lines == Largest({1} \cup {Len(SplitLabel(l)) : l \in labels}) IN
    m.labelOffset + (lines - 1) * m.nodeLine + Share(m.nodeLabel, 40)

CategoryMarker(d, m) ==
    LET glyph == IF d.display # "text" THEN m.glyph ELSE 0
        iconTop == 12 * m.scale + glyph
        baseline == IF d.display # "text" THEN iconTop + 9 * m.scale ELSE 16 * m.scale
    IN [iconTop |-> iconTop, baseline |-> baseline,
        reach |-> IF d.display # "icon" THEN baseline + Share(m.category, 75) ELSE iconTop]

LegendSecondX(m) ==
    m.dot + 13 * m.scale + Larger(Legend[1] * Share(m.legend, 62), 120 * m.scale) + 26 * m.scale
LegendWidth(m) == LegendSecondX(m) + m.dot + 13 * m.scale + Legend[2] * Share(m.legend, 62)

BrandText(m) ==
    Larger(BrandChars * Share(m.brand, 60), NoteChars * Share(Share(m.brand, 62), 60))
BrandWidth(m) == Share(m.mark, 124) + BrandText(m)

-----------------------------------------------------------------------------
(* Columns.  What is in use is on top.                                     *)
TopOf(n) == IF n.done THEN n.replacement ELSE n.source
BottomOf(n) == IF n.done THEN n.source ELSE n.replacement

PlateWidth(side, d) ==
    LET icons == Larger(1, side.icons) * d.icon
                 + (IF side.icons = 0 THEN 0 ELSE (side.icons - 1) * 8 * Px)
    IN Larger(d.minNode, icons + 26 * Px)

WidestPlate(n, d) == Larger(PlateWidth(n.source, d), PlateWidth(n.replacement, d))

ColumnWidth(n, d, m) ==
    Largest({PlateWidth(n.source, d), PlateWidth(n.replacement, d),
             EstimateLabelWidth(n.source.label, m.nodeLabel),
             EstimateLabelWidth(n.replacement.label, m.nodeLabel),
             n.date * Share(m.date, 62) + 12 * Px,
             IF d.categories /\ d.display # "icon"
             THEN n.category * Share(m.category, 62) + 12 * Px ELSE 0,
             86 * Px})

-----------------------------------------------------------------------------
(* The bands, from the top down, each pushed clear of the labels above it. *)
Header(d, m) ==
    LET title == IF IsSocial(d) THEN 220 * Px ELSE Larger(116 * Px, 60 * Px + 56 * m.scale)
    IN [title |-> title,
        subtitle |-> IF ~d.title THEN title
                     ELSE IF IsSocial(d) THEN 278 * Px ELSE title + 44 * m.scale]

Headroom(d, m) ==
    Larger(IF d.categories THEN m.categoryOffset + CategoryMarker(d, m).reach ELSE 0,
           m.laneOffset + Share(m.lane, 120))

ContentTop(d, m) ==
    LET h == Header(d, m)
        bottom == IF d.subtitle THEN h.subtitle ELSE IF d.title THEN h.title ELSE 0
    IN IF bottom # 0 THEN bottom + Share(m.subtitle, 40) + 18 * m.scale + Headroom(d, m)
       ELSE d.outer + Headroom(d, m)

RequestedHeight(d) == Larger(640 * Px, d.height)

TopY(d, m) ==
    Larger(IF d.mode = "auto" THEN 0
           ELSE Whole(Share(RequestedHeight(d), IF IsSocial(d) THEN 38 ELSE 39)),
           ContentTop(d, m))

LaneSeparation(d, r, m) ==
    Larger(d.lanes, LabelReach({TopOf(r[i]).label : i \in DOMAIN r}, m)
                    + m.laneOffset + Share(m.lane, 130))

BottomY(d, r, m) == TopY(d, m) + LaneSeparation(d, r, m)

TimelineY(d, r, m) ==
    Larger(IF IsSocial(d) THEN Whole(Share(RequestedHeight(d), 64)) ELSE 0,
           BottomY(d, r, m)
           + Larger(173 * Px, LabelReach({BottomOf(r[i]).label : i \in DOMAIN r}, m)
                              + m.timelineOffset + Share(m.lane, 140) + 10 * Px))

LegendY(d, r, m) ==
    Larger(IF IsSocial(d) THEN Whole(Share(RequestedHeight(d), 73)) ELSE 0,
           TimelineY(d, r, m)
           + Larger(95 * Px, m.dateOffset + Share(m.date, 120) + 40 * m.scale))

NeededHeight(d, r, m) ==
    Ceil(IF IsSocial(d)
         THEN LegendY(d, r, m) + Share(m.legend, 120) + 154 * m.scale + m.mark \div 2
         ELSE LegendY(d, r, m) + Larger(52 * Px, Share(m.mark, 75)))

Height(d, r, m) ==
    IF d.mode = "auto" THEN NeededHeight(d, r, m)
    ELSE Larger(RequestedHeight(d), NeededHeight(d, r, m))

Bands(d, r, m) ==
    [top |-> TopY(d, m), bottom |-> BottomY(d, r, m), timeline |-> TimelineY(d, r, m),
     legend |-> LegendY(d, r, m), height |-> Height(d, r, m)]

(* A tall social canvas has a row of its own for the signature. *)
BrandY(d, y, m) == IF IsSocial(d) THEN y.height - 154 * m.scale ELSE y.legend

-----------------------------------------------------------------------------
(* The row, from left to right.                                            *)
Crosses(r, i) == r[i].done # r[i + 1].done

CenterGaps(d, r, m) ==
    [i \in 1..(Len(r) - 1) |->
       LET base == (ColumnWidth(r[i], d, m) + ColumnWidth(r[i + 1], d, m)) \div 2
                   + Clamp(d.spacing, <<4 * Px, 600 * Px>>)
           run == Larger(120 * Px, Share(LaneSeparation(d, r, m), Clamp(d.tension, <<35, 140>>)))
       IN IF ~Crosses(r, i) THEN base
          ELSE Larger(base, (WidestPlate(r[i], d) + WidestPlate(r[i + 1], d)) \div 2 + run)]

SumOf(seq) == FoldLeft(LAMBDA a, b : a + b, 0, seq)

Halves(d, r, m) == (ColumnWidth(r[1], d, m) + ColumnWidth(Last(r), d, m)) \div 2

(* The legend and the signature share the bottom row. *)
Intrinsic(d, r, m) ==
    Larger(2 * d.outer + LegendWidth(m) + 48 * m.scale + BrandWidth(m),
           IF r = <<>> THEN Larger(760 * Px, IF d.mode = "auto" THEN 1200 * Px ELSE d.width)
           ELSE 2 * d.outer + Halves(d, r, m) + SumOf(CenterGaps(d, r, m)))

Width(d, r, m) ==
    Ceil(IF d.mode = "auto" THEN Intrinsic(d, r, m)
         ELSE Larger(Larger(760 * Px, d.width), Intrinsic(d, r, m)))

(* An exact canvas that is wider than needed spreads the nodes over it.    *)
Spread(d, r, m) ==
    IF d.mode = "fixed" /\ Len(r) > 1
    THEN Larger(0, Width(d, r, m) - 2 * d.outer - Halves(d, r, m) - SumOf(CenterGaps(d, r, m)))
         \div (Len(r) - 1)
    ELSE 0

Placed(d, r, m, gaps, spread) ==
    [i \in DOMAIN r |->
       [x |-> d.outer + ColumnWidth(r[1], d, m) \div 2
              + SumOf(SubSeq(gaps, 1, i - 1)) + (i - 1) * spread,
        width |-> ColumnWidth(r[i], d, m),
        top |-> PlateWidth(TopOf(r[i]), d), bottom |-> PlateWidth(BottomOf(r[i]), d)]]
Nodes(d, r, m) == Placed(d, r, m, CenterGaps(d, r, m), Spread(d, r, m))

(* The marker of the day shown stands between the last node that is done   *)
(* and the first that is not.                                              *)
ViewMarkerX(r, nodes) ==
    LET reached == Cardinality({i \in DOMAIN r : r[i].done}) IN
    IF reached = 0 THEN nodes[1].x
    ELSE IF reached >= Len(r) THEN nodes[Len(r)].x
    ELSE (nodes[reached].x + nodes[reached + 1].x) \div 2

(* The line of a category from one node to the next, in the lane it is in. *)
LaneFor(n, category) ==
    IF (category = "independent") = n.done THEN "top" ELSE "bottom"
HalfPlate(node, lane) == (IF lane = "top" THEN node.top ELSE node.bottom) \div 2
WidestHalf(node) == Larger(node.top, node.bottom) \div 2

PathFor(category, r, nodes, i, tension) ==
    LET from == LaneFor(r[i], category) to == LaneFor(r[i + 1], category)
        start == nodes[i].x + WidestHalf(nodes[i])
        end == nodes[i + 1].x - WidestHalf(nodes[i + 1])
        run == end - start
    IN [from |-> from, to |-> to,
        leaves |-> nodes[i].x + HalfPlate(nodes[i], from),
        enters |-> nodes[i + 1].x - HalfPlate(nodes[i + 1], to),
        curve |-> IF from = to THEN <<>>
                  ELSE <<start, start + Smaller(Share(run, 48),
                                  Larger(44 * Px, Share(run, Clamp(tension, <<20, 80>>)))), end>>]

-----------------------------------------------------------------------------
(* What the canvas draws, as boxes from top to bottom: type rises three    *)
(* quarters of its size above its baseline and falls a quarter below it.   *)
TypeBox(baseline, size) ==
    [from |-> baseline - Share(size, 75), to |-> baseline + Share(size, 25)]

HeaderBoxes(d, m) ==
    LET h == Header(d, m) IN
    (IF d.title THEN <<TypeBox(h.title, m.title)>> ELSE <<>>)
    \o (IF d.subtitle THEN <<TypeBox(h.subtitle, m.subtitle)>> ELSE <<>>)

MarkerBox(d, y, m) ==
    IF ~d.categories THEN <<>>
    ELSE <<[from |-> y - CategoryMarker(d, m).reach, to |-> y - 12 * m.scale]>>

LaneBoxes(y, m) ==
    <<TypeBox(y - m.laneOffset, m.lane), [from |-> y - PlateHalf, to |-> y + PlateHalf]>>

(* Several lines are centred on where a single one would be. *)
NodeLabelBox(y, labels, m) ==
    LET lines == Largest({1} \cup {Len(SplitLabel(l)) : l \in labels})
        start == y + m.labelOffset - ((lines - 1) * m.nodeLine) \div 2
    IN <<[from |-> start - Share(m.nodeLabel, 75),
          to |-> start + (lines - 1) * m.nodeLine + Share(m.nodeLabel, 25)]>>

TimelineBoxes(y, m) ==
    <<TypeBox(y - m.timelineOffset, m.lane), [from |-> y - 4 * m.scale, to |-> y + 4 * m.scale],
      TypeBox(y + m.dateOffset, m.date)>>

LegendBox(y, m) == [from |-> y - m.dot, to |-> y + m.dot]
BrandBox(y, m) == [from |-> y - m.mark \div 2, to |-> y + m.mark \div 2]

BottomBoxes(d, legend, brand) ==
    IF IsSocial(d) THEN <<legend, brand>>
    ELSE <<[from |-> Smaller(legend.from, brand.from), to |-> Larger(legend.to, brand.to)]>>

Boxes(d, r, m, y) ==
    HeaderBoxes(d, m) \o MarkerBox(d, y.top - m.categoryOffset, m) \o LaneBoxes(y.top, m)
    \o NodeLabelBox(y.top, {TopOf(n).label : n \in Range(r)}, m) \o LaneBoxes(y.bottom, m)
    \o NodeLabelBox(y.bottom, {BottomOf(n).label : n \in Range(r)}, m)
    \o TimelineBoxes(y.timeline, m)
    \o BottomBoxes(d, LegendBox(y.legend, m), BrandBox(BrandY(d, y, m), m))

(* What a column prints, at its widest. *)
Printed(n, d, m) ==
    LET icons(side) == IF side.icons > 1
                       THEN side.icons * Share(d.icon, 70) + (side.icons - 1) * 7 * Px
                       ELSE Larger(d.icon, 36 * Px)
        label(side) == Longest(side.label) * Share(m.nodeLabel, 56)
    IN Largest({PlateWidth(s, d) : s \in {n.source, n.replacement}}
               \cup {icons(s) : s \in {n.source, n.replacement}}
               \cup {label(s) : s \in {n.source, n.replacement}}
               \cup {n.date * Share(m.date, 62),
                     IF d.categories /\ d.display # "icon"
                     THEN n.category * Share(m.category, 62) ELSE 0})

-----------------------------------------------------------------------------
(* The inspector.                                                          *)
Commit(d) ==
    /\ edits < MaxEdits /\ d # design
    /\ design' = d /\ edits' = edits + 1
    /\ UNCHANGED row

Slide(field, v) == Commit([design EXCEPT ![field] = v])

(* A number typed freely, held to its range once the field is left. *)
Settle(field, v) == Commit([design EXCEPT ![field] = Clamp(v, LayoutRanges[field])])

TypeSize(field, v) == design.mode = "fixed" /\ Settle(field, v)

SetWidthMode(mode) == Commit([design EXCEPT !.mode = mode])

Toggle(shown) == Commit([design EXCEPT ![shown] = ~@])

ChooseDisplay(display) == design.categories /\ Commit([design EXCEPT !.display = display])

ApplyPreset(social) ==
    Commit([design EXCEPT !.title = TRUE, !.subtitle = TRUE,
                          !.mode = IF social THEN "fixed" ELSE "auto",
                          !.width = IF social THEN 2000 * Px ELSE @,
                          !.height = IF social THEN 2000 * Px ELSE 900 * Px])

(* Seen from another day, other nodes are done. *)
ViewFrom(reached) ==
    /\ edits < MaxEdits /\ reached # Cardinality({i \in DOMAIN row : row[i].done})
    /\ row' = [i \in DOMAIN row |-> [row[i] EXCEPT !.done = i <= reached]]
    /\ edits' = edits + 1
    /\ UNCHANGED design

LayoutInit == design = Default /\ row \in Rows /\ edits = 0

LayoutNext ==
    \/ \E v \in Scales : Slide("scale", v)
    \/ \E v \in Spacings : Slide("spacing", v)
    \/ \E v \in LaneGaps : Slide("lanes", v)
    \/ \E v \in IconSizes : Slide("icon", v)
    \/ \E v \in Margins : Settle("outer", v)
    \/ \E v \in NodeWidths : Settle("minNode", v)
    \/ \E v \in Tensions : Settle("tension", v)
    \/ \E field \in {"width", "height"}, v \in Sizes : TypeSize(field, v)
    \/ \E mode \in {"auto", "fixed"} : SetWidthMode(mode)
    \/ \E shown \in {"title", "subtitle", "categories"} : Toggle(shown)
    \/ \E display \in {"text", "icon", "both"} : ChooseDisplay(display)
    \/ \E social \in BOOLEAN : ApplyPreset(social)
    \/ \E reached \in 0..Len(row) : ViewFrom(reached)

LayoutSpec == LayoutInit /\ [][LayoutNext]_layoutVars

-----------------------------------------------------------------------------
Apart(boxes) == \A i \in 1..(Len(boxes) - 1) : boxes[i].to <= boxes[i + 1].from

BandsAreApart(boxes, header, height) ==
    /\ Apart(SubSeq(boxes, 1 + Larger(0, header - 1), Len(boxes)))
    /\ boxes[1].from >= 0 /\ Last(boxes).to <= height

(* What column i prints, from its left edge to its right one. *)
Columns(r, d, m, nodes) ==
    [i \in DOMAIN r |->
       [from |-> nodes[i].x - Printed(r[i], d, m) \div 2, to |-> nodes[i].x + Printed(r[i], d, m) \div 2]]

ColumnsAreApart(columns, spacing, outer, width) ==
    /\ \A i \in 1..(Len(columns) - 1) : columns[i + 1].from - columns[i].to >= spacing
    /\ columns[1].from >= outer /\ Last(columns).to <= width - outer

BottomRowFits(d, r, m) ==
    IsSocial(d) \/ d.outer + LegendWidth(m) < Width(d, r, m) - d.outer - BrandWidth(m)

Clear(d, r, m) ==
    /\ BandsAreApart(Boxes(d, r, m, Bands(d, r, m)), Len(HeaderBoxes(d, m)), Height(d, r, m))
    /\ ColumnsAreApart(Columns(r, d, m, Nodes(d, r, m)), d.spacing, d.outer, Width(d, r, m))
    /\ BottomRowFits(d, r, m)

(* Nothing that is drawn runs into anything else or off the canvas, at any *)
(* text size, spacing and canvas size, social or not: the bands from the   *)
(* header down, the columns of the row, and the legend and the signature   *)
(* on their row (roadmap-layout.ts:244-283).  The two lines of the header  *)
(* are left to HeaderIsClear.                                              *)
NothingCollides ==
    row # <<>> => Clear(design, row, Metrics(design))

(* The two lines of the header are clear of one another. *)
HeaderIsClear == Apart(HeaderBoxes(design, Metrics(design)))

Crossing(a, b, marker, from, to) ==
    /\ a.from # b.from /\ a.to # b.to /\ a.curve = b.curve
    /\ a.leaves < a.enters /\ b.leaves < b.enters
    /\ a.curve # <<>> =>
         /\ from < marker /\ marker < to
         /\ \A p \in {a, b} : p.leaves <= a.curve[1] /\ a.curve[3] <= p.enters
         /\ 2 * a.curve[2] <= a.curve[1] + a.curve[3]
         /\ a.curve[3] - a.curve[1] >= 120 * Px

LinesCross(r, nodes, tension) ==
    \A i \in 1..(Len(r) - 1) :
      Crossing(PathFor("independent", r, nodes, i, tension), PathFor("proprietary", r, nodes, i, tension),
               ViewMarkerX(r, nodes), nodes[i].x, nodes[i + 1].x)

(* The lanes cross where the marker of the day stands and nowhere else;    *)
(* both lines enter and leave that crossing at the same place, with room   *)
(* for the curve, and every line is drawn forward from plate to plate      *)
(* (pathFor, roadmap-layout.ts:441-503).                                   *)
LinesCrossAtTheMarker ==
    row # <<>> => LinesCross(row, Nodes(design, row, Metrics(design)), design.tension)
=============================================================================
