------------------------------- MODULE Roadmap -------------------------------
(***************************************************************************)
(* A roadmap of the planner: its nodes, each a switch from one service to  *)
(* another with a date known to a day, a quarter or a year and printed as  *)
(* precisely or less so; the order the nodes are drawn in; and the         *)
(* validation every document passes on its way in from a file, a link or   *)
(* the browser's storage.  A date is the number yyyymmdd, 0 for none.      *)
(***************************************************************************)
EXTENDS Naturals, FiniteSets, SequencesExt

CONSTANTS
    Dates,         \* days the owner may pick exactly
    Years,         \* years the owner may pick
    ViewDates,     \* "as of" days
    Icons,
    Typed,         \* a label typed by hand
    MaxNodes,      \* LIMITS.migrations
    IconsPerSide,  \* LIMITS.iconsPerSide
    Overfill,      \* bound: nodes added beyond the cap
    MaxEdits,      \* bound
    MaxIds         \* bound: nodes ever made

VARIABLES
    nodes,      \* doc.migrations, in the order they were put in
    viewDate,   \* doc.timeline.viewDate
    lost,       \* ghost: loaded back as something else than was stored
    used        \* [edits, ids]

roadmapVars == <<nodes, viewDate, lost, used>>

-----------------------------------------------------------------------------
(* Days.                                                                   *)
YearOf(d) == d \div 10000
MonthOf(d) == (d \div 100) % 100
DayOf(d) == d % 100
QuarterOf(d) == (MonthOf(d) - 1) \div 3 + 1
OnDay(y, m, d) == y * 10000 + m * 100 + d

Leap(y) == y % 4 = 0 /\ (y % 100 # 0 \/ y % 400 = 0)
DaysIn(y, m) == IF m = 2 THEN IF Leap(y) THEN 29 ELSE 28
                ELSE IF m \in {4, 6, 9, 11} THEN 30 ELSE 31

IsIsoDate(d) ==
    MonthOf(d) \in 1..12 /\ DayOf(d) \in 1..DaysIn(YearOf(d), MonthOf(d))

DayAfter(d) ==
    IF DayOf(d) < DaysIn(YearOf(d), MonthOf(d)) THEN d + 1
    ELSE IF MonthOf(d) < 12 THEN OnDay(YearOf(d), MonthOf(d) + 1, 1)
    ELSE OnDay(YearOf(d) + 1, 1, 1)

PeriodEndDate(d, precision) ==
    IF precision = "year" THEN OnDay(YearOf(d), 12, 31)
    ELSE OnDay(YearOf(d), 3 * QuarterOf(d), DaysIn(YearOf(d), 3 * QuarterOf(d)))

QuarterStartDate(y, q) == OnDay(y, 3 * (q - 1) + 1, 1)

-----------------------------------------------------------------------------
(* A switch counts as done on its day, or the day after its period ends.   *)
ReachedOn(n) ==
    IF n.date = 0 \/ n.datePrecision = "date" THEN n.date
    ELSE DayAfter(PeriodEndDate(n.date, n.datePrecision))

IsReached(n) == ReachedOn(n) # 0 /\ ReachedOn(n) <= viewDate

(* Nodes that are done on the same day are tied; undated ones with nobody. *)
Tied(m, n) == m.id = n.id \/ (ReachedOn(m) # 0 /\ ReachedOn(m) = ReachedOn(n))

(* The order of the row: by that day, tied ones as they were put in, and   *)
(* undated ones last.                                                      *)
Before(i, j) ==
    LET a == ReachedOn(nodes[i]) b == ReachedOn(nodes[j]) IN
    IF a = b THEN i < j ELSE b = 0 \/ (a # 0 /\ a < b)

(* In each column the service in use is on top. *)
Top(n) == IF IsReached(n) THEN "replacement" ELSE "source"

-----------------------------------------------------------------------------
(* Editing.  A change made for a node applies to it wherever it is by      *)
(* then, and to nothing once it is gone.                                   *)
CreateMigration(id) ==
    [id |-> id, date |-> 0, datePrecision |-> "date", displayPrecision |-> "quarter",
     icons |-> <<>>, label |-> <<>>]

Edits(next) ==
    /\ used.edits < MaxEdits
    /\ nodes' = next
    /\ used' = [used EXCEPT !.edits = @ + 1]
    /\ UNCHANGED <<viewDate, lost>>

Updates(i, n) == Edits([nodes EXCEPT ![i] = n])

EditYear(i) == IF nodes[i].date # 0 THEN YearOf(nodes[i].date) ELSE YearOf(viewDate)

(* Only the control of the precision shown is offered. *)
Offered(i, p) == nodes[i].displayPrecision = p

ChoosePrecision(i, p) ==
    Updates(i, [nodes[i] EXCEPT
      !.displayPrecision = p,
      !.date = IF @ = 0 /\ p # "date" THEN OnDay(EditYear(i), 1, 1) ELSE @,
      !.datePrecision = IF nodes[i].date = 0 /\ p # "date" THEN p ELSE @])

(* A year chosen on top of an exact date keeps its month and day. *)
SetYear(i, y) ==
    LET n == nodes[i] exact == n.date # 0 /\ n.datePrecision = "date" IN
    /\ Offered(i, "year")
    /\ Updates(i, [n EXCEPT
         !.date = IF exact THEN OnDay(y, MonthOf(@), DayOf(@)) ELSE OnDay(y, 1, 1),
         !.datePrecision = IF @ = "date" THEN @ ELSE "year"])

(* So does a quarter that holds it; any other quarter is all that is known. *)
HoldsDate(n, y, q) ==
    n.date # 0 /\ n.datePrecision = "date" /\ YearOf(n.date) = y /\ QuarterOf(n.date) = q

SetQuarter(i, y, q) ==
    /\ Offered(i, "quarter")
    /\ Updates(i, IF HoldsDate(nodes[i], y, q) THEN nodes[i]
                  ELSE [nodes[i] EXCEPT !.date = QuarterStartDate(y, q),
                                        !.datePrecision = "quarter"])

SetExactDate(i, d) ==
    /\ Offered(i, "date")
    /\ d = 0 \/ IsIsoDate(d)
    /\ Updates(i, [nodes[i] EXCEPT !.date = d, !.datePrecision = "date"])

(* Earlier and later swap a node with the next of those it is tied with.   *)
MoveWithinPeriod(i, j) ==
    /\ i # j /\ Tied(nodes[i], nodes[j])
    /\ \A k \in DOMAIN nodes : (k > i /\ k < j) \/ (k < i /\ k > j) => ~Tied(nodes[i], nodes[k])
    /\ Edits([nodes EXCEPT ![i] = nodes[j], ![j] = nodes[i]])

(* The label follows the icons until the owner types one. *)
AppLabel(icons) == icons

Relabelled(n, icons, follows) ==
    [n EXCEPT !.icons = icons, !.label = IF follows THEN AppLabel(icons) ELSE @]

AddIcon(i, icon) ==
    LET n == nodes[i] IN
    /\ Len(n.icons) < IconsPerSide
    /\ Updates(i, Relabelled(n, Append(n.icons, icon),
                             n.label = <<>> \/ n.label = AppLabel(n.icons)))

RemoveIcon(i, at) ==
    LET n == nodes[i] IN
    Updates(i, Relabelled(n, RemoveAt(n.icons, at), n.label = AppLabel(n.icons)))

TypeLabel(i, label) == Updates(i, [nodes[i] EXCEPT !.label = label])

(* Adding a node asks nothing of the cap. *)
AddMigration ==
    /\ used.ids < MaxIds /\ Len(nodes) < MaxNodes + Overfill
    /\ used.edits < MaxEdits
    /\ nodes' = Append(nodes, CreateMigration(used.ids + 1))
    /\ used' = [edits |-> used.edits + 1, ids |-> used.ids + 1]
    /\ UNCHANGED <<viewDate, lost>>

DuplicateSelected(i) ==
    /\ used.ids < MaxIds /\ Len(nodes) < MaxNodes + Overfill
    /\ used.edits < MaxEdits
    /\ nodes' = InsertAt(nodes, i + 1, [nodes[i] EXCEPT !.id = used.ids + 1])
    /\ used' = [edits |-> used.edits + 1, ids |-> used.ids + 1]
    /\ UNCHANGED <<viewDate, lost>>

RemoveSelected(i) == Edits(RemoveAt(nodes, i))

SetViewDate(d) ==
    /\ d # viewDate /\ used.edits < MaxEdits
    /\ viewDate' = d
    /\ used' = [used EXCEPT !.edits = @ + 1]
    /\ UNCHANGED <<nodes, lost>>

-----------------------------------------------------------------------------
(* Validation: the shape is checked, and every field is rebuilt with       *)
(* defaults and caps.                                                      *)
Refused(list) == Len(list) > MaxNodes

Service(icons) == SubSeq(icons, 1, IF Len(icons) < IconsPerSide THEN Len(icons) ELSE IconsPerSide)

RebuiltNode(n) ==
    [n EXCEPT !.date = IF IsIsoDate(@) THEN @ ELSE 0,
              !.icons = Service(@)]

Validated(list) == [i \in DOMAIN list |-> RebuiltNode(list[i])]


(* The next visit reads the roadmap back; what does not validate is left   *)
(* out of the library.                                                     *)
Reload ==
    /\ nodes' = IF Refused(nodes) THEN <<>> ELSE Validated(nodes)
    /\ lost' = (lost \/ nodes' # nodes)
    /\ UNCHANGED <<viewDate, used>>

-----------------------------------------------------------------------------
RoadmapInit ==
    /\ nodes = <<>> /\ lost = FALSE
    /\ viewDate \in ViewDates
    /\ used = [edits |-> 0, ids |-> 0]

RoadmapNext ==
    \/ AddMigration \/ Reload
    \/ \E d \in ViewDates : SetViewDate(d)
    \/ \E i \in DOMAIN nodes :
         \/ DuplicateSelected(i) \/ RemoveSelected(i)
         \/ \E p \in {"year", "quarter", "date"} : ChoosePrecision(i, p)
         \/ \E y \in Years : SetYear(i, y)
         \/ \E y \in Years, q \in 1..4 : SetQuarter(i, y, q)
         \/ \E d \in Dates \cup {0} : SetExactDate(i, d)
         \/ \E j \in DOMAIN nodes : MoveWithinPeriod(i, j)
         \/ \E icon \in Icons : AddIcon(i, icon)
         \/ \E at \in DOMAIN nodes[i].icons : RemoveIcon(i, at)
         \/ \E label \in {<<>>, <<Typed>>} : TypeLabel(i, label)

RoadmapSpec == RoadmapInit /\ [][RoadmapNext]_roadmapVars

-----------------------------------------------------------------------------
(* The lanes cross exactly once, whatever mix of precisions is in play:    *)
(* in the order the nodes are drawn, the done ones come first and the      *)
(* others after them (chronologicalMigrations).                            *)
LanesCrossOnce ==
    \A i, j \in DOMAIN nodes :
      (Before(i, j) /\ Top(nodes[j]) = "replacement") => Top(nodes[i]) = "replacement"

(* What was edited here is what the next visit reads back.                 *)
ReloadKeepsTheRoadmap == ~lost
=============================================================================
