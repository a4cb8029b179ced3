------------------------------- MODULE C4Routes -------------------------------
(***************************************************************************)
(* c4SolveRoutes of components.jsx, over the layout of C4Backbone: the     *)
(* lines drawn between the boxes, solved all together.  Each edge takes a  *)
(* port on a side of each of its boxes, then a corridor between the        *)
(* columns (a gutter) or the rows (a band), then a lane of that corridor.  *)
(* Lengths are integers, Px to the pixel, so that the fractions of a side  *)
(* and of a corridor are exact.                                            *)
(***************************************************************************)
EXTENDS C4Backbone, FiniteSetsExt

CONSTANTS
    Px,                \* units of length in a pixel
    ColumnStep, RowStep,  \* C4_COL_W, C4_ROW_H
    Width, Height,     \* the boxes' width and, for each container, height
    Rank               \* the order of rows: label, then badge, then id

ASSUME RankAssumption ==
    Rank \in [Containers -> Nat] /\ \A m, n \in Containers : Rank[m] = Rank[n] => m = n

\* The unit is small enough for every end on a side to have a length of its own: where
\* the code divides exactly, rounding may not bring two ends together.
ASSUME LengthsAssumption ==
    /\ Px \in Nat \ {0} /\ ColumnStep \in Nat /\ RowStep \in Nat
    /\ Width \in Nat /\ Height \in [Containers -> Nat]
    /\ \A s \in EdgeLists : 2 * Len(s) < Width /\ \A n \in Containers : 2 * Len(s) < Height[n]

VARIABLES
    stage,             \* "wait", "corridors", "routes", "drawn"
    port,              \* where an end of an edge meets its box
    corridors,         \* the corridors planned for an edge, first to last
    route              \* the points its line passes

routeVars == <<stage, port, corridors, route>>
vars == <<layoutVars, routeVars>>

Pad == 8 * Px
Margin == 40 * Px

-----------------------------------------------------------------------------
(* The boxes, and the grid derived from them.                              *)

Row(n) == Cardinality({m \in Connected : col[m] = col[n] /\ Rank[m] < Rank[n]})
Left(n) == col[n] * ColumnStep
Right(n) == Left(n) + Width
Top(n) == Row(n) * RowStep
Bottom(n) == Top(n) + Height[n]
CentreX(n) == Left(n) + Width \div 2
CentreY(n) == Top(n) + Height[n] \div 2

\* Grid columns are the occupied ones; rows have no gaps.
GridColumn(n) == Cardinality({c \in {col[m] : m \in Connected} : c < col[n]})
Columns == Cardinality({col[m] : m \in Connected})
Rows == Cardinality({Row(m) : m \in Connected})

LeftOf(g) == CHOOSE x \in {Left(n) : n \in {m \in Connected : GridColumn(m) = g}} : TRUE
TopOf(r) == r * RowStep
BottomOf(r) == Max({Bottom(n) : n \in {m \in Connected : Row(m) = r}})

\* Gutter g lies right of grid column g, band b below row b; -1 and the last are outside.
Gutter(g) ==
    IF g < 0 THEN [lo |-> LeftOf(0) - 2 * Margin, hi |-> LeftOf(0)]
    ELSE LET right == LeftOf(Min({g, Columns - 1})) + Width
         IN  [lo |-> right, hi |-> IF g >= Columns - 1 THEN right + 2 * Margin ELSE LeftOf(g + 1)]

Band(b) ==
    IF b < 0 THEN [lo |-> -2 * Margin, hi |-> 0]
    ELSE LET bottom == BottomOf(Min({b, Rows - 1}))
         IN  [lo |-> bottom, hi |-> IF b >= Rows - 1 THEN bottom + 2 * Margin ELSE TopOf(b + 1)]

Middle(corridor) == (corridor.lo + corridor.hi) \div 2

Point(x, y) == [x |-> x, y |-> y]

Abs(k) == IF k < 0 THEN -k ELSE k

\* An upright or level piece of line against the box of n and the margin around it.
Touches(a, b, n) ==
    /\ Min({a.x, b.x}) < Right(n) + Pad /\ Max({a.x, b.x}) > Left(n) - Pad
    /\ Min({a.y, b.y}) < Bottom(n) + Pad /\ Max({a.y, b.y}) > Top(n) - Pad

-----------------------------------------------------------------------------
(* The edges.                                                              *)

Drawn == {i \in DOMAIN edges : edges[i] \in Links}
Source(i) == edges[i][1]
Target(i) == edges[i][2]

ColumnsAcross(i) == GridColumn(Target(i)) - GridColumn(Source(i))
RowsAcross(i) == Row(Target(i)) - Row(Source(i))
IsLevel(i) == Abs(ColumnsAcross(i)) >= Abs(RowsAcross(i))

\* The line of edge i keeps clear of every box but its own two.
Clear(i, line) ==
    \A k \in 2..Len(line) : \A n \in Connected \ {Source(i), Target(i)} :
      ~Touches(line[k - 1], line[k], n)

Ends == Drawn \X {"source", "target"}
Box(x) == IF x[2] = "source" THEN Source(x[1]) ELSE Target(x[1])
Other(x) == IF x[2] = "source" THEN Target(x[1]) ELSE Source(x[1])

\* The side of its box an end stands on: the one that faces the other box.
Side(x) ==
    LET i == x[1]
        forward == x[2] = "source"
    IN  IF IsLevel(i)
        THEN IF (ColumnsAcross(i) >= 0) = forward THEN "right" ELSE "left"
        ELSE IF (RowsAcross(i) >= 0) = forward THEN "bottom" ELSE "top"

SameSide(x) == {y \in Ends : Box(y) = Box(x) /\ Side(y) = Side(x)}

Across(x) == IF Side(x) \in {"left", "right"} THEN CentreY(Other(x)) ELSE CentreX(Other(x))

\* Mutant of Precedes: parallel edges are not told apart.
PrecedesAcross(x, y) == Across(x) < Across(y)

Precedes(x, y) == Across(x) < Across(y) \/ (Across(x) = Across(y) /\ x[1] < y[1])

\* The ends on one side stand at equal distances, in the order of the boxes they lead to.
PortOf(x) ==
    LET k == 1 + Cardinality({y \in SameSide(x) : Precedes(y, x)})
        n == 1 + Cardinality(SameSide(x))
        along == IF Side(x) \in {"left", "right"} THEN Height[Box(x)] ELSE Width
        at == (k * along) \div n
    IN  CASE Side(x) = "right"  -> Point(Right(Box(x)), Top(Box(x)) + at)
          [] Side(x) = "left"   -> Point(Left(Box(x)), Top(Box(x)) + at)
          [] Side(x) = "bottom" -> Point(Left(Box(x)) + at, Bottom(Box(x)))
          [] Side(x) = "top"    -> Point(Left(Box(x)) + at, Top(Box(x)))

PlacePorts ==
    /\ phase = "placed" /\ stage = "wait"
    /\ stage' = "corridors"
    /\ port' = [x \in Ends |-> PortOf(x)]
    /\ UNCHANGED <<layoutVars, corridors, route>>

-----------------------------------------------------------------------------
(* Corridors.                                                              *)

From(i) == port[<<i, "source">>]
To(i) == port[<<i, "target">>]

\* The gutter just before the target's column, and the one just after the source's.
LastGutter(i) == GridColumn(Target(i)) - (IF ColumnsAcross(i) >= 0 THEN 1 ELSE 0)
FirstGutter(i) == GridColumn(Source(i)) - (IF ColumnsAcross(i) >= 0 THEN 0 ELSE 1)

\* A line that keeps to the height of its ports, with its upright leg at x.
Direct(i, x) == <<From(i), Point(x, From(i).y), Point(x, To(i).y), To(i)>>

\* The first clear band from the source's row on, towards the target's.
LongBand(i) ==
    LET step == IF RowsAcross(i) >= 0 THEN 1 ELSE -1
        first == Row(Source(i)) - (IF RowsAcross(i) >= 0 THEN 0 ELSE 1)
        IsFree(k) ==
          LET y == Middle(Band(first + k * step))
          IN  Clear(i, <<Point(Middle(Gutter(FirstGutter(i))), y),
                         Point(Middle(Gutter(LastGutter(i))), y)>>)
    IN  first + step * Min({k \in 0..Rows : IsFree(k)} \cup {Rows + 1})

\* The band just before the target's row.
UprightBand(i) == Row(Target(i)) - (IF RowsAcross(i) >= 0 THEN 1 ELSE 0)

\* Mutant of GoesDirect: a line may keep to its ports' height over any distance.
GoesDirectAnywhere(i) == TRUE

GoesDirect(i) ==
    Abs(ColumnsAcross(i)) < 2 /\ Clear(i, Direct(i, Middle(Gutter(LastGutter(i)))))

CorridorsOf(i) ==
    CASE IsLevel(i) /\ GoesDirect(i)  -> [gutters |-> <<LastGutter(i)>>, bands |-> <<>>]
      [] IsLevel(i) /\ ~GoesDirect(i) -> [gutters |-> <<FirstGutter(i), LastGutter(i)>>,
                                          bands |-> <<LongBand(i)>>]
      [] ~IsLevel(i)                  -> [gutters |-> <<>>, bands |-> <<UprightBand(i)>>]

PlanCorridors ==
    /\ stage = "corridors"
    /\ stage' = "routes"
    /\ corridors' = [i \in Drawn |-> CorridorsOf(i)]
    /\ UNCHANGED <<layoutVars, port, route>>

-----------------------------------------------------------------------------
(* Lanes and routes.                                                       *)

\* Mutant of InGutter: a line that leaves by one gutter has no lane in the other.
LeavesBy(g) == {i \in Drawn : corridors[i].gutters # <<>> /\ corridors[i].gutters[1] = g}

InGutter(g) == {i \in Drawn : \E k \in DOMAIN corridors[i].gutters : corridors[i].gutters[k] = g}
InBand(b) == {i \in Drawn : \E k \in DOMAIN corridors[i].bands : corridors[i].bands[k] = b}

Clamp(v, lo, hi) == Max({lo, Min({hi, v})})

\* The lane of edge i among the members of a corridor: they stand around its middle, in
\* the edges' order.  An edge that was not planned there comes before them all.
Lane(i, members, corridor, widest) ==
    LET all == IF members = {} THEN {i} ELSE members
        n == Cardinality(all)
        place == IF i \in all THEN Cardinality({j \in all : j < i}) ELSE -1
        gap == Clamp((corridor.hi - corridor.lo) \div (n + 1), 8 * Px, widest)
    IN  Clamp(Middle(corridor) + ((2 * place - (n - 1)) * gap) \div 2,
              corridor.lo + Pad, corridor.hi - Pad)

LaneX(i, g) == Lane(i, InGutter(g), Gutter(g), 18 * Px)
LaneY(i, b) == Lane(i, InBand(b), Band(b), 16 * Px)

\* From the source's port along a gutter, a band and a gutter to the target's port.
Through(i, first, last, y) ==
    <<From(i), Point(first, From(i).y), Point(first, y),
      Point(last, y), Point(last, To(i).y), To(i)>>

Upright(i, y) == <<From(i), Point(From(i).x, y), Point(To(i).x, y), To(i)>>

\* A detour by gutter g, for an upright line that a box of the same column stops.
Detour(i, g) ==
    LET near == Middle(Band(Row(Source(i)) - (IF RowsAcross(i) >= 0 THEN 0 ELSE 1)))
        far == Middle(Band(UprightBand(i)))
    IN  <<From(i), Point(From(i).x, near), Point(LaneX(i, g), near),
          Point(LaneX(i, g), far), Point(To(i).x, far), To(i)>>

\* The gutters beside the source by which a detour is clear; the one on the right is tried first.
Detours(i) == {g \in {GridColumn(Source(i)), GridColumn(Source(i)) - 1} : Clear(i, Detour(i, g))}

Planned(i) ==
    LET gutters == corridors[i].gutters
        bands == corridors[i].bands
    IN  CASE bands = <<>>    -> Direct(i, LaneX(i, gutters[1]))
          [] Len(gutters) = 2 -> Through(i, LaneX(i, gutters[1]), LaneX(i, gutters[2]),
                                         LaneY(i, bands[1]))
          [] gutters = <<>>  ->
               LET line == Upright(i, LaneY(i, bands[1]))
               IN  IF Clear(i, line) \/ Detours(i) = {} THEN line ELSE Detour(i, Max(Detours(i)))

\* c4RouteWaypoints: the line drawn when the planned one hits a box, whatever it hits.
Fallback(i) ==
    LET s == Source(i)
        t == Target(i)
        dx == CentreX(t) - CentreX(s)
        dy == CentreY(t) - CentreY(s)
        x0 == IF dx >= 0 THEN Right(s) ELSE Left(s)
        x1 == IF dx >= 0 THEN Left(t) ELSE Right(t)
        y0 == IF dy >= 0 THEN Bottom(s) ELSE Top(s)
        y1 == IF dy >= 0 THEN Top(t) ELSE Bottom(t)
        x == (x0 + x1) \div 2
        y == (y0 + y1) \div 2
    IN  IF Abs(dx) >= Abs(dy)
        THEN <<Point(x0, CentreY(s)), Point(x, CentreY(s)), Point(x, CentreY(t)), Point(x1, CentreY(t))>>
        ELSE <<Point(CentreX(s), y0), Point(CentreX(s), y), Point(CentreX(t), y), Point(CentreX(t), y1)>>

RouteOf(i) == IF Clear(i, Planned(i)) THEN Planned(i) ELSE Fallback(i)

Draw ==
    /\ stage = "routes"
    /\ stage' = "drawn"
    /\ route' = [i \in Drawn |-> RouteOf(i)]
    /\ UNCHANGED <<layoutVars, port, corridors>>

RoutesInit == Init /\ stage = "wait" /\ port = <<>> /\ corridors = <<>> /\ route = <<>>

Next == (LayoutNext /\ UNCHANGED routeVars) \/ PlacePorts \/ PlanCorridors \/ Draw

Spec == RoutesInit /\ [][Next]_vars

-----------------------------------------------------------------------------
(* Properties.                                                             *)

\* A corridor with eight pixels for each of its members, and eight more.
HasRoom(corridor, members) == corridor.hi - corridor.lo >= (Cardinality(members) + 1) * Pad

\* So has each corridor planned for edge i.
HasWay(i) ==
    /\ \A k \in DOMAIN corridors[i].gutters :
         HasRoom(Gutter(corridors[i].gutters[k]), InGutter(corridors[i].gutters[k]))
    /\ \A k \in DOMAIN corridors[i].bands :
         HasRoom(Band(corridors[i].bands[k]), InBand(corridors[i].bands[k]))

\* On every backbone the planned line of every edge, its ports and lanes moved by all the
\* others, is drawn and not given up for the fallback, and it crosses no box but its own
\* two ("route vertical legs inside the clear inter-column gutters and long horizontals
\* inside the inter-row bands, so no leg crosses a non-endpoint box").
RoutesClearBoxes ==
    stage = "drawn" => \A i \in Drawn : Clear(i, route[i]) /\ route[i] = Planned(i)

\* No two ends meet a box at one point, however many edges it has, parallel ones
\* included ("DISTINCT ports per (box,side)").
PortsKeepApart ==
    stage # "wait" => \A x, y \in Ends : x # y /\ Box(x) = Box(y) => port[x] # port[y]

\* The x of the upright legs of a line, the y of its level ones, and of those inside a band.
UprightLegs(line) == {line[k].x : k \in {l \in 2..Len(line) : line[l - 1].y # line[l].y}}
LevelLegs(line) == {line[k].y : k \in {l \in 2..Len(line) : line[l - 1].x # line[l].x}}
BandLegs(line) == {line[k].y : k \in {l \in 3..(Len(line) - 1) : line[l - 1].x # line[l].x}}

IsDetour(i) == Len(route[i]) = 6 /\ ~IsLevel(i)

\* A leg in a gutter is at the x of no upright leg of another line, and a leg in a band at the
\* y of no level leg of another, whichever boxes the lines join: lines with lanes in a corridor
\* do not share one, and no corridor reaches into another or into a box ("so parallel legs in
\* one corridor stay distinct"; "Bands are y-sub-laned so parallel long runs never
\* coincide").  A line sent round a box runs along the middles of bands, in no lane of theirs.
LegsKeepApart ==
    stage = "drawn" =>
      LET Laned == {i \in Drawn : HasWay(i) /\ ~IsDetour(i)}
      IN  \A i, j \in Laned :
            i # j =>
              /\ IsLevel(i) => UprightLegs(route[i]) \cap UprightLegs(route[j]) = {}
              /\ BandLegs(route[i]) \cap LevelLegs(route[j]) = {}
=============================================================================
