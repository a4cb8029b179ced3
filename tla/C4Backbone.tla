------------------------------ MODULE C4Backbone ------------------------------
(***************************************************************************)
(* c4BackboneLayout of components.jsx: the columns in which the C4 screen  *)
(* stands the containers that some edge connects.  A container's column is *)
(* the length of the longest walk that ends at it, found by relaxing every *)
(* edge in passes until a pass changes nothing; a source is then pulled    *)
(* next to its nearest target.                                             *)
(*                                                                         *)
(* A container is the rank of its id, an edge a pair of ids as they stand  *)
(* in the model's list: it may leave or enter a box the model does not     *)
(* have, return to its own box, or repeat another edge.                    *)
(***************************************************************************)
EXTENDS Integers, Sequences, FiniteSets

CONSTANTS
    Containers,        \* the container nodes
    EdgeLists          \* the lists of edges the model may have

ASSUME ContainersAssumption == Containers \subseteq Nat /\ IsFiniteSet(Containers)
ASSUME EdgesAssumption == EdgeLists \subseteq Seq(Nat \X Nat)

VARIABLES
    edges,             \* the input
    phase,             \* "relax", "pull", "placed"
    pass, todo, changed,
    col                \* the column of each connected container

loop == <<pass, todo, changed>>
layoutVars == <<edges, phase, loop, col>>

\* The edges between two containers that are there; the others are ignored.
Links == {e \in {edges[i] : i \in DOMAIN edges} :
            e[1] \in Containers /\ e[2] \in Containers /\ e[1] # e[2]}

Connected == {e[1] : e \in Links} \cup {e[2] : e \in Links}

\* N - 1: no column lies further right, so that a cycle cannot push one out for ever.
LastColumn == Cardinality(Connected) - 1

Sources == {n \in Connected : \A e \in Links : e[2] # n}

Init ==
    /\ edges \in EdgeLists
    /\ phase = "relax" /\ pass = 0 /\ changed = FALSE
    /\ todo = Links
    /\ col = [n \in Connected |-> 0]

-----------------------------------------------------------------------------
(* Relaxing.                                                               *)

\* The order of "source|target".
Before(e, f) == e[1] < f[1] \/ (e[1] = f[1] /\ e[2] < f[2])

IsNext(e) == phase = "relax" /\ e \in todo /\ \A f \in todo \ {e} : Before(e, f)

\* Mutant of MovesTarget: no column is the last.
MovesTargetUncapped(e) == col[e[2]] < col[e[1]] + 1

\* Mutant of MovesTarget: one column too few is allowed.
MovesTargetShort(e) == col[e[1]] + 1 < LastColumn /\ col[e[2]] < col[e[1]] + 1

MovesTarget(e) == col[e[1]] + 1 <= LastColumn /\ col[e[2]] < col[e[1]] + 1

Raise(e) ==
    /\ IsNext(e) /\ MovesTarget(e)
    /\ col' = [col EXCEPT ![e[2]] = col[e[1]] + 1]
    /\ changed' = TRUE
    /\ todo' = todo \ {e}
    /\ UNCHANGED <<edges, phase, pass>>

Keep(e) ==
    /\ IsNext(e) /\ ~MovesTarget(e)
    /\ todo' = todo \ {e}
    /\ UNCHANGED <<edges, phase, pass, changed, col>>

PassEnds == phase = "relax" /\ todo = {}

\* There are N + 1 passes at most.
NextPass ==
    /\ PassEnds /\ changed /\ pass < Cardinality(Connected)
    /\ pass' = pass + 1
    /\ todo' = Links
    /\ changed' = FALSE
    /\ UNCHANGED <<edges, phase, col>>

Settle ==
    /\ PassEnds /\ (~changed \/ pass = Cardinality(Connected))
    /\ phase' = "pull"
    /\ UNCHANGED <<edges, loop, col>>

-----------------------------------------------------------------------------
(* Pulling.                                                                *)

TargetColumns(n) == {col[e[2]] : e \in {f \in Links : f[1] = n}}
Nearest(n) == CHOOSE c \in TargetColumns(n) : \A d \in TargetColumns(n) : c <= d

\* Mutant of Pulled: the source goes to its farthest target.
PulledTooFar(n) ==
    LET c == CHOOSE d \in TargetColumns(n) : \A x \in TargetColumns(n) : x <= d
    IN  IF n \in Sources /\ c - 1 > col[n] THEN c - 1 ELSE col[n]

Pulled(n) == IF n \in Sources /\ Nearest(n) - 1 > col[n] THEN Nearest(n) - 1 ELSE col[n]

Pull ==
    /\ phase = "pull"
    /\ phase' = "placed"
    /\ col' = [n \in Connected |-> Pulled(n)]
    /\ UNCHANGED <<edges, loop>>

LayoutNext == (\E e \in todo : Raise(e) \/ Keep(e)) \/ NextPass \/ Settle \/ Pull

LayoutSpec == Init /\ [][LayoutNext]_layoutVars

-----------------------------------------------------------------------------
(* Properties.                                                             *)

\* The layout's variables have their types; no column lies past the last one.
LayoutTypeOK ==
    /\ edges \in Seq(Nat \X Nat)
    /\ phase \in {"relax", "pull", "placed"}
    /\ pass \in 0..Cardinality(Connected)
    /\ todo \subseteq Links
    /\ changed \in BOOLEAN
    /\ col \in [Connected -> Nat]
    /\ \A n \in Connected : col[n] <= LastColumn

\* The walks of k edges, as the nodes they pass.
Walks(k) == {w \in [0..k -> Connected] : \A i \in 1..k : <<w[i - 1], w[i]>> \in Links}
EndsWalk(n, k) == \E w \in Walks(k) : w[k] = n

\* n comes after a cycle: as long a walk as there are containers passes one of them twice.
AfterCycle(n) == EndsWalk(n, Cardinality(Connected))

\* However the edges are ordered and whatever cycles they close, relaxing ends with a
\* pass that found nothing to change and is never cut short by its bound ("the pass loop
\* terminates cleanly").  A container then stands in the column that is the length of a
\* walk that ends at it; of the longest one, unless the container comes after a cycle.
ColumnsAreLongestWalks ==
    phase # "relax" =>
      /\ ~changed
      /\ \A n \in Connected \ Sources :
           /\ EndsWalk(n, col[n])
           /\ ~AfterCycle(n) => \A k \in 0..LastColumn : EndsWalk(n, k) => k <= col[n]

\* In the finished layout every edge runs to the right, except into what comes after a
\* cycle; and a source stands one column left of its nearest target, whatever was after
\* a cycle: pulling it has not taken it past any of its targets ("it never changes a
\* downstream node's column").
EdgesRunRight ==
    phase = "placed" =>
      /\ \A e \in Links : ~AfterCycle(e[2]) => col[e[1]] < col[e[2]]
      /\ \A n \in Sources : col[n] + 1 \in TargetColumns(n)
                            /\ \A c \in TargetColumns(n) : col[n] < c
=============================================================================
