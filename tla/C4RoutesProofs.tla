---------------------------- MODULE C4RoutesProofs ----------------------------
(***************************************************************************)
(* The backbone layout, for any containers and any list of edges: its      *)
(* passes settle within their bound, each container's column is the length *)
(* of a walk, the longest one where no cycle comes before it, and edges    *)
(* run to the right.  Routing the lines leaves all that alone.             *)
(*                                                                         *)
(* Of the lines: the ports on a box are distinct for any edges and any     *)
(* heights, and so are the lanes of a corridor that has room for them.     *)
(* Where boxes stand sixteen pixels apart, no box reaches into a corridor  *)
(* and every lane is inside its own: so every line is drawn as planned and *)
(* clear of every box but its two, and legs in corridors keep apart.       *)
(***************************************************************************)
EXTENDS C4Routes, FiniteSetTheorems, NaturalsInduction, WellFoundedInduction, TLAPS

\* No edge asks for its target to be moved.
Closed == \A e \in Links : ~MovesTarget(e)

\* An edge that would still move its target was made to by a column as large as the
\* number of passes: each pass pushes what it changes one column further.
PassInv ==
    phase = "relax" =>
      /\ \A e \in Links : MovesTarget(e) => col[e[1]] >= pass
      /\ \A e \in Links \ todo : MovesTarget(e) => col[e[1]] >= pass + 1
      /\ ~changed => \A e \in Links \ todo : ~MovesTarget(e)
      /\ changed => pass + 1 <= LastColumn

\* Columns are lengths of walks; sources stay where they are until they are pulled.
WalkInv ==
    /\ \A n \in Connected : phase # "placed" \/ n \notin Sources => EndsWalk(n, col[n])
    /\ phase # "placed" => \A n \in Sources : col[n] = 0

\* What is left when relaxing has ended.
SettledInv ==
    /\ phase # "relax" => ~changed
    /\ phase = "pull" => Closed
    /\ phase = "placed" =>
         /\ \A e \in Links : e[1] \notin Sources => ~MovesTarget(e)
         /\ \A n \in Sources : col[n] + 1 \in TargetColumns(n)
                               /\ \A c \in TargetColumns(n) : col[n] < c

LayoutInv == LayoutTypeOK /\ PassInv /\ WalkInv /\ SettledInv

-----------------------------------------------------------------------------
(* Facts about the graph.                                                  *)

\* Every nonempty set of naturals has a least element.
LEMMA LeastElement ==
  ASSUME NEW S \in SUBSET Nat, S # {}
  PROVE  \E m \in S : \A k \in S : m <= k
<1> DEFINE R == OpToRel(<, Nat)
<1>1. PICK m \in S : \A k \in S : <<k, m>> \notin R
  <2>1. IsWellFoundedOn(R, Nat)
    BY NatLessThanWellFounded
  <2> HIDE DEF R
  <2> QED BY <2>1, WFMin
<1>2. ASSUME NEW k \in S PROVE m <= k
  <2>1. ~(k < m) /\ k \in Nat /\ m \in Nat
    BY <1>1 DEF OpToRel
  <2> QED BY <2>1
<1> QED BY <1>2

\* An edge joins two different connected containers; there are finitely many of those.
LEMMA GraphFacts ==
  ASSUME edges \in Seq(Nat \X Nat)
  PROVE  /\ Links \subseteq Nat \X Nat
         /\ \A e \in Links : e[1] \in Connected /\ e[2] \in Connected /\ e[1] # e[2]
         /\ Connected \subseteq Nat /\ IsFiniteSet(Connected)
         /\ Cardinality(Connected) \in Nat
         /\ LastColumn \in Int /\ LastColumn = Cardinality(Connected) - 1
         /\ Links # {} => LastColumn >= 1
         /\ Connected # {} => LastColumn >= 0
<1>1. Links \subseteq Nat \X Nat /\ \A e \in Links : e[1] # e[2]
  BY DEF Links
<1>2. \A e \in Links : e[1] \in Connected /\ e[2] \in Connected
  BY DEF Connected
<1>3. Connected \subseteq Containers
  BY DEF Connected, Links
<1>4. IsFiniteSet(Connected) /\ Cardinality(Connected) \in Nat /\ Connected \subseteq Nat
  BY <1>3, ContainersAssumption, FS_Subset, FS_CardinalityType
<1>5. ASSUME Links # {} PROVE Cardinality(Connected) >= 2
  <2>1. PICK e \in Links : TRUE
    BY <1>5
  <2> DEFINE one == {e[1]}
  <2>2. IsFiniteSet(one) /\ Cardinality(one) = 1 /\ e[2] \notin one
    BY <1>1, <2>1, FS_Singleton
  <2>3. one \cup {e[2]} \in SUBSET Connected
    BY <1>2, <2>1
  <2> HIDE DEF one
  <2>4. \A x : x \notin one => Cardinality(one \cup {x}) = Cardinality(one) + 1
    BY <2>2, FS_AddElement
  <2>5. Cardinality(one \cup {e[2]}) = 2
    BY <2>2, <2>4
  <2> QED BY <1>4, <2>3, <2>5, FS_Subset
<1>6. Connected # {} => Links # {}
  BY DEF Connected
<1> QED BY <1>1, <1>2, <1>4, <1>5, <1>6 DEF LastColumn

\* A walk of one node, and a walk made longer by an edge.
LEMMA StartsWalk == \A n \in Connected : EndsWalk(n, 0)
<1> SUFFICES ASSUME NEW n \in Connected PROVE EndsWalk(n, 0)
  OBVIOUS
<1>1. [i \in 0..0 |-> n] \in Walks(0)
  BY DEF Walks
<1>2. [i \in 0..0 |-> n][0] = n
  OBVIOUS
<1> QED BY <1>1, <1>2 DEF EndsWalk

LEMMA WalkExtends ==
  ASSUME edges \in Seq(Nat \X Nat), NEW k \in Nat, NEW e \in Links, EndsWalk(e[1], k)
  PROVE  EndsWalk(e[2], k + 1)
<1>1. PICK w \in Walks(k) : w[k] = e[1]
  BY DEF EndsWalk
<1> DEFINE v == [i \in 0..(k + 1) |-> IF i = k + 1 THEN e[2] ELSE w[i]]
<1>2. e[1] \in Connected /\ e[2] \in Connected /\ e = <<e[1], e[2]>>
  BY GraphFacts
<1>3. w \in [0..k -> Connected] /\ \A i \in 1..k : <<w[i - 1], w[i]>> \in Links
  BY DEF Walks
<1>4. v \in [0..(k + 1) -> Connected]
  BY <1>2, <1>3
<1>5. ASSUME NEW i \in 1..(k + 1) PROVE <<v[i - 1], v[i]>> \in Links
  <2>1. CASE i = k + 1
    <3>1. i - 1 = k /\ k \in 0..(k + 1) /\ k + 1 \in 0..(k + 1) /\ k # k + 1
      BY <2>1
    <3>2. v[i - 1] = e[1] /\ v[i] = e[2]
      BY <1>1, <2>1, <3>1
    <3> QED BY <1>2, <3>2
  <2>2. CASE i # k + 1
    <3>1. i \in 1..k /\ i - 1 \in 0..k /\ i - 1 # k + 1
      BY <2>2
    <3> QED BY <1>3, <3>1
  <2> QED BY <2>1, <2>2
<1>6. v[k + 1] = e[2]
  OBVIOUS
<1> HIDE DEF v
<1>7. v \in Walks(k + 1)
  BY <1>4, <1>5 DEF Walks
<1> QED BY <1>6, <1>7 DEF EndsWalk

\* Nothing but a walk of no edge ends at a source.
LEMMA NoWalkEndsAtSource ==
  ASSUME NEW n \in Sources, NEW k \in Nat, EndsWalk(n, k)
  PROVE  k = 0
<1> SUFFICES ASSUME k # 0 PROVE FALSE
  OBVIOUS
<1>1. PICK w \in Walks(k) : w[k] = n
  BY DEF EndsWalk
<1>2. k \in 1..k
  OBVIOUS
<1>3. <<w[k - 1], w[k]>> \in Links
  BY <1>1, <1>2 DEF Walks
<1> QED BY <1>1, <1>3 DEF Sources

-----------------------------------------------------------------------------
(* Steps.                                                                  *)

\* A step that leaves the edges alone leaves the graph alone.
LEMMA SameGraph ==
  ASSUME edges' = edges
  PROVE  /\ Links' = Links /\ Connected' = Connected /\ LastColumn' = LastColumn
         /\ Sources' = Sources
         /\ \A n, k : EndsWalk(n, k)' = EndsWalk(n, k)
<1>1. Links' = Links
  BY DEF Links
<1>2. Connected' = Connected
  BY <1>1 DEF Connected
<1>3. LastColumn' = LastColumn /\ Sources' = Sources
  BY <1>1, <1>2 DEF LastColumn, Sources
<1>4. \A k : Walks(k)' = Walks(k)
  BY <1>1, <1>2 DEF Walks
<1> QED BY <1>1, <1>2, <1>3, <1>4 DEF EndsWalk

LEMMA InitHolds == Init => LayoutInv
<1> SUFFICES ASSUME Init PROVE LayoutInv
  OBVIOUS
<1>1. edges \in Seq(Nat \X Nat)
  BY EdgesAssumption DEF Init
<1> USE GraphFacts, <1>1
<1>2. \A n \in Connected : col[n] = 0
  BY DEF Init
<1>3. LayoutTypeOK
  <2>1. pass = 0 /\ todo \subseteq Links /\ changed \in BOOLEAN
    BY DEF Init
  <2>5. pass \in 0..Cardinality(Connected)
    BY <2>1
  <2>2. col \in [Connected -> Nat]
    BY DEF Init
  <2>3. \A n \in Connected : col[n] <= LastColumn
    BY <1>2
  <2>4. phase \in {"relax", "pull", "placed"}
    BY DEF Init
  <2> QED BY <2>1, <2>2, <2>3, <2>4, <2>5 DEF LayoutTypeOK
<1>4. PassInv
  BY <1>2 DEF Init, PassInv
<1>5. WalkInv
  BY <1>2, StartsWalk DEF Init, WalkInv, Sources
<1>6. SettledInv
  BY DEF Init, SettledInv
<1> QED BY <1>3, <1>4, <1>5, <1>6 DEF LayoutInv

LEMMA RaiseKeeps == ASSUME LayoutInv, NEW e \in todo, Raise(e) PROVE LayoutInv'
<1>1. edges \in Seq(Nat \X Nat) /\ edges' = edges /\ e \in Links /\ todo \subseteq Links
  BY DEF LayoutInv, LayoutTypeOK, Raise
<1> USE GraphFacts, <1>1
<1>2. /\ phase = "relax" /\ phase' = "relax" /\ pass' = pass /\ pass \in Nat
      /\ todo' = todo \ {e} /\ changed' = TRUE
      /\ col \in [Connected -> Nat]
      /\ col' = [col EXCEPT ![e[2]] = col[e[1]] + 1]
      /\ col[e[1]] + 1 <= LastColumn /\ col[e[2]] < col[e[1]] + 1
  BY DEF Raise, IsNext, MovesTarget, LayoutInv, LayoutTypeOK
<1>3. col[e[1]] >= pass
  BY <1>2 DEF LayoutInv, PassInv, Raise
<1>4. /\ col' \in [Connected -> Nat]
      /\ col'[e[2]] = col[e[1]] + 1
      /\ \A n \in Connected : n # e[2] => col'[n] = col[n]
      /\ \A n \in Connected : col'[n] >= col[n]
  BY <1>2
<1>5. LayoutTypeOK'
  BY <1>2, <1>4, SameGraph DEF LayoutInv, LayoutTypeOK
<1>6. PassInv'
  <2>1. ASSUME NEW f \in Links, MovesTarget(f)' PROVE /\ col'[f[1]] >= pass
                                                      /\ f \notin todo' => col'[f[1]] >= pass + 1
    <3>1. col'[f[1]] + 1 <= LastColumn /\ col'[f[2]] < col'[f[1]] + 1
      BY <2>1, SameGraph DEF MovesTarget
    <3>2. CASE f[1] = e[2]
      BY <1>2, <1>3, <1>4, <3>2
    <3>3. CASE f[1] # e[2]
      <4>1. col'[f[1]] = col[f[1]] /\ MovesTarget(f)
        BY <1>2, <1>4, <3>1, <3>3 DEF MovesTarget
      <4>2. col[f[1]] >= pass /\ (f \notin todo => col[f[1]] >= pass + 1)
        BY <1>2, <4>1 DEF LayoutInv, PassInv
      <4>3. f # e
        BY <1>2, <1>4, <3>1, <3>3
      <4> QED BY <1>2, <4>1, <4>2, <4>3
    <3> QED BY <3>2, <3>3
  <2>2. pass + 1 <= LastColumn
    BY <1>2, <1>3
  <2> QED BY <1>2, <2>1, <2>2, SameGraph DEF PassInv
<1>7. WalkInv'
  <2>1. EndsWalk(e[2], col[e[1]] + 1)
    BY <1>2, WalkExtends DEF LayoutInv, WalkInv
  <2>2. \A n \in Connected : EndsWalk(n, col'[n])
    BY <1>2, <1>4, <2>1 DEF LayoutInv, WalkInv
  <2>3. \A n \in Sources : col'[n] = 0
    BY <1>2, <1>4 DEF LayoutInv, WalkInv, Sources
  <2> QED BY <1>2, <2>2, <2>3, SameGraph DEF WalkInv
<1>8. SettledInv'
  BY <1>2 DEF SettledInv
<1> QED BY <1>5, <1>6, <1>7, <1>8 DEF LayoutInv

LEMMA KeepKeeps == ASSUME LayoutInv, NEW e \in todo, Keep(e) PROVE LayoutInv'
<1>1. /\ edges' = edges /\ phase = "relax" /\ phase' = phase /\ pass' = pass
      /\ changed' = changed /\ col' = col /\ todo' = todo \ {e} /\ ~MovesTarget(e)
  BY DEF Keep, IsNext
<1>2. \A f : MovesTarget(f)' = MovesTarget(f)
  BY <1>1, SameGraph DEF MovesTarget
<1>3. LayoutTypeOK'
  BY <1>1, SameGraph DEF LayoutInv, LayoutTypeOK
<1>4. PassInv'
  BY <1>1, <1>2, SameGraph DEF LayoutInv, PassInv
<1>5. WalkInv'
  BY <1>1, SameGraph DEF LayoutInv, WalkInv
<1>6. SettledInv'
  BY <1>1 DEF SettledInv
<1> QED BY <1>3, <1>4, <1>5, <1>6 DEF LayoutInv

LEMMA NextPassKeeps == ASSUME LayoutInv, NextPass PROVE LayoutInv'
<1>1. /\ edges' = edges /\ phase = "relax" /\ phase' = phase /\ pass' = pass + 1
      /\ changed' = FALSE /\ col' = col /\ todo = {} /\ todo' = Links
      /\ pass < Cardinality(Connected) /\ pass \in Nat /\ edges \in Seq(Nat \X Nat)
  BY DEF NextPass, PassEnds, LayoutInv, LayoutTypeOK
<1>2. \A f : MovesTarget(f)' = MovesTarget(f)
  BY <1>1, SameGraph DEF MovesTarget
<1>3. LayoutTypeOK'
  <2>1. (pass \in 0..Cardinality(Connected))'
    BY <1>1, SameGraph, GraphFacts
  <2>2. /\ (edges \in Seq(Nat \X Nat))' /\ phase' \in {"relax", "pull", "placed"}
        /\ todo' \subseteq Links' /\ changed' \in BOOLEAN /\ col' \in [Connected' -> Nat]
    BY <1>1, SameGraph DEF LayoutInv, LayoutTypeOK
  <2>3. \A n \in Connected' : col'[n] <= LastColumn'
    BY <1>1, SameGraph DEF LayoutInv, LayoutTypeOK
  <2> QED BY <2>1, <2>2, <2>3 DEF LayoutTypeOK
<1>4. PassInv'
  BY <1>1, <1>2, SameGraph DEF LayoutInv, PassInv
<1>5. WalkInv'
  BY <1>1, SameGraph DEF LayoutInv, WalkInv
<1>6. SettledInv'
  BY <1>1 DEF SettledInv
<1> QED BY <1>3, <1>4, <1>5, <1>6 DEF LayoutInv

\* The bound on the passes is never what ends them: an edge that moved its target then
\* would start from beyond the last column.
LEMMA SettleKeeps == ASSUME LayoutInv, Settle PROVE LayoutInv'
<1>1. /\ edges' = edges /\ phase = "relax" /\ phase' = "pull" /\ pass' = pass
      /\ changed' = changed /\ col' = col /\ todo = {} /\ todo' = todo
      /\ (~changed \/ pass = Cardinality(Connected))
      /\ pass \in Nat /\ edges \in Seq(Nat \X Nat) /\ changed \in BOOLEAN
      /\ col \in [Connected -> Nat]
  BY DEF Settle, PassEnds, LayoutInv, LayoutTypeOK, loop
<1>2. \A f : MovesTarget(f)' = MovesTarget(f)
  BY <1>1, SameGraph DEF MovesTarget
<1>3. LayoutTypeOK'
  BY <1>1, SameGraph DEF LayoutInv, LayoutTypeOK
<1>4. PassInv'
  BY <1>1 DEF PassInv
<1>5. WalkInv'
  BY <1>1, SameGraph DEF LayoutInv, WalkInv
<1>6. ~changed
  BY <1>1, GraphFacts DEF LayoutInv, PassInv
<1>7. Closed
  BY <1>1, <1>6 DEF LayoutInv, PassInv, Closed
<1>8. SettledInv'
  BY <1>1, <1>2, <1>6, <1>7, SameGraph DEF SettledInv, Closed
<1> QED BY <1>3, <1>4, <1>5, <1>8 DEF LayoutInv

\* A source's targets: columns beyond the first, so that there is a nearest one and the
\* source is set just before it.
LEMMA PulledSource ==
  ASSUME LayoutInv, phase = "pull", NEW n \in Sources
  PROVE  /\ Pulled(n) \in Nat /\ Pulled(n) + 1 \in TargetColumns(n)
         /\ \A c \in TargetColumns(n) : Pulled(n) < c
<1>1. edges \in Seq(Nat \X Nat) /\ col \in [Connected -> Nat] /\ n \in Connected
  BY DEF LayoutInv, LayoutTypeOK, Sources
<1>2. col[n] = 0
  BY DEF LayoutInv, WalkInv
<1>3. PICK e \in Links : e[1] = n
  BY DEF Sources, Connected
<1>4. TargetColumns(n) \in SUBSET Nat /\ col[e[2]] \in TargetColumns(n)
  BY <1>1, <1>3, GraphFacts DEF TargetColumns
<1>5. ASSUME NEW c \in TargetColumns(n) PROVE c >= 1
  <2>1. PICK f \in Links : f[1] = n /\ c = col[f[2]]
    BY DEF TargetColumns
  <2>2. ~MovesTarget(f) /\ LastColumn >= 1 /\ col[f[2]] \in Nat
    BY <1>1, <2>1, GraphFacts DEF LayoutInv, SettledInv, Closed
  <2> QED BY <1>1, <1>2, <2>1, <2>2, GraphFacts DEF MovesTarget
<1>6. Nearest(n) \in TargetColumns(n) /\ \A c \in TargetColumns(n) : Nearest(n) <= c
  <2>1. \E m \in TargetColumns(n) : \A c \in TargetColumns(n) : m <= c
    BY <1>4, LeastElement
  <2> QED BY <2>1 DEF Nearest
<1>7. Pulled(n) = Nearest(n) - 1
  <2>1. Nearest(n) \in Nat /\ Nearest(n) >= 1
    BY <1>4, <1>5, <1>6
  <2> QED BY <1>2, <2>1 DEF Pulled
<1>8. Nearest(n) \in Nat /\ Nearest(n) >= 1
  BY <1>4, <1>5, <1>6
<1>9. \A c \in TargetColumns(n) : c \in Nat
  BY <1>4
<1>10. Pulled(n) \in Nat /\ Pulled(n) + 1 = Nearest(n)
  BY <1>7, <1>8
<1>11. \A c \in TargetColumns(n) : Pulled(n) < c
  BY <1>6, <1>9, <1>10, <1>8
<1> QED BY <1>6, <1>10, <1>11

LEMMA PullKeeps == ASSUME LayoutInv, Pull PROVE LayoutInv'
<1>1. /\ edges' = edges /\ phase = "pull" /\ phase' = "placed" /\ pass' = pass
      /\ changed' = changed /\ todo' = todo
      /\ edges \in Seq(Nat \X Nat) /\ col \in [Connected -> Nat]
      /\ col' = [n \in Connected |-> Pulled(n)]
  BY DEF Pull, LayoutInv, LayoutTypeOK, loop
<1>2. \A n \in Connected : col'[n] = Pulled(n)
  BY <1>1
<1>3. \A n \in Connected \ Sources : col'[n] = col[n]
  BY <1>2 DEF Pulled
<1>4. \A e \in Links : e[2] \in Connected \ Sources /\ e[1] \in Connected
  BY <1>1, GraphFacts DEF Sources
<1>5. \A n : TargetColumns(n)' = TargetColumns(n)
  <2>1. ASSUME NEW n PROVE \A e \in {f \in Links : f[1] = n} : col'[e[2]] = col[e[2]]
    BY <1>3, <1>4
  <2> QED BY <1>1, <2>1, SameGraph DEF TargetColumns
<1>6. /\ \A n \in Connected : col'[n] \in Nat
      /\ \A n \in Connected : col'[n] <= LastColumn
  <2>1. ASSUME NEW n \in Connected PROVE col'[n] \in Nat /\ col'[n] <= LastColumn
    <3>1. CASE n \in Sources
      <4>1. PICK e \in Links : e[1] = n
        BY <3>1 DEF Sources, Connected
      <4>2. col[e[2]] \in TargetColumns(n)
        BY <4>1 DEF TargetColumns
      <4>3. Pulled(n) \in Nat /\ Pulled(n) < col[e[2]]
        BY <1>1, <3>1, <4>2, PulledSource
      <4>4. col[e[2]] \in Nat /\ col[e[2]] <= LastColumn /\ LastColumn \in Int
        BY <1>1, <1>4, GraphFacts DEF LayoutInv, LayoutTypeOK
      <4> QED BY <1>2, <4>3, <4>4
    <3>2. CASE n \notin Sources
      BY <1>1, <1>3, <3>2 DEF LayoutInv, LayoutTypeOK
    <3> QED BY <3>1, <3>2
  <2> QED BY <2>1
<1>7. LayoutTypeOK'
  <2>1. col' \in [Connected' -> Nat] /\ \A n \in Connected' : col'[n] <= LastColumn'
    BY <1>1, <1>6, SameGraph
  <2>2. /\ (edges \in Seq(Nat \X Nat))' /\ phase' \in {"relax", "pull", "placed"}
        /\ (pass \in 0..Cardinality(Connected))' /\ todo' \subseteq Links' /\ changed' \in BOOLEAN
    BY <1>1, SameGraph DEF LayoutInv, LayoutTypeOK
  <2> QED BY <2>1, <2>2 DEF LayoutTypeOK
<1>8. PassInv'
  BY <1>1 DEF PassInv
<1>9. WalkInv'
  <2>1. \A n \in Connected : n \notin Sources => EndsWalk(n, col'[n])
    BY <1>1, <1>3 DEF LayoutInv, WalkInv
  <2> QED BY <1>1, <2>1, SameGraph DEF WalkInv
<1>10. SettledInv'
  <2>1. ~changed'
    BY <1>1 DEF LayoutInv, SettledInv
  <2>2. ASSUME NEW e \in Links, e[1] \notin Sources PROVE ~MovesTarget(e)'
    <3>1. col'[e[1]] = col[e[1]] /\ col'[e[2]] = col[e[2]]
      BY <1>3, <1>4, <2>2
    <3>2. ~MovesTarget(e)
      BY <1>1 DEF LayoutInv, SettledInv, Closed
    <3> QED BY <1>1, <3>1, <3>2, SameGraph DEF MovesTarget
  <2>3. \A n \in Sources : /\ col'[n] + 1 \in TargetColumns(n)'
                           /\ \A c \in TargetColumns(n)' : col'[n] < c
    BY <1>1, <1>2, <1>5, PulledSource DEF Sources
  <2> QED BY <1>1, <2>1, <2>2, <2>3, SameGraph DEF SettledInv
<1> QED BY <1>7, <1>8, <1>9, <1>10 DEF LayoutInv

LEMMA StutterKeeps == ASSUME LayoutInv, UNCHANGED layoutVars PROVE LayoutInv'
<1>1. /\ edges' = edges /\ phase' = phase /\ pass' = pass /\ changed' = changed
      /\ todo' = todo /\ col' = col
  BY DEF layoutVars, loop
<1>2. /\ \A f : MovesTarget(f)' = MovesTarget(f)
      /\ \A n : TargetColumns(n)' = TargetColumns(n)
  BY <1>1, SameGraph DEF MovesTarget, TargetColumns
<1>3. LayoutTypeOK' /\ WalkInv'
  BY <1>1, SameGraph DEF LayoutInv, LayoutTypeOK, WalkInv
<1>4. PassInv'
  BY <1>1, <1>2, SameGraph DEF LayoutInv, PassInv
<1>5. SettledInv'
  BY <1>1, <1>2, SameGraph DEF LayoutInv, SettledInv, Closed
<1> QED BY <1>3, <1>4, <1>5 DEF LayoutInv

-----------------------------------------------------------------------------
(* What the invariant says of the layout.                                  *)

\* The last k edges of a walk of k + 1.
LEMMA WalkShortens ==
  ASSUME NEW n, NEW k \in Nat, EndsWalk(n, k + 1)
  PROVE  EndsWalk(n, k)
<1>1. PICK w \in Walks(k + 1) : w[k + 1] = n
  BY DEF EndsWalk
<1>2. w \in [0..(k + 1) -> Connected] /\ \A i \in 1..(k + 1) : <<w[i - 1], w[i]>> \in Links
  BY DEF Walks
<1> DEFINE v == [i \in 0..k |-> w[i + 1]]
<1>3. v \in [0..k -> Connected] /\ v[k] = n
  BY <1>1, <1>2
<1>4. ASSUME NEW i \in 1..k PROVE <<v[i - 1], v[i]>> \in Links
  <2>1. i + 1 \in 1..(k + 1) /\ i - 1 \in 0..k /\ i \in 0..k
    OBVIOUS
  <2>2. v[i - 1] = w[(i + 1) - 1] /\ v[i] = w[i + 1]
    BY <2>1
  <2> QED BY <1>2, <2>1, <2>2
<1> HIDE DEF v
<1>5. v \in Walks(k)
  BY <1>3, <1>4 DEF Walks
<1> QED BY <1>3, <1>5 DEF EndsWalk

\* What comes after a cycle is followed by what comes after a cycle.
LEMMA AfterCycleSpreads ==
  ASSUME edges \in Seq(Nat \X Nat), NEW e \in Links, AfterCycle(e[1])
  PROVE  AfterCycle(e[2])
<1>1. Cardinality(Connected) \in Nat
  BY GraphFacts
<1>2. EndsWalk(e[2], Cardinality(Connected) + 1)
  BY <1>1, WalkExtends DEF AfterCycle
<1> QED BY <1>1, <1>2, WalkShortens DEF AfterCycle

LEMMA EdgeAscends ==
  ASSUME LayoutInv, phase # "relax", NEW e \in Links, ~AfterCycle(e[2])
  PROVE  col[e[1]] < col[e[2]]
<1>1. /\ edges \in Seq(Nat \X Nat) /\ col \in [Connected -> Nat]
      /\ phase \in {"pull", "placed"}
      /\ \A n \in Connected : col[n] <= LastColumn
  BY DEF LayoutInv, LayoutTypeOK
<1>2. e[1] \in Connected /\ e[2] \in Connected
  BY <1>1, GraphFacts
<1>3. CASE phase = "placed" /\ e[1] \in Sources
  <2>1. col[e[2]] \in TargetColumns(e[1])
    BY DEF TargetColumns
  <2> QED BY <1>3, <2>1 DEF LayoutInv, SettledInv
<1>4. CASE ~(phase = "placed" /\ e[1] \in Sources)
  <2>1. ~MovesTarget(e)
    BY <1>1, <1>4 DEF LayoutInv, SettledInv, Closed
  <2>2. EndsWalk(e[1], col[e[1]])
    BY <1>2, <1>4 DEF LayoutInv, WalkInv
  <2>3. EndsWalk(e[2], col[e[1]] + 1)
    BY <1>1, <1>2, <2>2, WalkExtends
  <2>4. col[e[1]] \in Nat /\ col[e[2]] \in Nat /\ col[e[1]] <= LastColumn
        /\ Cardinality(Connected) \in Nat /\ LastColumn = Cardinality(Connected) - 1
    BY <1>1, <1>2, GraphFacts
  <2>5. col[e[1]] + 1 # Cardinality(Connected)
    BY <2>3 DEF AfterCycle
  <2> QED BY <2>1, <2>4, <2>5 DEF MovesTarget
<1> QED BY <1>3, <1>4

\* Along a walk that no cycle precedes, every edge goes one column further at least.
LEMMA LongestWalk ==
  ASSUME LayoutInv, phase # "relax", NEW n \in Connected, ~AfterCycle(n),
         NEW k \in Nat, EndsWalk(n, k)
  PROVE  k <= col[n]
<1>1. edges \in Seq(Nat \X Nat) /\ col \in [Connected -> Nat]
  BY DEF LayoutInv, LayoutTypeOK
<1>2. PICK w \in Walks(k) : w[k] = n
  BY DEF EndsWalk
<1>3. w \in [0..k -> Connected] /\ \A i \in 1..k : <<w[i - 1], w[i]>> \in Links
  BY DEF Walks
<1> DEFINE bad == {i \in 0..k : ~AfterCycle(w[i]) /\ col[w[i]] < i}
<1>4. SUFFICES ASSUME bad # {} PROVE FALSE
  <2>1. k \in 0..k /\ col[n] \in Nat
    BY <1>1
  <2>2. col[n] < k => k \in bad
    BY <1>2, <2>1
  <2> QED BY <2>1, <2>2
<1>5. PICK m \in bad : \A i \in bad : m <= i
  <2>1. bad \in SUBSET Nat
    OBVIOUS
  <2> HIDE DEF bad
  <2> QED BY <1>4, <2>1, LeastElement
<1>6. m \in 1..k /\ m - 1 \in 0..k /\ m - 1 \notin bad
  <2>1. m \in 0..k /\ col[w[m]] \in Nat /\ col[w[m]] < m
    BY <1>1, <1>3, <1>5
  <2>2. m - 1 \notin bad
    BY <1>5, <2>1
  <2> QED BY <2>1, <2>2
<1> DEFINE e == <<w[m - 1], w[m]>>
<1>7. e \in Links /\ e[1] = w[m - 1] /\ e[2] = w[m] /\ ~AfterCycle(w[m]) /\ col[w[m]] < m
  BY <1>3, <1>5, <1>6
<1> HIDE DEF e
<1>8. ~AfterCycle(w[m - 1])
  BY <1>1, <1>7, AfterCycleSpreads
<1>9. col[w[m - 1]] < col[w[m]]
  BY <1>7, EdgeAscends
<1>10. col[w[m - 1]] \in Nat /\ col[w[m]] \in Nat
  BY <1>1, <1>3, <1>6
<1>11. col[w[m - 1]] >= m - 1
  BY <1>6, <1>8, <1>10
<1> QED BY <1>6, <1>7, <1>9, <1>10, <1>11

LEMMA InvGivesColumns == LayoutInv => ColumnsAreLongestWalks
<1> SUFFICES ASSUME LayoutInv, phase # "relax" PROVE ColumnsAreLongestWalks
  BY DEF ColumnsAreLongestWalks
<1>1. ~changed
  BY DEF LayoutInv, SettledInv
<1>2. \A n \in Connected \ Sources : EndsWalk(n, col[n])
  BY DEF LayoutInv, WalkInv
<1>3. \A n \in Connected : ~AfterCycle(n) =>
        \A k \in 0..LastColumn : EndsWalk(n, k) => k <= col[n]
  BY LongestWalk
<1> QED BY <1>1, <1>2, <1>3 DEF ColumnsAreLongestWalks

LEMMA InvGivesEdges == LayoutInv => EdgesRunRight
<1> SUFFICES ASSUME LayoutInv, phase = "placed" PROVE EdgesRunRight
  BY DEF EdgesRunRight
<1>1. \A e \in Links : ~AfterCycle(e[2]) => col[e[1]] < col[e[2]]
  BY EdgeAscends
<1>2. \A n \in Sources : col[n] + 1 \in TargetColumns(n)
                         /\ \A c \in TargetColumns(n) : col[n] < c
  BY DEF LayoutInv, SettledInv
<1> QED BY <1>1, <1>2 DEF EdgesRunRight

-----------------------------------------------------------------------------
(* Theorems.                                                               *)

\* The layout computes in its own steps only; routing reads it.
LEMMA RoutesKeepLayout == Spec => LayoutSpec
<1>1. RoutesInit => Init
  BY DEF RoutesInit
<1>2. [Next]_vars => [LayoutNext]_layoutVars
  BY DEF Next, vars, PlacePorts, PlanCorridors, Draw
<1> QED BY <1>1, <1>2, PTL DEF Spec, LayoutSpec

LEMMA LayoutInvHolds == LayoutSpec => []LayoutInv
<1>1. LayoutInv /\ [LayoutNext]_layoutVars => LayoutInv'
  <2> SUFFICES ASSUME LayoutInv, [LayoutNext]_layoutVars PROVE LayoutInv'
    OBVIOUS
  <2>1. CASE \E e \in todo : Raise(e)
    BY <2>1, RaiseKeeps
  <2>2. CASE \E e \in todo : Keep(e)
    BY <2>2, KeepKeeps
  <2>3. CASE NextPass
    BY <2>3, NextPassKeeps
  <2>4. CASE Settle
    BY <2>4, SettleKeeps
  <2>5. CASE Pull
    BY <2>5, PullKeeps
  <2>6. CASE UNCHANGED layoutVars
    BY <2>6, StutterKeeps
  <2> QED BY <2>1, <2>2, <2>3, <2>4, <2>5, <2>6 DEF LayoutNext
<1> QED BY <1>1, InitHolds, PTL DEF LayoutSpec

\* The layout's variables keep their types, and no column passes the last: a cycle in the
\* model does not push a box out for ever (c4BackboneLayout's cap at N - 1).
THEOREM LayoutTypeCorrect == Spec => []LayoutTypeOK
<1>1. LayoutInv => LayoutTypeOK
  BY DEF LayoutInv
<1> QED BY <1>1, RoutesKeepLayout, LayoutInvHolds, PTL

\* For any containers and edges, in whatever order: the passes of c4BackboneLayout settle
\* before their bound, and the columns are lengths of walks, the longest where no cycle
\* comes before.
THEOREM LongestWalkColumns == Spec => []ColumnsAreLongestWalks
BY RoutesKeepLayout, LayoutInvHolds, InvGivesColumns, PTL

\* For any containers and edges: in the layout that c4BackboneLayout returns, edges run to
\* the right unless their target comes after a cycle, and sources stand just left of
\* their nearest targets.
THEOREM EdgesAscend == Spec => []EdgesRunRight
BY RoutesKeepLayout, LayoutInvHolds, InvGivesEdges, PTL

-----------------------------------------------------------------------------
(* Ports.                                                                  *)

\* What is placed is the ports of the finished layout.
PortInv ==
    /\ edges \in EdgeLists
    /\ stage # "wait" => phase = "placed" /\ port = [x \in Ends |-> PortOf(x)]

\* No port is placed at first.
LEMMA PortInit == RoutesInit => PortInv
  BY DEF RoutesInit, Init, PortInv

\* The layout is finished when the ports are placed, and neither changes afterwards.
LEMMA PortStep == PortInv /\ [Next]_vars => PortInv'
<1> SUFFICES ASSUME PortInv, [Next]_vars PROVE PortInv'
  OBVIOUS
<1>1. CASE LayoutNext /\ UNCHANGED routeVars
  <2>1. phase # "placed" /\ edges' = edges
    BY <1>1 DEF LayoutNext, Raise, Keep, IsNext, NextPass, PassEnds, Settle, Pull
  <2> QED BY <1>1, <2>1 DEF PortInv, routeVars
<1>2. CASE UNCHANGED layoutVars /\ (stage = "wait" => phase = "placed") /\ stage' # "wait"
           /\ port' = [x \in Ends |-> PortOf(x)]
  <2>1. UNCHANGED <<edges, phase, col>>
    BY <1>2 DEF layoutVars
  <2> DEFINE P == [x \in Ends |-> PortOf(x)]
  <2>2. P' = P
    BY <2>1 DEF Ends, Drawn, Links, Connected, PortOf, SameSide, Precedes, Across, Box, Other, Side,
       Source, Target, IsLevel, ColumnsAcross, RowsAcross, GridColumn, Row, Left, Right, Top, Bottom,
       CentreX, CentreY
  <2> QED BY <1>2, <2>1, <2>2 DEF PortInv
<1>3. CASE PlacePorts
  BY <1>2, <1>3 DEF PlacePorts
<1>4. CASE PlanCorridors \/ Draw
  BY <1>2, <1>4 DEF PlanCorridors, Draw, PortInv
<1>5. CASE UNCHANGED vars
  <2>1. CASE stage = "wait"
    BY <1>5, <2>1 DEF vars, layoutVars, routeVars, PortInv
  <2>2. CASE stage # "wait"
    BY <1>2, <1>5, <2>2 DEF vars, routeVars, PortInv
  <2> QED BY <2>1, <2>2
<1> QED BY <1>1, <1>3, <1>4, <1>5 DEF Next

\* Equal parts of a length that has a unit for each of them: the marks ascend ...
LEMMA MarksAscend ==
  ASSUME NEW n \in Nat, NEW a \in Nat, n >= 1, a >= n, NEW j \in Nat, NEW k \in Nat, j < k
  PROVE  (j * a) \div n < (k * a) \div n
<1> DEFINE p == (j * a) \div n
           q == (k * a) \div n
<1>1. j * a \in Nat /\ k * a \in Nat
  OBVIOUS
<1>2. p \in Int /\ q \in Int /\ p * n <= j * a /\ k * a < (q + 1) * n
  BY <1>1
<1>3. k * a >= (j + 1) * a
  OBVIOUS
<1>4. (j + 1) * a = j * a + a
  OBVIOUS
<1> HIDE DEF p, q
<1>5. (p + 1) * n = p * n + n
  BY <1>2
<1>6. (p + 1) * n < (q + 1) * n
  BY <1>1, <1>2, <1>3, <1>4, <1>5
<1>7. ASSUME q <= p PROVE FALSE
  <2>1. (q + 1) * n <= (p + 1) * n
    BY <1>2, <1>7
  <2> QED BY <1>2, <1>6, <2>1
<1> QED BY <1>2, <1>7 DEF p, q

\* ... strictly between the ends of the length.
LEMMA MarksInside ==
  ASSUME NEW n \in Nat, NEW a \in Nat, n >= 1, a >= n, NEW k \in 1..(n - 1)
  PROVE  (k * a) \div n \in 1..(a - 1)
<1>1. (0 * a) \div n < (k * a) \div n
  BY MarksAscend
<1>2. (k * a) \div n < (n * a) \div n
  BY MarksAscend
<1>3. (0 * a) \div n = 0
  OBVIOUS
<1>4. (n * a) \div n = a
  OBVIOUS
<1>5. (k * a) \div n \in Int
  OBVIOUS
<1> QED BY <1>1, <1>2, <1>3, <1>4, <1>5

\* Each end of an edge has a box and another one, in their places on the grid.
LEMMA EndFacts ==
  ASSUME LayoutTypeOK, edges \in EdgeLists
  PROVE  /\ IsFiniteSet(Ends)
         /\ \A x \in Ends : /\ x[1] \in Nat /\ x[2] \in {"source", "target"} /\ x = <<x[1], x[2]>>
                            /\ Box(x) \in Containers /\ Other(x) \in Containers
                            /\ Box(x) # Other(x) /\ Across(x) \in Int
                            /\ Left(Box(x)) \in Int /\ Top(Box(x)) \in Int
         /\ \A S \in SUBSET Ends : /\ IsFiniteSet(S) /\ Cardinality(S) \in Nat
                                   /\ Cardinality(S) < Width
                                   /\ \A n \in Containers : Cardinality(S) < Height[n]
<1>1. /\ edges \in Seq(Nat \X Nat) /\ Drawn \subseteq 1..Len(edges) /\ Len(edges) \in Nat
      /\ col \in [Connected -> Nat] /\ Connected \subseteq Containers /\ IsFiniteSet(Connected)
  <2>1. edges \in Seq(Nat \X Nat) /\ col \in [Connected -> Nat]
    BY DEF LayoutTypeOK
  <2>2. Connected \subseteq Containers
    BY DEF Connected, Links
  <2>3. DOMAIN edges = 1..Len(edges) /\ Len(edges) \in Nat
    BY <2>1
  <2> QED BY <2>1, <2>2, <2>3, GraphFacts DEF Drawn
<1>2. IsFiniteSet(Drawn) /\ Cardinality(Drawn) \in Nat /\ Cardinality(Drawn) <= Len(edges)
  <2>1. IsFiniteSet(1..Len(edges)) /\ Cardinality(1..Len(edges)) = Len(edges)
    BY <1>1, FS_Interval
  <2> QED BY <1>1, <2>1, FS_Subset, FS_CardinalityType
<1>3. IsFiniteSet(Ends) /\ Cardinality(Ends) <= 2 * Len(edges)
  <2>1. IsFiniteSet({"source", "target"}) /\ Cardinality({"source", "target"}) = 2
    <3>1. IsFiniteSet({"source"}) /\ Cardinality({"source"}) = 1 /\ "target" \notin {"source"}
      BY FS_Singleton
    <3>2. IsFiniteSet({"source"} \cup {"target"}) /\ Cardinality({"source"} \cup {"target"}) = 1 + 1
      BY <3>1, FS_AddElement
    <3>3. {"source"} \cup {"target"} = {"source", "target"}
      OBVIOUS
    <3> QED BY <3>2, <3>3
  <2>2. IsFiniteSet(Ends) /\ Cardinality(Ends) = Cardinality(Drawn) * 2
    BY <1>2, <2>1, FS_Product DEF Ends
  <2> QED BY <1>1, <1>2, <2>2
<1>4. ASSUME NEW n \in Connected
      PROVE  Left(n) \in Int /\ Top(n) \in Int /\ CentreX(n) \in Int /\ CentreY(n) \in Int
  <2>1. Row(n) \in Nat
    <3>1. IsFiniteSet({m \in Connected : col[m] = col[n] /\ Rank[m] < Rank[n]})
      BY <1>1, FS_Subset
    <3> QED BY <3>1, FS_CardinalityType DEF Row
  <2>2. col[n] \in Nat /\ n \in Containers
    BY <1>1
  <2>3. Left(n) \in Int /\ Top(n) \in Int
    BY <2>1, <2>2, LengthsAssumption DEF Left, Top
  <2>4. Width \div 2 \in Int /\ Height[n] \div 2 \in Int
    BY <2>2, LengthsAssumption
  <2> QED BY <2>3, <2>4 DEF CentreX, CentreY
<1>5. ASSUME NEW x \in Ends
      PROVE  /\ x[1] \in Nat /\ x[2] \in {"source", "target"} /\ x = <<x[1], x[2]>>
             /\ Box(x) \in Connected /\ Other(x) \in Connected /\ Box(x) # Other(x)
  <2>1. x[1] \in Drawn /\ x[2] \in {"source", "target"} /\ x = <<x[1], x[2]>>
    BY DEF Ends
  <2>2. edges[x[1]] \in Links
    BY <2>1 DEF Drawn
  <2>3. Source(x[1]) \in Connected /\ Target(x[1]) \in Connected /\ Source(x[1]) # Target(x[1])
    BY <1>1, <2>2, GraphFacts DEF Source, Target
  <2> QED BY <1>1, <2>1, <2>3 DEF Box, Other
<1>6. ASSUME NEW S \in SUBSET Ends
      PROVE  /\ IsFiniteSet(S) /\ Cardinality(S) \in Nat /\ Cardinality(S) <= 2 * Len(edges)
  BY <1>1, <1>3, FS_Subset, FS_CardinalityType
<1>7. 2 * Len(edges) < Width /\ \A n \in Containers : 2 * Len(edges) < Height[n] /\ Height[n] \in Nat
  BY LengthsAssumption
<1>8. ASSUME NEW x \in Ends PROVE Across(x) \in Int
  BY <1>4, <1>5 DEF Across
<1>9. ASSUME NEW S \in SUBSET Ends
      PROVE  Cardinality(S) < Width /\ \A n \in Containers : Cardinality(S) < Height[n]
  BY <1>1, <1>6, <1>7, LengthsAssumption
<1> QED BY <1>1, <1>3, <1>4, <1>5, <1>6, <1>8, <1>9

\* The place of an end on its side, counted from one.
Place(x) == 1 + Cardinality({y \in SameSide(x) : Precedes(y, x)})

LEMMA PlaceInRange ==
  ASSUME LayoutTypeOK, edges \in EdgeLists, NEW z \in Ends
  PROVE  /\ SameSide(z) \in SUBSET Ends /\ Cardinality(SameSide(z)) \in Nat
         /\ Place(z) \in 1..Cardinality(SameSide(z))
<1> DEFINE A == {y \in SameSide(z) : Precedes(y, z)}
<1>1. SameSide(z) \in SUBSET Ends /\ z \in SameSide(z)
  BY DEF SameSide
<1>2. z[1] \in Nat /\ Across(z) \in Int
  BY EndFacts
<1>3. A \subseteq SameSide(z) /\ z \notin A
  BY <1>2 DEF Precedes
<1>4. A \in SUBSET Ends
  BY <1>1, <1>3
<1>5. IsFiniteSet(SameSide(z)) /\ Cardinality(SameSide(z)) \in Nat /\ Cardinality(A) \in Nat
  BY <1>1, <1>4, EndFacts
<1>6. Cardinality(A) <= Cardinality(SameSide(z)) /\ (Cardinality(A) = Cardinality(SameSide(z)) => A = SameSide(z))
  BY <1>3, <1>5, FS_Subset
<1> QED BY <1>1, <1>3, <1>5, <1>6 DEF Place

\* The ends on one side are in a strict order, so two of them have two places.
LEMMA PlacesDiffer ==
  ASSUME LayoutTypeOK, edges \in EdgeLists, NEW x \in Ends, NEW y \in Ends,
         Box(x) = Box(y), Side(x) = Side(y), x # y
  PROVE  SameSide(x) = SameSide(y) /\ Place(x) # Place(y)
<1>1. \A z \in Ends : z[1] \in Nat /\ Across(z) \in Int
  BY EndFacts
<1>2. SameSide(x) = SameSide(y) /\ x \in SameSide(x) /\ y \in SameSide(x) /\ SameSide(x) \subseteq Ends
  BY DEF SameSide
<1>3. \A u, v \in SameSide(x) : u[1] = v[1] => u = v
  <2> SUFFICES ASSUME NEW u \in SameSide(x), NEW v \in SameSide(x), u[1] = v[1], u # v PROVE FALSE
    OBVIOUS
  <2>1. u \in Ends /\ v \in Ends /\ Box(u) = Box(v)
    BY DEF SameSide
  <2>2. u[2] # v[2] /\ u[2] \in {"source", "target"} /\ v[2] \in {"source", "target"}
    BY <2>1, EndFacts
  <2>3. Box(u) = Other(v)
    BY <2>2 DEF Box, Other
  <2> QED BY <2>1, <2>3, EndFacts
<1>4. ASSUME NEW u \in SameSide(x), NEW v \in SameSide(x), Precedes(u, v)
      PROVE  1 + Cardinality({z \in SameSide(x) : Precedes(z, u)})
               < 1 + Cardinality({z \in SameSide(x) : Precedes(z, v)})
  <2> DEFINE A == {z \in SameSide(x) : Precedes(z, u)}
             B == {z \in SameSide(x) : Precedes(z, v)}
  <2>1. A \subseteq B
    BY <1>1, <1>2, <1>4 DEF Precedes
  <2>2. u \in B /\ u \notin A
    BY <1>1, <1>2, <1>4 DEF Precedes
  <2>3. IsFiniteSet(B) /\ Cardinality(A) \in Nat /\ Cardinality(B) \in Nat
    BY <1>2, EndFacts
  <2>4. Cardinality(A) <= Cardinality(B) /\ (Cardinality(A) = Cardinality(B) => A = B)
    BY <2>1, <2>3, FS_Subset
  <2> QED BY <2>2, <2>3, <2>4
<1>5. Precedes(x, y) \/ Precedes(y, x)
  BY <1>1, <1>2, <1>3 DEF Precedes
<1>6. Place(x) \in Nat /\ Place(y) \in Nat
  BY PlaceInRange
<1>7. Place(x) < Place(y) \/ Place(y) < Place(x)
  BY <1>2, <1>4, <1>5 DEF Place
<1> QED BY <1>2, <1>6, <1>7

\* Two ends on one box have two ports.
LEMMA PortsDiffer ==
  ASSUME LayoutTypeOK, edges \in EdgeLists, NEW x \in Ends, NEW y \in Ends,
         x # y, Box(x) = Box(y)
  PROVE  PortOf(x) # PortOf(y)
<1> DEFINE b == Box(x)
           at(z) == (Place(z) * (IF Side(z) \in {"left", "right"} THEN Height[Box(z)] ELSE Width))
                       \div (1 + Cardinality(SameSide(z)))
<1>1. /\ b \in Containers /\ Left(b) \in Int /\ Top(b) \in Int
      /\ Width \in Nat /\ Height[b] \in Nat /\ Width > 0 /\ Height[b] > 0
  <2>1. {} \in SUBSET Ends
    OBVIOUS
  <2>2. Cardinality({}) = 0
    BY FS_EmptySet
  <2>3. b \in Containers /\ Left(b) \in Int /\ Top(b) \in Int /\ 0 < Width /\ 0 < Height[b]
    BY <2>1, <2>2, EndFacts
  <2> QED BY <2>3, LengthsAssumption
<1>2. \A z \in Ends : Side(z) \in {"left", "right", "top", "bottom"}
  BY DEF Side
<1>3. ASSUME NEW z \in Ends, Box(z) = b
      PROVE  PortOf(z) = CASE Side(z) = "right"  -> Point(Left(b) + Width, Top(b) + at(z))
                           [] Side(z) = "left"   -> Point(Left(b), Top(b) + at(z))
                           [] Side(z) = "bottom" -> Point(Left(b) + at(z), Top(b) + Height[b])
                           [] Side(z) = "top"    -> Point(Left(b) + at(z), Top(b))
  BY <1>3 DEF PortOf, Place, Right, Bottom
<1>4. ASSUME NEW z \in Ends, Box(z) = b
      PROVE  at(z) \in Nat /\ 0 < at(z)
             /\ at(z) < (IF Side(z) \in {"left", "right"} THEN Height[b] ELSE Width)
  <2> DEFINE n == 1 + Cardinality(SameSide(z))
             a == IF Side(z) \in {"left", "right"} THEN Height[b] ELSE Width
  <2>1. SameSide(z) \in SUBSET Ends /\ Place(z) \in 1..Cardinality(SameSide(z))
    BY PlaceInRange
  <2>2. Cardinality(SameSide(z)) \in Nat /\ Cardinality(SameSide(z)) < a
    BY <1>1, <2>1, EndFacts
  <2>3. n \in Nat /\ n >= 1 /\ a \in Nat /\ a >= n /\ Place(z) \in 1..(n - 1)
    BY <1>1, <2>1, <2>2
  <2>4. (Place(z) * a) \div n \in 1..(a - 1)
    BY <2>3, MarksInside
  <2>5. at(z) = (Place(z) * a) \div n
    BY <1>4
  <2> QED BY <2>3, <2>4, <2>5
<1>5. CASE Side(x) = Side(y)
  <2> DEFINE n == 1 + Cardinality(SameSide(x))
             a == IF Side(x) \in {"left", "right"} THEN Height[b] ELSE Width
  <2>1. SameSide(y) = SameSide(x) /\ Place(x) # Place(y)
        /\ Place(x) \in 1..Cardinality(SameSide(x)) /\ Place(y) \in 1..Cardinality(SameSide(y))
    BY <1>5, PlacesDiffer, PlaceInRange
  <2>2. SameSide(x) \in SUBSET Ends
    BY DEF SameSide
  <2>3. Cardinality(SameSide(x)) \in Nat /\ Cardinality(SameSide(x)) < a
    BY <1>1, <2>2, EndFacts
  <2>4. n \in Nat /\ n >= 1 /\ a \in Nat /\ a >= n /\ Place(x) \in Nat /\ Place(y) \in Nat
    BY <1>1, <2>1, <2>3
  <2>5. at(x) = (Place(x) * a) \div n /\ at(y) = (Place(y) * a) \div n
    BY <1>5, <2>1
  <2> HIDE DEF n, a
  <2>6. (Place(x) * a) \div n < (Place(y) * a) \div n \/ (Place(y) * a) \div n < (Place(x) * a) \div n
    <3>1. CASE Place(x) < Place(y)
      BY <2>4, <3>1, MarksAscend
    <3>2. CASE Place(y) < Place(x)
      BY <2>4, <3>2, MarksAscend
    <3> QED BY <2>1, <2>4, <3>1, <3>2
  <2>7. at(x) # at(y) /\ at(x) \in Nat /\ at(y) \in Nat
    BY <1>4, <2>5, <2>6
  <2> HIDE DEF at, b
  <2> QED BY <1>1, <1>2, <1>3, <1>5, <2>7 DEF Point, b
<1>6. CASE Side(x) # Side(y)
  <2>1. at(x) \in Nat /\ at(y) \in Nat /\ 0 < at(x) /\ 0 < at(y)
    BY <1>4
  <2>2. /\ at(x) < (IF Side(x) \in {"left", "right"} THEN Height[b] ELSE Width)
        /\ at(y) < (IF Side(y) \in {"left", "right"} THEN Height[b] ELSE Width)
    BY <1>4
  <2>3. Side(x) \in {"left", "right", "top", "bottom"} /\ Side(y) \in {"left", "right", "top", "bottom"}
    BY <1>2
  <2> HIDE DEF at, b
  <2> QED BY <1>1, <1>3, <1>6, <2>1, <2>2, <2>3 DEF Point, b
<1> QED BY <1>5, <1>6

\* No two ends meet a box at one point: for any edges, boxes of any heights, and
\* however many ends stand on one side.
THEOREM PortsApart == Spec => []PortsKeepApart
<1>1. LayoutTypeOK /\ PortInv => PortsKeepApart
  BY PortsDiffer DEF PortInv, PortsKeepApart
<1> QED BY <1>1, PortInit, PortStep, LayoutTypeCorrect, PTL DEF Spec
-----------------------------------------------------------------------------
(* Lanes.                                                                  *)

\* What keeping a number in an interval gives.
LEMMA ClampFacts ==
  ASSUME NEW v \in Int, NEW lo \in Int, NEW hi \in Int, lo <= hi
  PROVE  Clamp(v, lo, hi) = IF v < lo THEN lo ELSE IF v > hi THEN hi ELSE v
<1>1. ASSUME NEW a \in Int, NEW b \in Int
      PROVE  Max({a, b}) = (IF a < b THEN b ELSE a) /\ Min({a, b}) = (IF a < b THEN a ELSE b)
  <2> DEFINE greater == IF a < b THEN b ELSE a
             lesser == IF a < b THEN a ELSE b
  <2>1. /\ greater \in {a, b} /\ \A y \in {a, b} : greater >= y
        /\ lesser \in {a, b} /\ \A y \in {a, b} : lesser <= y
    OBVIOUS
  <2>2. \A x \in {a, b} : (\A y \in {a, b} : x >= y) => x = greater
    OBVIOUS
  <2>3. \A x \in {a, b} : (\A y \in {a, b} : x <= y) => x = lesser
    OBVIOUS
  <2> HIDE DEF greater, lesser
  <2>4. Max({a, b}) = greater
    BY <2>1, <2>2 DEF Max
  <2>5. Min({a, b}) = lesser
    BY <2>1, <2>3 DEF Min
  <2> QED BY <2>4, <2>5 DEF greater, lesser
<1>2. Min({hi, v}) = (IF hi < v THEN hi ELSE v) /\ Min({hi, v}) \in Int
  BY <1>1
<1>3. Max({lo, Min({hi, v})}) = IF lo < Min({hi, v}) THEN Min({hi, v}) ELSE lo
  BY <1>1, <1>2
<1> QED BY <1>2, <1>3 DEF Clamp

\* The distance of the n lanes of a corridor that has room for them.
LEMMA GapFits ==
  ASSUME NEW n \in Nat, NEW w \in Int, NEW least \in Nat, NEW widest \in Nat, widest >= least,
         w >= (n + 1) * least
  PROVE  LET gap == Clamp(w \div (n + 1), least, widest)
         IN  gap \in Nat /\ gap >= least /\ (n + 1) * gap <= w
<1> DEFINE d == w \div (n + 1)
           gap == Clamp(d, least, widest)
<1>1. d \in Int /\ (n + 1) * d <= w /\ w < (n + 1) * (d + 1)
  OBVIOUS
<1> HIDE DEF d
<1>2. d >= least
  <2> SUFFICES ASSUME d + 1 <= least PROVE FALSE
    BY <1>1
  <2>1. (n + 1) * (d + 1) <= (n + 1) * least
    BY <1>1
  <2> QED BY <1>1, <2>1
<1>3. gap = IF d > widest THEN widest ELSE d
  BY <1>1, <1>2, ClampFacts
<1>4. gap \in Nat /\ gap >= least /\ gap <= d
  BY <1>1, <1>2, <1>3
<1> HIDE DEF gap
<1>5. (n + 1) * gap <= (n + 1) * d
  BY <1>1, <1>4
<1>6. (n + 1) * gap \in Int /\ (n + 1) * d \in Int
  BY <1>1, <1>4
<1>7. (n + 1) * gap <= w
  BY <1>1, <1>5, <1>6
<1> QED BY <1>4, <1>7 DEF gap, d

\* The edges of a corridor with eight pixels for each of them, and eight more, run in
\* lanes of their own, in the edges' order: neither the rounding nor the clamping to the
\* corridor brings two of them together.
THEOREM LanesApart ==
  ASSUME NEW members \in SUBSET Nat, IsFiniteSet(members), NEW corridor \in [lo : Int, hi : Int],
         NEW widest \in Nat, widest >= 8 * Px,
         corridor.hi - corridor.lo >= (Cardinality(members) + 1) * (8 * Px),
         NEW i \in members, NEW j \in members, i < j
  PROVE  Lane(i, members, corridor, widest) < Lane(j, members, corridor, widest)
<1> DEFINE n == Cardinality(members)
           lo == corridor.lo
           hi == corridor.hi
           gap == Clamp((hi - lo) \div (n + 1), 8 * Px, widest)
           place(k) == Cardinality({m \in members : m < k})
           A(k) == (2 * place(k) - (n - 1)) * gap
           at(k) == Middle(corridor) + A(k) \div 2
<1>1. n \in Nat /\ lo \in Int /\ hi \in Int /\ 8 * Px \in Nat /\ 8 * Px >= 8 /\ Pad = 8 * Px
  BY FS_CardinalityType, LengthsAssumption DEF Pad
<1>2. \A k \in members : Lane(k, members, corridor, widest) = Clamp(at(k), lo + Pad, hi - Pad)
  BY DEF Lane
<1>3. gap \in Nat /\ gap >= 8 * Px /\ (n + 1) * gap <= hi - lo
  <2> DEFINE w == hi - lo
             least == 8 * Px
  <2>1. w \in Int /\ w >= (n + 1) * least
    BY <1>1
  <2> HIDE DEF w, least, n
  <2>2. LET g == Clamp(w \div (n + 1), least, widest) IN g \in Nat /\ g >= least /\ (n + 1) * g <= w
    <3>1. least \in Nat /\ widest >= least
      BY <1>1 DEF least
    <3> QED BY <1>1, <2>1, <3>1, GapFits
  <2> QED BY <2>2 DEF w, least
<1>4. place(i) \in 0..(n - 1) /\ place(j) \in 0..(n - 1) /\ place(i) < place(j)
  <2> DEFINE B(k) == {m \in members : m < k}
  <2>1. \A k \in members : /\ IsFiniteSet(B(k)) /\ Cardinality(B(k)) \in Nat /\ Cardinality(B(k)) <= n
                           /\ (Cardinality(B(k)) = n => B(k) = members)
    BY FS_Subset, FS_CardinalityType
  <2>2. i \notin B(i) /\ j \notin B(j) /\ i \in B(j) /\ B(i) \subseteq B(j)
    <3>1. i \in Nat /\ j \in Nat /\ \A m \in members : m \in Nat
      OBVIOUS
    <3>2. i \notin B(i) /\ j \notin B(j) /\ i \in B(j)
      BY <3>1
    <3>3. ASSUME NEW m \in members, m < i PROVE m < j
      BY <3>1, <3>3
    <3> QED BY <3>2, <3>3
  <2>3. Cardinality(B(i)) <= Cardinality(B(j)) /\ Cardinality(B(i)) # Cardinality(B(j))
    BY <2>1, <2>2, FS_Subset
  <2> HIDE DEF B, n
  <2>4. Cardinality(B(i)) < n /\ Cardinality(B(j)) < n
    BY <1>1, <2>1, <2>2
  <2>5. place(i) = Cardinality(B(i)) /\ place(j) = Cardinality(B(j))
    BY DEF B
  <2> HIDE DEF place
  <2> QED BY <1>1, <2>1, <2>3, <2>4, <2>5
<1> HIDE DEF gap, n, place
<1>5. A(i) \in Int /\ A(j) \in Int /\ A(j) >= A(i) + 2 * gap
  <2> DEFINE p == 2 * place(i) - (n - 1)
             q == 2 * place(j) - (n - 1)
  <2>1. p \in Int /\ q \in Int /\ q >= p + 2
    BY <1>1, <1>4
  <2> HIDE DEF p, q
  <2>2. q * gap >= (p + 2) * gap
    BY <1>3, <2>1
  <2>3. (p + 2) * gap = p * gap + 2 * gap
    BY <1>3, <2>1
  <2>4. p * gap \in Int /\ q * gap \in Int
    BY <1>3, <2>1
  <2>5. q * gap >= p * gap + 2 * gap
    BY <2>2, <2>3
  <2> QED BY <2>4, <2>5 DEF p, q
<1>6. A(i) >= 2 * gap - (hi - lo) /\ A(j) <= (hi - lo) - 2 * gap
  <2> DEFINE p == 2 * place(i) - (n - 1)
             q == 2 * place(j) - (n - 1)
             r == n - 1
             s == 0 - r
  <2>1. p \in Int /\ q \in Int /\ r \in Int /\ s \in Int /\ p >= s /\ q <= r
    BY <1>1, <1>4
  <2>2. s * gap = 2 * gap - (n + 1) * gap /\ r * gap = (n + 1) * gap - 2 * gap
    BY <1>1, <1>3
  <2> HIDE DEF p, q, r, s
  <2>3. p * gap >= s * gap /\ q * gap <= r * gap
    BY <1>3, <2>1
  <2>4. p * gap \in Int /\ q * gap \in Int /\ (n + 1) * gap \in Int
    BY <1>1, <1>3, <2>1
  <2>5. p * gap >= 2 * gap - (hi - lo) /\ q * gap <= (hi - lo) - 2 * gap
    <3>1. \A P, Q, S, R, G \in Int : P >= S /\ Q <= R /\ S = 2 * gap - G /\ R = G - 2 * gap /\ G <= hi - lo
                => P >= 2 * gap - (hi - lo) /\ Q <= (hi - lo) - 2 * gap
      BY <1>1, <1>3
    <3>2. s * gap \in Int /\ r * gap \in Int
      BY <1>3, <2>1
    <3> QED BY <1>3, <2>2, <2>3, <2>4, <3>1, <3>2
  <2> QED BY <2>5 DEF p, q
<1> HIDE DEF A
<1>7. /\ 2 * Middle(corridor) <= lo + hi /\ lo + hi <= 2 * Middle(corridor) + 1
      /\ Middle(corridor) \in Int
  BY <1>1 DEF Middle
<1>8. \A k \in {i, j} : 2 * (A(k) \div 2) <= A(k) /\ A(k) <= 2 * (A(k) \div 2) + 1 /\ A(k) \div 2 \in Int
  BY <1>5
<1> HIDE DEF lo, hi
<1>9. /\ at(i) \in Int /\ at(j) \in Int /\ at(i) + gap <= at(j)
      /\ lo + gap - 1 <= at(i) /\ at(j) <= hi - gap
  BY <1>1, <1>3, <1>5, <1>6, <1>7, <1>8
<1> HIDE DEF at
<1>10. lo + Pad <= hi - Pad /\ lo + Pad \in Int /\ hi - Pad \in Int
  BY <1>1, <1>3, <1>9
<1>11. Clamp(at(i), lo + Pad, hi - Pad) <= at(i) + 1 /\ Clamp(at(j), lo + Pad, hi - Pad) = at(j)
  BY <1>1, <1>3, <1>9, <1>10, ClampFacts
<1>12. Clamp(at(i), lo + Pad, hi - Pad) \in Int
  BY <1>9, <1>10, ClampFacts
<1> QED BY <1>1, <1>2, <1>3, <1>9, <1>11, <1>12
-----------------------------------------------------------------------------
(* Gutters.                                                                *)

\* In a finite set of naturals some element has g elements before it, for each g up to
\* the size of the set.
LEMMA RanksOnto ==
  ASSUME NEW S \in SUBSET Nat, IsFiniteSet(S), NEW g \in 0..(Cardinality(S) - 1)
  PROVE  \E c \in S : Cardinality({d \in S : d < c}) = g
<1> DEFINE n == Cardinality(S)
           B(c) == {d \in S : d < c}
           f == [c \in S |-> Cardinality(B(c))]
<1>1. n \in Nat
  BY FS_CardinalityType
<1>2. \A c \in S : /\ IsFiniteSet(B(c)) /\ Cardinality(B(c)) \in Nat /\ Cardinality(B(c)) <= n
                   /\ (Cardinality(B(c)) = n => B(c) = S)
  BY FS_Subset, FS_CardinalityType
<1>3. \A c \in S : Cardinality(B(c)) \in 0..(n - 1)
  <2> TAKE c \in S
  <2>1. c \notin B(c)
    OBVIOUS
  <2> QED BY <1>1, <1>2, <2>1
<1>4. \A c, d \in S : c < d => Cardinality(B(c)) # Cardinality(B(d))
  <2> SUFFICES ASSUME NEW c \in S, NEW d \in S, c < d PROVE Cardinality(B(c)) # Cardinality(B(d))
    OBVIOUS
  <2>1. \A e \in S : e < c => e < d
    OBVIOUS
  <2>2. B(c) \subseteq B(d)
    BY <2>1
  <2>3. c \in B(d) /\ c \notin B(c)
    OBVIOUS
  <2> QED BY <1>2, <2>2, <2>3, FS_Subset
<1>5. f \in Injection(S, 0..(n - 1))
  <2>1. f \in [S -> 0..(n - 1)]
    BY <1>3
  <2>2. \A c, d \in S : f[c] = f[d] => c = d
    <3> SUFFICES ASSUME NEW c \in S, NEW d \in S, f[c] = f[d], c # d PROVE FALSE
      OBVIOUS
    <3>1. c < d \/ d < c
      OBVIOUS
    <3>2. Cardinality(B(c)) = Cardinality(B(d))
      OBVIOUS
    <3> QED BY <1>4, <3>1, <3>2
  <2> QED BY <2>1, <2>2 DEF Injection, IsInjective
<1>6. IsFiniteSet(0..(n - 1)) /\ Cardinality(0..(n - 1)) = n
  BY <1>1, FS_Interval
<1>7. f \in Surjection(S, 0..(n - 1))
  BY <1>5, <1>6, FS_Injection
<1>8. PICK c \in S : f[c] = g
  BY <1>7 DEF Surjection
<1> QED BY <1>8

\* The grid numbers the occupied columns without gaps, from left to right.
LEMMA GridFacts ==
  ASSUME LayoutTypeOK
  PROVE  /\ Columns \in Nat
         /\ \A n \in Connected : GridColumn(n) \in 0..(Columns - 1)
         /\ \A m, n \in Connected : /\ GridColumn(m) < GridColumn(n) => col[m] < col[n]
                                    /\ GridColumn(m) = GridColumn(n) => col[m] = col[n]
         /\ \A g \in 0..(Columns - 1) : \E n \in Connected : GridColumn(n) = g
<1> DEFINE C == {col[m] : m \in Connected}
           B(x) == {c \in C : c < x}
<1>1. IsFiniteSet(Connected) /\ col \in [Connected -> Nat]
  BY GraphFacts DEF LayoutTypeOK
<1>2. C \in SUBSET Nat /\ IsFiniteSet(C) /\ Cardinality(C) \in Nat /\ Columns = Cardinality(C)
  <2>1. col \in Surjection(Connected, C)
    BY <1>1 DEF Surjection
  <2>2. IsFiniteSet(C)
    BY <1>1, <2>1, FS_Surjection
  <2> QED BY <1>1, <2>2, FS_CardinalityType DEF Columns
<1>3. \A n \in Connected : col[n] \in C /\ GridColumn(n) = Cardinality(B(col[n]))
  BY DEF GridColumn
<1>4. \A g \in 0..(Columns - 1) : \E n \in Connected : GridColumn(n) = g
  <2> TAKE g \in 0..(Columns - 1)
  <2> HIDE DEF C
  <2>1. PICK c \in C : Cardinality(B(c)) = g
    BY <1>2, RanksOnto
  <2>2. PICK n \in Connected : c = col[n]
    BY <2>1 DEF C
  <2> QED BY <1>3, <2>1, <2>2
<1> HIDE DEF C
<1>5. \A x : /\ IsFiniteSet(B(x)) /\ Cardinality(B(x)) \in Nat /\ Cardinality(B(x)) <= Cardinality(C)
             /\ (Cardinality(B(x)) = Cardinality(C) => B(x) = C)
  BY <1>2, FS_Subset, FS_CardinalityType
<1>6. \A x, y \in C : x < y => Cardinality(B(x)) < Cardinality(B(y))
  <2> SUFFICES ASSUME NEW x \in C, NEW y \in C, x < y PROVE Cardinality(B(x)) < Cardinality(B(y))
    OBVIOUS
  <2>1. x \in Nat /\ y \in Nat /\ \A c \in C : c < x => c < y
    BY <1>2
  <2>2. B(x) \subseteq B(y)
    BY <2>1
  <2>3. x \in B(y) /\ x \notin B(x)
    BY <2>1
  <2>4. Cardinality(B(x)) <= Cardinality(B(y)) /\ Cardinality(B(x)) # Cardinality(B(y))
    BY <1>5, <2>2, <2>3, FS_Subset
  <2> QED BY <1>5, <2>4
<1>7. \A x \in C : Cardinality(B(x)) < Cardinality(C)
  <2> TAKE x \in C
  <2>1. x \notin B(x)
    BY <1>2
  <2> QED BY <1>2, <1>5, <2>1
<1> HIDE DEF B
<1>8. \A n \in Connected : GridColumn(n) \in 0..(Columns - 1)
  <2> TAKE n \in Connected
  <2> DEFINE k == Cardinality(B(col[n]))
  <2>1. k \in Nat /\ k < Columns /\ GridColumn(n) = k
    BY <1>2, <1>3, <1>5, <1>7
  <2> QED BY <1>2, <2>1
<1>9. \A m, n \in Connected : /\ GridColumn(m) < GridColumn(n) => col[m] < col[n]
                              /\ GridColumn(m) = GridColumn(n) => col[m] = col[n]
  <2> TAKE m, n \in Connected
  <2>1. col[m] \in Nat /\ col[n] \in Nat /\ GridColumn(m) \in Nat /\ GridColumn(n) \in Nat
    BY <1>1, <1>3, <1>5
  <2>2. /\ col[m] < col[n] => GridColumn(m) < GridColumn(n)
        /\ col[n] < col[m] => GridColumn(n) < GridColumn(m)
        /\ col[n] = col[m] => GridColumn(n) = GridColumn(m)
    BY <1>3, <1>6
  <2>3. \A a, b, x, y \in Nat : (x < y => a < b) /\ (y < x => b < a) /\ (y = x => b = a)
                                 => (a < b => x < y) /\ (a = b => x = y)
    OBVIOUS
  <2> QED BY ONLY <2>1, <2>2, <2>3, Zenon
<1> QED BY <1>2, <1>4, <1>8, <1>9

\* The left side of a grid column is that of all its boxes, and further right for later
\* columns.
LEMMA LeftFacts ==
  ASSUME LayoutTypeOK
  PROVE  /\ \A g \in 0..(Columns - 1) : LeftOf(g) \in Int
         /\ \A g, h \in 0..(Columns - 1) : g < h => LeftOf(g) <= LeftOf(h)
<1>1. \A g \in 0..(Columns - 1) : \E n \in Connected : GridColumn(n) = g /\ LeftOf(g) = Left(n)
  <2> TAKE g \in 0..(Columns - 1)
  <2> DEFINE L == {Left(n) : n \in {m \in Connected : GridColumn(m) = g}}
  <2>1. PICK n \in Connected : GridColumn(n) = g
    BY GridFacts
  <2>2. (CHOOSE x \in L : TRUE) \in L
    BY <2>1
  <2> QED BY <2>2 DEF LeftOf
<1>2. \A n \in Connected : Left(n) \in Int
  BY LengthsAssumption DEF Left, LayoutTypeOK
<1>3. \A m, n \in Connected : col[m] < col[n] => Left(m) <= Left(n)
  <2> SUFFICES ASSUME NEW m \in Connected, NEW n \in Connected, col[m] < col[n] PROVE Left(m) <= Left(n)
    OBVIOUS
  <2>1. col[m] \in Nat /\ col[n] \in Nat /\ ColumnStep \in Nat
    BY LengthsAssumption DEF LayoutTypeOK
  <2>2. PICK k \in Nat : col[n] = col[m] + k
    <3>1. col[n] - col[m] \in Nat /\ col[n] = col[m] + (col[n] - col[m])
      BY <2>1
    <3> QED BY <3>1
  <2>3. (col[m] + k) * ColumnStep = col[m] * ColumnStep + k * ColumnStep
    BY <2>1, <2>2
  <2>4. k * ColumnStep \in Nat /\ col[m] * ColumnStep \in Nat
    BY <2>1, <2>2
  <2> QED BY <2>2, <2>3, <2>4 DEF Left
<1> QED BY <1>1, <1>2, <1>3, GridFacts

\* The lesser and the greater of two integers.
LEMMA TwoIntegers ==
  ASSUME NEW a \in Int, NEW b \in Int
  PROVE  Min({a, b}) = (IF a <= b THEN a ELSE b) /\ Max({a, b}) = (IF a <= b THEN b ELSE a)
<1> DEFINE lesser == IF a <= b THEN a ELSE b
           greater == IF a <= b THEN b ELSE a
<1>1. /\ lesser \in {a, b} /\ \A y \in {a, b} : lesser <= y
      /\ greater \in {a, b} /\ \A y \in {a, b} : greater >= y
  OBVIOUS
<1>2. /\ \A x \in {a, b} : (\A y \in {a, b} : x <= y) => x = lesser
      /\ \A x \in {a, b} : (\A y \in {a, b} : x >= y) => x = greater
  OBVIOUS
<1> HIDE DEF lesser, greater
<1>3. Min({a, b}) = lesser
  BY <1>1, <1>2 DEF Min
<1>4. Max({a, b}) = greater
  BY <1>1, <1>2 DEF Max
<1> QED BY <1>3, <1>4 DEF lesser, greater

\* The sides of a gutter: those of the columns on its left and right, or a margin outside.
LEMMA GutterShape ==
  ASSUME LayoutTypeOK, Connected # {}, NEW g \in -1..(Columns - 1)
  PROVE  /\ g < 0 => Gutter(g) = [lo |-> LeftOf(0) - 2 * Margin, hi |-> LeftOf(0)]
         /\ g >= 0 /\ g < Columns - 1
              => Gutter(g) = [lo |-> LeftOf(g) + Width, hi |-> LeftOf(g + 1)]
         /\ g >= 0 /\ g = Columns - 1
              => Gutter(g) = [lo |-> LeftOf(g) + Width, hi |-> LeftOf(g) + Width + 2 * Margin]
<1>1. Columns \in Nat /\ 0 \in 0..(Columns - 1)
  BY GridFacts
<1>2. CASE g < 0
  BY <1>1, <1>2 DEF Gutter
<1>3. CASE g >= 0
  <2>1. Min({g, Columns - 1}) = g
    BY <1>1, TwoIntegers
  <2> QED BY <1>1, <1>3, <2>1 DEF Gutter
<1> QED BY <1>1, <1>2, <1>3

\* Gutters are intervals, the later ones further right.
LEMMA GutterFacts ==
  ASSUME LayoutTypeOK, NEW n \in Connected
  PROVE  /\ \A g \in -1..(Columns - 1) : Gutter(g) \in [lo : Int, hi : Int]
         /\ \A g, h \in -1..(Columns - 1) : g < h => Gutter(g).hi <= Gutter(h).lo
<1>1. Columns \in Nat /\ 0 \in 0..(Columns - 1)
  BY GridFacts
<1>2. Margin \in Nat /\ Width \in Nat
  BY LengthsAssumption DEF Margin
<1>3. \A g \in 0..(Columns - 1) : LeftOf(g) \in Int
  BY LeftFacts
<1>4. ASSUME NEW g \in -1..(Columns - 1)
      PROVE  /\ g < 0 => Gutter(g) = [lo |-> LeftOf(0) - 2 * Margin, hi |-> LeftOf(0)]
             /\ g >= 0 /\ g < Columns - 1
                  => Gutter(g) = [lo |-> LeftOf(g) + Width, hi |-> LeftOf(g + 1)]
             /\ g >= 0 /\ g = Columns - 1
                  => Gutter(g) = [lo |-> LeftOf(g) + Width, hi |-> LeftOf(g) + Width + 2 * Margin]
  BY GutterShape
<1>5. ASSUME NEW g \in -1..(Columns - 1) PROVE Gutter(g) \in [lo : Int, hi : Int]
  BY <1>1, <1>2, <1>3, <1>4
<1>6. ASSUME NEW g \in -1..(Columns - 1), NEW h \in -1..(Columns - 1), g < h
      PROVE  Gutter(g).hi <= Gutter(h).lo
  <2>1. g + 1 \in 0..(Columns - 1) /\ h \in 0..(Columns - 1) /\ g < Columns - 1 /\ g + 1 <= h
    BY <1>1, <1>6
  <2>2. Gutter(g).hi = LeftOf(g + 1) /\ Gutter(h).lo = LeftOf(h) + Width
    BY <1>1, <1>4, <2>1
  <2>3. LeftOf(g + 1) <= LeftOf(h) /\ LeftOf(g + 1) \in Int /\ LeftOf(h) \in Int
    BY <1>1, <2>1, LeftFacts
  <2> QED BY <1>2, <2>2, <2>3
<1> QED BY <1>5, <1>6

\* There are finitely many edges.
LEMMA DrawnFinite ==
  ASSUME LayoutTypeOK
  PROVE  Drawn \in SUBSET Nat /\ IsFiniteSet(Drawn)
<1>1. DOMAIN edges = 1..Len(edges) /\ Len(edges) \in Nat
  <2>1. edges \in Seq(Nat \X Nat)
    BY DEF LayoutTypeOK
  <2> QED BY <2>1
<1>2. IsFiniteSet(1..Len(edges)) /\ 1..Len(edges) \subseteq Nat
  BY <1>1, FS_Interval
<1>3. Drawn \subseteq 1..Len(edges)
  BY <1>1 DEF Drawn
<1> QED BY <1>2, <1>3, FS_Subset

\* A lane keeps the padding from both sides of a corridor that is not narrower, be the edge
\* planned there or not.
LEMMA LaneInside ==
  ASSUME NEW members \in SUBSET Nat, IsFiniteSet(members), NEW corridor \in [lo : Int, hi : Int],
         NEW widest \in Nat, widest >= 8 * Px, corridor.hi - corridor.lo >= 2 * Pad,
         NEW i \in Nat
  PROVE  /\ Lane(i, members, corridor, widest) \in Int
         /\ corridor.lo + Pad <= Lane(i, members, corridor, widest)
         /\ Lane(i, members, corridor, widest) <= corridor.hi - Pad
<1> DEFINE all == IF members = {} THEN {i} ELSE members
           n == Cardinality(all)
           lo == corridor.lo
           hi == corridor.hi
           gap == Clamp((hi - lo) \div (n + 1), 8 * Px, widest)
           place == IF i \in all THEN Cardinality({j \in all : j < i}) ELSE -1
           at == Middle(corridor) + ((2 * place - (n - 1)) * gap) \div 2
<1>0. all \in SUBSET Nat /\ IsFiniteSet(all)
  BY FS_Singleton
<1> HIDE DEF all
<1>1. n \in Nat /\ lo \in Int /\ hi \in Int /\ Pad \in Nat /\ Pad = 8 * Px
  BY <1>0, FS_CardinalityType, LengthsAssumption DEF Pad
<1>2. place \in Int
  BY <1>0, FS_Subset, FS_CardinalityType
<1>3. gap \in Int
  <2>1. (hi - lo) \div (n + 1) \in Int
    BY <1>1
  <2> QED BY <1>1, <2>1, ClampFacts
<1>4. Middle(corridor) \in Int
  BY <1>1 DEF Middle
<1>5. Lane(i, members, corridor, widest) = Clamp(at, lo + Pad, hi - Pad)
  BY DEF Lane, all
<1> HIDE DEF n, gap, place
<1>6. at \in Int
  <2>1. (2 * place - (n - 1)) * gap \in Int
    BY <1>1, <1>2, <1>3
  <2> QED BY <1>4, <2>1
<1> HIDE DEF at, lo, hi
<1>7. lo + Pad <= hi - Pad /\ lo + Pad \in Int /\ hi - Pad \in Int
  BY <1>1 DEF lo, hi
<1>8. /\ Clamp(at, lo + Pad, hi - Pad) \in Int
      /\ lo + Pad <= Clamp(at, lo + Pad, hi - Pad) /\ Clamp(at, lo + Pad, hi - Pad) <= hi - Pad
  BY <1>6, <1>7, ClampFacts
<1> QED BY <1>5, <1>8 DEF lo, hi

-----------------------------------------------------------------------------
(* Boxes, rows and bands.                                                  *)

\* Boxes stand at least twice the margin apart, across and down.  The column step (360
\* pixels) and the width (162) are fixed; heights are measured.
BoxesApart ==
    Width + 2 * Pad <= ColumnStep /\ \A n \in Containers : Height[n] + 2 * Pad <= RowStep

\* A finite set of naturals has a greatest element, and Max is it.
LEMMA GreatestElement ==
  ASSUME NEW S \in SUBSET Nat, IsFiniteSet(S), S # {}
  PROVE  Max(S) \in S /\ \A x \in S : x <= Max(S)
<1>1. Cardinality(S) \in Nat /\ Cardinality(S) # 0
  BY FS_CardinalityType, FS_EmptySet
<1>2. PICK z \in S : Cardinality({d \in S : d < z}) = Cardinality(S) - 1
  BY <1>1, RanksOnto
<1> DEFINE below == {d \in S : d < z}
<1>3. IsFiniteSet(S \ {z}) /\ Cardinality(S \ {z}) = Cardinality(S) - 1
  BY FS_RemoveElement
<1>4. below \subseteq S \ {z}
  OBVIOUS
<1>5. below = S \ {z}
  BY <1>2, <1>3, <1>4, FS_Subset
<1>6. z \in S /\ \A y \in S : z >= y
  BY <1>5
<1>7. Max(S) \in S /\ \A y \in S : Max(S) >= y
  BY <1>6 DEF Max
<1> QED BY <1>7

\* Two boxes of different columns, and two of one column, are apart.
LEMMA BoxFacts ==
  ASSUME LayoutTypeOK, BoxesApart
  PROVE  /\ \A n \in Connected :
              /\ Row(n) \in Nat /\ col[n] \in Nat
              /\ Left(n) \in Int /\ Right(n) \in Int /\ Top(n) \in Int /\ Bottom(n) \in Int
              /\ Left(n) <= Right(n) /\ Top(n) <= Bottom(n) /\ Top(n) >= 0
              /\ Right(n) = Left(n) + Width /\ Bottom(n) = Top(n) + Height[n]
              /\ Top(n) = Row(n) * RowStep
         /\ \A m, n \in Connected :
              /\ col[m] < col[n] => Right(m) + 2 * Pad <= Left(n)
              /\ Row(m) < Row(n) => Bottom(m) + 2 * Pad <= Top(n)
              /\ col[m] = col[n] /\ Row(m) = Row(n) => m = n
<1>1. IsFiniteSet(Connected) /\ col \in [Connected -> Nat] /\ Connected \subseteq Containers
  <2>1. Connected \subseteq Containers
    BY DEF Connected, Links
  <2> QED BY <2>1, GraphFacts DEF LayoutTypeOK
<1> DEFINE B(n) == {m \in Connected : col[m] = col[n] /\ Rank[m] < Rank[n]}
<1>2. \A n \in Connected : IsFiniteSet(B(n)) /\ Cardinality(B(n)) \in Nat /\ Row(n) = Cardinality(B(n))
  BY <1>1, FS_Subset, FS_CardinalityType DEF Row
<1>3. Width \in Nat /\ ColumnStep \in Nat /\ RowStep \in Nat /\ \A n \in Connected : Height[n] \in Nat
  BY <1>1, LengthsAssumption
<1>4. Pad \in Nat
  BY LengthsAssumption DEF Pad
<1>5. \A n \in Connected : Row(n) \in Nat /\ col[n] \in Nat
  BY <1>1, <1>2
<1>6. \A n \in Connected : /\ Left(n) = col[n] * ColumnStep /\ Left(n) \in Nat
                           /\ Top(n) = Row(n) * RowStep /\ Top(n) \in Nat
                           /\ Right(n) = Left(n) + Width /\ Bottom(n) = Top(n) + Height[n]
  BY <1>3, <1>5 DEF Left, Top, Right, Bottom
<1>7. \A j, k, step \in Nat : j < k => j * step + step <= k * step
  <2> SUFFICES ASSUME NEW j \in Nat, NEW k \in Nat, NEW step \in Nat, j < k
               PROVE  j * step + step <= k * step
    OBVIOUS
  <2>1. (j + 1) * step <= k * step
    <3>1. PICK d \in Nat : k = (j + 1) + d
      <4>1. k - (j + 1) \in Nat /\ k = (j + 1) + (k - (j + 1))
        OBVIOUS
      <4> QED BY <4>1
    <3>2. k * step = (j + 1) * step + d * step
      BY <3>1
    <3>3. d * step \in Nat /\ (j + 1) * step \in Nat
      OBVIOUS
    <3> QED BY <3>2, <3>3
  <2>2. (j + 1) * step = j * step + step
    OBVIOUS
  <2> QED BY <2>1, <2>2
<1>8. ASSUME NEW m \in Connected, NEW n \in Connected, col[m] < col[n]
      PROVE  Right(m) + 2 * Pad <= Left(n)
  <2>1. Left(m) + ColumnStep <= Left(n)
    BY <1>3, <1>5, <1>6, <1>7, <1>8
  <2> QED BY <1>3, <1>4, <1>6, <2>1 DEF BoxesApart
<1>9. ASSUME NEW m \in Connected, NEW n \in Connected, Row(m) < Row(n)
      PROVE  Bottom(m) + 2 * Pad <= Top(n)
  <2>1. Top(m) + RowStep <= Top(n)
    BY <1>3, <1>5, <1>6, <1>7, <1>9
  <2>2. Height[m] + 2 * Pad <= RowStep
    BY <1>1 DEF BoxesApart
  <2> QED BY <1>3, <1>4, <1>6, <2>1, <2>2
<1>10. ASSUME NEW m \in Connected, NEW n \in Connected, col[m] = col[n], Row(m) = Row(n)
       PROVE  m = n
  <2>1. ASSUME NEW p \in Connected, NEW q \in Connected, col[p] = col[q], Rank[p] < Rank[q]
        PROVE  Row(p) # Row(q)
    <3>1. \A x \in Connected : Rank[x] \in Nat
      BY <1>1, RankAssumption
    <3>2. \A x \in Connected : Rank[x] < Rank[p] => Rank[x] < Rank[q]
      BY <2>1, <3>1
    <3>3. B(p) \subseteq B(q)
      BY <2>1, <3>2
    <3>4. p \in B(q) /\ p \notin B(p)
      BY <2>1, <3>1
    <3> QED BY <1>2, <3>3, <3>4, FS_Subset
  <2>2. Rank[m] \in Nat /\ Rank[n] \in Nat /\ (Rank[m] = Rank[n] => m = n)
    BY <1>1, RankAssumption
  <2>3. ~(Rank[m] < Rank[n]) /\ ~(Rank[n] < Rank[m])
    BY <1>10, <2>1
  <2> QED BY <2>2, <2>3
<1>11. \A n \in Connected : /\ Left(n) \in Int /\ Right(n) \in Int /\ Top(n) \in Int /\ Bottom(n) \in Int
                            /\ Left(n) <= Right(n) /\ Top(n) <= Bottom(n) /\ Top(n) >= 0
  BY <1>3, <1>6
<1> QED BY <1>5, <1>6, <1>8, <1>9, <1>10, <1>11

\* A box has as many rows above it as its column has lesser ranks.
LEMMA RowIsRank ==
  ASSUME LayoutTypeOK, NEW n \in Connected
  PROVE  LET ranks == {Rank[m] : m \in {p \in Connected : col[p] = col[n]}}
         IN  /\ ranks \in SUBSET Nat /\ IsFiniteSet(ranks)
             /\ Row(n) = Cardinality({d \in ranks : d < Rank[n]})
<1> DEFINE column == {p \in Connected : col[p] = col[n]}
           ranks == {Rank[m] : m \in column}
           above == {m \in column : Rank[m] < Rank[n]}
           lesser == {d \in ranks : d < Rank[n]}
           f == [m \in column |-> Rank[m]]
           g == [m \in above |-> Rank[m]]
<1>1. IsFiniteSet(Connected) /\ Connected \subseteq Containers
  <2>1. Connected \subseteq Containers
    BY DEF Connected, Links
  <2> QED BY <2>1, GraphFacts DEF LayoutTypeOK
<1>2. \A x, y \in Connected : Rank[x] \in Nat /\ (Rank[x] = Rank[y] => x = y)
  BY <1>1, RankAssumption
<1>3. IsFiniteSet(column) /\ IsFiniteSet(above)
  BY <1>1, FS_Subset
<1>4. f \in Surjection(column, ranks)
  BY DEF Surjection
<1>5. ranks \in SUBSET Nat /\ IsFiniteSet(ranks)
  BY <1>2, <1>3, <1>4, FS_Surjection
<1>6. g \in Surjection(above, lesser)
  BY DEF Surjection
<1>7. g \in Injection(above, lesser)
  <2>1. g \in [above -> lesser]
    OBVIOUS
  <2>2. \A x, y \in above : g[x] = g[y] => x = y
    BY <1>2
  <2> QED BY <2>1, <2>2 DEF Injection, IsInjective
<1>8. Cardinality(lesser) = Cardinality(above)
  BY <1>3, <1>6, <1>7, FS_Surjection
<1>9. above = {m \in Connected : col[m] = col[n] /\ Rank[m] < Rank[n]}
  OBVIOUS
<1>10. Row(n) = Cardinality(above)
  BY <1>9 DEF Row
<1> QED BY <1>5, <1>8, <1>10

\* The rows are numbered without gaps: a column has a box in each row above one of its boxes.
LEMMA RowsFacts ==
  ASSUME LayoutTypeOK
  PROVE  /\ Rows \in Nat
         /\ \A n \in Connected : Row(n) \in 0..(Rows - 1)
         /\ \A r \in 0..(Rows - 1) : \E n \in Connected : Row(n) = r
<1> DEFINE R == {Row(m) : m \in Connected}
           f == [m \in Connected |-> Row(m)]
<1>1. IsFiniteSet(Connected)
  BY GraphFacts DEF LayoutTypeOK
<1>2. \A n \in Connected : Row(n) \in Nat
  BY <1>1, FS_Subset, FS_CardinalityType DEF Row
<1>3. f \in Surjection(Connected, R)
  BY DEF Surjection
<1>4. R \in SUBSET Nat /\ IsFiniteSet(R) /\ Cardinality(R) \in Nat /\ Rows = Cardinality(R)
  BY <1>1, <1>2, <1>3, FS_Surjection, FS_CardinalityType DEF Rows
<1>5. ASSUME NEW n \in Connected, NEW k \in 0..(Row(n) - 1)
      PROVE  k \in R
  <2> DEFINE column == {p \in Connected : col[p] = col[n]}
             ranks == {Rank[m] : m \in column}
             lesser == {d \in ranks : d < Rank[n]}
  <2>1. /\ ranks \in SUBSET Nat /\ IsFiniteSet(ranks)
        /\ Row(n) = Cardinality(lesser)
    BY RowIsRank
  <2>2. Rank[n] \in ranks /\ Rank[n] \notin lesser
    <3>1. n \in column
      OBVIOUS
    <3>2. Rank[n] \in ranks
      BY <3>1
    <3> QED BY <2>1, <3>2
  <2> HIDE DEF ranks
  <2>3. Cardinality(lesser) <= Cardinality(ranks) /\ lesser # ranks /\ lesser \subseteq ranks
    BY <2>1, <2>2, FS_Subset
  <2>4. Cardinality(ranks) \in Nat /\ Row(n) < Cardinality(ranks) /\ Row(n) \in Nat
    BY <1>2, <2>1, <2>3, FS_Subset, FS_CardinalityType
  <2>5. k \in 0..(Cardinality(ranks) - 1)
    BY <2>4
  <2>6. PICK c \in ranks : Cardinality({d \in ranks : d < c}) = k
    BY <2>1, <2>5, RanksOnto
  <2>7. PICK m \in column : c = Rank[m]
    BY <2>6 DEF ranks
  <2>8. m \in Connected /\ {p \in Connected : col[p] = col[m]} = column
    OBVIOUS
  <2>9. Row(m) = Cardinality({d \in {Rank[q] : q \in {p \in Connected : col[p] = col[m]}} : d < Rank[m]})
    BY <2>8, RowIsRank
  <2>10. Row(m) = k
    BY <2>6, <2>7, <2>8, <2>9 DEF ranks
  <2> QED BY <2>8, <2>10
<1> HIDE DEF R
<1>6. \A r \in R : r < Rows
  <2> TAKE r \in R
  <2>1. PICK n \in Connected : r = Row(n)
    BY DEF R
  <2>2. 0..r \subseteq R
    <3> SUFFICES ASSUME NEW k \in 0..r PROVE k \in R
      OBVIOUS
    <3>1. CASE k = r
      BY <3>1
    <3>2. CASE k # r
      <4>1. k \in 0..(Row(n) - 1)
        BY <1>2, <2>1, <3>2
      <4> QED BY <1>5, <4>1
    <3> QED BY <3>1, <3>2
  <2>3. r \in Nat /\ Cardinality(0..r) = r + 1
    BY <1>2, <2>1, FS_Interval
  <2>4. Cardinality(0..r) <= Cardinality(R)
    BY <1>4, <2>2, FS_Subset
  <2> QED BY <1>4, <2>3, <2>4
<1>7. R \subseteq 0..(Rows - 1)
  BY <1>4, <1>6
<1>8. IsFiniteSet(0..(Rows - 1)) /\ Cardinality(0..(Rows - 1)) = Rows
  <2>1. Rows \in Nat
    BY <1>4
  <2>2. \A n \in Nat : IsFiniteSet(0..(n - 1)) /\ Cardinality(0..(n - 1)) = n
    <3> SUFFICES ASSUME NEW n \in Nat PROVE IsFiniteSet(0..(n - 1)) /\ Cardinality(0..(n - 1)) = n
      OBVIOUS
    <3> QED BY FS_Interval
  <2> QED BY <2>1, <2>2
<1>9. R = 0..(Rows - 1)
  BY <1>4, <1>7, <1>8, FS_Subset
<1>10. \A n \in Connected : Row(n) \in R
  BY DEF R
<1>11. \A r \in R : \E n \in Connected : Row(n) = r
  BY DEF R
<1> QED BY <1>4, <1>9, <1>10, <1>11

\* The bottom of a row is that of one of its boxes, and of no higher one.
LEMMA BottomFacts ==
  ASSUME LayoutTypeOK, BoxesApart, NEW r \in 0..(Rows - 1)
  PROVE  /\ \E n \in Connected : Row(n) = r /\ BottomOf(r) = Bottom(n)
         /\ \A n \in Connected : Row(n) = r => Bottom(n) <= BottomOf(r)
<1> DEFINE row == {m \in Connected : Row(m) = r}
           bottoms == {Bottom(n) : n \in row}
           f == [n \in row |-> Bottom(n)]
<1>1. IsFiniteSet(row) /\ row # {}
  <2>1. IsFiniteSet(Connected)
    BY GraphFacts DEF LayoutTypeOK
  <2> QED BY <2>1, RowsFacts, FS_Subset
<1>2. f \in Surjection(row, bottoms)
  BY DEF Surjection
<1>3. \A n \in row : Bottom(n) \in Nat
  <2> TAKE n \in row
  <2>1. Bottom(n) \in Int /\ Top(n) \in Int /\ Top(n) >= 0 /\ Top(n) <= Bottom(n)
    BY BoxFacts
  <2> QED BY <2>1
<1>4. bottoms \in SUBSET Nat /\ IsFiniteSet(bottoms) /\ bottoms # {}
  BY <1>1, <1>2, <1>3, FS_Surjection
<1>5. BottomOf(r) = Max(bottoms)
  BY DEF BottomOf
<1> HIDE DEF bottoms
<1>6. BottomOf(r) \in bottoms /\ \A x \in bottoms : x <= BottomOf(r)
  BY <1>4, <1>5, GreatestElement
<1> QED BY <1>6 DEF bottoms

\* Each box is above a band or below it, and later bands are further down.
LEMMA BandFacts ==
  ASSUME LayoutTypeOK, BoxesApart, NEW b \in Int, Connected # {}
  PROVE  /\ Band(b) \in [lo : Int, hi : Int] /\ Band(b).hi - Band(b).lo >= 2 * Pad
         /\ \A n \in Connected : /\ Row(n) <= b => Bottom(n) <= Band(b).lo
                                 /\ Row(n) > b => Band(b).hi <= Top(n)
         /\ \A c \in 0..(Rows - 1) : b < c => Band(b).hi <= Band(c).lo
<1>1. Rows \in Nat /\ Rows >= 1
  BY RowsFacts
<1>2. Pad \in Nat /\ Margin \in Nat /\ 2 * Margin >= 2 * Pad /\ RowStep \in Nat
  BY LengthsAssumption DEF Pad, Margin
<1>3. ASSUME NEW a \in Int, a >= 0
      PROVE  \E q \in Connected :
               /\ a >= Rows - 1 => Row(q) = Rows - 1 /\ Band(a) = [lo |-> Bottom(q), hi |-> Bottom(q) + 2 * Margin]
               /\ a < Rows - 1 => Row(q) = a /\ Band(a) = [lo |-> Bottom(q), hi |-> TopOf(a + 1)]
               /\ \A n \in Connected : Row(n) <= a => Bottom(n) <= Bottom(q)
  <2> DEFINE c == IF a <= Rows - 1 THEN a ELSE Rows - 1
  <2>1. Min({a, Rows - 1}) = c /\ c \in 0..(Rows - 1)
    BY <1>1, <1>3, TwoIntegers
  <2>2. PICK q \in Connected : Row(q) = c /\ BottomOf(c) = Bottom(q)
    BY <2>1, BottomFacts
  <2>3. Band(a) = [lo |-> Bottom(q), hi |-> IF a >= Rows - 1 THEN Bottom(q) + 2 * Margin ELSE TopOf(a + 1)]
    BY <1>3, <2>1, <2>2 DEF Band
  <2>4. ASSUME NEW n \in Connected, Row(n) <= a PROVE Bottom(n) <= Bottom(q)
    <3>1. Row(n) \in 0..(Rows - 1)
      BY RowsFacts
    <3>2. CASE Row(n) = c
      BY <2>1, <2>2, <3>2, BottomFacts
    <3>3. CASE Row(n) # c
      <4>1. Row(n) < Row(q)
        BY <1>1, <2>1, <2>2, <2>4, <3>1, <3>3
      <4>2. Bottom(n) + 2 * Pad <= Top(q) /\ Top(q) <= Bottom(q)
        BY <4>1, BoxFacts
      <4>3. Bottom(n) \in Int /\ Top(q) \in Int /\ Bottom(q) \in Int
        BY BoxFacts
      <4> QED BY <1>2, <4>2, <4>3
    <3> QED BY <3>2, <3>3
  <2> QED BY <1>1, <2>2, <2>3, <2>4
<1>4. \A m \in Connected : TopOf(Row(m)) = Top(m) /\ TopOf(Row(m)) \in Int
  BY BoxFacts DEF TopOf
<1>5. ASSUME b < 0
      PROVE  Band(b) = [lo |-> -2 * Margin, hi |-> 0]
  BY <1>5 DEF Band
<1>6. Band(b) \in [lo : Int, hi : Int] /\ Band(b).hi - Band(b).lo >= 2 * Pad
  <2>1. CASE b < 0
    BY <1>2, <1>5, <2>1
  <2>2. CASE b >= 0 /\ b >= Rows - 1
    <3>1. PICK q \in Connected : Band(b) = [lo |-> Bottom(q), hi |-> Bottom(q) + 2 * Margin]
      BY <1>3, <2>2
    <3>2. Bottom(q) \in Int
      BY BoxFacts
    <3> QED BY <1>2, <3>1, <3>2
  <2>3. CASE b >= 0 /\ b < Rows - 1
    <3>1. PICK q \in Connected : Row(q) = b /\ Band(b) = [lo |-> Bottom(q), hi |-> TopOf(b + 1)]
      BY <1>3, <2>3
    <3>2. b + 1 \in 0..(Rows - 1)
      BY <1>1, <2>3
    <3>3. PICK m \in Connected : Row(m) = b + 1
      BY <3>2, RowsFacts
    <3>4. TopOf(b + 1) = Top(m) /\ Bottom(q) + 2 * Pad <= Top(m) /\ Bottom(q) \in Int /\ Top(m) \in Int
      BY <1>4, <3>1, <3>3, BoxFacts
    <3> QED BY <1>2, <3>1, <3>4
  <2> QED BY <1>1, <2>1, <2>2, <2>3
<1>7. ASSUME NEW n \in Connected, NEW a \in Int, Row(n) <= a PROVE Bottom(n) <= Band(a).lo
  <2>1. a >= 0
    BY <1>7, BoxFacts
  <2>2. PICK q \in Connected : Band(a).lo = Bottom(q) /\ Bottom(n) <= Bottom(q)
    BY <1>1, <1>3, <1>7, <2>1
  <2> QED BY <2>2
<1>8. ASSUME NEW n \in Connected, Row(n) > b PROVE Band(b).hi <= Top(n)
  <2>1. CASE b < 0
    BY <1>5, <2>1, BoxFacts
  <2>2. CASE b >= 0
    <3>1. Row(n) \in 0..(Rows - 1) /\ b + 1 \in 0..(Rows - 1) /\ b < Rows - 1
      BY <1>1, <1>8, <2>2, RowsFacts
    <3>2. Band(b).hi = TopOf(b + 1)
      BY <1>3, <2>2, <3>1
    <3>3. PICK m \in Connected : Row(m) = b + 1
      BY <3>1, RowsFacts
    <3>4. TopOf(b + 1) = Top(m)
      BY <1>4, <3>3
    <3>5. CASE Row(n) = b + 1
      <4>1. Top(n) = TopOf(b + 1) /\ Top(n) \in Int
        BY <1>4, <3>5
      <4> QED BY <3>2, <4>1
    <3>6. CASE Row(n) > b + 1
      <4>1. Bottom(m) + 2 * Pad <= Top(n) /\ Top(m) <= Bottom(m)
        BY <3>3, <3>6, BoxFacts
      <4>2. Bottom(m) \in Int /\ Top(m) \in Int /\ Top(n) \in Int
        BY BoxFacts
      <4> QED BY <1>2, <3>2, <3>4, <4>1, <4>2
    <3> QED BY <1>8, <3>1, <3>5, <3>6
  <2> QED BY <2>1, <2>2
<1>9. ASSUME NEW c \in 0..(Rows - 1), b < c PROVE Band(b).hi <= Band(c).lo
  <2>1. PICK n \in Connected : Row(n) = c
    BY RowsFacts
  <2>2. Band(b).hi <= Top(n) /\ Bottom(n) <= Band(c).lo
    BY <1>7, <1>8, <1>9, <2>1
  <2>3. Top(n) <= Bottom(n) /\ Top(n) \in Int /\ Bottom(n) \in Int /\ Band(b).hi \in Int
    BY <1>6, BoxFacts
  <2>4. Band(c).lo \in Int
    <3>1. PICK q \in Connected : Band(c).lo = Bottom(q)
      BY <1>1, <1>3
    <3> QED BY <3>1, BoxFacts
  <2> QED BY <2>2, <2>3, <2>4
<1> QED BY <1>6, <1>7, <1>8, <1>9

\* The left side of a grid column is that of each of its boxes.
LEMMA LeftOfBox ==
  ASSUME LayoutTypeOK, NEW n \in Connected
  PROVE  LeftOf(GridColumn(n)) = Left(n)
<1> DEFINE L == {Left(m) : m \in {p \in Connected : GridColumn(p) = GridColumn(n)}}
<1>1. \A m \in Connected : GridColumn(m) = GridColumn(n) => Left(m) = Left(n)
  BY GridFacts DEF Left
<1>2. Left(n) \in L
  OBVIOUS
<1>3. \A x \in L : x = Left(n)
  BY <1>1
<1>4. (CHOOSE x \in L : TRUE) \in L
  BY <1>2
<1>5. (CHOOSE x \in L : TRUE) = Left(n)
  BY <1>3, <1>4
<1> QED BY <1>5 DEF LeftOf

\* Each box is left of a gutter or right of it.
LEMMA GutterBoxes ==
  ASSUME LayoutTypeOK, BoxesApart, NEW g \in -1..(Columns - 1), Connected # {}
  PROVE  /\ Gutter(g) \in [lo : Int, hi : Int] /\ Gutter(g).hi - Gutter(g).lo >= 2 * Pad
         /\ \A n \in Connected : /\ GridColumn(n) <= g => Right(n) <= Gutter(g).lo
                                 /\ GridColumn(n) > g => Gutter(g).hi <= Left(n)
<1>1. Columns \in Nat /\ 0 \in 0..(Columns - 1)
  BY GridFacts
<1>2. Pad \in Nat /\ Margin \in Nat /\ 2 * Margin >= 2 * Pad /\ Width \in Nat
  BY LengthsAssumption DEF Pad, Margin
<1>3. /\ g < 0 => Gutter(g) = [lo |-> LeftOf(0) - 2 * Margin, hi |-> LeftOf(0)]
      /\ g >= 0 /\ g < Columns - 1 => Gutter(g) = [lo |-> LeftOf(g) + Width, hi |-> LeftOf(g + 1)]
      /\ g >= 0 /\ g = Columns - 1
           => Gutter(g) = [lo |-> LeftOf(g) + Width, hi |-> LeftOf(g) + Width + 2 * Margin]
  BY GutterShape
<1>4. \A h \in 0..(Columns - 1) : \E m \in Connected : GridColumn(m) = h /\ LeftOf(h) = Left(m)
  BY GridFacts, LeftOfBox
<1>5. \A m \in Connected : Left(m) \in Int /\ Right(m) = Left(m) + Width /\ GridColumn(m) \in 0..(Columns - 1)
  BY BoxFacts, GridFacts
<1>6. \A m, n \in Connected : GridColumn(m) < GridColumn(n) => Right(m) + 2 * Pad <= Left(n)
  BY BoxFacts, GridFacts
<1>7. \A m, n \in Connected : GridColumn(m) = GridColumn(n) => Left(m) = Left(n)
  BY GridFacts DEF Left
<1>8. CASE g < 0
  <2>1. PICK m \in Connected : GridColumn(m) = 0 /\ LeftOf(0) = Left(m)
    BY <1>1, <1>4
  <2>2. ASSUME NEW n \in Connected PROVE Gutter(g).hi <= Left(n)
    <3>1. CASE GridColumn(n) = 0
      BY <1>3, <1>5, <1>7, <1>8, <2>1, <3>1
    <3>2. CASE GridColumn(n) # 0
      BY <1>1, <1>2, <1>3, <1>5, <1>6, <1>8, <2>1, <3>2
    <3> QED BY <3>1, <3>2
  <2> QED BY <1>2, <1>3, <1>5, <1>8, <2>1, <2>2
<1>9. CASE g >= 0
  <2>1. PICK m \in Connected : GridColumn(m) = g /\ LeftOf(g) = Left(m)
    BY <1>1, <1>4, <1>9
  <2>2. Gutter(g).lo = Right(m)
    BY <1>1, <1>3, <1>5, <1>9, <2>1
  <2>3. ASSUME NEW n \in Connected, GridColumn(n) <= g PROVE Right(n) <= Gutter(g).lo
    <3>1. CASE GridColumn(n) = g
      BY <1>2, <1>5, <1>7, <2>1, <2>2, <3>1
    <3>2. CASE GridColumn(n) # g
      <4>1. Right(n) + 2 * Pad <= Left(m)
        BY <1>5, <1>6, <2>1, <2>3, <3>2
      <4> QED BY <1>2, <1>5, <2>2, <4>1
    <3> QED BY <3>1, <3>2
  <2>4. CASE g = Columns - 1
    <3>1. Gutter(g) = [lo |-> Right(m), hi |-> Right(m) + 2 * Margin]
      BY <1>3, <1>5, <1>9, <2>1, <2>4
    <3>2. Right(m) \in Int
      BY <1>2, <1>5
    <3> QED BY <1>1, <1>2, <1>5, <2>3, <2>4, <3>1, <3>2
  <2>5. CASE g # Columns - 1
    <3>1. g < Columns - 1 /\ g + 1 \in 0..(Columns - 1)
      BY <1>1, <1>9, <2>5
    <3>2. PICK q \in Connected : GridColumn(q) = g + 1 /\ LeftOf(g + 1) = Left(q)
      BY <1>4, <3>1
    <3>3. Gutter(g) = [lo |-> Right(m), hi |-> Left(q)]
      BY <1>3, <1>5, <1>9, <2>1, <3>1, <3>2
    <3>4. Right(m) \in Int /\ Left(q) \in Int /\ Right(m) + 2 * Pad <= Left(q)
      <4>1. GridColumn(m) < GridColumn(q)
        BY <2>1, <3>2
      <4> QED BY <1>2, <1>5, <1>6, <4>1
    <3>5. ASSUME NEW n \in Connected, GridColumn(n) > g PROVE Gutter(g).hi <= Left(n)
      <4>1. CASE GridColumn(n) = g + 1
        BY <1>5, <1>7, <3>2, <3>3, <4>1
      <4>2. CASE GridColumn(n) # g + 1
        <5>1. GridColumn(q) < GridColumn(n)
          BY <1>5, <3>2, <3>5, <4>2
        <5>2. Left(q) + Width + 2 * Pad <= Left(n)
          BY <1>5, <1>6, <5>1
        <5> QED BY <1>2, <1>5, <3>3, <5>2
      <4> QED BY <4>1, <4>2
    <3> QED BY <1>2, <2>3, <3>3, <3>4, <3>5
  <2> QED BY <2>4, <2>5
<1> QED BY <1>8, <1>9

-----------------------------------------------------------------------------
(* Pieces of line and the boxes around them.                               *)

\* At this x, or y, no box is met.
FreeX(x) == x \in Int /\ \A n \in Connected : Right(n) + Pad <= x \/ x + Pad <= Left(n)
FreeY(y) == y \in Int /\ \A n \in Connected : Bottom(n) + Pad <= y \/ y + Pad <= Top(n)

\* At this x no box of another column than that of m is met; at this y none of another row.
BesideX(x, m) ==
    x \in Int /\ \A n \in Connected :
      col[n] # col[m] =>
        (Right(n) + Pad <= x /\ col[n] < col[m]) \/ (x + Pad <= Left(n) /\ col[m] < col[n])
BesideY(y, m) ==
    y \in Int /\ \A n \in Connected :
      Row(n) # Row(m) =>
        (Bottom(n) + Pad <= y /\ Row(n) < Row(m)) \/ (y + Pad <= Top(n) /\ Row(m) < Row(n))

\* What stands inside a corridor, the padding away from its sides.
Inside(v, corridor) == v \in Int /\ corridor.lo + Pad <= v /\ v <= corridor.hi - Pad

\* Inside a gutter no box is met; inside one beside a column, none of another column.
LEMMA InsideGutter ==
  ASSUME LayoutTypeOK, BoxesApart, NEW g \in -1..(Columns - 1), Connected # {},
         NEW x, Inside(x, Gutter(g))
  PROVE  /\ FreeX(x)
         /\ \A m \in Connected : GridColumn(m) \in {g, g + 1} => BesideX(x, m)
<1>1. Pad \in Nat /\ x \in Int
  BY LengthsAssumption DEF Pad, Inside
<1>2. \A n \in Connected : /\ Left(n) \in Int /\ Right(n) \in Int
                           /\ GridColumn(n) \in Int /\ col[n] \in Nat
  BY BoxFacts, GridFacts
<1>3. Gutter(g).lo \in Int /\ Gutter(g).hi \in Int
  BY GutterBoxes
<1>4. ASSUME NEW n \in Connected
      PROVE  /\ GridColumn(n) <= g => Right(n) + Pad <= x
             /\ GridColumn(n) > g => x + Pad <= Left(n)
  BY <1>1, <1>2, <1>3, GutterBoxes DEF Inside
<1>5. FreeX(x)
  BY <1>1, <1>2, <1>4 DEF FreeX
<1>6. ASSUME NEW m \in Connected, GridColumn(m) \in {g, g + 1}, NEW n \in Connected, col[n] # col[m]
      PROVE  (Right(n) + Pad <= x /\ col[n] < col[m]) \/ (x + Pad <= Left(n) /\ col[m] < col[n])
  <2>1. GridColumn(n) < GridColumn(m) \/ GridColumn(m) < GridColumn(n)
    BY <1>2, <1>6, GridFacts
  <2>2. CASE GridColumn(n) < GridColumn(m)
    <3>1. GridColumn(n) <= g
      BY <1>2, <1>6, <2>2
    <3>2. col[n] < col[m]
      BY <2>2, GridFacts
    <3> QED BY <1>4, <3>1, <3>2
  <2>3. CASE GridColumn(m) < GridColumn(n)
    <3>1. GridColumn(n) > g
      BY <1>2, <1>6, <2>3
    <3>2. col[m] < col[n]
      BY <2>3, GridFacts
    <3> QED BY <1>4, <3>1, <3>2
  <2> QED BY <2>1, <2>2, <2>3
<1> QED BY <1>1, <1>5, <1>6 DEF BesideX

\* Inside a band, the same of rows.
LEMMA InsideBand ==
  ASSUME LayoutTypeOK, BoxesApart, NEW b \in Int, Connected # {},
         NEW y, Inside(y, Band(b))
  PROVE  /\ FreeY(y)
         /\ \A m \in Connected : Row(m) \in {b, b + 1} => BesideY(y, m)
<1>1. Pad \in Nat /\ y \in Int
  BY LengthsAssumption DEF Pad, Inside
<1>2. \A n \in Connected : Top(n) \in Int /\ Bottom(n) \in Int /\ Row(n) \in Int
  BY BoxFacts
<1>3. Band(b).lo \in Int /\ Band(b).hi \in Int
  BY BandFacts
<1>4. ASSUME NEW n \in Connected
      PROVE  /\ Row(n) <= b => Bottom(n) + Pad <= y
             /\ Row(n) > b => y + Pad <= Top(n)
  BY <1>1, <1>2, <1>3, BandFacts DEF Inside
<1>5. FreeY(y)
  BY <1>1, <1>2, <1>4 DEF FreeY
<1>6. ASSUME NEW m \in Connected, Row(m) \in {b, b + 1}, NEW n \in Connected, Row(n) # Row(m)
      PROVE  (Bottom(n) + Pad <= y /\ Row(n) < Row(m)) \/ (y + Pad <= Top(n) /\ Row(m) < Row(n))
  <2>1. \A j, k \in Int : j \in {b, b + 1} /\ k # j => (k < j /\ k <= b) \/ (j < k /\ k > b)
    OBVIOUS
  <2>2. (Row(n) < Row(m) /\ Row(n) <= b) \/ (Row(m) < Row(n) /\ Row(n) > b)
    BY <1>2, <1>6, <2>1
  <2>3. CASE Row(n) < Row(m) /\ Row(n) <= b
    BY <1>4, <2>3
  <2>4. CASE Row(m) < Row(n) /\ Row(n) > b
    BY <1>4, <2>4
  <2> QED BY <2>2, <2>3, <2>4
<1> QED BY <1>1, <1>5, <1>6 DEF BesideY

\* The middle of a corridor as wide as the padding on both sides.
LEMMA MiddleInside ==
  ASSUME NEW corridor \in [lo : Int, hi : Int], corridor.hi - corridor.lo >= 2 * Pad
  PROVE  Inside(Middle(corridor), corridor)
<1> DEFINE lo == corridor.lo
           hi == corridor.hi
           middle == (lo + hi) \div 2
<1>1. Pad \in Nat /\ lo \in Int /\ hi \in Int /\ hi - lo >= 2 * Pad
  BY LengthsAssumption DEF Pad
<1> HIDE DEF lo, hi
<1>2. middle \in Int /\ lo + Pad <= middle /\ middle <= hi - Pad
  BY <1>1
<1> QED BY <1>2 DEF Inside, Middle, lo, hi

\* What a piece of line does not touch: an upright one at such an x, ...
LEMMA FreeUpright ==
  ASSUME LayoutTypeOK, BoxesApart, NEW x, FreeX(x), NEW y \in Int, NEW z \in Int, NEW n \in Connected
  PROVE  ~Touches(Point(x, y), Point(x, z), n)
<1>1. Pad \in Nat /\ x \in Int
  BY LengthsAssumption DEF Pad, FreeX
<1>2. Left(n) \in Int /\ Right(n) \in Int
  BY BoxFacts
<1>3. Min({x, x}) = x /\ Max({x, x}) = x
  BY <1>1, TwoIntegers
<1>4. ~(x < Right(n) + Pad) \/ ~(x > Left(n) - Pad)
  BY <1>1, <1>2 DEF FreeX
<1> QED BY <1>3, <1>4 DEF Touches, Point

\* ... a level one at such a y, ...
LEMMA FreeLevel ==
  ASSUME LayoutTypeOK, BoxesApart, NEW y, FreeY(y), NEW x \in Int, NEW z \in Int, NEW n \in Connected
  PROVE  ~Touches(Point(x, y), Point(z, y), n)
<1>1. Pad \in Nat /\ y \in Int
  BY LengthsAssumption DEF Pad, FreeY
<1>2. Top(n) \in Int /\ Bottom(n) \in Int
  BY BoxFacts
<1>3. Min({y, y}) = y /\ Max({y, y}) = y
  BY <1>1, TwoIntegers
<1>4. ~(y < Bottom(n) + Pad) \/ ~(y > Top(n) - Pad)
  BY <1>1, <1>2 DEF FreeY
<1> QED BY <1>3, <1>4 DEF Touches, Point

\* ... one between a side of a box and a gutter beside it, ...
LEMMA FreeSideStub ==
  ASSUME LayoutTypeOK, BoxesApart, NEW m \in Connected, NEW y \in Int, Top(m) <= y, y <= Bottom(m),
         NEW x, BesideX(x, m), NEW z, BesideX(z, m), NEW n \in Connected \ {m}
  PROVE  ~Touches(Point(x, y), Point(z, y), n)
<1>1. Pad \in Nat /\ x \in Int /\ z \in Int
  BY LengthsAssumption DEF Pad, BesideX
<1>2. /\ Left(n) \in Int /\ Right(n) \in Int /\ Top(n) \in Int /\ Bottom(n) \in Int
      /\ Top(m) \in Int /\ Bottom(m) \in Int /\ Row(n) \in Nat /\ Row(m) \in Nat
      /\ col[m] \in Nat /\ col[n] \in Nat
  BY BoxFacts
<1>3. /\ Min({y, y}) = y /\ Max({y, y}) = y
      /\ Min({x, z}) = (IF x <= z THEN x ELSE z) /\ Max({x, z}) = (IF x <= z THEN z ELSE x)
  BY <1>1, TwoIntegers
<1>4. CASE col[n] = col[m]
  <2>1. Row(m) < Row(n) \/ Row(n) < Row(m)
    <3>1. Row(m) # Row(n)
      BY <1>4, BoxFacts
    <3> QED BY <1>2, <3>1
  <2>2. Bottom(m) + 2 * Pad <= Top(n) \/ Bottom(n) + 2 * Pad <= Top(m)
    BY <2>1, BoxFacts
  <2>3. ~(y < Bottom(n) + Pad) \/ ~(y > Top(n) - Pad)
    BY <1>1, <1>2, <2>2
  <2> QED BY <1>3, <2>3 DEF Touches, Point
<1>5. CASE col[n] # col[m]
  <2>1. \/ Right(n) + Pad <= x /\ Right(n) + Pad <= z
        \/ x + Pad <= Left(n) /\ z + Pad <= Left(n)
    BY <1>2, <1>5 DEF BesideX
  <2>2. ~(Min({x, z}) < Right(n) + Pad) \/ ~(Max({x, z}) > Left(n) - Pad)
    BY <1>1, <1>2, <1>3, <2>1
  <2> QED BY <2>2 DEF Touches, Point
<1> QED BY <1>4, <1>5

\* ... and one between the top or bottom of a box and a band beside it.
LEMMA FreeEndStub ==
  ASSUME LayoutTypeOK, BoxesApart, NEW m \in Connected, NEW x \in Int, Left(m) <= x, x <= Right(m),
         NEW y, BesideY(y, m), NEW z, BesideY(z, m), NEW n \in Connected \ {m}
  PROVE  ~Touches(Point(x, y), Point(x, z), n)
<1>1. Pad \in Nat /\ y \in Int /\ z \in Int
  BY LengthsAssumption DEF Pad, BesideY
<1>2. /\ Left(n) \in Int /\ Right(n) \in Int /\ Top(n) \in Int /\ Bottom(n) \in Int
      /\ Left(m) \in Int /\ Right(m) \in Int /\ Row(n) \in Nat /\ Row(m) \in Nat
      /\ col[m] \in Nat /\ col[n] \in Nat
  BY BoxFacts
<1>3. /\ Min({x, x}) = x /\ Max({x, x}) = x
      /\ Min({y, z}) = (IF y <= z THEN y ELSE z) /\ Max({y, z}) = (IF y <= z THEN z ELSE y)
  BY <1>1, TwoIntegers
<1>4. CASE Row(n) = Row(m)
  <2>1. col[m] < col[n] \/ col[n] < col[m]
    <3>1. col[m] # col[n]
      BY <1>4, BoxFacts
    <3> QED BY <1>2, <3>1
  <2>2. Right(m) + 2 * Pad <= Left(n) \/ Right(n) + 2 * Pad <= Left(m)
    BY <2>1, BoxFacts
  <2>3. ~(x < Right(n) + Pad) \/ ~(x > Left(n) - Pad)
    BY <1>1, <1>2, <2>2
  <2> QED BY <1>3, <2>3 DEF Touches, Point
<1>5. CASE Row(n) # Row(m)
  <2>1. \/ Bottom(n) + Pad <= y /\ Bottom(n) + Pad <= z
        \/ y + Pad <= Top(n) /\ z + Pad <= Top(n)
    BY <1>2, <1>5 DEF BesideY
  <2>2. ~(Min({y, z}) < Bottom(n) + Pad) \/ ~(Max({y, z}) > Top(n) - Pad)
    BY <1>1, <1>2, <1>3, <2>1
  <2> QED BY <2>2 DEF Touches, Point
<1> QED BY <1>4, <1>5

\* A line is clear when each of its pieces is.
LEMMA ClearPieces ==
  ASSUME NEW i
  PROVE  /\ \A a, b : (\A n \in Connected : ~Touches(a, b, n)) => Clear(i, <<a, b>>)
         /\ \A a, b, c, d :
              (\A n \in Connected \ {Source(i), Target(i)} :
                 ~Touches(a, b, n) /\ ~Touches(b, c, n) /\ ~Touches(c, d, n))
                 => Clear(i, <<a, b, c, d>>)
         /\ \A a, b, c, d, e, f :
              (\A n \in Connected \ {Source(i), Target(i)} :
                 /\ ~Touches(a, b, n) /\ ~Touches(b, c, n) /\ ~Touches(c, d, n)
                 /\ ~Touches(d, e, n) /\ ~Touches(e, f, n))
                 => Clear(i, <<a, b, c, d, e, f>>)
<1>1. ASSUME NEW a, NEW b, \A n \in Connected : ~Touches(a, b, n)
      PROVE  Clear(i, <<a, b>>)
  <2> DEFINE line == <<a, b>>
  <2>1. Len(line) = 2 /\ line[1] = a /\ line[2] = b
    OBVIOUS
  <2> HIDE DEF line
  <2>2. \A k \in 2..2 : k = 2 /\ k - 1 = 1
    OBVIOUS
  <2>3. Clear(i, line)
    BY <1>1, <2>1, <2>2 DEF Clear
  <2> QED BY <2>3 DEF line
<1>2. ASSUME NEW a, NEW b, NEW c, NEW d,
             \A n \in Connected \ {Source(i), Target(i)} :
               ~Touches(a, b, n) /\ ~Touches(b, c, n) /\ ~Touches(c, d, n)
      PROVE  Clear(i, <<a, b, c, d>>)
  <2> DEFINE line == <<a, b, c, d>>
  <2>1. Len(line) = 4 /\ line[1] = a /\ line[2] = b /\ line[3] = c /\ line[4] = d
    OBVIOUS
  <2> HIDE DEF line
  <2>2. \A k \in 2..4 : (k = 2 /\ k - 1 = 1) \/ (k = 3 /\ k - 1 = 2) \/ (k = 4 /\ k - 1 = 3)
    OBVIOUS
  <2>3. Clear(i, line)
    BY <1>2, <2>1, <2>2 DEF Clear
  <2> QED BY <2>3 DEF line
<1>3. ASSUME NEW a, NEW b, NEW c, NEW d, NEW e, NEW f,
             \A n \in Connected \ {Source(i), Target(i)} :
               /\ ~Touches(a, b, n) /\ ~Touches(b, c, n) /\ ~Touches(c, d, n)
               /\ ~Touches(d, e, n) /\ ~Touches(e, f, n)
      PROVE  Clear(i, <<a, b, c, d, e, f>>)
  <2> DEFINE line == <<a, b, c, d, e, f>>
  <2>1. /\ Len(line) = 6 /\ line[1] = a /\ line[2] = b /\ line[3] = c /\ line[4] = d
        /\ line[5] = e /\ line[6] = f
    OBVIOUS
  <2> HIDE DEF line
  <2>2. \A k \in 2..6 : \/ k = 2 /\ k - 1 = 1
                        \/ k = 3 /\ k - 1 = 2
                        \/ k = 4 /\ k - 1 = 3
                        \/ k = 5 /\ k - 1 = 4
                        \/ k = 6 /\ k - 1 = 5
    OBVIOUS
  <2>3. Clear(i, line)
    BY <1>3, <2>1, <2>2 DEF Clear
  <2> QED BY <2>3 DEF line
<1> QED BY <1>1, <1>2, <1>3

-----------------------------------------------------------------------------
(* Where a line starts and where it can go.                                *)

\* A point on the left or right side of a box, and one on its top or bottom.
OnSide(p, m) ==
    \E y \in Int : /\ Top(m) <= y /\ y <= Bottom(m)
                   /\ p = Point(Left(m), y) \/ p = Point(Right(m), y)
OnEnd(p, m) ==
    \E x \in Int : /\ Left(m) <= x /\ x <= Right(m)
                   /\ p = Point(x, Top(m)) \/ p = Point(x, Bottom(m))

\* The ports of level edges are on the sides of their boxes, those of the others on the ends.
LEMMA PortPlaces ==
  ASSUME LayoutTypeOK, BoxesApart, edges \in EdgeLists, NEW z \in Ends
  PROVE  /\ Side(z) \in {"left", "right"} => OnSide(PortOf(z), Box(z))
         /\ Side(z) \in {"top", "bottom"} => OnEnd(PortOf(z), Box(z))
<1> DEFINE s == Cardinality(SameSide(z))
           n == 1 + s
           m == Box(z)
           k == 1 + Cardinality({y \in SameSide(z) : Precedes(y, z)})
           along == IF Side(z) \in {"left", "right"} THEN Height[m] ELSE Width
           at == (k * along) \div n
<1>1. m \in Containers /\ m \in Connected
  <2>1. edges \in Seq(Nat \X Nat)
    BY DEF LayoutTypeOK
  <2> QED BY <2>1, EndFacts, GraphFacts DEF Ends, Box, Drawn, Source, Target
<1>2. s \in Nat /\ s < Width /\ s < Height[m] /\ k \in 1..s
  BY <1>1, PlaceInRange, EndFacts DEF Place
<1>3. Width \in Nat /\ Height[m] \in Nat
  BY <1>1, LengthsAssumption
<1>4. along \in Nat /\ along >= n /\ n \in Nat /\ n >= 1 /\ k \in 1..(n - 1)
  BY <1>2, <1>3
<1>5. PortOf(z) = (CASE Side(z) = "right"  -> Point(Right(m), Top(m) + at)
                     [] Side(z) = "left"   -> Point(Left(m), Top(m) + at)
                     [] Side(z) = "bottom" -> Point(Left(m) + at, Bottom(m))
                     [] Side(z) = "top"    -> Point(Left(m) + at, Top(m)))
  BY DEF PortOf
<1>6. /\ Left(m) \in Int /\ Right(m) = Left(m) + Width
      /\ Top(m) \in Int /\ Bottom(m) = Top(m) + Height[m]
  BY <1>1, BoxFacts
<1> HIDE DEF m, k, s, along, n
<1>7. at \in 1..(along - 1)
  BY <1>4, MarksInside
<1> HIDE DEF at
<1>8. ASSUME Side(z) \in {"left", "right"} PROVE OnSide(PortOf(z), m)
  <2>1. along = Height[m]
    BY <1>8 DEF along
  <2>2. Top(m) + at \in Int /\ Top(m) <= Top(m) + at /\ Top(m) + at <= Bottom(m)
    BY <1>3, <1>6, <1>7, <2>1
  <2>3. PortOf(z) = Point(Left(m), Top(m) + at) \/ PortOf(z) = Point(Right(m), Top(m) + at)
    BY <1>5, <1>8
  <2> QED BY <2>2, <2>3 DEF OnSide
<1>9. ASSUME Side(z) \in {"top", "bottom"} PROVE OnEnd(PortOf(z), m)
  <2>1. along = Width
    BY <1>9 DEF along
  <2>2. Left(m) + at \in Int /\ Left(m) <= Left(m) + at /\ Left(m) + at <= Right(m)
    BY <1>3, <1>6, <1>7, <2>1
  <2>3. PortOf(z) = Point(Left(m) + at, Top(m)) \/ PortOf(z) = Point(Left(m) + at, Bottom(m))
    BY <1>5, <1>9
  <2> QED BY <2>2, <2>3 DEF OnEnd
<1> QED BY <1>8, <1>9 DEF m

\* The boxes of an edge differ, and a level one's are in two columns.
LEMMA EdgeFacts ==
  ASSUME LayoutTypeOK, BoxesApart, NEW i \in Drawn
  PROVE  /\ i \in Nat /\ Connected # {}
         /\ Source(i) \in Connected /\ Target(i) \in Connected /\ Source(i) # Target(i)
         /\ ColumnsAcross(i) \in Int /\ RowsAcross(i) \in Int
         /\ IsLevel(i) => ColumnsAcross(i) # 0
<1>1. /\ Source(i) \in Connected /\ Target(i) \in Connected /\ Source(i) # Target(i)
  BY GraphFacts DEF LayoutTypeOK, Drawn, Source, Target
<1>2. \A n \in Connected : GridColumn(n) \in Int /\ Row(n) \in Int
  BY GridFacts, BoxFacts
<1>3. i \in Nat
  <2>1. edges \in Seq(Nat \X Nat)
    BY DEF LayoutTypeOK
  <2> QED BY <2>1 DEF Drawn
<1>4. ColumnsAcross(i) \in Int /\ RowsAcross(i) \in Int
  BY <1>1, <1>2 DEF ColumnsAcross, RowsAcross
<1>5. ASSUME IsLevel(i), ColumnsAcross(i) = 0 PROVE FALSE
  <2>1. RowsAcross(i) = 0
    BY <1>4, <1>5 DEF IsLevel, Abs
  <2>2. GridColumn(Target(i)) = GridColumn(Source(i)) /\ Row(Target(i)) = Row(Source(i))
    BY <1>1, <1>2, <1>5, <2>1 DEF ColumnsAcross, RowsAcross
  <2>3. col[Target(i)] = col[Source(i)]
    BY <1>1, <2>2, GridFacts
  <2> QED BY <1>1, <2>2, <2>3, BoxFacts
<1> QED BY <1>1, <1>3, <1>4, <1>5

\* The ports placed for an edge.
LEMMA EdgePorts ==
  ASSUME LayoutTypeOK, BoxesApart, PortInv, stage # "wait", NEW i \in Drawn
  PROVE  /\ IsLevel(i) => OnSide(From(i), Source(i)) /\ OnSide(To(i), Target(i))
         /\ ~IsLevel(i) => OnEnd(From(i), Source(i)) /\ OnEnd(To(i), Target(i))
<1> DEFINE s == <<i, "source">>
           t == <<i, "target">>
<1>1. s \in Ends /\ t \in Ends
  BY DEF Ends
<1>2. From(i) = PortOf(s) /\ To(i) = PortOf(t) /\ edges \in EdgeLists
  BY <1>1 DEF PortInv, From, To
<1>3. Box(s) = Source(i) /\ Box(t) = Target(i)
  BY DEF Box
<1>4. \A z \in {s, t} : /\ IsLevel(i) => Side(z) \in {"left", "right"}
                        /\ ~IsLevel(i) => Side(z) \in {"top", "bottom"}
  BY DEF Side
<1> QED BY <1>1, <1>2, <1>3, <1>4, PortPlaces

\* The sides of a box are beside its column, its ends beside its row.
LEMMA BoxBeside ==
  ASSUME LayoutTypeOK, BoxesApart, NEW m \in Connected
  PROVE  /\ BesideX(Left(m), m) /\ BesideX(Right(m), m)
         /\ BesideY(Top(m), m) /\ BesideY(Bottom(m), m)
<1>1. Pad \in Nat
  BY LengthsAssumption DEF Pad
<1>2. \A n \in Connected : /\ Left(n) \in Int /\ Right(n) \in Int /\ Left(n) <= Right(n)
                           /\ Top(n) \in Int /\ Bottom(n) \in Int /\ Top(n) <= Bottom(n)
                           /\ Row(n) \in Int /\ col[n] \in Int
  BY BoxFacts
<1>3. ASSUME NEW n \in Connected, col[n] # col[m]
      PROVE  \/ /\ col[n] < col[m]
                /\ Right(n) + Pad <= Left(m) /\ Right(n) + Pad <= Right(m)
             \/ /\ col[m] < col[n]
                /\ Left(m) + Pad <= Left(n) /\ Right(m) + Pad <= Left(n)
  <2>1. CASE col[n] < col[m]
    <3>1. Right(n) + 2 * Pad <= Left(m)
      BY <2>1, BoxFacts
    <3> QED BY <1>1, <1>2, <2>1, <3>1
  <2>2. CASE col[m] < col[n]
    <3>1. Right(m) + 2 * Pad <= Left(n)
      BY <2>2, BoxFacts
    <3> QED BY <1>1, <1>2, <2>2, <3>1
  <2> QED BY <1>2, <1>3, <2>1, <2>2
<1>4. ASSUME NEW n \in Connected, Row(n) # Row(m)
      PROVE  \/ /\ Row(n) < Row(m)
                /\ Bottom(n) + Pad <= Top(m) /\ Bottom(n) + Pad <= Bottom(m)
             \/ /\ Row(m) < Row(n)
                /\ Top(m) + Pad <= Top(n) /\ Bottom(m) + Pad <= Top(n)
  <2>1. CASE Row(n) < Row(m)
    <3>1. Bottom(n) + 2 * Pad <= Top(m)
      BY <2>1, BoxFacts
    <3> QED BY <1>1, <1>2, <2>1, <3>1
  <2>2. CASE Row(m) < Row(n)
    <3>1. Bottom(m) + 2 * Pad <= Top(n)
      BY <2>2, BoxFacts
    <3> QED BY <1>1, <1>2, <2>2, <3>1
  <2> QED BY <1>2, <1>4, <2>1, <2>2
<1>5. BesideX(Left(m), m) /\ BesideX(Right(m), m)
  BY <1>2, <1>3 DEF BesideX
<1>6. BesideY(Top(m), m) /\ BesideY(Bottom(m), m)
  BY <1>2, <1>4 DEF BesideY
<1> QED BY <1>5, <1>6

\* The stub of a port: to a gutter beside the column of its box, or a band beside its row.
LEMMA StubsClear ==
  ASSUME LayoutTypeOK, BoxesApart, NEW m \in Connected, NEW p
  PROVE  /\ OnSide(p, m) =>
              /\ p.x \in Int /\ p.y \in Int
              /\ \A x : BesideX(x, m) =>
                   \A n \in Connected \ {m} : ~Touches(p, Point(x, p.y), n) /\ ~Touches(Point(x, p.y), p, n)
         /\ OnEnd(p, m) =>
              /\ p.x \in Int /\ p.y \in Int
              /\ \A y : BesideY(y, m) =>
                   \A n \in Connected \ {m} : ~Touches(p, Point(p.x, y), n) /\ ~Touches(Point(p.x, y), p, n)
<1>1. Left(m) \in Int /\ Right(m) \in Int /\ Top(m) \in Int /\ Bottom(m) \in Int
  BY BoxFacts
<1>2. ASSUME OnSide(p, m)
      PROVE  /\ p.x \in Int /\ p.y \in Int
             /\ \A x : BesideX(x, m) =>
                  \A n \in Connected \ {m} : ~Touches(p, Point(x, p.y), n) /\ ~Touches(Point(x, p.y), p, n)
  <2>1. PICK y \in Int : /\ Top(m) <= y /\ y <= Bottom(m)
                         /\ p = Point(Left(m), y) \/ p = Point(Right(m), y)
    BY <1>2 DEF OnSide
  <2>2. p.x \in Int /\ p.y = y /\ p = Point(p.x, y) /\ BesideX(p.x, m)
    BY <1>1, <2>1, BoxBeside DEF Point
  <2> QED BY <2>1, <2>2, FreeSideStub
<1>3. ASSUME OnEnd(p, m)
      PROVE  /\ p.x \in Int /\ p.y \in Int
             /\ \A y : BesideY(y, m) =>
                  \A n \in Connected \ {m} : ~Touches(p, Point(p.x, y), n) /\ ~Touches(Point(p.x, y), p, n)
  <2>1. PICK x \in Int : /\ Left(m) <= x /\ x <= Right(m)
                         /\ p = Point(x, Top(m)) \/ p = Point(x, Bottom(m))
    BY <1>3 DEF OnEnd
  <2>2. p.x = x /\ p.y \in Int /\ p = Point(x, p.y) /\ BesideY(p.y, m)
    BY <1>1, <2>1, BoxBeside DEF Point
  <2> QED BY <2>1, <2>2, FreeEndStub
<1> QED BY <1>2, <1>3

\* The gutters of an edge are on the grid, each beside the column of its box; one gutter is
\* beside both columns of an edge between two that follow each other.
LEMMA NearGutters ==
  ASSUME LayoutTypeOK, BoxesApart, NEW i \in Drawn
  PROVE  /\ Columns \in Nat
         /\ {FirstGutter(i), LastGutter(i), GridColumn(Source(i)), GridColumn(Source(i)) - 1}
              \subseteq -1..(Columns - 1)
         /\ GridColumn(Source(i)) \in {FirstGutter(i), FirstGutter(i) + 1}
         /\ GridColumn(Target(i)) \in {LastGutter(i), LastGutter(i) + 1}
         /\ IsLevel(i) /\ Abs(ColumnsAcross(i)) < 2 =>
              GridColumn(Source(i)) \in {LastGutter(i), LastGutter(i) + 1}
<1> DEFINE s == GridColumn(Source(i))
           t == GridColumn(Target(i))
<1>1. Columns \in Nat /\ s \in 0..(Columns - 1) /\ t \in 0..(Columns - 1)
  BY EdgeFacts, GridFacts
<1>2. ColumnsAcross(i) = t - s
  BY DEF ColumnsAcross
<1>3. /\ FirstGutter(i) = s - (IF ColumnsAcross(i) >= 0 THEN 0 ELSE 1)
      /\ LastGutter(i) = t - (IF ColumnsAcross(i) >= 0 THEN 1 ELSE 0)
  BY DEF FirstGutter, LastGutter
<1> HIDE DEF s, t
<1>4. ASSUME IsLevel(i), Abs(ColumnsAcross(i)) < 2 PROVE s \in {LastGutter(i), LastGutter(i) + 1}
  <2>1. t - s # 0
    BY <1>2, <1>4, EdgeFacts
  <2>2. t - s = 1 \/ t - s = -1
    BY <1>1, <1>2, <1>4, <2>1 DEF Abs
  <2> QED BY <1>1, <1>2, <1>3, <2>2
<1>5. FirstGutter(i) \in -1..(Columns - 1) /\ s \in {FirstGutter(i), FirstGutter(i) + 1}
  BY <1>1, <1>2, <1>3
<1>6. LastGutter(i) \in -1..(Columns - 1) /\ t \in {LastGutter(i), LastGutter(i) + 1}
  <2>1. CASE ColumnsAcross(i) >= 0
    BY <1>1, <1>3, <2>1
  <2>2. CASE ~(ColumnsAcross(i) >= 0)
    BY <1>1, <1>3, <2>2
  <2> QED BY <2>1, <2>2
<1>7. s \in -1..(Columns - 1) /\ s - 1 \in -1..(Columns - 1)
  BY <1>1
<1> QED BY <1>1, <1>4, <1>5, <1>6, <1>7 DEF s, t

\* The band the long way starts in, beside the source's row.
FirstBand(i) == Row(Source(i)) - (IF RowsAcross(i) >= 0 THEN 0 ELSE 1)

\* Its bands are between rows, beside those of its boxes.
LEMMA NearBands ==
  ASSUME LayoutTypeOK, BoxesApart, NEW i \in Drawn
  PROVE  /\ Rows \in Nat
         /\ FirstBand(i) \in -1..(Rows - 1) /\ UprightBand(i) \in -1..(Rows - 1)
         /\ Row(Source(i)) \in {FirstBand(i), FirstBand(i) + 1}
         /\ ~IsLevel(i) => Row(Target(i)) \in {UprightBand(i), UprightBand(i) + 1}
<1> DEFINE s == Row(Source(i))
           t == Row(Target(i))
<1>1. Rows \in Nat /\ s \in 0..(Rows - 1) /\ t \in 0..(Rows - 1)
  BY EdgeFacts, RowsFacts
<1>2. /\ FirstBand(i) = s - (IF RowsAcross(i) >= 0 THEN 0 ELSE 1)
      /\ UprightBand(i) = t - (IF RowsAcross(i) >= 0 THEN 1 ELSE 0)
  BY DEF FirstBand, UprightBand
<1> HIDE DEF s, t
<1>3. CASE RowsAcross(i) >= 0
  BY <1>1, <1>2, <1>3 DEF s, t
<1>4. CASE ~(RowsAcross(i) >= 0)
  BY <1>1, <1>2, <1>4 DEF s, t
<1> QED BY <1>3, <1>4

\* Lanes are inside their corridors, the detours' too.
LEMMA LanesInside ==
  ASSUME LayoutTypeOK, BoxesApart, Connected # {}, NEW i \in Nat
  PROVE  /\ \A g \in -1..(Columns - 1) : Inside(LaneX(i, g), Gutter(g))
         /\ \A b \in Int : Inside(LaneY(i, b), Band(b))
         /\ \A g \in -1..(Columns - 1) : Inside(Middle(Gutter(g)), Gutter(g))
         /\ \A b \in Int : Inside(Middle(Band(b)), Band(b))
<1>1. Drawn \in SUBSET Nat /\ IsFiniteSet(Drawn)
  BY DrawnFinite
<1>2. /\ \A g : InGutter(g) \in SUBSET Nat /\ IsFiniteSet(InGutter(g))
      /\ \A b : InBand(b) \in SUBSET Nat /\ IsFiniteSet(InBand(b))
  <2>1. /\ \A g : InGutter(g) \subseteq Drawn
        /\ \A b : InBand(b) \subseteq Drawn
    BY DEF InGutter, InBand
  <2> QED BY <1>1, <2>1, FS_Subset
<1>3. /\ 18 * Px \in Nat /\ 18 * Px >= 8 * Px
      /\ 16 * Px \in Nat /\ 16 * Px >= 8 * Px
  BY LengthsAssumption
<1>4. \A g \in -1..(Columns - 1) : Inside(LaneX(i, g), Gutter(g))
  BY <1>2, <1>3, GutterBoxes, LaneInside DEF Inside, LaneX
<1>5. \A b \in Int : Inside(LaneY(i, b), Band(b))
  BY <1>2, <1>3, BandFacts, LaneInside DEF Inside, LaneY
<1>6. \A g \in -1..(Columns - 1) : Inside(Middle(Gutter(g)), Gutter(g))
  BY GutterBoxes, MiddleInside
<1>7. \A b \in Int : Inside(Middle(Band(b)), Band(b))
  BY BandFacts, MiddleInside
<1> QED BY <1>4, <1>5, <1>6, <1>7

\* No box stands in the first band: the search for a free one ends where it starts.
LEMMA LongBandIsFirst ==
  ASSUME LayoutTypeOK, BoxesApart, NEW i \in Drawn
  PROVE  LongBand(i) = FirstBand(i)
<1> DEFINE step == IF RowsAcross(i) >= 0 THEN 1 ELSE -1
           first == FirstBand(i)
           line(k) == LET y == Middle(Band(first + k * step))
                      IN  <<Point(Middle(Gutter(FirstGutter(i))), y),
                            Point(Middle(Gutter(LastGutter(i))), y)>>
           free == {k \in 0..Rows : Clear(i, line(k))}
<1>1. /\ first \in Int /\ Rows \in Nat /\ step \in Int /\ first + 0 * step = first
      /\ Connected # {} /\ i \in Nat
  BY NearBands, EdgeFacts
<1>2. Clear(i, line(0))
  <2> DEFINE y == Middle(Band(first))
             a == Middle(Gutter(FirstGutter(i)))
             b == Middle(Gutter(LastGutter(i)))
  <2>1. FreeY(y)
    BY <1>1, LanesInside, InsideBand
  <2>2. a \in Int /\ b \in Int
    BY <1>1, LanesInside, NearGutters DEF Inside
  <2>3. line(0) = <<Point(a, y), Point(b, y)>>
    BY <1>1
  <2> HIDE DEF a, b, y, line
  <2>4. \A n \in Connected : ~Touches(Point(a, y), Point(b, y), n)
    BY <2>1, <2>2, FreeLevel
  <2> QED BY <2>3, <2>4, ClearPieces
<1> HIDE DEF line
<1>3. 0 \in free
  BY <1>1, <1>2
<1>4. \A k \in free \cup {Rows + 1} : k \in Nat
  BY <1>1
<1> DEFINE all == free \cup {Rows + 1}
<1>5. 0 \in all /\ \A k \in all : 0 <= k
  BY <1>3, <1>4
<1> HIDE DEF all
<1>6. \A x \in all : (\A k \in all : x <= k) => x = 0
  <2> SUFFICES ASSUME NEW x \in all, \A k \in all : x <= k PROVE x = 0
    OBVIOUS
  <2>1. x \in Nat /\ x <= 0
    BY <1>4, <1>5 DEF all
  <2> QED BY <2>1
<1>7. Min(all) = 0
  BY <1>5, <1>6 DEF Min
<1>8. LongBand(i) = first + step * Min(all)
  BY DEF LongBand, FirstBand, all, line
<1> QED BY <1>1, <1>7, <1>8

-----------------------------------------------------------------------------
(* The lines are clear.                                                    *)

\* A level line by one gutter beside both its columns.
LEMMA DirectClear ==
  ASSUME LayoutTypeOK, BoxesApart, PortInv, stage # "wait", NEW i \in Drawn, IsLevel(i),
         NEW x, FreeX(x), BesideX(x, Source(i)), BesideX(x, Target(i))
  PROVE  Clear(i, Direct(i, x))
<1>1. Source(i) \in Connected /\ Target(i) \in Connected
  BY EdgeFacts
<1>2. OnSide(From(i), Source(i)) /\ OnSide(To(i), Target(i))
  BY EdgePorts
<1>3. From(i).y \in Int /\ To(i).y \in Int
  BY <1>1, <1>2, StubsClear
<1>4. ASSUME NEW n \in Connected \ {Source(i), Target(i)}
      PROVE  /\ ~Touches(From(i), Point(x, From(i).y), n)
             /\ ~Touches(Point(x, From(i).y), Point(x, To(i).y), n)
             /\ ~Touches(Point(x, To(i).y), To(i), n)
  BY <1>1, <1>2, <1>3, StubsClear, FreeUpright
<1> QED BY <1>4, ClearPieces DEF Direct

\* A level line by two gutters and a band.
LEMMA ThroughClear ==
  ASSUME LayoutTypeOK, BoxesApart, PortInv, stage # "wait", NEW i \in Drawn, IsLevel(i),
         NEW x, FreeX(x), BesideX(x, Source(i)),
         NEW z, FreeX(z), BesideX(z, Target(i)),
         NEW y, FreeY(y)
  PROVE  Clear(i, Through(i, x, z, y))
<1>1. Source(i) \in Connected /\ Target(i) \in Connected
  BY EdgeFacts
<1>2. OnSide(From(i), Source(i)) /\ OnSide(To(i), Target(i))
  BY EdgePorts
<1>3. From(i).y \in Int /\ To(i).y \in Int /\ x \in Int /\ y \in Int /\ z \in Int
  BY <1>1, <1>2, StubsClear DEF FreeX, FreeY
<1>4. ASSUME NEW n \in Connected \ {Source(i), Target(i)}
      PROVE  /\ ~Touches(From(i), Point(x, From(i).y), n)
             /\ ~Touches(Point(x, From(i).y), Point(x, y), n)
             /\ ~Touches(Point(x, y), Point(z, y), n)
             /\ ~Touches(Point(z, y), Point(z, To(i).y), n)
             /\ ~Touches(Point(z, To(i).y), To(i), n)
  <2>1. ~Touches(From(i), Point(x, From(i).y), n) /\ ~Touches(Point(z, To(i).y), To(i), n)
    BY <1>1, <1>2, StubsClear
  <2>2. ~Touches(Point(x, From(i).y), Point(x, y), n) /\ ~Touches(Point(z, y), Point(z, To(i).y), n)
    BY <1>3, FreeUpright
  <2>3. ~Touches(Point(x, y), Point(z, y), n)
    BY <1>3, FreeLevel
  <2> QED BY <2>1, <2>2, <2>3
<1> QED BY <1>4, ClearPieces DEF Through

\* A detour by either gutter of the source's column.
LEMMA DetourClear ==
  ASSUME LayoutTypeOK, BoxesApart, PortInv, stage # "wait", NEW i \in Drawn, ~IsLevel(i),
         NEW g \in {GridColumn(Source(i)), GridColumn(Source(i)) - 1}
  PROVE  Clear(i, Detour(i, g))
<1> DEFINE x == LaneX(i, g)
           near == Middle(Band(FirstBand(i)))
           far == Middle(Band(UprightBand(i)))
<1>1. /\ Source(i) \in Connected /\ Target(i) \in Connected /\ Connected # {} /\ i \in Nat
      /\ FirstBand(i) \in Int /\ UprightBand(i) \in Int /\ g \in -1..(Columns - 1)
  BY EdgeFacts, NearBands, NearGutters
<1>2. OnEnd(From(i), Source(i)) /\ OnEnd(To(i), Target(i))
  BY EdgePorts
<1>3. FreeX(x)
  BY <1>1, LanesInside, InsideGutter
<1>4. FreeY(near) /\ BesideY(near, Source(i))
  BY <1>1, LanesInside, InsideBand, NearBands
<1>5. FreeY(far) /\ BesideY(far, Target(i))
  BY <1>1, LanesInside, InsideBand, NearBands
<1>6. Detour(i, g) = <<From(i), Point(From(i).x, near), Point(x, near), Point(x, far),
                       Point(To(i).x, far), To(i)>>
  BY DEF Detour, FirstBand
<1> HIDE DEF x, near, far
<1>7. From(i).x \in Int /\ To(i).x \in Int /\ x \in Int /\ near \in Int /\ far \in Int
  BY <1>1, <1>2, <1>3, <1>4, <1>5, StubsClear DEF FreeX, FreeY
<1>8. ASSUME NEW n \in Connected \ {Source(i), Target(i)}
      PROVE  /\ ~Touches(From(i), Point(From(i).x, near), n)
             /\ ~Touches(Point(From(i).x, near), Point(x, near), n)
             /\ ~Touches(Point(x, near), Point(x, far), n)
             /\ ~Touches(Point(x, far), Point(To(i).x, far), n)
             /\ ~Touches(Point(To(i).x, far), To(i), n)
  <2>1. ~Touches(From(i), Point(From(i).x, near), n) /\ ~Touches(Point(To(i).x, far), To(i), n)
    BY <1>1, <1>2, <1>4, <1>5, StubsClear
  <2>2. ~Touches(Point(From(i).x, near), Point(x, near), n) /\ ~Touches(Point(x, far), Point(To(i).x, far), n)
    BY <1>4, <1>5, <1>7, FreeLevel
  <2>3. ~Touches(Point(x, near), Point(x, far), n)
    BY <1>3, <1>7, FreeUpright
  <2> QED BY <2>1, <2>2, <2>3
<1> QED BY <1>6, <1>8, ClearPieces

\* The line planned for an edge, from what its corridors are.
LEMMA PlannedLines ==
  ASSUME NEW i, corridors[i] = CorridorsOf(i)
  PROVE  /\ IsLevel(i) /\ GoesDirect(i) =>
              /\ corridors[i].gutters = <<LastGutter(i)>> /\ corridors[i].bands = <<>>
              /\ Planned(i) = Direct(i, LaneX(i, LastGutter(i)))
         /\ IsLevel(i) /\ ~GoesDirect(i) =>
              /\ corridors[i].gutters = <<FirstGutter(i), LastGutter(i)>>
              /\ corridors[i].bands = <<LongBand(i)>>
              /\ Planned(i) = Through(i, LaneX(i, FirstGutter(i)), LaneX(i, LastGutter(i)),
                                      LaneY(i, LongBand(i)))
         /\ ~IsLevel(i) =>
              /\ corridors[i].gutters = <<>> /\ corridors[i].bands = <<UprightBand(i)>>
              /\ \/ /\ Planned(i) = Upright(i, LaneY(i, UprightBand(i)))
                    /\ Clear(i, Planned(i)) \/ Detours(i) = {}
                 \/ Planned(i) = Detour(i, Max(Detours(i))) /\ Detours(i) # {}
<1>1. CASE IsLevel(i) /\ GoesDirect(i)
  <2>1. corridors[i] = [gutters |-> <<LastGutter(i)>>, bands |-> <<>>]
    BY <1>1 DEF CorridorsOf
  <2> QED BY <1>1, <2>1 DEF Planned
<1>2. CASE IsLevel(i) /\ ~GoesDirect(i)
  <2> DEFINE gutters == <<FirstGutter(i), LastGutter(i)>>
             bands == <<LongBand(i)>>
  <2>1. corridors[i] = [gutters |-> gutters, bands |-> bands]
    BY <1>2 DEF CorridorsOf
  <2>2. /\ Len(gutters) = 2 /\ gutters[1] = FirstGutter(i) /\ gutters[2] = LastGutter(i)
        /\ bands # <<>> /\ bands[1] = LongBand(i)
    OBVIOUS
  <2> HIDE DEF gutters, bands
  <2>3. Planned(i) = Through(i, LaneX(i, FirstGutter(i)), LaneX(i, LastGutter(i)),
                             LaneY(i, LongBand(i)))
    BY <2>1, <2>2 DEF Planned
  <2> QED BY <1>2, <2>1, <2>3 DEF gutters, bands
<1>3. CASE ~IsLevel(i)
  <2> DEFINE gutters == <<>>
             bands == <<UprightBand(i)>>
             line == Upright(i, LaneY(i, UprightBand(i)))
  <2>1. corridors[i] = [gutters |-> gutters, bands |-> bands]
    BY <1>3 DEF CorridorsOf
  <2>2. Len(gutters) # 2 /\ gutters = <<>> /\ bands # <<>> /\ bands[1] = UprightBand(i)
    OBVIOUS
  <2> HIDE DEF gutters, bands
  <2>3. Planned(i) = IF Clear(i, line) \/ Detours(i) = {} THEN line ELSE Detour(i, Max(Detours(i)))
    BY <2>1, <2>2 DEF Planned
  <2>4. gutters = <<>> /\ bands = <<UprightBand(i)>>
    BY DEF gutters, bands
  <2> QED BY <1>3, <2>1, <2>3, <2>4
<1> QED BY <1>1, <1>2, <1>3

\* Every planned line is clear: its legs are inside corridors that no box reaches into, and
\* its stubs beside their own boxes; an upright line that a box stops has its detours.
LEMMA PlannedClear ==
  ASSUME LayoutTypeOK, BoxesApart, PortInv, stage # "wait", NEW i \in Drawn,
         corridors[i] = CorridorsOf(i)
  PROVE  Clear(i, Planned(i))
<1>1. i \in Nat /\ Connected # {} /\ Source(i) \in Connected /\ Target(i) \in Connected
  BY EdgeFacts
<1>2. /\ FirstGutter(i) \in -1..(Columns - 1) /\ LastGutter(i) \in -1..(Columns - 1)
      /\ FirstBand(i) \in Int
  BY NearGutters, NearBands
<1> DEFINE x == LaneX(i, FirstGutter(i))
           z == LaneX(i, LastGutter(i))
           y == LaneY(i, LongBand(i))
<1>3. FreeX(x) /\ BesideX(x, Source(i)) /\ FreeX(z) /\ BesideX(z, Target(i))
  BY <1>1, <1>2, LanesInside, InsideGutter, NearGutters
<1>4. CASE IsLevel(i) /\ GoesDirect(i)
  <2>1. BesideX(z, Source(i))
    BY <1>1, <1>2, <1>4, LanesInside, InsideGutter, NearGutters DEF GoesDirect
  <2> HIDE DEF z
  <2>2. Clear(i, Direct(i, z))
    BY <1>3, <1>4, <2>1, DirectClear
  <2> QED BY <1>4, <2>2, PlannedLines DEF z
<1>5. CASE IsLevel(i) /\ ~GoesDirect(i)
  <2>1. FreeY(y)
    BY <1>1, <1>2, LongBandIsFirst, LanesInside, InsideBand
  <2> HIDE DEF x, y, z
  <2>2. Clear(i, Through(i, x, z, y))
    BY <1>3, <1>5, <2>1, ThroughClear
  <2> QED BY <1>5, <2>2, PlannedLines DEF x, y, z
<1>6. CASE ~IsLevel(i)
  <2>1. \A g \in {GridColumn(Source(i)), GridColumn(Source(i)) - 1} : Clear(i, Detour(i, g))
    BY <1>6, DetourClear
  <2> DEFINE s == GridColumn(Source(i))
  <2>2. Detours(i) = {s, s - 1} /\ s \in Int
    BY <1>1, <2>1, GridFacts DEF Detours
  <2>3. Max(Detours(i)) \in {s, s - 1}
    <3>1. s - 1 \in Int
      BY <2>2
    <3> HIDE DEF s
    <3>2. Max({s, s - 1}) = (IF s <= s - 1 THEN s - 1 ELSE s)
      BY <2>2, <3>1, TwoIntegers
    <3> QED BY <2>2, <3>2
  <2>4. Clear(i, Detour(i, Max(Detours(i))))
    BY <2>1, <2>3
  <2>5. Detours(i) # {}
    BY <2>2
  <2> QED BY <1>6, <2>4, <2>5, PlannedLines
<1> QED BY <1>4, <1>5, <1>6

-----------------------------------------------------------------------------
(* What is drawn stays as it was planned.                                  *)

\* The boxes, the corridors and what touches them depend on the layout alone.
LEMMA SameGrid ==
  ASSUME UNCHANGED <<edges, col>>
  PROVE  /\ Drawn' = Drawn /\ Connected' = Connected
         /\ \A n : /\ Row(n)' = Row(n) /\ GridColumn(n)' = GridColumn(n)
                   /\ Left(n)' = Left(n) /\ Right(n)' = Right(n)
                   /\ Top(n)' = Top(n) /\ Bottom(n)' = Bottom(n)
         /\ \A i : /\ Source(i)' = Source(i) /\ Target(i)' = Target(i)
                   /\ ColumnsAcross(i)' = ColumnsAcross(i) /\ RowsAcross(i)' = RowsAcross(i)
                   /\ IsLevel(i)' <=> IsLevel(i)
         /\ \A g : Gutter(g)' = Gutter(g)
         /\ \A b : Band(b)' = Band(b)
         /\ \A i, line : Clear(i, line)' <=> Clear(i, line)
<1>1. Drawn' = Drawn /\ Connected' = Connected
  BY DEF Drawn, Links, Connected
<1>2. \A n : Row(n)' = Row(n) /\ GridColumn(n)' = GridColumn(n) /\ Left(n)' = Left(n)
  BY DEF Row, GridColumn, Left, Links, Connected
<1>3. \A n : Right(n)' = Right(n) /\ Top(n)' = Top(n) /\ Bottom(n)' = Bottom(n)
  BY <1>2 DEF Right, Top, Bottom
<1>4. \A i : Source(i)' = Source(i) /\ Target(i)' = Target(i)
  BY DEF Source, Target
<1>5. \A i : /\ ColumnsAcross(i)' = ColumnsAcross(i) /\ RowsAcross(i)' = RowsAcross(i)
             /\ IsLevel(i)' <=> IsLevel(i)
  BY <1>2, <1>4 DEF ColumnsAcross, RowsAcross, IsLevel
<1>6. Columns' = Columns /\ Rows' = Rows
  BY DEF Columns, Rows, Row, Links, Connected
<1>7. /\ \A g : LeftOf(g)' = LeftOf(g)
      /\ \A r : BottomOf(r)' = BottomOf(r)
  BY DEF LeftOf, BottomOf, GridColumn, Row, Left, Top, Bottom, Links, Connected
<1>8. \A g : Gutter(g)' = Gutter(g)
  BY <1>6, <1>7 DEF Gutter
<1>9. \A b : Band(b)' = Band(b)
  BY <1>6, <1>7 DEF Band, TopOf
<1>10. \A a, b, n : Touches(a, b, n)' <=> Touches(a, b, n)
  BY <1>2, <1>3 DEF Touches
<1>11. \A i, line : Clear(i, line)' <=> Clear(i, line)
  BY <1>1, <1>4, <1>10 DEF Clear
<1> QED BY <1>1, <1>2, <1>3, <1>4, <1>5, <1>8, <1>9, <1>11

\* So do the planned lines, given the ports and the corridors.
LEMMA SamePlans ==
  ASSUME UNCHANGED <<edges, col, port, corridors>>
  PROVE  \A i : Planned(i)' = Planned(i)
<1>1. \A i : From(i)' = From(i) /\ To(i)' = To(i)
  BY DEF From, To
<1>2. /\ \A g : InGutter(g)' = InGutter(g)
      /\ \A b : InBand(b)' = InBand(b)
  BY SameGrid DEF InGutter, InBand
<1>3. \A i, g : LaneX(i, g)' = LaneX(i, g)
  BY <1>2, SameGrid DEF LaneX
<1>4. \A i, b : LaneY(i, b)' = LaneY(i, b)
  BY <1>2, SameGrid DEF LaneY
<1>5. \A i, g : Detour(i, g)' = Detour(i, g)
  BY <1>1, <1>3, SameGrid DEF Detour, UprightBand
<1>6. \A i : Detours(i)' = Detours(i)
  BY <1>5, SameGrid DEF Detours
<1>7. /\ \A i, x : Direct(i, x)' = Direct(i, x)
      /\ \A i, x, z, y : Through(i, x, z, y)' = Through(i, x, z, y)
      /\ \A i, y : Upright(i, y)' = Upright(i, y)
  BY <1>1 DEF Direct, Through, Upright
<1>8. \A i, g : Direct(i, LaneX(i, g))' = Direct(i, LaneX(i, g))
  BY <1>3, <1>7
<1>9. \A i, g, h, b : Through(i, LaneX(i, g), LaneX(i, h), LaneY(i, b))'
                        = Through(i, LaneX(i, g), LaneX(i, h), LaneY(i, b))
  BY <1>3, <1>4, <1>7
<1>10. \A i, b : Upright(i, LaneY(i, b))' = Upright(i, LaneY(i, b))
  BY <1>4, <1>7
<1>11. \A i : Detour(i, Max(Detours(i)))' = Detour(i, Max(Detours(i)))
  BY <1>5, <1>6
<1> QED BY <1>6, <1>8, <1>9, <1>10, <1>11, SameGrid DEF Planned

\* What is planned and what is drawn, of the layout the ports were placed in.
PlanInv ==
    /\ PortInv
    /\ stage \in {"routes", "drawn"} => corridors = [i \in Drawn |-> CorridorsOf(i)]
    /\ stage = "drawn" => route = [i \in Drawn |-> RouteOf(i)]

\* Corridors and routes depend on the layout and on what was planned before them.
LEMMA SameCorridors ==
  ASSUME UNCHANGED <<edges, col, port>>
  PROVE  \A i : CorridorsOf(i)' = CorridorsOf(i)
<1>1. \A i : From(i)' = From(i) /\ To(i)' = To(i)
  BY DEF From, To
<1>2. \A i, x : Direct(i, x)' = Direct(i, x)
  BY <1>1 DEF Direct
<1>3. \A i : LastGutter(i)' = LastGutter(i) /\ FirstGutter(i)' = FirstGutter(i)
             /\ UprightBand(i)' = UprightBand(i)
  BY SameGrid DEF LastGutter, FirstGutter, UprightBand
<1>4. \A i : Direct(i, Middle(Gutter(LastGutter(i))))' = Direct(i, Middle(Gutter(LastGutter(i))))
  BY <1>1, <1>3, SameGrid DEF Direct, Middle
<1>5. \A i : GoesDirect(i)' <=> GoesDirect(i)
  BY <1>3, <1>4, SameGrid DEF GoesDirect
<1>6. Rows' = Rows
  BY DEF Rows, Row, Links, Connected
<1>7. \A i : LongBand(i)' = LongBand(i)
  <2> TAKE i
  <2> DEFINE step == IF RowsAcross(i) >= 0 THEN 1 ELSE -1
             first == Row(Source(i)) - (IF RowsAcross(i) >= 0 THEN 0 ELSE 1)
             line(k) == LET y == Middle(Band(first + k * step))
                        IN  <<Point(Middle(Gutter(FirstGutter(i))), y),
                              Point(Middle(Gutter(LastGutter(i))), y)>>
  <2>1. step' = step /\ first' = first
    BY SameGrid
  <2>2. \A j : (Middle(Band(j)))' = Middle(Band(j))
    BY SameGrid DEF Middle
  <2>3. /\ Middle(Gutter(FirstGutter(i)))' = Middle(Gutter(FirstGutter(i)))
        /\ Middle(Gutter(LastGutter(i)))' = Middle(Gutter(LastGutter(i)))
    BY <1>3, SameGrid DEF Middle
  <2>4. \A k : line(k)' = line(k)
    BY <2>1, <2>2, <2>3
  <2> HIDE DEF line
  <2>5. \A k : Clear(i, line(k))' <=> Clear(i, line(k))
    BY <2>4, SameGrid
  <2>6. {k \in 0..Rows : Clear(i, line(k))}' = {k \in 0..Rows : Clear(i, line(k))}
    BY <1>6, <2>5
  <2>7. LongBand(i) = first + step * Min({k \in 0..Rows : Clear(i, line(k))} \cup {Rows + 1})
    BY DEF LongBand, line
  <2>8. LongBand(i)' = first' + step' * Min({k \in 0..Rows : Clear(i, line(k))}' \cup {Rows' + 1})
    BY DEF LongBand, line
  <2> DEFINE free == {k \in 0..Rows : Clear(i, line(k))}
  <2>9. free' = free
    BY <2>6
  <2>10. LongBand(i) = first + step * Min(free \cup {Rows + 1})
    BY <2>7
  <2>11. LongBand(i)' = first' + step' * Min(free' \cup {Rows' + 1})
    BY <2>8
  <2> HIDE DEF free, step, first
  <2> QED BY <1>6, <2>1, <2>9, <2>10, <2>11
<1> QED BY <1>3, <1>5, <1>7, SameGrid DEF CorridorsOf

\* And the lines.
LEMMA SameRoutes ==
  ASSUME UNCHANGED <<edges, col, port, corridors>>
  PROVE  \A i : RouteOf(i)' = RouteOf(i)
<1>1. \A i : Fallback(i)' = Fallback(i)
  BY SameGrid DEF Fallback, CentreX, CentreY
<1>2. \A i : Planned(i)' = Planned(i)
  BY SamePlans
<1>3. \A i : Clear(i, Planned(i))' <=> Clear(i, Planned(i))
  BY <1>2, SameGrid
<1> QED BY <1>1, <1>2, <1>3 DEF RouteOf

\* Each stage plans from what the stages before it left, and nothing moves afterwards.
LEMMA PlanStep == PlanInv /\ [Next]_vars => PlanInv'
<1> SUFFICES ASSUME PlanInv, [Next]_vars PROVE PlanInv'
  OBVIOUS
<1>1. PortInv'
  BY PortStep DEF PlanInv
<1>2. ASSUME UNCHANGED <<edges, col, port>> PROVE [i \in Drawn |-> CorridorsOf(i)]' = [i \in Drawn |-> CorridorsOf(i)]
  <2>1. Drawn' = Drawn
    BY <1>2, SameGrid
  <2> QED BY <1>2, <2>1, SameCorridors
<1>3. ASSUME UNCHANGED <<edges, col, port, corridors>> PROVE [i \in Drawn |-> RouteOf(i)]' = [i \in Drawn |-> RouteOf(i)]
  <2>1. Drawn' = Drawn
    BY <1>3, SameGrid
  <2> QED BY <1>3, <2>1, SameRoutes
<1>4. CASE LayoutNext /\ UNCHANGED routeVars
  <2>1. phase # "placed"
    BY <1>4 DEF LayoutNext, Raise, Keep, IsNext, NextPass, PassEnds, Settle, Pull
  <2>2. stage = "wait" /\ stage' = stage
    BY <1>4, <2>1 DEF PlanInv, PortInv, routeVars
  <2> QED BY <1>1, <2>2 DEF PlanInv
<1>5. CASE PlacePorts
  BY <1>1, <1>5 DEF PlacePorts, PlanInv
<1>6. CASE PlanCorridors
  <2>1. UNCHANGED <<edges, col, port>> /\ corridors' = [i \in Drawn |-> CorridorsOf(i)] /\ stage' = "routes"
    BY <1>6 DEF PlanCorridors, layoutVars
  <2> QED BY <1>1, <1>2, <2>1 DEF PlanInv
<1>7. CASE Draw
  <2>1. /\ UNCHANGED <<edges, col, port, corridors>>
        /\ route' = [i \in Drawn |-> RouteOf(i)] /\ stage = "routes" /\ stage' = "drawn"
    BY <1>7 DEF Draw, layoutVars
  <2> QED BY <1>1, <1>2, <1>3, <2>1 DEF PlanInv
<1>8. CASE UNCHANGED vars
  <2>1. UNCHANGED <<edges, col, stage, port, corridors, route>>
    BY <1>8 DEF vars, layoutVars, routeVars
  <2> QED BY <1>1, <1>2, <1>3, <2>1 DEF PlanInv
<1> QED BY <1>4, <1>5, <1>6, <1>7, <1>8 DEF Next

\* So it holds of every behaviour.
LEMMA PlanInvHolds == Spec => []PlanInv
<1>1. RoutesInit => PlanInv
  BY PortInit DEF RoutesInit, PlanInv
<1> QED BY <1>1, PlanStep, PTL DEF Spec

\* What is drawn is what was planned, and clear.
LEMMA DrawnAsPlanned ==
  ASSUME LayoutTypeOK, BoxesApart, PlanInv, stage = "drawn", NEW i \in Drawn
  PROVE  corridors[i] = CorridorsOf(i) /\ route[i] = Planned(i) /\ Clear(i, Planned(i))
<1>1. corridors[i] = CorridorsOf(i) /\ route[i] = RouteOf(i) /\ PortInv
  BY DEF PlanInv
<1>2. Clear(i, Planned(i))
  BY <1>1, PlannedClear
<1> QED BY <1>1, <1>2 DEF RouteOf

\* For any containers and edges, and boxes of any heights that leave sixteen pixels between
\* rows: every line is drawn as planned and clear of every box but its own two; neither a
\* fallback nor a detour that hits a box is ever needed.
THEOREM RoutesClear == BoxesApart => (Spec => []RoutesClearBoxes)
<1> SUFFICES ASSUME BoxesApart PROVE Spec => []RoutesClearBoxes
  OBVIOUS
<1>1. LayoutTypeOK /\ PlanInv => RoutesClearBoxes
  <2> SUFFICES ASSUME LayoutTypeOK, PlanInv, stage = "drawn", NEW i \in Drawn
               PROVE  Clear(i, route[i]) /\ route[i] = Planned(i)
    BY DEF RoutesClearBoxes
  <2> QED BY DrawnAsPlanned
<1> QED BY <1>1, PlanInvHolds, LayoutTypeCorrect, PTL

-----------------------------------------------------------------------------
(* Legs.                                                                   *)

\* The legs of a line of each shape.
LEMMA DirectLegs ==
  ASSUME NEW i, NEW x
  PROVE  /\ UprightLegs(Direct(i, x)) \subseteq {x}
         /\ LevelLegs(Direct(i, x)) \subseteq {From(i).y, To(i).y}
         /\ BandLegs(Direct(i, x)) = {}
<1> DEFINE line == Direct(i, x)
<1>1. /\ Len(line) = 4 /\ line[1] = From(i) /\ line[4] = To(i)
      /\ line[2].x = x /\ line[2].y = From(i).y /\ line[3].x = x /\ line[3].y = To(i).y
  BY DEF Direct, Point
<1> HIDE DEF line
<1>2. \A k \in 2..4 : (k = 2 /\ k - 1 = 1) \/ (k = 3 /\ k - 1 = 2) \/ (k = 4 /\ k - 1 = 3)
  OBVIOUS
<1>3. UprightLegs(line) \subseteq {x}
  BY <1>1, <1>2 DEF UprightLegs
<1>4. LevelLegs(line) \subseteq {From(i).y, To(i).y}
  BY <1>1, <1>2 DEF LevelLegs
<1>5. BandLegs(line) = {}
  <2>1. \A k \in 3..(4 - 1) : k = 3 /\ k - 1 = 2
    OBVIOUS
  <2> QED BY <1>1, <2>1 DEF BandLegs
<1> QED BY <1>3, <1>4, <1>5 DEF line

LEMMA ThroughLegs ==
  ASSUME NEW i, NEW x, NEW z, NEW y
  PROVE  /\ UprightLegs(Through(i, x, z, y)) \subseteq {x, z}
         /\ LevelLegs(Through(i, x, z, y)) \subseteq {From(i).y, y, To(i).y}
         /\ BandLegs(Through(i, x, z, y)) \subseteq {y}
<1> DEFINE line == Through(i, x, z, y)
<1>1. /\ Len(line) = 6 /\ line[1] = From(i) /\ line[6] = To(i)
      /\ line[2].x = x /\ line[2].y = From(i).y /\ line[3].x = x /\ line[3].y = y
      /\ line[4].x = z /\ line[4].y = y /\ line[5].x = z /\ line[5].y = To(i).y
  BY DEF Through, Point
<1> HIDE DEF line
<1>2. \A k \in 2..6 : \/ k = 2 /\ k - 1 = 1
                      \/ k = 3 /\ k - 1 = 2
                      \/ k = 4 /\ k - 1 = 3
                      \/ k = 5 /\ k - 1 = 4
                      \/ k = 6 /\ k - 1 = 5
  OBVIOUS
<1>3. UprightLegs(line) \subseteq {x, z}
  BY <1>1, <1>2 DEF UprightLegs
<1>4. LevelLegs(line) \subseteq {From(i).y, y, To(i).y}
  BY <1>1, <1>2 DEF LevelLegs
<1>5. BandLegs(line) \subseteq {y}
  <2>1. \A k \in 3..(6 - 1) : (k = 3 /\ k - 1 = 2) \/ (k = 4 /\ k - 1 = 3) \/ (k = 5 /\ k - 1 = 4)
    OBVIOUS
  <2> QED BY <1>1, <2>1 DEF BandLegs
<1> QED BY <1>3, <1>4, <1>5 DEF line

LEMMA UprightLineLegs ==
  ASSUME NEW i, NEW y
  PROVE  /\ UprightLegs(Upright(i, y)) \subseteq {From(i).x, To(i).x}
         /\ LevelLegs(Upright(i, y)) \subseteq {y}
         /\ BandLegs(Upright(i, y)) \subseteq {y}
<1> DEFINE line == Upright(i, y)
<1>1. /\ Len(line) = 4 /\ line[1] = From(i) /\ line[4] = To(i)
      /\ line[2].x = From(i).x /\ line[2].y = y /\ line[3].x = To(i).x /\ line[3].y = y
  BY DEF Upright, Point
<1> HIDE DEF line
<1>2. \A k \in 2..4 : (k = 2 /\ k - 1 = 1) \/ (k = 3 /\ k - 1 = 2) \/ (k = 4 /\ k - 1 = 3)
  OBVIOUS
<1>3. UprightLegs(line) \subseteq {From(i).x, To(i).x}
  BY <1>1, <1>2 DEF UprightLegs
<1>4. LevelLegs(line) \subseteq {y}
  BY <1>1, <1>2 DEF LevelLegs
<1>5. BandLegs(line) \subseteq {y}
  <2>1. \A k \in 3..(4 - 1) : k = 3 /\ k - 1 = 2
    OBVIOUS
  <2> QED BY <1>1, <2>1 DEF BandLegs
<1> QED BY <1>3, <1>4, <1>5 DEF line

\* The lanes edge i has among others, and the places at the boxes.
GutterLane(i, x) ==
    \E g \in -1..(Columns - 1) : x = LaneX(i, g) /\ i \in InGutter(g) /\ HasRoom(Gutter(g), InGutter(g))
BandLane(i, y) ==
    \E b \in -1..(Rows - 1) : y = LaneY(i, b) /\ i \in InBand(b) /\ HasRoom(Band(b), InBand(b))
BoxX(x) == \E m \in Connected : x \in Int /\ Left(m) <= x /\ x <= Right(m)
BoxY(y) == \E m \in Connected : y \in Int /\ Top(m) <= y /\ y <= Bottom(m)

\* Where the legs of a line that is no detour are: in lanes, or at the boxes.
LEMMA LegPlaces ==
  ASSUME LayoutTypeOK, BoxesApart, PlanInv, stage = "drawn",
         NEW i \in Drawn, HasWay(i), ~IsDetour(i)
  PROVE  /\ IsLevel(i) => \A x \in UprightLegs(route[i]) : GutterLane(i, x)
         /\ ~IsLevel(i) => \A x \in UprightLegs(route[i]) : BoxX(x)
         /\ \A y \in BandLegs(route[i]) : BandLane(i, y)
         /\ \A y \in LevelLegs(route[i]) : BandLane(i, y) \/ BoxY(y)
<1>1. corridors[i] = CorridorsOf(i) /\ route[i] = Planned(i) /\ PortInv
  BY DrawnAsPlanned DEF PlanInv
<1>2. Source(i) \in Connected /\ Target(i) \in Connected
  BY EdgeFacts
<1>3. /\ FirstGutter(i) \in -1..(Columns - 1) /\ LastGutter(i) \in -1..(Columns - 1)
      /\ LongBand(i) \in -1..(Rows - 1) /\ UprightBand(i) \in -1..(Rows - 1)
  BY NearGutters, NearBands, LongBandIsFirst
<1>4. \A m \in Connected : Left(m) \in Int /\ Right(m) \in Int /\ Left(m) <= Right(m)
                           /\ Top(m) \in Int /\ Bottom(m) \in Int /\ Top(m) <= Bottom(m)
  BY BoxFacts
<1>5. ASSUME NEW m \in Connected, NEW p
      PROVE  (OnSide(p, m) => BoxY(p.y)) /\ (OnEnd(p, m) => BoxX(p.x))
  BY <1>4 DEF OnSide, OnEnd, BoxX, BoxY, Point
<1>6. ASSUME NEW g \in -1..(Columns - 1), NEW k \in DOMAIN corridors[i].gutters, corridors[i].gutters[k] = g
      PROVE  GutterLane(i, LaneX(i, g))
  BY <1>6 DEF GutterLane, InGutter, HasWay
<1>7. ASSUME NEW b \in -1..(Rows - 1), NEW k \in DOMAIN corridors[i].bands, corridors[i].bands[k] = b
      PROVE  BandLane(i, LaneY(i, b))
  BY <1>7 DEF BandLane, InBand, HasWay
<1>8. CASE IsLevel(i) /\ GoesDirect(i)
  <2>1. corridors[i].gutters = <<LastGutter(i)>> /\ route[i] = Direct(i, LaneX(i, LastGutter(i)))
    BY <1>1, <1>8, PlannedLines
  <2>2. 1 \in DOMAIN corridors[i].gutters /\ corridors[i].gutters[1] = LastGutter(i)
    BY <2>1
  <2>3. GutterLane(i, LaneX(i, LastGutter(i)))
    BY <1>3, <1>6, <2>2
  <2>4. BoxY(From(i).y) /\ BoxY(To(i).y)
    BY <1>1, <1>2, <1>5, <1>8, EdgePorts
  <2> QED BY <1>8, <2>1, <2>3, <2>4, DirectLegs
<1>9. CASE IsLevel(i) /\ ~GoesDirect(i)
  <2>1. /\ corridors[i].gutters = <<FirstGutter(i), LastGutter(i)>>
        /\ corridors[i].bands = <<LongBand(i)>>
        /\ route[i] = Through(i, LaneX(i, FirstGutter(i)), LaneX(i, LastGutter(i)), LaneY(i, LongBand(i)))
    BY <1>1, <1>9, PlannedLines
  <2>2. /\ {1, 2} \subseteq DOMAIN corridors[i].gutters /\ 1 \in DOMAIN corridors[i].bands
        /\ corridors[i].gutters[1] = FirstGutter(i) /\ corridors[i].gutters[2] = LastGutter(i)
        /\ corridors[i].bands[1] = LongBand(i)
    BY <2>1
  <2>3. /\ GutterLane(i, LaneX(i, FirstGutter(i))) /\ GutterLane(i, LaneX(i, LastGutter(i)))
        /\ BandLane(i, LaneY(i, LongBand(i)))
    BY <1>3, <1>6, <1>7, <2>2
  <2>4. BoxY(From(i).y) /\ BoxY(To(i).y)
    BY <1>1, <1>2, <1>5, <1>9, EdgePorts
  <2> QED BY <1>9, <2>1, <2>3, <2>4, ThroughLegs
<1>10. CASE ~IsLevel(i)
  <2>1. \A g : Len(Detour(i, g)) = 6
    BY DEF Detour
  <2>2. /\ corridors[i].bands = <<UprightBand(i)>>
        /\ route[i] = Upright(i, LaneY(i, UprightBand(i)))
    <3>1. /\ corridors[i].bands = <<UprightBand(i)>>
          /\ \/ route[i] = Upright(i, LaneY(i, UprightBand(i)))
             \/ route[i] = Detour(i, Max(Detours(i)))
      BY <1>1, <1>10, PlannedLines
    <3> QED BY <1>10, <2>1, <3>1 DEF IsDetour
  <2>3. 1 \in DOMAIN corridors[i].bands /\ corridors[i].bands[1] = UprightBand(i)
    BY <2>2
  <2>4. BandLane(i, LaneY(i, UprightBand(i)))
    BY <1>3, <1>7, <2>3
  <2>5. BoxX(From(i).x) /\ BoxX(To(i).x)
    BY <1>1, <1>2, <1>5, <1>10, EdgePorts
  <2> QED BY <1>10, <2>2, <2>4, <2>5, UprightLineLegs
<1> QED BY <1>8, <1>9, <1>10

\* The lanes of two lines differ, in one gutter or in two; no box is at their place.
LEMMA GutterLanesDiffer ==
  ASSUME LayoutTypeOK, BoxesApart, Connected # {}, NEW i, NEW x, GutterLane(i, x)
  PROVE  ~BoxX(x) /\ \A j : i # j => ~GutterLane(j, x)
<1>1. PICK g \in -1..(Columns - 1) : x = LaneX(i, g) /\ i \in InGutter(g) /\ HasRoom(Gutter(g), InGutter(g))
  BY DEF GutterLane
<1>2. \A h : InGutter(h) \in SUBSET Nat /\ IsFiniteSet(InGutter(h))
  <2>1. \A h : InGutter(h) \subseteq Drawn
    BY DEF InGutter
  <2> QED BY <2>1, DrawnFinite, FS_Subset
<1>3. Pad \in Nat /\ Pad > 0 /\ Pad = 8 * Px /\ 18 * Px \in Nat /\ 18 * Px >= 8 * Px
  BY LengthsAssumption DEF Pad
<1>4. ASSUME BoxX(x) PROVE FALSE
  <2>1. FreeX(x)
    BY <1>1, <1>2, LanesInside, InsideGutter
  <2>2. PICK m \in Connected : Left(m) <= x /\ x <= Right(m)
    BY <1>4 DEF BoxX
  <2> QED BY <1>3, <2>1, <2>2, BoxFacts DEF FreeX
<1>5. ASSUME NEW j, i # j, GutterLane(j, x) PROVE FALSE
  <2>1. PICK h \in -1..(Columns - 1) : x = LaneX(j, h) /\ j \in InGutter(h)
    BY <1>5 DEF GutterLane
  <2>2. i \in Nat /\ j \in Nat /\ Columns \in Nat
    BY <1>1, <1>2, <2>1, GridFacts
  <2>3. /\ Inside(x, Gutter(g)) /\ Inside(x, Gutter(h))
        /\ Gutter(g) \in [lo : Int, hi : Int] /\ Gutter(h) \in [lo : Int, hi : Int]
    BY <1>1, <2>1, <2>2, LanesInside, GutterBoxes
  <2>4. CASE g = h
    <3>1. \A a, b \in InGutter(g) : a < b => LaneX(a, g) < LaneX(b, g)
      BY <1>1, <1>2, <1>3, <2>3, LanesApart DEF LaneX, HasRoom
    <3>2. (i < j \/ j < i) /\ x \in Int
      BY <1>5, <2>2, <2>3 DEF Inside
    <3>3. i \in InGutter(g) /\ j \in InGutter(g) /\ LaneX(i, g) = x /\ LaneX(j, g) = x
      BY <1>1, <2>1, <2>4
    <3>4. LaneX(i, g) < LaneX(j, g) \/ LaneX(j, g) < LaneX(i, g)
      BY <3>1, <3>2, <3>3
    <3> QED BY <3>2, <3>3, <3>4
  <2>5. ASSUME NEW p \in -1..(Columns - 1), NEW q \in -1..(Columns - 1), p < q,
               Inside(x, Gutter(p)), Inside(x, Gutter(q))
        PROVE  FALSE
    <3>1. Gutter(p).hi <= Gutter(q).lo /\ Gutter(p).hi \in Int /\ Gutter(q).lo \in Int
      BY <2>5, GutterFacts
    <3> QED BY <1>3, <2>5, <3>1 DEF Inside
  <2> QED BY <2>2, <2>3, <2>4, <2>5
<1> QED BY <1>4, <1>5

\* The same of bands.
LEMMA BandLanesDiffer ==
  ASSUME LayoutTypeOK, BoxesApart, Connected # {}, NEW i, NEW y, BandLane(i, y)
  PROVE  ~BoxY(y) /\ \A j : i # j => ~BandLane(j, y)
<1>1. PICK b \in -1..(Rows - 1) : y = LaneY(i, b) /\ i \in InBand(b) /\ HasRoom(Band(b), InBand(b))
  BY DEF BandLane
<1>2. \A c : InBand(c) \in SUBSET Nat /\ IsFiniteSet(InBand(c))
  <2>1. \A c : InBand(c) \subseteq Drawn
    BY DEF InBand
  <2> QED BY <2>1, DrawnFinite, FS_Subset
<1>3. Pad \in Nat /\ Pad > 0 /\ Pad = 8 * Px /\ 16 * Px \in Nat /\ 16 * Px >= 8 * Px
  BY LengthsAssumption DEF Pad
<1>4. ASSUME BoxY(y) PROVE FALSE
  <2>1. FreeY(y)
    BY <1>1, <1>2, LanesInside, InsideBand
  <2>2. PICK m \in Connected : Top(m) <= y /\ y <= Bottom(m)
    BY <1>4 DEF BoxY
  <2> QED BY <1>3, <2>1, <2>2, BoxFacts DEF FreeY
<1>5. ASSUME NEW j, i # j, BandLane(j, y) PROVE FALSE
  <2>1. PICK c \in -1..(Rows - 1) : y = LaneY(j, c) /\ j \in InBand(c)
    BY <1>5 DEF BandLane
  <2>2. i \in Nat /\ j \in Nat /\ Rows \in Nat
    BY <1>1, <1>2, <2>1, RowsFacts
  <2>3. /\ Inside(y, Band(b)) /\ Inside(y, Band(c))
        /\ Band(b) \in [lo : Int, hi : Int] /\ Band(c) \in [lo : Int, hi : Int]
    <3>1. b \in Int /\ c \in Int
      BY <2>2
    <3>2. Inside(y, Band(b)) /\ Inside(y, Band(c))
      BY <1>1, <2>1, <2>2, <3>1, LanesInside
    <3> QED BY <3>1, <3>2, BandFacts
  <2>4. CASE b = c
    <3>1. \A p, q \in InBand(b) : p < q => LaneY(p, b) < LaneY(q, b)
      BY <1>1, <1>2, <1>3, <2>3, LanesApart DEF LaneY, HasRoom
    <3>2. (i < j \/ j < i) /\ y \in Int
      BY <1>5, <2>2, <2>3 DEF Inside
    <3>3. i \in InBand(b) /\ j \in InBand(b) /\ LaneY(i, b) = y /\ LaneY(j, b) = y
      BY <1>1, <2>1, <2>4
    <3>4. LaneY(i, b) < LaneY(j, b) \/ LaneY(j, b) < LaneY(i, b)
      BY <3>1, <3>2, <3>3
    <3> QED BY <3>2, <3>3, <3>4
  <2>5. ASSUME NEW p \in -1..(Rows - 1), NEW q \in -1..(Rows - 1), p < q,
               Inside(y, Band(p)), Inside(y, Band(q))
        PROVE  FALSE
    <3>1. q \in 0..(Rows - 1) /\ p \in Int /\ q \in Int
      BY <2>2, <2>5
    <3>2. Band(p).hi <= Band(q).lo /\ Band(p).hi \in Int /\ Band(q).lo \in Int
      BY <2>5, <3>1, BandFacts
    <3> QED BY <1>3, <2>5, <3>2 DEF Inside
  <2> QED BY <2>2, <2>3, <2>4, <2>5
<1> QED BY <1>4, <1>5

\* For any containers and edges, and boxes of any heights that leave sixteen pixels between
\* rows: two lines whose corridors have room for what runs in them have no leg in one place,
\* where one of them is in a gutter or a band.
THEOREM LegsApart == BoxesApart => (Spec => []LegsKeepApart)
<1> SUFFICES ASSUME BoxesApart PROVE Spec => []LegsKeepApart
  OBVIOUS
<1>1. LayoutTypeOK /\ PlanInv => LegsKeepApart
  <2> SUFFICES ASSUME LayoutTypeOK, PlanInv, stage = "drawn",
                      NEW i \in Drawn, HasWay(i), ~IsDetour(i),
                      NEW j \in Drawn, HasWay(j), ~IsDetour(j), i # j
               PROVE  /\ IsLevel(i) => UprightLegs(route[i]) \cap UprightLegs(route[j]) = {}
                      /\ BandLegs(route[i]) \cap LevelLegs(route[j]) = {}
    BY DEF LegsKeepApart
  <2>1. Connected # {}
    BY EdgeFacts
  <2>2. ASSUME IsLevel(i), NEW x \in UprightLegs(route[i]), x \in UprightLegs(route[j]) PROVE FALSE
    <3>1. GutterLane(i, x)
      BY <2>2, LegPlaces
    <3>2. GutterLane(j, x) \/ BoxX(x)
      BY <2>2, LegPlaces
    <3> QED BY <2>1, <3>1, <3>2, GutterLanesDiffer
  <2>3. ASSUME NEW y \in BandLegs(route[i]), y \in LevelLegs(route[j]) PROVE FALSE
    <3>1. BandLane(i, y)
      BY LegPlaces
    <3>2. BandLane(j, y) \/ BoxY(y)
      BY <2>3, LegPlaces
    <3> QED BY <2>1, <3>1, <3>2, BandLanesDiffer
  <2> QED BY <2>2, <2>3
<1> QED BY <1>1, PlanInvHolds, LayoutTypeCorrect, PTL
=============================================================================
