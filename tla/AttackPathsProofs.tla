-------------------------- MODULE AttackPathsProofs --------------------------
(***************************************************************************)
(* Type correctness of the attack-path analysis; that the search of a pair *)
(* collects exactly its attack paths, each once; that a run which          *)
(* truncates no pair reports every path; and that what the findings leave  *)
(* out is behind what they name: for any graph, any pairs and any limits.  *)
(***************************************************************************)
EXTENDS AttackPaths, FiniteSetTheorems, TLAPS

\* The trail is a walk from the attacker that has not met the jewel; visited holds its
\* edges; each call tries edges of the node it is at, not the one taken to go deeper.
TrailInv ==
    pc = "search" =>
        /\ turn <= Len(Pairs)
        /\ Len(stack) = Len(trail) + 1
        /\ visited = OnPath(trail)
        /\ IsWalk(trail, turn)
        /\ \A i \in 1..Len(trail) : To(trail[i]) # Jewel(turn)
        /\ \A i \in 1..Len(stack) :
              stack[i] \subseteq Tries(IF i = 1 THEN Attacker(turn) ELSE To(trail[i - 1]),
                                       maxHop - i + 1)
        /\ \A i \in 1..Len(trail) : trail[i] \notin stack[i]

\* t leaves the trail at call i by an edge still to be tried.
LeavesAt(t, i) ==
    /\ i <= Len(t) /\ t[i] \in stack[i]
    /\ \A j \in 1..(i - 1) : t[j] = trail[j]
IsAhead(t) == \E i \in 1..Len(stack) : LeavesAt(t, i)

\* What is collected is an attack path, collected once and not to be met again; what
\* is not collected yet is ahead.
CollectInv ==
    pc = "search" =>
        /\ \A n \in 1..Len(collector) :
              IsAttackPath(collector[n], turn) /\ ~IsAhead(collector[n])
        /\ \A m, n \in 1..Len(collector) : collector[m] = collector[n] => m = n
        /\ \A t \in Seq(Edges) : IsAttackPath(t, turn) => t \in Found \/ IsAhead(t)

SearchInv == TypeOK /\ TrailInv /\ IsFiniteSet(paths)
IInv == SearchInv /\ CollectInv

\* The paths of the pairs up to m.
PathsUpTo(m) == UNION {AttackPathsOf(k) : k \in 1..m}

\* Unless a pair was counted as truncated, the paths are those of the pairs done; the
\* findings account for the paths.
KeptInv ==
    /\ truncated = 0 => paths = PathsUpTo(turn - 1)
    /\ pc = "done" => turn = Len(Pairs) + 1 /\ suppressed = Cardinality(paths \ risks)

-----------------------------------------------------------------------------
(* Type correctness.                                                       *)

\* The paths found are sequences of edges, and finitely many.
LEMMA FoundType == TypeOK => Found \subseteq Seq(Edges) /\ IsFiniteSet(Found)
<1> SUFFICES ASSUME TypeOK PROVE Found \subseteq Seq(Edges) /\ IsFiniteSet(Found)
  OBVIOUS
<1>1. Len(collector) \in Nat /\ \A i \in 1..Len(collector) : collector[i] \in Seq(Edges)
  BY DEF TypeOK
<1>2. Found \subseteq Seq(Edges)
  BY <1>1 DEF Found
<1>3. IsFiniteSet(1..Len(collector))
  BY <1>1, FS_Interval
<1>4. IsFiniteSet(Found)
  <2> DEFINE f == [i \in 1..Len(collector) |-> collector[i]]
  <2>1. Found = {f[i] : i \in 1..Len(collector)}
    BY DEF Found
  <2>2. f \in Surjection(1..Len(collector), Found)
    BY <2>1 DEF Surjection
  <2>3. QED
    BY <2>2, <1>3, FS_Surjection
<1>5. QED
  BY <1>2, <1>4

\* What a call tries are edges of its node, while hops are left.
LEMMA TriesType == ASSUME NEW n, NEW left PROVE Tries(n, left) \subseteq Edges
BY DEF Tries

\* While the search runs the calls are one more than the edges taken, so there is
\* always a call to go on with.
LEMMA CallsRun ==
    ASSUME TypeOK, TrailInv, pc = "search"
    PROVE  /\ Len(trail) \in Nat /\ Len(stack) = Len(trail) + 1 /\ Len(stack) \in 1..(maxHop + 1)
           /\ Todo \subseteq Edges /\ maxHop \in Nat
           /\ stack \in Seq(SUBSET Edges) /\ trail \in Seq(Edges)
BY LimitsAssumption DEF TypeOK, TrailInv, Todo

\* A call that tries an edge has hops left.
LEMMA HopsLeft ==
    ASSUME TypeOK, TrailInv, NEW e \in Edges, IsNext(e)
    PROVE  Len(stack) <= maxHop /\ From(e) = IF Len(stack) = 1 THEN Attacker(turn) ELSE To(Last(trail))
<1>1. pc = "search" /\ e \in stack[Len(stack)]
  BY DEF IsNext, Todo
<1>2. Len(stack) \in 1..(maxHop + 1) /\ Len(stack) = Len(trail) + 1 /\ maxHop \in Nat
  BY <1>1, CallsRun
<1>3. e \in Tries(IF Len(stack) = 1 THEN Attacker(turn) ELSE To(trail[Len(stack) - 1]),
                  maxHop - Len(stack) + 1)
  BY <1>1, <1>2 DEF TrailInv
<1>4. QED
  BY <1>2, <1>3 DEF Tries, Last

\* The stack once the edge e of its last call has been taken up.
LEMMA WithoutType ==
    ASSUME TypeOK, TrailInv, pc = "search", NEW e \in Edges
    PROVE  /\ Without(e) \in Seq(SUBSET Edges) /\ Len(Without(e)) = Len(stack)
           /\ \A i \in 1..Len(stack) :
                 Without(e)[i] = IF i = Len(stack) THEN Todo \ {e} ELSE stack[i]
<1>1. stack \in Seq(SUBSET Edges) /\ Len(stack) \in 1..(maxHop + 1) /\ Todo \subseteq Edges
  BY CallsRun
<1>2. QED
  BY <1>1 DEF Without, Todo

\* A state of the search with the stack st and the trail tr.
LEMMA TrailIntro ==
    ASSUME UNCHANGED <<graph, maxHop, turn>>, turn <= Len(Pairs),
           Len(stack') = Len(trail') + 1,
           visited' = OnPath(trail'), IsWalk(trail', turn),
           \A i \in 1..Len(trail') : To(trail'[i]) # Jewel(turn) /\ trail'[i] \notin stack'[i],
           \A i \in 1..Len(stack') :
              stack'[i] \subseteq Tries(IF i = 1 THEN Attacker(turn) ELSE To(trail'[i - 1]),
                                         maxHop - i + 1)
    PROVE  TrailInv'
BY DEF TrailInv, IsWalk, OnPath, Tries, From, To, Attacker, Jewel

\* The analysis begins well-typed, with no path.
LEMMA TypeInit == Init => SearchInv
<1> SUFFICES ASSUME Init PROVE SearchInv
  OBVIOUS
<1>1. TypeOK
  <2>1. graph \in [Edges -> EdgeRecord] /\ maxHop \in HopLimits /\ maxHop \in Nat
    BY GraphAssumption, LimitsAssumption DEF Init
  <2>2. turn \in 1..(Len(Pairs) + 1)
    BY PairsAssumption DEF Init
  <2>3. stack = <<>> /\ trail = <<>> /\ collector = <<>> /\ visited = {} /\ pc = "pair"
        /\ paths = {} /\ truncated = 0 /\ risks = {} /\ suppressed = 0 /\ gaps = {}
    BY DEF Init
  <2>4. QED
    BY <2>1, <2>2, <2>3 DEF TypeOK
<1>2. QED
  BY <1>1, FS_EmptySet DEF Init, SearchInv, TrailInv

\* Dropping an edge from those that the last call has still to try.
LEMMA DropStep ==
    ASSUME SearchInv, pc = "search", NEW e \in Edges, stack' = Without(e),
           collector' \in Seq(Seq(Edges)),
           UNCHANGED <<graph, maxHop, pc, turn, trail, visited, paths, truncated,
                       risks, suppressed, gaps>>
    PROVE  SearchInv'
<1> USE DEF SearchInv
<1>1. Without(e) \in Seq(SUBSET Edges) /\ Len(Without(e)) = Len(stack)
      /\ \A i \in 1..Len(stack) : Without(e)[i] \subseteq stack[i]
  BY WithoutType DEF Todo
<1>2. Len(stack) \in 1..(maxHop + 1) /\ Len(stack) = Len(trail) + 1 /\ Len(trail) \in Nat
  BY CallsRun
<1>3. TypeOK'
  BY <1>1, <1>2 DEF TypeOK
<1>4. \A i \in 1..Len(trail') : To(trail'[i]) # Jewel(turn) /\ trail'[i] \notin stack'[i]
  BY <1>1, <1>2 DEF TrailInv
<1>5. \A i \in 1..Len(stack') :
         stack'[i] \subseteq Tries(IF i = 1 THEN Attacker(turn) ELSE To(trail'[i - 1]), maxHop - i + 1)
  BY <1>1 DEF TrailInv
<1>6. turn <= Len(Pairs) /\ visited' = OnPath(trail') /\ IsWalk(trail', turn) /\ Len(stack') = Len(trail') + 1
  BY <1>1, <1>2 DEF TrailInv
<1>7. TrailInv'
  BY <1>4, <1>5, <1>6, TrailIntro
<1>8. QED
  BY <1>3, <1>7

\* The trail with the edge to be taken is a walk too.
LEMMA WalkGrows ==
    ASSUME TypeOK, TrailInv, NEW e \in Edges, IsNext(e), ~Skipped(e)
    PROVE  IsWalk(Append(trail, e), turn)
<1> DEFINE n == Len(stack)
           q == Append(trail, e)
<1>1. pc = "search"
  BY DEF IsNext
<1>2. n = Len(trail) + 1 /\ trail \in Seq(Edges) /\ Len(trail) \in Nat
  BY <1>1, CallsRun
<1>3. IsWalk(trail, turn) /\ visited = OnPath(trail)
  BY <1>1 DEF TrailInv
<1>4. From(e) = IF n = 1 THEN Attacker(turn) ELSE To(trail[n - 1])
  BY <1>2, HopsLeft DEF Last
<1>5. From(e) # To(e) /\ \A i \in 1..Len(trail) : trail[i] # e
  BY <1>3 DEF Skipped, OnPath
<1>6. Len(q) = n /\ q[n] = e /\ \A i \in 1..Len(trail) : q[i] = trail[i]
  BY <1>2
<1>7. \A i \in 1..n : i = n \/ i \in 1..Len(trail)
  BY <1>2
<1> HIDE DEF q
<1>8. \A i \in 1..n : From(q[i]) = IF i = 1 THEN Attacker(turn) ELSE To(q[i - 1])
  <2> SUFFICES ASSUME NEW i \in 1..n PROVE From(q[i]) = IF i = 1 THEN Attacker(turn) ELSE To(q[i - 1])
    OBVIOUS
  <2>1. i # 1 => q[i - 1] = trail[i - 1]
    BY <1>2, <1>6
  <2>2. CASE i = n
    BY <1>4, <1>6, <2>1, <2>2
  <2>3. CASE i # n
    <3>1. i \in 1..Len(trail) /\ q[i] = trail[i]
      BY <1>6, <1>7, <2>3
    <3>2. QED
      BY <1>3, <2>1, <3>1 DEF IsWalk
  <2>4. QED
    BY <2>2, <2>3
<1>9. \A i \in 1..n : From(q[i]) # To(q[i])
  BY <1>3, <1>5, <1>6, <1>7 DEF IsWalk
<1>10. \A i, j \in 1..n : q[i] = q[j] => i = j
  BY <1>3, <1>5, <1>6, <1>7 DEF IsWalk
<1>11. IsWalk(q, turn)
  BY <1>6, <1>8, <1>9, <1>10 DEF IsWalk
<1>12. QED
  BY <1>11 DEF q

\* Every step of the analysis keeps the state well-typed and the trail a walk.
LEMMA SearchStep == SearchInv /\ [Next]_vars => SearchInv'
<1> SUFFICES ASSUME SearchInv, [Next]_vars PROVE SearchInv'
  OBVIOUS
<1> USE DEF SearchInv
<1>1. CASE Begin
  <2>1. stack' = <<Tries(Attacker(turn), maxHop)>> /\ trail' = <<>> /\ pc' = "search"
        /\ visited' = {} /\ collector' = <<>> /\ turn <= Len(Pairs)
    BY <1>1 DEF Begin
  <2>2. Tries(Attacker(turn), maxHop) \subseteq Edges
    BY TriesType
  <2>3. stack' \in Seq(SUBSET Edges) /\ Len(stack') = 1 /\ trail' \in Seq(Edges) /\ Len(trail') = 0
    BY <2>1, <2>2
  <2>4. TypeOK'
    BY <1>1, <2>1, <2>3, LimitsAssumption DEF Begin, TypeOK, findings
  <2>5. TrailInv'
    <3>1. stack'[1] = Tries(Attacker(turn), maxHop)'
      BY <1>1 DEF Begin, Tries, From, Attacker
    <3>2. (maxHop - 1 + 1 = maxHop)'
      BY <1>1, LimitsAssumption DEF TypeOK, Begin
    <3>3. QED
      BY <1>1, <2>1, <2>3, <3>1, <3>2 DEF Begin, TrailInv, OnPath, IsWalk, Attacker
  <2>6. QED
    BY <1>1, <2>4, <2>5 DEF Begin
<1>2. ASSUME NEW e \in Edges, Skip(e) PROVE SearchInv'
  <2>1. collector' \in Seq(Seq(Edges))
    BY <1>2 DEF Skip, TypeOK
  <2>2. QED
    BY <1>2, <2>1, DropStep DEF Skip, IsNext, findings
<1>3. ASSUME NEW e \in Edges, Arrive(e) PROVE SearchInv'
  <2>1. collector' \in Seq(Seq(Edges))
    <3>1. Append(trail, e) \in Seq(Edges)
      BY DEF TypeOK
    <3>2. QED
      BY <1>3, <3>1 DEF Arrive, TypeOK
  <2>2. QED
    BY <1>3, <2>1, DropStep DEF Arrive, IsNext, findings
<1>4. ASSUME NEW e \in Edges, Descend(e) PROVE SearchInv'
  <2> DEFINE T == Tries(To(e), maxHop - Len(trail) - 1)
             W == Without(e)
             n == Len(stack)
  <2>1. pc = "search" /\ IsNext(e) /\ ~Skipped(e) /\ To(e) # Jewel(turn)
        /\ stack' = Append(W, T) /\ trail' = Append(trail, e) /\ visited' = visited \cup {e}
        /\ UNCHANGED <<graph, maxHop, pc, turn, collector, paths, truncated, risks, suppressed, gaps>>
    BY <1>4 DEF Descend, IsNext, findings
  <2>2. n \in 1..maxHop /\ n = Len(trail) + 1 /\ trail \in Seq(Edges) /\ maxHop \in Nat /\ n \in Nat
        /\ Len(trail) \in Nat
    BY <2>1, CallsRun, HopsLeft
  <2>3. T \subseteq Edges
    BY TriesType
  <2>4. W \in Seq(SUBSET Edges) /\ Len(W) = n
        /\ \A i \in 1..n : W[i] = IF i = n THEN Todo \ {e} ELSE stack[i]
    BY <2>1, WithoutType
  <2> HIDE DEF T, W
  <2>5. stack' \in Seq(SUBSET Edges) /\ Len(stack') = n + 1
        /\ \A i \in 1..(n + 1) : stack'[i] = IF i = n + 1 THEN T
                                             ELSE IF i = n THEN Todo \ {e} ELSE stack[i]
    <3>1. T \in SUBSET Edges
      BY <2>3
    <3>2. stack' = Append(W, T)
      BY <2>1
    <3>3. stack' \in Seq(SUBSET Edges) /\ Len(stack') = n + 1
      BY <2>4, <3>1, <3>2
    <3>4. \A i \in 1..(n + 1) : stack'[i] = IF i = n + 1 THEN T ELSE W[i]
      BY <2>2, <2>4, <3>1, <3>2
    <3>5. QED
      BY <2>2, <2>4, <3>3, <3>4
  <2>6. trail' \in Seq(Edges) /\ Len(trail') = n
        /\ \A i \in 1..n : trail'[i] = IF i = n THEN e ELSE trail[i]
    BY <2>1, <2>2
  <2>7. TypeOK'
    BY <2>1, <2>2, <2>5, <2>6 DEF TypeOK
  <2>8. IsWalk(trail', turn)
    BY <2>1, WalkGrows
  <2>9. visited' = OnPath(trail')
    <3>1. visited = OnPath(trail)
      BY <2>1 DEF TrailInv
    <3>2. QED
      BY <2>1, <2>2, <2>6, <3>1 DEF OnPath
  <2>10. \A i \in 1..Len(trail') : To(trail'[i]) # Jewel(turn) /\ trail'[i] \notin stack'[i]
    BY <2>1, <2>2, <2>5, <2>6 DEF TrailInv
  <2>11. \A i \in 1..Len(stack') :
            stack'[i] \subseteq Tries(IF i = 1 THEN Attacker(turn) ELSE To(trail'[i - 1]), maxHop - i + 1)
    <3> SUFFICES ASSUME NEW i \in 1..(n + 1)
                 PROVE  stack'[i] \subseteq Tries(IF i = 1 THEN Attacker(turn) ELSE To(trail'[i - 1]),
                                                 maxHop - i + 1)
      BY <2>5
    <3>1. CASE i = n + 1
      <4>1. maxHop - i + 1 = maxHop - Len(trail) - 1 /\ trail'[i - 1] = e /\ i # 1
        BY <2>2, <2>6, <3>1
      <4>2. QED
        BY <2>5, <3>1, <4>1 DEF T
    <3>2. CASE i # n + 1
      <4>1. stack'[i] \subseteq stack[i] /\ (i # 1 => trail'[i - 1] = trail[i - 1]) /\ i \in 1..n
        BY <2>2, <2>5, <2>6, <3>2 DEF Todo
      <4>2. QED
        BY <2>1, <4>1 DEF TrailInv
    <3>3. QED
      BY <3>1, <3>2
  <2>12. TrailInv'
    BY <2>1, <2>5, <2>6, <2>8, <2>9, <2>10, <2>11, TrailIntro DEF TrailInv
  <2>13. QED
    BY <2>1, <2>7, <2>12
<1>5. CASE Return
  <2> DEFINE n == Len(stack)
  <2>1. pc = "search" /\ n > 1 /\ stack' = Front(stack) /\ trail' = Front(trail)
        /\ visited' = visited \ {Last(trail)}
        /\ UNCHANGED <<graph, maxHop, pc, turn, collector, paths, truncated, risks, suppressed, gaps>>
    BY <1>5 DEF Return, findings
  <2>2. n \in 2..(maxHop + 1) /\ n = Len(trail) + 1 /\ trail \in Seq(Edges) /\ maxHop \in Nat
        /\ stack \in Seq(SUBSET Edges) /\ Len(trail) \in Nat
    BY <2>1, CallsRun
  <2>3. stack' \in Seq(SUBSET Edges) /\ Len(stack') = n - 1 /\ \A i \in 1..(n - 1) : stack'[i] = stack[i]
    BY <2>1, <2>2 DEF Front
  <2>4. trail' \in Seq(Edges) /\ Len(trail') = n - 2 /\ \A i \in 1..(n - 2) : trail'[i] = trail[i]
    <3>1. trail' = SubSeq(trail, 1, n - 2)
      BY <2>1, <2>2 DEF Front
    <3>2. n - 2 \in Nat /\ n - 2 <= Len(trail)
      BY <2>2
    <3>3. trail' = [i \in 1..(n - 2) |-> trail[i]]
      BY <2>2, <3>1, <3>2
    <3>4. \A i \in 1..(n - 2) : trail[i] \in Edges
      BY <2>2, <3>2
    <3>5. QED
      BY <3>2, <3>3, <3>4
  <2>5. TypeOK'
    BY <2>1, <2>2, <2>3, <2>4 DEF TypeOK
  <2>6. IsWalk(trail, turn) /\ visited = OnPath(trail)
    BY <2>1 DEF TrailInv
  <2>7. IsWalk(trail', turn)
    <3>1. \A i \in 1..(n - 2) : i \in 1..Len(trail) /\ trail'[i] = trail[i]
      BY <2>2, <2>4
    <3>2. \A i \in 1..(n - 2) : From(trail'[i]) = IF i = 1 THEN Attacker(turn) ELSE To(trail'[i - 1])
      <4> SUFFICES ASSUME NEW i \in 1..(n - 2)
                   PROVE  From(trail'[i]) = IF i = 1 THEN Attacker(turn) ELSE To(trail'[i - 1])
        OBVIOUS
      <4>1. i # 1 => trail'[i - 1] = trail[i - 1]
        BY <2>2, <3>1
      <4>2. QED
        BY <2>6, <3>1, <4>1 DEF IsWalk
    <3>3. QED
      BY <2>4, <2>6, <3>1, <3>2 DEF IsWalk
  <2>8. visited' = OnPath(trail')
    <3>1. \A i \in 1..(n - 2) : trail[i] # trail[n - 1]
      BY <2>2, <2>6 DEF IsWalk
    <3>2. OnPath(trail') = {trail[i] : i \in 1..(n - 2)} /\ visited = {trail[i] : i \in 1..(n - 1)}
      BY <2>2, <2>4, <2>6 DEF OnPath
    <3>3. QED
      BY <2>1, <2>2, <3>1, <3>2 DEF Last
  <2>9. \A i \in 1..Len(trail') : To(trail'[i]) # Jewel(turn) /\ trail'[i] \notin stack'[i]
    BY <2>1, <2>2, <2>3, <2>4 DEF TrailInv
  <2>10. \A i \in 1..Len(stack') :
            stack'[i] \subseteq Tries(IF i = 1 THEN Attacker(turn) ELSE To(trail'[i - 1]), maxHop - i + 1)
    <3> SUFFICES ASSUME NEW i \in 1..(n - 1)
                 PROVE  stack[i] \subseteq Tries(IF i = 1 THEN Attacker(turn) ELSE To(trail'[i - 1]),
                                                maxHop - i + 1)
      BY <2>3
    <3>1. i # 1 => trail'[i - 1] = trail[i - 1]
      BY <2>2, <2>4
    <3>2. QED
      BY <2>1, <2>2, <3>1 DEF TrailInv
  <2>11. TrailInv'
    <3>1. turn <= Len(Pairs)
      BY <2>1 DEF TrailInv
    <3>2. Len(stack') = Len(trail') + 1
      BY <2>2, <2>3, <2>4
    <3>3. QED
      BY <2>1, <2>7, <2>8, <2>9, <2>10, <3>1, <3>2, TrailIntro
  <2>12. QED
    BY <2>1, <2>5, <2>11
<1>6. CASE Rank
  <2>1. PICK kept \in FirstOf(Found, MaxPaths) :
          /\ paths' = paths \cup kept
          /\ truncated' = truncated + (IF Cardinality(kept) = MaxPaths THEN 1 ELSE 0)
    BY <1>6 DEF Rank
  <2>2. kept \subseteq Found
    BY DEF FirstOf
  <2>3. paths' \subseteq Seq(Edges) /\ IsFiniteSet(paths')
    <3>1. IsFiniteSet(kept)
      BY <2>2, FoundType, FS_Subset
    <3>2. IsFiniteSet(paths \cup kept)
      BY <3>1, FS_Union
    <3>3. QED
      BY <2>1, <2>2, <3>2, FoundType DEF TypeOK
  <2>4. truncated' \in Nat
    BY <2>1 DEF TypeOK
  <2>5. turn' \in 1..(Len(Pairs) + 1)
    BY <1>6, PairsAssumption DEF Rank, TypeOK, TrailInv
  <2>6. pc' = "pair" /\ stack' = <<>> /\ trail' = <<>> /\ visited' = {} /\ collector' = <<>>
        /\ UNCHANGED <<graph, maxHop, risks, suppressed, gaps>> /\ paths \subseteq paths'
    BY <1>6, <2>1 DEF Rank, findings
  <2>7. TypeOK'
    BY <2>3, <2>4, <2>5, <2>6, LimitsAssumption DEF TypeOK
  <2>8. QED
    BY <2>3, <2>6, <2>7 DEF TrailInv
<1>7. CASE Emit
  <2>1. PICK named \in SUBSET {p \in paths : RiskEligible(p)} :
          risks' = named /\ suppressed' = Cardinality(paths \ named)
    BY <1>7 DEF Emit
  <2>2. suppressed' \in Nat
    BY <2>1, FS_Subset, FS_CardinalityType
  <2>3. gaps' \subseteq Edges
    BY <1>7 DEF Emit, Undefended, Bottlenecks
  <2>4. pc' = "done" /\ UNCHANGED <<graph, maxHop, turn, stack, trail, visited, collector, paths, truncated>>
    BY <1>7 DEF Emit, search
  <2>5. QED
    BY <2>1, <2>2, <2>3, <2>4 DEF TypeOK, TrailInv
<1>8. CASE UNCHANGED vars
  <2>1. TypeOK' /\ IsFiniteSet(paths')
    BY <1>8 DEF vars, search, findings, TypeOK
  <2>2. UNCHANGED <<graph, maxHop, pc, turn, stack, trail, visited>>
    BY <1>8 DEF vars, search
  <2>3. TrailInv'
    BY <2>2 DEF TrailInv, IsWalk, OnPath, Tries, From, To, Attacker, Jewel
  <2>4. QED
    BY <2>1, <2>3
<1>9. QED
  BY <1>1, <1>2, <1>3, <1>4, <1>5, <1>6, <1>7, <1>8 DEF Next, Finished

\* The state is well-typed throughout, for any graph.
THEOREM TypeCorrect == Spec => []TypeOK
<1>1. SearchInv => TypeOK
  BY DEF SearchInv
<1>2. QED
  BY TypeInit, SearchStep, <1>1, PTL DEF Spec

-----------------------------------------------------------------------------
(* The search collects the attack paths.                                   *)

\* Whether a sequence is an attack path depends on the input only.
LEMMA SamePaths ==
    ASSUME UNCHANGED <<graph, maxHop, turn>>, NEW t
    PROVE  IsAttackPath(t, turn)' <=> IsAttackPath(t, turn)
BY DEF IsAttackPath, IsWalk, From, To, Attacker, Jewel

\* A step that collects nothing and leaves the same attack paths ahead.
LEMMA CollectIntro ==
    ASSUME CollectInv, pc = "search", UNCHANGED <<graph, maxHop, turn, collector>>,
           TypeOK, \A t \in Seq(Edges) : IsAttackPath(t, turn) => (IsAhead(t)' <=> IsAhead(t))
    PROVE  CollectInv'
<1>1. \A t : IsAttackPath(t, turn)' <=> IsAttackPath(t, turn)
  BY SamePaths
<1>2. \A n \in 1..Len(collector) : collector[n] \in Seq(Edges)
  BY DEF TypeOK
<1>3. Found' = Found
  BY DEF Found
<1>4. \A n \in 1..Len(collector') :
         IsAttackPath(collector[n], turn)' /\ ~IsAhead(collector[n])'
  BY <1>1, <1>2 DEF CollectInv
<1>5. \A t \in Seq(Edges) : IsAttackPath(t, turn)' => t \in Found' \/ IsAhead(t)'
  BY <1>1, <1>3 DEF CollectInv
<1>6. \A m, n \in 1..Len(collector') : collector'[m] = collector'[n] => m = n
  BY DEF CollectInv
<1>7. QED
  BY <1>4, <1>5, <1>6 DEF CollectInv, IsAhead, LeavesAt

\* Once the next edge is dropped, an attack path is ahead that was before, unless it
\* leaves the trail by this edge.
LEMMA AheadWithout ==
    ASSUME SearchInv, NEW e \in Edges, IsNext(e), NEW t, NEW i \in 1..Len(stack),
           NEW st, st = Without(e)
    PROVE  (i <= Len(t) /\ t[i] \in st[i] /\ \A j \in 1..(i - 1) : t[j] = trail[j])
              <=> LeavesAt(t, i) /\ ~(i = Len(stack) /\ t[i] = e)
BY WithoutType DEF SearchInv, LeavesAt, IsNext, Todo

\* An attack path leaves the trail at most once.
LEMMA LeavesOnce ==
    ASSUME SearchInv, pc = "search", NEW t, NEW i \in 1..Len(stack), NEW j \in 1..Len(stack),
           LeavesAt(t, i), LeavesAt(t, j)
    PROVE  i = j
<1>1. Len(stack) = Len(trail) + 1 /\ Len(trail) \in Nat
  BY CallsRun DEF SearchInv
<1>2. ASSUME NEW a \in 1..Len(stack), NEW b \in 1..Len(stack), a < b, LeavesAt(t, a), LeavesAt(t, b)
      PROVE  FALSE
  <2>1. t[a] = trail[a] /\ a \in 1..Len(trail)
    BY <1>1, <1>2 DEF LeavesAt
  <2>2. QED
    BY <1>2, <2>1 DEF LeavesAt, SearchInv, TrailInv
<1>3. QED
  BY <1>1, <1>2

\* Before the first search nothing is claimed of it.
LEMMA CollectInit == Init => CollectInv
BY DEF Init, CollectInv

\* No step loses an attack path that is ahead, or meets one twice.
LEMMA CollectStep == IInv /\ [Next]_vars => CollectInv'
<1> SUFFICES ASSUME IInv, [Next]_vars PROVE CollectInv'
  OBVIOUS
<1> USE DEF IInv
<1> DEFINE n == Len(stack)
<1>1. CASE Begin
  <2>1. stack' = <<Tries(Attacker(turn), maxHop)>> /\ trail' = <<>> /\ collector' = <<>>
        /\ UNCHANGED <<graph, maxHop, turn>> /\ maxHop \in Nat
    BY <1>1, LimitsAssumption DEF Begin, SearchInv, TypeOK
  <2>2. ASSUME NEW t \in Seq(Edges), IsAttackPath(t, turn)
        PROVE  IsAhead(t)'
    <3>1. Len(t) \in Nat /\ 1 <= Len(t) /\ Len(t) <= maxHop /\ t[1] \in Edges
      BY <2>2 DEF IsAttackPath
    <3>2. From(t[1]) = Attacker(turn)
      BY <2>2, <3>1 DEF IsAttackPath, IsWalk
    <3>3. t[1] \in Tries(Attacker(turn), maxHop)
      BY <2>1, <3>1, <3>2 DEF Tries
    <3>4. stack'[1] = Tries(Attacker(turn), maxHop) /\ Len(stack') = 1
      BY <2>1
    <3>5. LeavesAt(t, 1)'
      BY <3>1, <3>3, <3>4 DEF LeavesAt
    <3>6. QED
      BY <3>4, <3>5 DEF IsAhead
  <2>3. \A t \in Seq(Edges) : IsAttackPath(t, turn)' => IsAhead(t)'
    BY <2>1, <2>2, SamePaths
  <2>4. QED
    BY <2>1, <2>3 DEF CollectInv
<1>2. ASSUME NEW e \in Edges, Skip(e) PROVE CollectInv'
  <2>1. pc = "search" /\ IsNext(e) /\ Skipped(e) /\ stack' = Without(e)
        /\ UNCHANGED <<graph, maxHop, turn, trail, collector>>
    BY <1>2 DEF Skip, IsNext
  <2>2. n \in Nat /\ n = Len(trail) + 1 /\ Len(stack') = n /\ Len(trail) \in Nat
    <3>1. n = Len(trail) + 1 /\ Len(trail) \in Nat
      BY <2>1, CallsRun DEF SearchInv
    <3>2. Len(Without(e)) = n
      BY <2>1, WithoutType DEF SearchInv
    <3>3. QED
      BY <2>1, <3>1, <3>2
  <2>3. ASSUME NEW t \in Seq(Edges), IsAttackPath(t, turn), LeavesAt(t, n), t[n] = e
        PROVE  FALSE
    <3>1. n \in 1..Len(t) /\ Len(t) \in Nat /\ IsWalk(t, turn)
      BY <2>2, <2>3 DEF LeavesAt, IsAttackPath
    <3>2. e \in OnPath(trail)
      BY <2>1, <2>3, <3>1 DEF Skipped, IsWalk, SearchInv, TrailInv
    <3>3. PICK m \in 1..Len(trail) : trail[m] = e
      BY <3>2 DEF OnPath
    <3>4. t[m] = e /\ m \in 1..Len(t) /\ m # n
      BY <2>2, <2>3, <3>1, <3>3 DEF LeavesAt
    <3>5. QED
      BY <2>3, <3>1, <3>4 DEF IsWalk
  <2>4. ASSUME NEW t \in Seq(Edges), IsAttackPath(t, turn)
        PROVE  IsAhead(t)' <=> IsAhead(t)
    <3>1. \A i \in 1..n : LeavesAt(t, i)' <=> LeavesAt(t, i)
      BY <2>1, <2>3, <2>4, AheadWithout DEF LeavesAt
    <3>2. QED
      BY <2>2, <3>1 DEF IsAhead
  <2>5. QED
    BY <2>1, <2>4, CollectIntro DEF SearchInv
<1>3. ASSUME NEW e \in Edges, Arrive(e) PROVE CollectInv'
  <2>1. pc = "search" /\ IsNext(e) /\ ~Skipped(e) /\ To(e) = Jewel(turn) /\ stack' = Without(e)
        /\ collector' = Append(collector, Append(trail, e)) /\ UNCHANGED <<graph, maxHop, turn, trail>>
    BY <1>3 DEF Arrive, IsNext
  <2>2. n = Len(trail) + 1 /\ Len(trail) \in Nat /\ trail \in Seq(Edges) /\ n <= maxHop
        /\ From(e) = IF n = 1 THEN Attacker(turn) ELSE To(trail[n - 1])
    <3>1. n = Len(trail) + 1 /\ Len(trail) \in Nat /\ trail \in Seq(Edges)
      BY <2>1, CallsRun DEF SearchInv
    <3>2. QED
      BY <2>1, <3>1, HopsLeft DEF SearchInv, Last
  <2>3. Len(stack') = n
    <3>1. Len(Without(e)) = n
      BY <2>1, WithoutType DEF SearchInv
    <3>2. QED
      BY <2>1, <3>1
  <2>4. PICK q \in Seq(Edges) :
            q = Append(trail, e) /\ Len(q) = n /\ q[n] = e /\ \A i \in 1..Len(trail) : q[i] = trail[i]
    <3>1. Append(trail, e) \in Seq(Edges) /\ Len(Append(trail, e)) = n /\ Append(trail, e)[n] = e
      BY <2>2
    <3>2. \A i \in 1..Len(trail) : Append(trail, e)[i] = trail[i]
      BY <2>2
    <3>3. QED
      BY <3>1, <3>2
  <2>5. IsAttackPath(q, turn)
    <3>1. IsWalk(trail, turn) /\ \A i \in 1..Len(trail) : To(trail[i]) # Jewel(turn)
      BY <2>1 DEF SearchInv, TrailInv
    <3>2. IsWalk(q, turn)
      BY <2>1, <2>4, WalkGrows DEF SearchInv
    <3>3. \A i \in 1..n : To(q[i]) = Jewel(turn) <=> i = n
      <4>1. \A i \in 1..n : i = n \/ i \in 1..Len(trail)
        BY <2>2
      <4>2. \A i \in 1..Len(trail) : i # n
        BY <2>2
      <4>3. QED
        BY <2>1, <2>4, <3>1, <4>1, <4>2
    <3>4. QED
      BY <2>2, <2>4, <3>2, <3>3 DEF IsAttackPath
  <2>6. LeavesAt(q, n)
    BY <2>1, <2>2, <2>4 DEF LeavesAt, IsNext, Todo
  <2>7. \A t : \A i \in 1..n : LeavesAt(t, i)' <=> LeavesAt(t, i) /\ ~(i = n /\ t[i] = e)
    BY <2>1, AheadWithout DEF LeavesAt
  <2>8. IsAhead(q) /\ ~IsAhead(q)'
    <3>1. IsAhead(q)
      BY <2>2, <2>6 DEF IsAhead
    <3>2. \A i \in 1..n : ~LeavesAt(q, i)'
      <4> SUFFICES ASSUME NEW i \in 1..n, LeavesAt(q, i)' PROVE FALSE
        OBVIOUS
      <4>1. LeavesAt(q, i) /\ ~(i = n /\ q[i] = e) /\ n \in 1..n
        BY <2>2, <2>7
      <4>2. i = n
        BY <2>1, <2>6, <4>1, LeavesOnce
      <4>3. QED
        BY <2>4, <4>1, <4>2
    <3>3. QED
      BY <2>3, <3>1, <3>2 DEF IsAhead
  <2>9. \A t : IsAhead(t)' => IsAhead(t)
    BY <2>3, <2>7 DEF IsAhead
  <2>10. Len(collector') = Len(collector) + 1 /\ Len(collector) \in Nat
         /\ \A m \in 1..Len(collector') : collector'[m] = IF m = Len(collector) + 1 THEN q ELSE collector[m]
    <3>1. collector \in Seq(Seq(Edges))
      BY DEF SearchInv, TypeOK
    <3>2. QED
      BY <2>1, <2>4, <3>1
  <2>11. \A m \in 1..Len(collector) :
            IsAttackPath(collector[m], turn) /\ ~IsAhead(collector[m]) /\ collector[m] # q
    BY <2>1, <2>8 DEF CollectInv
  <2>12. \A t : IsAttackPath(t, turn)' <=> IsAttackPath(t, turn)
    BY <2>1, SamePaths
  <2>13. \A l, m \in 1..Len(collector') : collector'[l] = collector'[m] => l = m
    BY <2>1, <2>10, <2>11 DEF CollectInv
  <2>14. ASSUME NEW t \in Seq(Edges), IsAttackPath(t, turn)
         PROVE  t \in Found' \/ IsAhead(t)'
    <3>1. CASE t \in Found
      BY <2>10, <3>1 DEF Found
    <3>2. CASE \E i \in 1..n : LeavesAt(t, i) /\ ~(i = n /\ t[i] = e)
      BY <2>3, <2>7, <3>2 DEF IsAhead
    <3>3. CASE LeavesAt(t, n) /\ t[n] = e
      <4>1. n = Len(t)
        BY <2>1, <2>2, <2>14, <3>3 DEF LeavesAt, IsAttackPath
      <4>2. \A i \in 1..n : t[i] = q[i]
        BY <2>2, <2>4, <3>3 DEF LeavesAt
      <4>3. t = q
        BY <2>4, <4>1, <4>2
      <4>4. QED
        BY <2>10, <4>3 DEF Found
    <3>4. QED
      BY <2>1, <2>14, <3>1, <3>2, <3>3 DEF CollectInv, IsAhead
  <2>15. ASSUME NEW m \in 1..Len(collector'), NEW t, t = collector'[m]
         PROVE  IsAttackPath(t, turn)' /\ ~IsAhead(t)'
    <3>1. CASE m = Len(collector) + 1
      BY <2>5, <2>8, <2>10, <2>12, <2>15, <3>1
    <3>2. CASE m # Len(collector) + 1
      <4>1. m \in 1..Len(collector) /\ t = collector[m]
        BY <2>10, <2>15, <3>2
      <4>2. QED
        BY <2>9, <2>11, <2>12, <4>1
    <3>3. QED
      BY <3>1, <3>2
  <2>16. \A m \in 1..Len(collector') : (IsAttackPath(collector[m], turn) /\ ~IsAhead(collector[m]))'
    BY <2>15 DEF IsAhead, LeavesAt, IsAttackPath, IsWalk
  <2>17. \A t \in Seq(Edges) : IsAttackPath(t, turn)' => t \in Found' \/ IsAhead(t)'
    BY <2>12, <2>14
  <2>18. QED
    BY <2>13, <2>16, <2>17 DEF CollectInv
<1>4. ASSUME NEW e \in Edges, Descend(e) PROVE CollectInv'
  <2>1. PICK k \in Nat : k = Len(stack) /\ k = Len(trail) + 1
    <3>1. pc = "search"
      BY <1>4 DEF Descend, IsNext
    <3>2. QED
      BY <3>1, CallsRun DEF SearchInv
  <2>2. PICK T \in SUBSET Edges : T = Tries(To(e), maxHop - Len(trail) - 1)
    BY TriesType
  <2>3. pc = "search" /\ IsNext(e) /\ To(e) # Jewel(turn) /\ stack' = Append(Without(e), T)
        /\ trail' = Append(trail, e) /\ UNCHANGED <<graph, maxHop, turn, collector>>
    BY <1>4, <2>2 DEF Descend, IsNext
  <2>4. trail \in Seq(Edges) /\ Len(trail) \in Nat /\ maxHop \in Nat
    BY <2>3, CallsRun DEF SearchInv
  <2>5. PICK W \in Seq(SUBSET Edges) : W = Without(e) /\ Len(W) = k
    BY <2>1, <2>3, WithoutType DEF SearchInv
  <2>6. Len(stack') = k + 1 /\ stack'[k + 1] = T /\ \A i \in 1..k : stack'[i] = W[i]
    BY <2>1, <2>2, <2>3, <2>5
  <2>7. trail'[k] = e /\ \A i \in 1..(k - 1) : trail'[i] = trail[i]
    BY <2>1, <2>3, <2>4
  <2>8. \A t : \A i \in 1..k : LeavesAt(t, i)' <=> LeavesAt(t, i) /\ ~(i = k /\ t[i] = e)
    <3> SUFFICES ASSUME NEW t, NEW i \in 1..k
                 PROVE  LeavesAt(t, i)' <=> LeavesAt(t, i) /\ ~(i = k /\ t[i] = e)
      OBVIOUS
    <3>1. \A j \in 1..(i - 1) : trail'[j] = trail[j]
      BY <2>1, <2>7
    <3>2. (i <= Len(t) /\ t[i] \in W[i] /\ \A j \in 1..(i - 1) : t[j] = trail[j])
            <=> LeavesAt(t, i) /\ ~(i = k /\ t[i] = e)
      BY <2>1, <2>3, <2>5, AheadWithout
    <3>3. QED
      BY <2>6, <3>1, <3>2 DEF LeavesAt
  <2>9. e \in stack[k]
    BY <2>1, <2>3 DEF IsNext, Todo
  <2>10. ASSUME NEW t \in Seq(Edges), IsAttackPath(t, turn)
         PROVE  IsAhead(t)' <=> IsAhead(t)
    <3>1. ASSUME LeavesAt(t, k + 1)' PROVE IsAhead(t)
      <4>1. k + 1 <= Len(t) /\ \A j \in 1..k : t[j] = trail'[j]
        BY <2>1, <3>1 DEF LeavesAt
      <4>2. k <= Len(t) /\ t[k] = e /\ \A j \in 1..(k - 1) : t[j] = trail[j]
        BY <2>1, <2>4, <2>7, <2>10, <4>1
      <4>3. LeavesAt(t, k)
        BY <2>9, <4>2 DEF LeavesAt
      <4>4. QED
        BY <2>1, <2>4, <4>3 DEF IsAhead
    <3>2. ASSUME LeavesAt(t, k), t[k] = e PROVE LeavesAt(t, k + 1)'
      <4>1. k + 1 <= Len(t) /\ Len(t) <= maxHop /\ Len(t) \in Nat
        BY <2>1, <2>3, <2>4, <2>10, <3>2 DEF LeavesAt, IsAttackPath
      <4>2. t[k + 1] \in Edges /\ From(t[k + 1]) = To(e)
        BY <2>1, <2>10, <3>2, <4>1 DEF IsAttackPath, IsWalk
      <4>3. t[k + 1] \in T
        BY <2>1, <2>2, <2>4, <4>1, <4>2 DEF Tries
      <4>4. \A j \in 1..k : t[j] = trail'[j]
        BY <2>1, <2>7, <3>2 DEF LeavesAt
      <4>5. \A j \in 1..(k + 1 - 1) : t[j] = trail'[j]
        BY <2>1, <4>4
      <4>6. QED
        BY <2>6, <4>1, <4>3, <4>5 DEF LeavesAt
    <3>3. \A i \in 1..(k + 1) : i = k + 1 \/ i \in 1..k
      BY <2>1
    <3>4. IsAhead(t)' => IsAhead(t)
      <4> SUFFICES ASSUME NEW i \in 1..(k + 1), LeavesAt(t, i)' PROVE IsAhead(t)
        BY <2>6 DEF IsAhead
      <4>1. CASE i = k + 1
        BY <3>1, <4>1
      <4>2. CASE i \in 1..k
        BY <2>1, <2>8, <4>2 DEF IsAhead
      <4>3. QED
        BY <3>3, <4>1, <4>2
    <3>5. IsAhead(t) => IsAhead(t)'
      <4> SUFFICES ASSUME NEW i \in 1..k, LeavesAt(t, i) PROVE IsAhead(t)'
        BY <2>1 DEF IsAhead
      <4>1. i \in 1..(k + 1) /\ k + 1 \in 1..(k + 1)
        BY <2>1
      <4>2. LeavesAt(t, i)' \/ LeavesAt(t, k + 1)'
        BY <2>8, <3>2
      <4>3. QED
        BY <2>6, <4>1, <4>2 DEF IsAhead
    <3>6. QED
      BY <3>4, <3>5
  <2>11. QED
    BY <2>3, <2>10, CollectIntro DEF SearchInv
<1>5. CASE Return
  <2>1. pc = "search" /\ Todo = {} /\ n > 1 /\ stack' = Front(stack) /\ trail' = Front(trail)
        /\ UNCHANGED <<graph, maxHop, turn, collector>>
    BY <1>5 DEF Return
  <2>2. n = Len(trail) + 1 /\ Len(trail) \in Nat /\ stack \in Seq(SUBSET Edges) /\ trail \in Seq(Edges)
    BY <2>1, CallsRun DEF SearchInv
  <2>3. Len(stack') = n - 1 /\ \A i \in 1..(n - 1) : stack'[i] = stack[i]
    BY <2>1, <2>2 DEF Front
  <2>4. \A i \in 1..(n - 2) : trail'[i] = trail[i]
    BY <2>1, <2>2 DEF Front
  <2>5. ASSUME NEW t \in Seq(Edges)
        PROVE  IsAhead(t)' <=> IsAhead(t)
    <3>1. ~LeavesAt(t, n)
      BY <2>1 DEF LeavesAt, Todo
    <3>2. \A i \in 1..(n - 1) : LeavesAt(t, i)' <=> LeavesAt(t, i)
      <4> SUFFICES ASSUME NEW i \in 1..(n - 1) PROVE LeavesAt(t, i)' <=> LeavesAt(t, i)
        OBVIOUS
      <4>1. \A j \in 1..(i - 1) : trail'[j] = trail[j]
        BY <2>2, <2>4
      <4>2. QED
        BY <2>3, <4>1 DEF LeavesAt
    <3>3. \A i \in 1..n : i = n \/ i \in 1..(n - 1)
      BY <2>2
    <3>4. QED
      BY <2>2, <2>3, <3>1, <3>2, <3>3 DEF IsAhead
  <2>6. QED
    BY <2>1, <2>5, CollectIntro DEF SearchInv
<1>6. CASE Rank
  BY <1>6 DEF Rank, CollectInv
<1>7. CASE Emit
  BY <1>7 DEF Emit, CollectInv
<1>8. CASE UNCHANGED vars
  <2>1. UNCHANGED <<graph, maxHop, pc, turn, stack, trail, collector>>
    BY <1>8 DEF vars, search
  <2>2. \A t : IsAhead(t)' <=> IsAhead(t)
    BY <2>1 DEF IsAhead, LeavesAt
  <2>3. CASE pc = "search"
    BY <2>1, <2>2, <2>3, CollectIntro DEF SearchInv
  <2>4. CASE pc # "search"
    BY <2>1, <2>4 DEF CollectInv
  <2>5. QED
    BY <2>3, <2>4
<1>9. QED
  BY <1>1, <1>2, <1>3, <1>4, <1>5, <1>6, <1>7, <1>8 DEF Next, Finished

\* At the end of the search of a pair nothing is ahead.
LEMMA CollectedAll == IInv => EveryPathIsCollected
<1> SUFFICES ASSUME IInv, pc = "search", Len(stack) = 1, Todo = {}
             PROVE  Found = AttackPathsOf(turn) /\ Len(collector) = Cardinality(Found)
  BY DEF EveryPathIsCollected
<1> USE DEF IInv, SearchInv
<1>1. \A t : ~IsAhead(t)
  BY DEF IsAhead, LeavesAt, Todo
<1>2. maxHop \in Nat /\ Len(collector) \in Nat /\ Found \subseteq Seq(Edges)
  BY LimitsAssumption, FoundType DEF TypeOK
<1>3. \A t : t \in AttackPathsOf(turn) <=> t \in Seq(Edges) /\ IsAttackPath(t, turn)
  <2>1. ASSUME NEW t \in AttackPathsOf(turn) PROVE t \in Seq(Edges) /\ IsAttackPath(t, turn)
    <3>1. PICK m \in 1..maxHop : t \in [1..m -> Edges] /\ IsAttackPath(t, turn)
      BY <2>1 DEF AttackPathsOf
    <3>2. QED
      BY <1>2, <3>1
  <2>2. ASSUME NEW t \in Seq(Edges), IsAttackPath(t, turn) PROVE t \in AttackPathsOf(turn)
    <3>1. Len(t) \in 1..maxHop /\ t \in [1..Len(t) -> Edges]
      BY <1>2, <2>2 DEF IsAttackPath
    <3>2. QED
      BY <2>2, <3>1 DEF AttackPathsOf
  <2>3. QED
    BY <2>1, <2>2
<1>4. \A t \in Found : IsAttackPath(t, turn)
  BY DEF CollectInv, Found
<1>5. Found = AttackPathsOf(turn)
  BY <1>1, <1>2, <1>3, <1>4 DEF CollectInv
<1>6. Len(collector) = Cardinality(Found)
  <2> DEFINE f == [i \in 1..Len(collector) |-> collector[i]]
  <2>1. f \in Bijection(1..Len(collector), Found)
    <3>1. \A i, j \in 1..Len(collector) : f[i] = f[j] => i = j
      BY DEF CollectInv
    <3>2. f \in [1..Len(collector) -> Found] /\ \A t \in Found : \E i \in 1..Len(collector) : f[i] = t
      BY DEF Found
    <3> HIDE DEF f
    <3>3. f \in Injection(1..Len(collector), Found)
      BY <3>1, <3>2 DEF Injection, IsInjective
    <3>4. f \in Surjection(1..Len(collector), Found)
      BY <3>2 DEF Surjection
    <3>5. QED
      BY <3>3, <3>4 DEF Bijection
  <2>2. ExistsBijection(1..Len(collector), Found)
    BY <2>1 DEF ExistsBijection
  <2>3. QED
    BY <1>2, <2>2, FS_CountingElements
<1>7. QED
  BY <1>5, <1>6

\* The search invariant holds throughout.
LEMMA IInvHolds == Spec => []IInv
<1>1. Init => IInv
  BY TypeInit, CollectInit DEF IInv
<1>2. IInv /\ [Next]_vars => IInv'
  BY SearchStep, CollectStep DEF IInv
<1>3. QED
  BY <1>1, <1>2, PTL DEF Spec

\* The search of every pair collects exactly its attack paths, each once
\* (enumerate.py:60-142), whatever the graph, the pair and max_hop.
THEOREM SearchIsExact == Spec => []EveryPathIsCollected
BY IInvHolds, CollectedAll, PTL

-----------------------------------------------------------------------------
(* Nothing is missing.                                                     *)

\* One pair more adds its attack paths.
LEMMA PathsUpToNext ==
    ASSUME NEW m \in Nat \ {0} PROVE PathsUpTo(m) = PathsUpTo(m - 1) \cup AttackPathsOf(m)
<1>1. \A l, t : t \in PathsUpTo(l) <=> \E k \in 1..l : t \in AttackPathsOf(k)
  BY DEF PathsUpTo
<1>2. \A k : k \in 1..m <=> k \in 1..(m - 1) \/ k = m
  OBVIOUS
<1>3. \A t : t \in PathsUpTo(m) <=> t \in PathsUpTo(m - 1) \/ t \in AttackPathsOf(m)
  BY <1>1, <1>2
<1>4. QED
  BY <1>3

\* The attack paths depend on the graph and max_hop only.
LEMMA SamePathsUpTo == ASSUME UNCHANGED <<graph, maxHop>>, NEW m PROVE PathsUpTo(m)' = PathsUpTo(m)
BY DEF PathsUpTo, AttackPathsOf, IsAttackPath, IsWalk, From, To, Attacker, Jewel

\* A pair that is not counted as truncated keeps all it found.
LEMMA KeptStep == IInv /\ KeptInv /\ [Next]_vars => KeptInv'
<1> SUFFICES ASSUME IInv, KeptInv, [Next]_vars PROVE KeptInv'
  OBVIOUS
<1> USE DEF IInv, SearchInv
<1>0. UNCHANGED <<graph, maxHop>> => \A m : PathsUpTo(m)' = PathsUpTo(m)
  BY SamePathsUpTo
<1>1. CASE UNCHANGED <<graph, maxHop, turn, paths, truncated>> /\ pc' # "done"
  <2>1. PICK m : m = turn - 1
    OBVIOUS
  <2>2. turn' - 1 = m /\ PathsUpTo(m)' = PathsUpTo(m)
    BY <1>0, <1>1, <2>1
  <2>3. QED
    BY <1>1, <2>1, <2>2 DEF KeptInv, PathsUpTo
<1>2. CASE Rank
  <2>1. PICK kept \in FirstOf(Found, MaxPaths) :
          /\ paths' = paths \cup kept
          /\ truncated' = truncated + (IF Cardinality(kept) = MaxPaths THEN 1 ELSE 0)
    BY <1>2 DEF Rank
  <2>2. pc' = "pair" /\ turn' = turn + 1 /\ UNCHANGED <<graph, maxHop>>
    BY <1>2 DEF Rank
  <2>3. ASSUME truncated' = 0
        PROVE  paths' = PathsUpTo(turn)
    <3>1. truncated = 0 /\ Cardinality(kept) # MaxPaths
      BY <2>1, <2>3 DEF TypeOK
    <3>2. kept \subseteq Found /\ IsFiniteSet(Found) /\ Cardinality(kept) = Cardinality(Found)
      BY <3>1, FoundType DEF FirstOf
    <3>3. kept = Found
      BY <3>2, FS_Subset
    <3>4. Found = AttackPathsOf(turn)
      BY <1>2, CollectedAll DEF Rank, EveryPathIsCollected
    <3>5. turn \in Nat \ {0}
      BY PairsAssumption DEF TypeOK
    <3>6. paths' = PathsUpTo(turn - 1) \cup AttackPathsOf(turn)
      BY <2>1, <3>1, <3>3, <3>4 DEF KeptInv
    <3>7. QED
      BY <3>5, <3>6, PathsUpToNext
  <2>4. turn' - 1 = turn
    BY <2>2, PairsAssumption DEF TypeOK
  <2>5. PICK m : m = turn
    OBVIOUS
  <2>6. PathsUpTo(m)' = PathsUpTo(m) /\ turn' - 1 = m
    BY <1>0, <2>2, <2>4, <2>5
  <2>7. QED
    BY <2>2, <2>3, <2>5, <2>6 DEF KeptInv, PathsUpTo
<1>3. CASE Emit
  <2>1. turn = Len(Pairs) + 1 /\ UNCHANGED <<graph, maxHop, turn, paths, truncated>>
    BY <1>3, PairsAssumption DEF Emit, TypeOK
  <2>2. suppressed' = Cardinality(paths' \ risks')
    BY <1>3 DEF Emit
  <2>3. PICK m : m = turn - 1
    OBVIOUS
  <2>4. turn' - 1 = m /\ PathsUpTo(m)' = PathsUpTo(m)
    BY <1>0, <2>1, <2>3
  <2>5. QED
    BY <2>1, <2>2, <2>3, <2>4 DEF KeptInv, PathsUpTo
<1>4. CASE UNCHANGED vars
  <2>1. UNCHANGED <<graph, maxHop, pc, turn, paths, truncated, risks, suppressed>>
    BY <1>4 DEF vars, findings
  <2>2. PICK m : m = turn - 1
    OBVIOUS
  <2>3. turn' - 1 = m /\ PathsUpTo(m)' = PathsUpTo(m)
    BY <1>0, <2>1, <2>2
  <2>4. QED
    BY <2>1, <2>2, <2>3 DEF KeptInv, PathsUpTo
<1>5. CASE Begin \/ Return \/ \E e \in Edges : Skip(e) \/ Arrive(e) \/ Descend(e)
  BY <1>1, <1>5 DEF Begin, Return, Skip, Arrive, Descend, IsNext
<1>6. QED
  BY <1>2, <1>3, <1>4, <1>5 DEF Next, Finished

\* With no pair counted as truncated, the last state reports everything.
LEMMA KeptAccounts == IInv /\ KeptInv => NothingIsMissing
<1> SUFFICES ASSUME IInv, KeptInv, pc = "done", truncated = 0
             PROVE  /\ paths = UNION {AttackPathsOf(k) : k \in 1..Len(Pairs)}
                    /\ Cardinality(risks) + suppressed = Cardinality(paths)
  BY DEF NothingIsMissing
<1>1. paths = UNION {AttackPathsOf(k) : k \in 1..Len(Pairs)}
  <2>1. turn - 1 = Len(Pairs)
    BY PairsAssumption DEF KeptInv
  <2>2. QED
    BY <2>1 DEF KeptInv, PathsUpTo
<1>2. IsFiniteSet(paths) /\ risks \subseteq paths /\ suppressed = Cardinality(paths \ risks)
  BY DEF IInv, SearchInv, TypeOK, KeptInv
<1>3. IsFiniteSet(risks) /\ IsFiniteSet(paths \ risks)
  BY <1>2, FS_Subset
<1>4. Cardinality(paths) = Cardinality(risks) + Cardinality(paths \ risks) - Cardinality({})
  <2>1. paths = risks \cup (paths \ risks) /\ risks \cap (paths \ risks) = {}
    BY <1>2
  <2>2. QED
    BY <1>3, <2>1, FS_Union
<1>5. QED
  BY <1>1, <1>2, <1>3, <1>4, FS_EmptySet, FS_CardinalityType

\* A run that counts no truncated pair reports every attack path of every pair and
\* names or counts each in its findings (cli.py:906-919, findings.py:166-205).
THEOREM UntruncatedIsComplete == Spec => []NothingIsMissing
<1>1. Init => KeptInv
  <2> SUFFICES ASSUME Init PROVE KeptInv
    OBVIOUS
  <2>1. 1..(turn - 1) = {} /\ paths = {} /\ pc = "pair"
    BY DEF Init
  <2>2. QED
    BY <2>1 DEF KeptInv, PathsUpTo
<1>2. QED
  BY <1>1, IInvHolds, KeptStep, KeptAccounts, PTL DEF Spec
-----------------------------------------------------------------------------
(* What the findings name.                                                 *)

\* The paths reported for the pairs done are the first of their attack paths, and
\* nothing else is reported; so are the risks named, of the paths reported.
IsRanked(k) ==
    IsFiniteSet(AttackPathsOf(k)) /\ PathsOf(k) \in FirstOf(AttackPathsOf(k), MaxPaths)
RankedInv ==
    /\ paths \subseteq PathsUpTo(turn - 1)
    /\ \A k \in 1..(turn - 1) : IsRanked(k)
    /\ pc = "done" =>
        /\ turn = Len(Pairs) + 1 /\ gaps = Undefended(Bottlenecks)
        /\ \A k \in 1..Len(Pairs) :
              risks \cap PathsOf(k) \in FirstOf({p \in PathsOf(k) : RiskEligible(p)}, MaxRisk)

\* Severity as an operator of the graph.
SeverityIn(g, p) ==
    FoldLeft(LAMBDA sum, e : sum + (IF g[e].kind = "finding" THEN g[e].severity ELSE 0), 0, p)

\* The ranking depends on the graph alone.
LEMMA SeverityOfGraph == \A p : Severity(p) = SeverityIn(graph, p)
BY DEF Severity, SeverityIn

LEMMA SameRanking ==
    ASSUME UNCHANGED graph
    PROVE  /\ \A p, q : Outranks(p, q)' <=> Outranks(p, q)
           /\ \A p : RiskEligible(p)' <=> RiskEligible(p)
           /\ \A S, n : FirstOf(S, n)' = FirstOf(S, n)
           /\ \A S : Undefended(S)' = Undefended(S)
<1>1. \A p : Severity(p)' = Severity(p)
  <2>1. (\A p : Severity(p) = SeverityIn(graph, p))'
    BY SeverityOfGraph, PTL
  <2>2. QED
    BY <2>1, SeverityOfGraph
<1>2. \A p : Feasibility(p)' = Feasibility(p) /\ (Mitigated(p)' <=> Mitigated(p))
  BY DEF Feasibility, Mitigated, OnPath
<1>3. \A p, q : Outranks(p, q)' <=> Outranks(p, q)
  BY <1>1, <1>2 DEF Outranks
<1>4. \A p : RiskEligible(p)' <=> RiskEligible(p)
  BY <1>1, <1>2 DEF RiskEligible
<1>5. \A S, n : FirstOf(S, n)' = FirstOf(S, n)
  BY <1>3 DEF FirstOf
<1>6. QED
  BY <1>3, <1>4, <1>5 DEF Undefended

\* An attack path of a pair leads from its attacker to its jewel, so it is one of no
\* other pair.
LEMMA PathEnds ==
    ASSUME TypeOK, NEW k, NEW t \in AttackPathsOf(k)
    PROVE  /\ t \in Seq(Edges) /\ Len(t) \in Nat \ {0} /\ IsAttackPath(t, k)
           /\ From(t[1]) = Attacker(k) /\ To(Last(t)) = Jewel(k)
<1>1. maxHop \in Nat
  BY LimitsAssumption DEF TypeOK
<1>2. PICK m \in 1..maxHop : t \in [1..m -> Edges] /\ IsAttackPath(t, k)
  BY DEF AttackPathsOf
<1>3. t \in Seq(Edges) /\ Len(t) = m /\ m \in Nat \ {0}
  BY <1>1, <1>2
<1>4. From(t[1]) = Attacker(k) /\ To(t[m]) = Jewel(k)
  BY <1>2, <1>3 DEF IsAttackPath, IsWalk
<1>5. QED
  BY <1>2, <1>3, <1>4 DEF Last

LEMMA PairsApart ==
    ASSUME NEW k \in 1..Len(Pairs), NEW l \in 1..Len(Pairs),
           Attacker(k) = Attacker(l), Jewel(k) = Jewel(l)
    PROVE  k = l
<1>1. Pairs[k] \in Nodes \X Nodes /\ Pairs[l] \in Nodes \X Nodes
  BY PairsAssumption
<1>2. Pairs[k] = Pairs[l]
  BY <1>1 DEF Attacker, Jewel
<1>3. QED
  BY <1>2, PairsAssumption

\* What PathsOf and the bottlenecks say depends on the graph and the paths alone.
LEMMA SamePathsOf ==
    ASSUME UNCHANGED <<graph, maxHop, paths>>
    PROVE  /\ \A k : PathsOf(k)' = PathsOf(k) /\ AttackPathsOf(k)' = AttackPathsOf(k)
           /\ Bottlenecks' = Bottlenecks
  BY DEF PathsOf, Bottlenecks, Occurrences, AttackPathsOf, IsAttackPath, IsWalk, From, To,
         Attacker, Jewel

LEMMA SameRanks ==
    ASSUME UNCHANGED <<graph, maxHop, paths>>, NEW k, IsRanked(k)
    PROVE  IsRanked(k)'
<1>1. PICK S : S = AttackPathsOf(k)
  OBVIOUS
<1>2. PathsOf(k)' = PathsOf(k) /\ AttackPathsOf(k)' = S /\ FirstOf(S, MaxPaths)' = FirstOf(S, MaxPaths)
  BY <1>1, SamePathsOf, SameRanking
<1>3. QED
  BY <1>1, <1>2 DEF IsRanked, FirstOf

\* A step that leaves the paths alone, before the findings are written.
LEMMA RankedSame ==
    ASSUME RankedInv, UNCHANGED <<graph, maxHop, turn, paths>>, pc' # "done"
    PROVE  RankedInv'
<1>1. PICK m : m = turn - 1
  OBVIOUS
<1>2. turn' - 1 = m /\ PathsUpTo(m)' = PathsUpTo(m)
  BY <1>1, SamePathsUpTo
<1>3. \A k \in 1..m : IsRanked(k)'
  BY <1>1, SameRanks DEF RankedInv
<1>4. paths' \subseteq PathsUpTo(m)'
  BY <1>1, <1>2 DEF RankedInv
<1>5. QED
  BY <1>2, <1>3, <1>4 DEF RankedInv, PathsUpTo

\* Ranking a pair adds the first of its attack paths, and leaves what the pairs before
\* it have.
LEMMA RankedRank == ASSUME IInv, RankedInv, Rank PROVE RankedInv'
<1> USE DEF IInv, SearchInv
<1>1. PICK kept \in FirstOf(Found, MaxPaths) : paths' = paths \cup kept
  BY DEF Rank
<1>2. pc = "search" /\ pc' = "pair" /\ turn' = turn + 1 /\ UNCHANGED <<graph, maxHop>>
  BY DEF Rank
<1>3. turn \in 1..Len(Pairs) /\ turn \in Nat /\ Len(Pairs) \in Nat
  BY <1>2, PairsAssumption DEF TypeOK, TrailInv
<1>4. Found = AttackPathsOf(turn) /\ kept \subseteq AttackPathsOf(turn)
  BY <1>1, CollectedAll DEF Rank, EveryPathIsCollected, FirstOf
<1>5. PICK m : m = turn
  OBVIOUS
<1>6. turn' - 1 = m /\ \A l : PathsUpTo(l)' = PathsUpTo(l)
  BY <1>2, <1>3, <1>5, SamePathsUpTo
<1>7. paths' \subseteq PathsUpTo(m)'
  <2>1. PathsUpTo(turn) = PathsUpTo(turn - 1) \cup AttackPathsOf(turn)
    BY <1>3, PathsUpToNext
  <2>2. paths \cup kept \subseteq PathsUpTo(turn)
    BY <1>4, <2>1 DEF RankedInv
  <2>3. QED
    BY <1>1, <1>5, <1>6, <2>2
<1>8. ASSUME NEW k \in 1..m
      PROVE  IsRanked(k)'
  <2>0. k \in 1..Len(Pairs) /\ (k = m \/ k \in 1..(turn - 1))
    BY <1>3, <1>5
  <2>1. \A p \in kept : From(p[1]) = Attacker(turn) /\ To(Last(p)) = Jewel(turn)
    BY <1>4, PathEnds
  <2>2. PathsOf(k)' = {p \in paths \cup kept : From(p[1]) = Attacker(k) /\ To(Last(p)) = Jewel(k)}
    BY <1>1, <1>2 DEF PathsOf, From, To, Attacker, Jewel
  <2>3. PICK S : S = AttackPathsOf(k)
    OBVIOUS
  <2>4. AttackPathsOf(k)' = S /\ FirstOf(S, MaxPaths)' = FirstOf(S, MaxPaths)
    <3>1. AttackPathsOf(k)' = AttackPathsOf(k)
      BY <1>2 DEF AttackPathsOf, IsAttackPath, IsWalk, From, To, Attacker, Jewel
    <3>2. QED
      BY <1>2, <2>3, <3>1, SameRanking
  <2>5. CASE k = m
    <3>1. \A p \in paths : ~(From(p[1]) = Attacker(k) /\ To(Last(p)) = Jewel(k))
      <4> SUFFICES ASSUME NEW p \in paths, From(p[1]) = Attacker(k), To(Last(p)) = Jewel(k) PROVE FALSE
        OBVIOUS
      <4>1. PICK l \in 1..(turn - 1) : p \in AttackPathsOf(l)
        BY DEF RankedInv, PathsUpTo
      <4>2. From(p[1]) = Attacker(l) /\ To(Last(p)) = Jewel(l)
        BY <4>1, PathEnds
      <4>3. l \in 1..Len(Pairs) /\ l # k
        BY <1>3, <1>5, <2>5
      <4>4. QED
        BY <2>0, <4>2, <4>3, PairsApart
    <3>2. PathsOf(k)' = kept
      BY <1>5, <2>1, <2>2, <2>5, <3>1
    <3>3. kept \in FirstOf(S, MaxPaths)
      BY <1>1, <1>4, <1>5, <2>3, <2>5
    <3>4. IsFiniteSet(S)
      BY <1>4, <1>5, <2>3, <2>5, FoundType
    <3>5. QED
      BY <2>4, <3>2, <3>3, <3>4 DEF IsRanked, FirstOf
  <2>6. CASE k \in 1..(turn - 1)
    <3>1. k # turn
      BY <1>3, <2>6
    <3>2. \A p \in kept : ~(From(p[1]) = Attacker(k) /\ To(Last(p)) = Jewel(k))
      BY <1>3, <2>0, <2>1, <3>1, PairsApart
    <3>3. PathsOf(k)' = PathsOf(k)
      BY <2>2, <3>2 DEF PathsOf
    <3>4. IsFiniteSet(S) /\ PathsOf(k) \in FirstOf(S, MaxPaths)
      BY <2>3, <2>6 DEF RankedInv, IsRanked
    <3>5. QED
      BY <2>4, <3>3, <3>4 DEF IsRanked, FirstOf
  <2>7. QED
    BY <2>0, <2>5, <2>6
<1>9. QED
  BY <1>2, <1>6, <1>7, <1>8 DEF RankedInv, PathsUpTo

\* The findings are named once all pairs are ranked.
LEMMA RankedEmit == ASSUME IInv, RankedInv, Emit PROVE RankedInv'
<1> USE DEF IInv, SearchInv
<1>1. PICK named \in SUBSET {p \in paths : RiskEligible(p)} :
        /\ \A k \in 1..Len(Pairs) :
              named \cap PathsOf(k) \in FirstOf({p \in PathsOf(k) : RiskEligible(p)}, MaxRisk)
        /\ risks' = named
  BY DEF Emit
<1>2. /\ turn > Len(Pairs) /\ gaps' = Undefended(Bottlenecks)
      /\ UNCHANGED <<graph, maxHop, turn, paths>>
  BY DEF Emit
<1>3. turn = Len(Pairs) + 1
  BY <1>2, PairsAssumption DEF TypeOK
<1>4. gaps' = Undefended(Bottlenecks)'
  <2>1. PICK S : S = Bottlenecks
    OBVIOUS
  <2>2. Bottlenecks' = S /\ Undefended(S)' = Undefended(S)
    BY <1>2, <2>1, SamePathsOf, SameRanking
  <2>3. QED
    BY <1>2, <2>1, <2>2 DEF Undefended
<1>5. ASSUME NEW k \in 1..Len(Pairs)
      PROVE  (risks \cap PathsOf(k) \in FirstOf({p \in PathsOf(k) : RiskEligible(p)}, MaxRisk))'
  <2>1. PICK S : S = {p \in PathsOf(k) : RiskEligible(p)}
    OBVIOUS
  <2>2. PathsOf(k)' = PathsOf(k) /\ \A p : RiskEligible(p)' <=> RiskEligible(p)
    BY <1>2, SamePathsOf, SameRanking
  <2>3. {p \in PathsOf(k) : RiskEligible(p)}' = S
    BY <2>1, <2>2
  <2>4. FirstOf(S, MaxRisk)' = FirstOf(S, MaxRisk)
    BY <1>2, SameRanking
  <2>5. risks' \cap PathsOf(k)' \in FirstOf(S, MaxRisk)
    BY <1>1, <2>1, <2>2
  <2>6. QED
    BY <2>3, <2>4, <2>5 DEF FirstOf
<1>6. PICK m : m = turn - 1
  OBVIOUS
<1>7. turn' - 1 = m /\ PathsUpTo(m)' = PathsUpTo(m) /\ paths' \subseteq PathsUpTo(m)'
  BY <1>2, <1>6, SamePathsUpTo DEF RankedInv
<1>8. \A k \in 1..m : IsRanked(k)'
  BY <1>2, <1>6, SameRanks DEF RankedInv
<1>9. QED
  BY <1>2, <1>3, <1>4, <1>5, <1>7, <1>8 DEF RankedInv, PathsUpTo

\* Every step keeps the ranks.
LEMMA RankedStep == IInv /\ RankedInv /\ [Next]_vars => RankedInv'
<1> SUFFICES ASSUME IInv, RankedInv, [Next]_vars PROVE RankedInv'
  OBVIOUS
<1>1. CASE Begin \/ Return \/ \E e \in Edges : Skip(e) \/ Arrive(e) \/ Descend(e)
  BY <1>1, RankedSame DEF Begin, Return, Skip, Arrive, Descend, IsNext
<1>2. CASE UNCHANGED vars
  <2>1. UNCHANGED <<graph, maxHop, pc, turn, paths, risks, gaps>>
    BY <1>2 DEF vars, findings
  <2>2. CASE pc # "done"
    BY <2>1, <2>2, RankedSame
  <2>3. CASE pc = "done"
    <3>1. PICK m : m = turn - 1
      OBVIOUS
    <3>2. turn' - 1 = m /\ PathsUpTo(m)' = PathsUpTo(m) /\ paths' \subseteq PathsUpTo(m)'
      BY <2>1, <3>1, SamePathsUpTo DEF RankedInv
    <3>3. \A k \in 1..m : IsRanked(k)'
      BY <2>1, <3>1, SameRanks DEF RankedInv
    <3>4. gaps' = Undefended(Bottlenecks)'
      BY <2>1, <2>3 DEF RankedInv, Undefended, Bottlenecks, Occurrences
    <3>5. ASSUME NEW k \in 1..Len(Pairs)
          PROVE  (risks \cap PathsOf(k) \in FirstOf({p \in PathsOf(k) : RiskEligible(p)}, MaxRisk))'
      <4>1. PICK S : S = {p \in PathsOf(k) : RiskEligible(p)}
        OBVIOUS
      <4>2. PathsOf(k)' = PathsOf(k) /\ \A p : RiskEligible(p)' <=> RiskEligible(p)
        BY <2>1, SamePathsOf, SameRanking
      <4>3. {p \in PathsOf(k) : RiskEligible(p)}' = S /\ FirstOf(S, MaxRisk)' = FirstOf(S, MaxRisk)
        BY <2>1, <4>1, <4>2, SameRanking
      <4>4. risks' \cap PathsOf(k)' \in FirstOf(S, MaxRisk)
        BY <2>1, <2>3, <4>1, <4>2 DEF RankedInv
      <4>5. QED
        BY <4>3, <4>4 DEF FirstOf
    <3>6. QED
      BY <2>1, <2>3, <3>2, <3>3, <3>4, <3>5 DEF RankedInv, PathsUpTo
  <2>4. QED
    BY <2>2, <2>3
<1>3. QED
  BY <1>1, <1>2, RankedRank, RankedEmit DEF Next, Finished

\* The ranks hold throughout.
LEMMA RankedHolds == Spec => [](IInv /\ RankedInv)
<1>1. Init => RankedInv
  <2> SUFFICES ASSUME Init PROVE RankedInv
    OBVIOUS
  <2>1. turn - 1 = 0 /\ paths = {} /\ pc = "pair"
    BY DEF Init
  <2>2. QED
    BY <2>1 DEF RankedInv, PathsUpTo
<1>2. QED
  BY <1>1, IInvHolds, RankedStep, PTL DEF Spec

\* What the first n of a finite set leave out is behind n others.
LEMMA LeftOut ==
    ASSUME NEW S, IsFiniteSet(S), NEW n, NEW T \in FirstOf(S, n), NEW t \in S, t \notin T
    PROVE  Cardinality(T) = n /\ T \subseteq S /\ \A p \in T : ~Outranks(t, p)
<1>1. T \subseteq S /\ \A p \in T : ~Outranks(t, p)
  BY DEF FirstOf
<1>2. Cardinality(T) # Cardinality(S)
  BY <1>1, FS_Subset
<1>3. QED
  BY <1>1, <1>2 DEF FirstOf


\* What is not named is behind what is.
LEMMA RankedNames == IInv /\ RankedInv => WorstPathsAreNamed
<1> SUFFICES ASSUME IInv, RankedInv, pc = "done", NEW k \in 1..Len(Pairs),
                    NEW t \in AttackPathsOf(k), RiskEligible(t), t \notin risks
             PROVE  \/ Cardinality({p \in risks \cap PathsOf(k) : ~Outranks(t, p)}) >= MaxRisk
                    \/ Cardinality({p \in PathsOf(k) : ~Outranks(t, p)}) >= MaxPaths
  BY DEF WorstPathsAreNamed
<1> USE DEF IInv, SearchInv
<1>1. IsFiniteSet(AttackPathsOf(k)) /\ PathsOf(k) \in FirstOf(AttackPathsOf(k), MaxPaths)
  <2>1. turn - 1 = Len(Pairs)
    BY PairsAssumption DEF RankedInv
  <2>2. QED
    BY <2>1 DEF RankedInv, IsRanked
<1>2. CASE t \notin PathsOf(k)
  <2>1. Cardinality(PathsOf(k)) = MaxPaths /\ \A p \in PathsOf(k) : ~Outranks(t, p)
    BY <1>1, <1>2, LeftOut
  <2>2. {p \in PathsOf(k) : ~Outranks(t, p)} = PathsOf(k)
    BY <2>1
  <2>3. MaxPaths >= MaxPaths
    BY LimitsAssumption
  <2>4. QED
    BY <2>1, <2>2, <2>3
<1>3. CASE t \in PathsOf(k)
  <2> DEFINE S == {p \in PathsOf(k) : RiskEligible(p)}
             T == risks \cap PathsOf(k)
  <2>1. T \in FirstOf(S, MaxRisk) /\ t \in S /\ t \notin T
    BY <1>3 DEF RankedInv
  <2>2. IsFiniteSet(S)
    <3>1. S \in SUBSET AttackPathsOf(k)
      BY <1>1 DEF FirstOf
    <3>2. QED
      BY <1>1, <3>1, FS_Subset
  <2> HIDE DEF S, T
  <2>3. Cardinality(T) = MaxRisk /\ \A p \in T : ~Outranks(t, p)
    BY <2>1, <2>2, LeftOut
  <2>4. {p \in T : ~Outranks(t, p)} = T
    BY <2>3
  <2>5. MaxRisk >= MaxRisk
    BY LimitsAssumption
  <2>6. QED
    BY <2>3, <2>4, <2>5 DEF T
<1>4. QED
  BY <1>2, <1>3

\* A path passes an edge once, so that an edge occurs as often as there are paths
\* that share it.
LEMMA OccursOncePerPath ==
    ASSUME IInv, RankedInv, NEW e \in Edges
    PROVE  Cardinality(Occurrences(e)) = Cardinality({p \in paths : e \in OnPath(p)})
<1> DEFINE P == {p \in paths : e \in OnPath(p)}
           At(p) == CHOOSE i \in 1..Len(p) : p[i] = e
           f == [p \in P |-> <<p, At(p)>>]
<1>1. \A p \in P : At(p) \in 1..Len(p) /\ p[At(p)] = e
  BY DEF OnPath
<1>2. \A p \in P : \A i \in 1..Len(p) : p[i] = e => i = At(p)
  <2> SUFFICES ASSUME NEW p \in P, NEW i \in 1..Len(p), p[i] = e PROVE i = At(p)
    OBVIOUS
  <2>1. PICK k \in 1..(turn - 1) : p \in AttackPathsOf(k)
    BY DEF RankedInv, PathsUpTo
  <2>2. IsWalk(p, k)
    BY <2>1, PathEnds DEF IInv, SearchInv, IsAttackPath
  <2>3. QED
    BY <1>1, <2>2 DEF IsWalk
<1> HIDE DEF At
<1>3. \A p, i : <<p, i>> \in Occurrences(e) <=> p \in paths /\ i \in 1..Len(p) /\ p[i] = e
  <2>1. \A o : o \in Occurrences(e) <=> \E p \in paths : \E i \in 1..Len(p) : p[i] = e /\ o = <<p, i>>
    BY DEF Occurrences
  <2>2. QED
    BY <2>1
<1>4. \A o \in Occurrences(e) : \E p \in P : o = f[p]
  <2> SUFFICES ASSUME NEW o \in Occurrences(e) PROVE \E p \in P : o = f[p]
    OBVIOUS
  <2>1. PICK p \in paths : \E i \in 1..Len(p) : p[i] = e /\ o = <<p, i>>
    BY DEF Occurrences
  <2>2. p \in P
    BY <2>1 DEF OnPath
  <2>3. QED
    BY <1>2, <2>1, <2>2
<1>5. \A p \in P : f[p] \in Occurrences(e)
  BY <1>1, <1>3
<1>6. \A p, q \in P : f[p] = f[q] => p = q
  OBVIOUS
<1>7. f \in [P -> Occurrences(e)]
  BY <1>5
<1> HIDE DEF f
<1>8. f \in Bijection(P, Occurrences(e))
  BY <1>4, <1>6, <1>7 DEF Bijection, Injection, Surjection, IsInjective
<1>9. IsFiniteSet(P)
  <2>1. IsFiniteSet(paths) /\ P \in SUBSET paths
    BY DEF IInv, SearchInv
  <2>2. QED
    BY <2>1, FS_Subset
<1>10. ExistsBijection(P, Occurrences(e))
  BY <1>8 DEF ExistsBijection
<1>11. QED
  BY <1>9, <1>10, FS_Bijection

\* The gaps are the open edges that enough paths share.
LEMMA RankedGaps == IInv /\ RankedInv => GapsAreSharedEdges
<1> SUFFICES ASSUME IInv, RankedInv, pc = "done"
             PROVE  gaps = Undefended({e \in Edges :
                              Cardinality({p \in paths : e \in OnPath(p)}) >= Threshold})
  BY DEF GapsAreSharedEdges
<1>1. gaps = Undefended(Bottlenecks)
  BY DEF RankedInv
<1>2. Bottlenecks = {e \in Edges : Cardinality({p \in paths : e \in OnPath(p)}) >= Threshold}
  BY OccursOncePerPath DEF Bottlenecks
<1>3. QED
  BY <1>1, <1>2

\* Whatever the graph and the limits, a risk-eligible path that the findings do not
\* name (findings.py:168-187) is behind as many named ones as the limit allows, or was
\* cut behind as many reported ones.
THEOREM WorstPathsNamed == Spec => []WorstPathsAreNamed
BY RankedHolds, RankedNames, PTL

\* Whatever the graph, a gap is named exactly for the open edges that enough
\* different reported paths share (enumerate.py:181-193).
THEOREM GapsShared == Spec => []GapsAreSharedEdges
BY RankedHolds, RankedGaps, PTL
=============================================================================
