----------------------- MODULE ClusterCandidatesProofs -----------------------
(***************************************************************************)
(* Proofs about ClusterCandidates for every number of records, every set   *)
(* of signals and every order of the corpus.                               *)
(*                                                                         *)
(* Two partitions of the records are the same when the same sets are       *)
(* unions of their blocks.  So the forest is compared with the signals by  *)
(* the sets closed under each, which needs no induction along a path.      *)
(*                                                                         *)
(* The groups are then followed from the forest to the end: the cluster of *)
(* a root is a component of the signals (ClusterInv), and the groups are   *)
(* the chunks of the clusters emitted so far (GroupsInv), a chunk being    *)
(* the members whose ranks lie between two partial sums of chunk sizes.    *)
(***************************************************************************)
EXTENDS ClusterCandidates, FiniteSetTheorems, NaturalsInduction, TLAPS

\* No set that respects the forest separates a from b.
Joined(a, b) == \A S \in SUBSET Ids : ParentClosed(S) => (a \in S <=> b \in S)

\* Every edge of the forest leads down; the first root stays one while the second
\* is sought; nothing is collected before all pairs are joined.
ForestInv ==
    /\ \A x \in Ids : parent[x] <= x
    /\ pc = "second" => parent[partner] = partner
    /\ pc \in {"collect", "root", "emit", "done"} => todo = {}

\* The forest joins nothing the signals do not, nor will the union in progress.
SoundInv ==
    \A S \in SUBSET Ids : SignalClosed(S) =>
        /\ ParentClosed(S)
        /\ pc \in {"first", "second"} => (node \in S <=> partner \in S)

\* Every pair taken is joined, or will be by the union in progress.
InProgress(a, b) == pc \in {"first", "second"} /\ Joined(a, node) /\ Joined(b, partner)
CompleteInv ==
    \A a, b \in Ids : {a, b} \in signals \ todo =>
        Joined(a, b) \/ InProgress(a, b) \/ InProgress(b, a)

IInv == TypeOK /\ ForestInv /\ SoundInv /\ CompleteInv
-----------------------------------------------------------------------------
(* Type correctness.                                                       *)

\* The first state is well-typed.
LEMMA TypeInit == Init => TypeOK
  BY SizesAssumption DEF Init, TypeOK, Ids

\* Every step keeps the state well-typed.
LEMMA TypeStep == TypeOK /\ [Next]_vars => TypeOK'
<1> SUFFICES ASSUME TypeOK, [Next]_vars PROVE TypeOK'
  OBVIOUS
<1> USE SizesAssumption DEF TypeOK, Ids
<1>1. CASE TakePair
  BY <1>1 DEF TakePair
<1>2. CASE Halve
  <2>1. parent[parent[node]] \in Ids /\ parent' \in [Ids -> Ids]
    BY <1>2 DEF Halve
  <2>2. node' \in Ids /\ UNCHANGED <<signals, todo, pc, partner, uncollected, clusters>>
    BY <1>2, <2>1 DEF Halve
  <2>3. node' \in 0..(N + 1)
    BY <2>2
  <2> HIDE DEF Ids
  <2> QED BY <2>1, <2>2, <2>3
<1>3. CASE FirstFound
  BY <1>3 DEF FirstFound
<1>4. CASE Union
  BY <1>4 DEF Union, Lower, Upper
<1>5. CASE EndPairs
  BY <1>5 DEF EndPairs
<1>6. CASE Collect
  BY <1>6 DEF Collect
<1>7. CASE RootFound
  BY <1>7 DEF RootFound
<1>8. CASE EndCollect
  BY <1>8 DEF EndCollect
<1>9. CASE Emit
  BY <1>9 DEF Emit
<1>10. CASE Done
  BY <1>10 DEF Done
<1>11. CASE UNCHANGED vars
  BY <1>11 DEF vars
<1> QED BY <1>1, <1>2, <1>3, <1>4, <1>5, <1>6, <1>7, <1>8, <1>9, <1>10, <1>11 DEF Next

\* Every state of the step, find and union included, has the declared shape.
THEOREM TypeCorrect == Spec => []TypeOK
  BY TypeInit, TypeStep, PTL DEF Spec
-----------------------------------------------------------------------------
(* What halving and joining do to the closed sets.                         *)

\* Path halving changes edges, but not the sets that respect them.
LEMMA HalvingKeepsClosed ==
    ASSUME TypeOK, Halve, NEW S \in SUBSET Ids
    PROVE  ParentClosed(S)' <=> ParentClosed(S)
<1>1. /\ node \in Ids /\ parent[node] # node /\ parent \in [Ids -> Ids]
      /\ parent' = [parent EXCEPT ![node] = parent[parent[node]]]
  BY DEF Halve, TypeOK
<1>2. ASSUME ParentClosed(S) PROVE ParentClosed(S)'
  BY <1>1, <1>2 DEF ParentClosed
<1>3. ASSUME ParentClosed(S)' PROVE ParentClosed(S)
  <2>1. parent'[parent[node]] = parent[parent[node]]
    BY <1>1
  <2>2. node \in S <=> parent[node] \in S
    BY <1>1, <1>3, <2>1 DEF ParentClosed
  <2> QED BY <1>1, <1>3, <2>2 DEF ParentClosed
<1> QED BY <1>2, <1>3

\* A union makes closed the closed sets that do not part the two roots.
LEMMA UnionJoins ==
    ASSUME TypeOK, ForestInv, Union, NEW S \in SUBSET Ids
    PROVE  ParentClosed(S)' <=> ParentClosed(S) /\ (node \in S <=> partner \in S)
<1>1. /\ node \in Ids /\ partner \in Ids /\ parent[node] = node /\ parent[partner] = partner
      /\ parent \in [Ids -> Ids]
      /\ parent' = [parent EXCEPT ![Upper(partner, node)] = Lower(partner, node)]
  BY DEF Union, TypeOK, ForestInv
<1>2. \/ Upper(partner, node) = node /\ Lower(partner, node) = partner
      \/ Upper(partner, node) = partner /\ Lower(partner, node) = node
  BY DEF Upper, Lower
<1> QED BY <1>1, <1>2 DEF ParentClosed
-----------------------------------------------------------------------------
(* The forest.                                                             *)

\* Every step keeps the edges leading down.
LEMMA ForestStep == TypeOK /\ ForestInv /\ [Next]_vars => ForestInv'
<1> SUFFICES ASSUME TypeOK, ForestInv, [Next]_vars PROVE ForestInv'
  OBVIOUS
<1>0. \A x \in Ids : x \in Nat
  BY SizesAssumption DEF Ids
<1> USE <1>0 DEF TypeOK, ForestInv
<1>1. CASE TakePair
  BY <1>1 DEF TakePair
<1>2. CASE Halve
  <2>1. /\ node \in Ids /\ parent[node] # node /\ pc' = pc /\ partner' = partner /\ todo' = todo
        /\ parent' = [parent EXCEPT ![node] = parent[parent[node]]]
    BY <1>2 DEF Halve
  <2>2. parent[node] \in Ids /\ parent[parent[node]] \in Ids
    BY <2>1
  <2>3. parent[parent[node]] <= node
    <3>1. parent[node] <= node /\ parent[parent[node]] <= parent[node]
      BY <2>1, <2>2
    <3>2. node \in Nat /\ parent[node] \in Nat /\ parent[parent[node]] \in Nat
      BY <2>1, <2>2
    <3> HIDE DEF TypeOK, ForestInv
    <3> QED BY <3>1, <3>2
  <2>4. \A x \in Ids : parent'[x] <= x
    BY <2>1, <2>3
  <2>5. pc = "second" => parent'[partner] = partner
    BY <2>1
  <2> QED BY <2>1, <2>4, <2>5
<1>3. CASE FirstFound
  BY <1>3 DEF FirstFound
<1>4. CASE Union
  <2>1. /\ node \in Ids /\ partner \in Ids /\ pc' = "pairs"
        /\ parent' = [parent EXCEPT ![Upper(partner, node)] = Lower(partner, node)]
    BY <1>4 DEF Union
  <2>2. Lower(partner, node) <= Upper(partner, node)
    BY <2>1 DEF Lower, Upper
  <2> QED BY <2>1, <2>2
<1>5. CASE EndPairs
  BY <1>5 DEF EndPairs
<1>6. CASE Collect
  BY <1>6 DEF Collect
<1>7. CASE RootFound
  BY <1>7 DEF RootFound
<1>8. CASE EndCollect \/ Emit \/ Done \/ UNCHANGED vars
  BY <1>8 DEF EndCollect, Emit, Done, vars
<1> QED BY <1>1, <1>2, <1>3, <1>4, <1>5, <1>6, <1>7, <1>8 DEF Next
-----------------------------------------------------------------------------
(* The forest and the signals.                                             *)

\* A step that leaves the forest alone leaves its closed sets alone.
LEMMA SameForest ==
    ASSUME parent' = parent, NEW S \in SUBSET Ids
    PROVE  ParentClosed(S)' <=> ParentClosed(S)
  BY DEF ParentClosed

\* No step joins records the signals leave apart.
LEMMA SoundStep == TypeOK /\ ForestInv /\ SoundInv /\ [Next]_vars => SoundInv'
<1> SUFFICES ASSUME TypeOK, ForestInv, SoundInv, [Next]_vars,
                    NEW S \in SUBSET Ids, SignalClosed(S)'
             PROVE  /\ ParentClosed(S)'
                    /\ pc' \in {"first", "second"} => (node' \in S <=> partner' \in S)
  BY DEF SoundInv
<1>0. signals' = signals
  BY DEF Next, TakePair, Halve, FirstFound, Union, EndPairs, Collect, RootFound,
         EndCollect, Emit, Done, vars
<1>a. /\ SignalClosed(S) /\ ParentClosed(S)
      /\ pc \in {"first", "second"} => (node \in S <=> partner \in S)
  BY <1>0 DEF SignalClosed, SoundInv
<1>1. CASE TakePair
  <2>1. parent' = parent /\ \E a, b \in Ids : {a, b} \in todo /\ node' = a /\ partner' = b
    BY <1>1 DEF TakePair
  <2>2. node' \in S <=> partner' \in S
    BY <1>a, <2>1 DEF SignalClosed, TypeOK
  <2> QED BY <1>a, <2>1, <2>2, SameForest
<1>2. CASE Halve
  <2>1. node \in Ids /\ node' = parent[parent[node]] /\ pc' = pc /\ partner' = partner
    BY <1>2 DEF Halve, TypeOK
  <2>2. node' \in S <=> node \in S
    BY <1>a, <2>1 DEF ParentClosed, TypeOK
  <2> QED BY <1>2, <1>a, <2>1, <2>2, HalvingKeepsClosed
<1>3. CASE FirstFound
  <2>1. parent' = parent /\ node' = partner /\ partner' = node /\ pc = "first"
    BY <1>3 DEF FirstFound
  <2> QED BY <1>a, <2>1, SameForest
<1>4. CASE Union
  <2>1. pc = "second" /\ pc' = "pairs"
    BY <1>4 DEF Union
  <2> QED BY <1>4, <1>a, <2>1, UnionJoins
<1>5. CASE EndPairs \/ Collect \/ RootFound \/ EndCollect \/ Emit \/ Done
  <2>1. parent' = parent /\ pc' \notin {"first", "second"}
    BY <1>5 DEF EndPairs, Collect, RootFound, EndCollect, Emit, Done
  <2> QED BY <1>a, <2>1, SameForest
<1>6. CASE UNCHANGED vars
  BY <1>6, <1>a, SameForest DEF vars
<1> QED BY <1>1, <1>2, <1>3, <1>4, <1>5, <1>6 DEF Next

\* No step loses a pair: what was taken stays joined or about to be joined.
LEMMA CompleteStep == TypeOK /\ ForestInv /\ CompleteInv /\ [Next]_vars => CompleteInv'
<1> SUFFICES ASSUME TypeOK, ForestInv, CompleteInv, [Next]_vars,
                    NEW a \in Ids, NEW b \in Ids, {a, b} \in (signals \ todo)'
             PROVE  Joined(a, b)' \/ InProgress(a, b)' \/ InProgress(b, a)'
  BY DEF CompleteInv
<1>0. signals' = signals
  BY DEF Next, TakePair, Halve, FirstFound, Union, EndPairs, Collect, RootFound,
         EndCollect, Emit, Done, vars
<1>1. CASE TakePair
  <2>1. /\ parent' = parent /\ pc = "pairs" /\ pc' = "first"
        /\ \E x, y \in Ids : todo' = todo \ {{x, y}} /\ node' = x /\ partner' = y
    BY <1>1 DEF TakePair
  <2>2. \A S \in SUBSET Ids : ParentClosed(S)' <=> ParentClosed(S)
    BY <2>1, SameForest
  <2>3. CASE {a, b} \in signals \ todo
    <3>1. Joined(a, b)
      BY <2>1, <2>3 DEF CompleteInv, InProgress
    <3> QED BY <2>2, <3>1 DEF Joined
  <2>4. CASE {a, b} \notin signals \ todo
    <3>1. {a, b} = {node', partner'}
      BY <1>0, <2>1, <2>4
    <3>2. (node' = a /\ partner' = b) \/ (node' = b /\ partner' = a)
      BY <3>1
    <3> QED BY <2>1, <3>2 DEF InProgress, Joined
  <2> QED BY <2>3, <2>4
<1>2. CASE Halve
  <2>1. /\ node \in Ids /\ node' = parent[parent[node]]
        /\ pc' = pc /\ partner' = partner /\ todo' = todo
    BY <1>2 DEF Halve, TypeOK
  <2>2. \A S \in SUBSET Ids : ParentClosed(S)' <=> ParentClosed(S)
    BY <1>2, HalvingKeepsClosed
  <2>3. \A S \in SUBSET Ids : ParentClosed(S) => (node' \in S <=> node \in S)
    BY <2>1 DEF ParentClosed, TypeOK
  <2>4. Joined(a, b) \/ InProgress(a, b) \/ InProgress(b, a)
    BY <1>0, <2>1 DEF CompleteInv
  <2> QED BY <2>1, <2>2, <2>3, <2>4 DEF Joined, InProgress
<1>3. CASE FirstFound
  <2>1. /\ parent' = parent /\ node' = partner /\ partner' = node
        /\ pc = "first" /\ pc' = "second" /\ todo' = todo
    BY <1>3 DEF FirstFound
  <2>2. \A S \in SUBSET Ids : ParentClosed(S)' <=> ParentClosed(S)
    BY <2>1, SameForest
  <2>3. Joined(a, b) \/ InProgress(a, b) \/ InProgress(b, a)
    BY <1>0, <2>1 DEF CompleteInv
  <2> QED BY <2>1, <2>2, <2>3 DEF Joined, InProgress
<1>4. CASE Union
  <2>1. todo' = todo
    BY <1>4 DEF Union
  <2>2. \A S \in SUBSET Ids :
          ParentClosed(S)' <=> ParentClosed(S) /\ (node \in S <=> partner \in S)
    BY <1>4, UnionJoins
  <2>3. Joined(a, b) \/ InProgress(a, b) \/ InProgress(b, a)
    BY <1>0, <2>1 DEF CompleteInv
  <2>4. Joined(a, b)'
    BY <2>2, <2>3 DEF Joined, InProgress
  <2> QED BY <2>4
<1>5. CASE EndPairs \/ Collect \/ RootFound \/ EndCollect \/ Emit \/ Done
  <2>1. parent' = parent /\ pc \notin {"first", "second"} /\ todo' = todo
    BY <1>5 DEF EndPairs, Collect, RootFound, EndCollect, Emit, Done
  <2>2. Joined(a, b)
    BY <1>0, <2>1 DEF CompleteInv, InProgress
  <2>3. \A S \in SUBSET Ids : ParentClosed(S)' <=> ParentClosed(S)
    BY <2>1, SameForest
  <2> QED BY <2>2, <2>3 DEF Joined
<1>6. CASE UNCHANGED vars
  <2>1. parent' = parent /\ pc' = pc /\ node' = node /\ partner' = partner /\ todo' = todo
    BY <1>6 DEF vars
  <2>2. \A S \in SUBSET Ids : ParentClosed(S)' <=> ParentClosed(S)
    BY <2>1, SameForest
  <2>3. Joined(a, b) \/ InProgress(a, b) \/ InProgress(b, a)
    BY <1>0, <2>1 DEF CompleteInv
  <2> QED BY <2>1, <2>2, <2>3 DEF Joined, InProgress
<1> QED BY <1>1, <1>2, <1>3, <1>4, <1>5, <1>6 DEF Next

\* The inductive invariant holds in every reachable state.
LEMMA InductiveInvariant == Spec => []IInv
<1>1. Init => IInv
  <2> SUFFICES ASSUME Init PROVE IInv
    OBVIOUS
  <2>1. \A x \in Ids : x <= x
    BY SizesAssumption DEF Ids
  <2>2. ForestInv
    BY <2>1 DEF Init, ForestInv
  <2>3. SoundInv
    BY DEF Init, SoundInv, ParentClosed
  <2>4. CompleteInv
    BY DEF Init, CompleteInv
  <2> QED BY <2>2, <2>3, <2>4, TypeInit DEF IInv
<1>2. IInv /\ [Next]_vars => IInv'
  BY TypeStep, ForestStep, SoundStep, CompleteStep DEF IInv
<1> QED BY <1>1, <1>2, PTL DEF Spec

\* The forest divides the records exactly as the signals do.
THEOREM ForestMatchesSignals == Spec => []ForestIsSignalComponents
<1>1. IInv => ForestIsSignalComponents
  <2> SUFFICES ASSUME IInv, pc \in {"collect", "root", "emit", "done"},
                      NEW S \in SUBSET Ids
               PROVE  ParentClosed(S) <=> SignalClosed(S)
    BY DEF ForestIsSignalComponents
  <2>1. todo = {} /\ pc \notin {"first", "second"}
    BY DEF IInv, ForestInv
  <2>2. ASSUME ParentClosed(S), NEW a \in Ids, NEW b \in Ids, {a, b} \in signals
        PROVE  a \in S <=> b \in S
    BY <2>1, <2>2 DEF IInv, CompleteInv, InProgress, Joined
  <2> QED BY <2>2 DEF IInv, SoundInv, SignalClosed
<1> QED BY <1>1, InductiveInvariant, PTL

\* Every turn of find leads to a lesser record: every find ends.
THEOREM FindsDescend == Spec => FindDescends
<1>1. ASSUME IInv, Halve PROVE node' < node
  <2>1. /\ node \in Ids /\ parent[node] # node /\ node' = parent[parent[node]]
        /\ parent \in [Ids -> Ids] /\ \A x \in Ids : parent[x] <= x /\ x \in Nat
    BY <1>1, SizesAssumption DEF IInv, TypeOK, ForestInv, Halve, Ids
  <2>2. parent[node] \in Ids /\ parent[parent[node]] \in Ids
    BY <2>1
  <2> QED BY <2>1, <2>2
<1>2. IInv /\ [Next]_vars => [Halve => node' < node]_vars
  BY <1>1
<1> QED BY <1>2, InductiveInvariant, PTL DEF Spec, FindDescends
-----------------------------------------------------------------------------
(* Chunks.                                                                 *)

\* With a limit of three or more, no chunk of an oversized cluster exceeds it and
\* none is a singleton.
THEOREM ChunkSizesAreBounded ==
    ASSUME MaxGroup >= 3, NEW n \in Nat, n > MaxGroup, NEW i \in 1..NumChunks(n)
    PROVE  ChunkSize(n, i) \in 2..MaxGroup
<1> DEFINE k == NumChunks(n)
           base == n \div k
           rest == n % k
<1>0. MaxGroup \in Nat
  BY SizesAssumption
<1>1. k \in Nat /\ (k - 1) * MaxGroup < n /\ n <= k * MaxGroup
  BY <1>0 DEF NumChunks
<1>2. k >= 2
  BY <1>0, <1>1
<1> HIDE DEF k
<1>3. base \in Nat /\ rest \in Nat /\ rest < k /\ n = k * base + rest
  BY <1>1, <1>2
<1> HIDE DEF base, rest
<1>4. base >= 2
  <2>1. (k - 1) * 3 <= (k - 1) * MaxGroup
    BY <1>0, <1>1, <1>2
  <2>2. n >= 2 * k
    BY <1>0, <1>1, <1>2, <2>1
  <2>3. CASE base <= 1
    <3>1. k * base <= k
      BY <1>1, <1>3, <2>3
    <3> QED BY <1>1, <1>3, <2>2, <3>1
  <2> QED BY <1>3, <2>3
<1>5. base <= MaxGroup /\ (rest > 0 => base + 1 <= MaxGroup)
  <2>1. CASE base > MaxGroup
    <3>1. k * base >= k * (MaxGroup + 1)
      BY <1>0, <1>1, <1>3, <2>1
    <3> QED BY <1>0, <1>1, <1>2, <1>3, <3>1
  <2>2. CASE base = MaxGroup
    BY <1>0, <1>1, <1>3, <2>2
  <2> QED BY <1>0, <1>3, <2>1, <2>2
<1>6. ChunkSize(n, i) = base + (IF i <= rest THEN 1 ELSE 0)
  BY DEF ChunkSize, base, rest, k
<1>7. i >= 1
  BY <1>1 DEF k
<1> QED BY <1>0, <1>3, <1>4, <1>5, <1>6, <1>7
-----------------------------------------------------------------------------
(* What the chunks of a cluster are.                                       *)

\* Every nonempty set of naturals has a least element.
LEMMA LeastElement ==
  ASSUME NEW S \in SUBSET Nat, S # {}
  PROVE  \E m \in S : \A k \in S : m <= k
<1> DEFINE R == OpToRel(<, Nat)
<1>1. PICK m \in S : \A k \in S : <<k, m>> \notin R
  <2>1. IsWellFoundedOn(R, Nat)
    BY NatLessThanWellFounded
  <2> HIDE DEF R
  <2> QED BY <2>1, WFMin
<1>2. ASSUME NEW k \in S PROVE m <= k
  <2>1. ~(k < m) /\ k \in Nat /\ m \in Nat
    BY <1>1 DEF OpToRel
  <2> QED BY <2>1
<1> QED BY <1>2

\* The quotient and the rest of the division: no chunk is empty.
LEMMA Division ==
  ASSUME NEW n \in Nat, n > MaxGroup
  PROVE  /\ NumChunks(n) \in Nat \ {0} /\ n \div NumChunks(n) \in Nat \ {0}
         /\ n % NumChunks(n) \in Nat /\ n % NumChunks(n) < NumChunks(n)
         /\ n = NumChunks(n) * (n \div NumChunks(n)) + (n % NumChunks(n))
<1> DEFINE k == NumChunks(n)
<1>0. MaxGroup \in Nat \ {0}
  BY SizesAssumption
<1>1. k \in Nat \ {0} /\ k <= n
  <2>1. n + MaxGroup - 1 \in Nat /\ k = (n + MaxGroup - 1) \div MaxGroup
    BY <1>0 DEF NumChunks
  <2>2. k \in Nat /\ k * MaxGroup <= n + MaxGroup - 1 /\ n + MaxGroup - 1 < (k + 1) * MaxGroup
    BY <1>0, <2>1
  <2>3. k # 0
    BY <1>0, <2>2
  <2>4. ASSUME k > n PROVE FALSE
    <3>1. k * MaxGroup >= (n + 1) * MaxGroup
      BY <1>0, <2>2, <2>4
    <3>2. (n + 1) * MaxGroup = n * MaxGroup + MaxGroup
      BY <1>0
    <3>3. n * MaxGroup >= n
      BY <1>0
    <3> QED BY <1>0, <2>2, <3>1, <3>2, <3>3
  <2> QED BY <2>2, <2>3, <2>4
<1> HIDE DEF k
<1>2. k >= 1 /\ k \in Int
  BY <1>1
<1>3. n % k \in Nat /\ n % k < k /\ n \div k \in Int
  BY <1>2
<1>4. n = k * (n \div k) + (n % k)
  BY <1>2, <1>3
<1>5. n \div k \in Nat \ {0}
  <2>1. CASE n \div k <= 0
    <3>1. k * (n \div k) <= 0
      BY <1>2, <1>3, <2>1
    <3> QED BY <1>1, <1>3, <1>4, <3>1
  <2> QED BY <1>3, <2>1
<1> QED BY <1>1, <1>3, <1>4, <1>5 DEF k

\* The chunks before the i-th hold i times the quotient, and one more each while the
\* rest lasts.
LEMMA StartIsSum ==
  ASSUME NEW n \in Nat, n > MaxGroup
  PROVE  \A i \in Nat : Start(n)[i] = i * (n \div NumChunks(n))
                                      + (IF i <= n % NumChunks(n) THEN i ELSE n % NumChunks(n))
<1> DEFINE base == n \div NumChunks(n)
           rest == n % NumChunks(n)
           Sum(i) == i * base + (IF i <= rest THEN i ELSE rest)
           Unfolds(f) == f = [i \in Nat |-> IF i = 0 THEN 0 ELSE f[i - 1] + ChunkSize(n, i)]
           g == [i \in Nat |-> Sum(i)]
<1>1. base \in Nat /\ rest \in Nat
  BY Division
<1>2. \A i \in Nat : ChunkSize(n, i) = base + (IF i <= rest THEN 1 ELSE 0)
  BY DEF ChunkSize
<1> HIDE DEF base, rest
<1>3. \A i \in Nat \ {0} : Sum(i) = Sum(i - 1) + ChunkSize(n, i)
  <2> SUFFICES ASSUME NEW i \in Nat \ {0} PROVE Sum(i) = Sum(i - 1) + ChunkSize(n, i)
    OBVIOUS
  <2>1. i * base = (i - 1) * base + base
    BY <1>1
  <2>2. (i - 1) * base \in Int /\ i * base \in Int
    BY <1>1
  <2> QED BY <1>1, <1>2, <2>1, <2>2
<1>4. Sum(0) = 0
  BY <1>1
<1> HIDE DEF Sum
<1>5. Unfolds(g)
  <2>1. \A i \in Nat : i # 0 => i - 1 \in Nat
    OBVIOUS
  <2>2. \A i \in Nat : g[i] = IF i = 0 THEN 0 ELSE g[i - 1] + ChunkSize(n, i)
    BY <1>3, <1>4, <2>1
  <2>3. g = [i \in Nat |-> g[i]]
    OBVIOUS
  <2> QED BY <2>2, <2>3
<1>6. Start(n) = CHOOSE f : Unfolds(f)
  BY DEF Start
<1> HIDE DEF g
<1>7. Unfolds(Start(n))
  BY <1>5, <1>6
<1>8. Start(n)[0] = 0 /\ \A i \in Nat \ {0} : Start(n)[i] = Start(n)[i - 1] + ChunkSize(n, i)
  <2> DEFINE f == Start(n)
  <2> HIDE DEF f
  <2>1. f = [i \in Nat |-> IF i = 0 THEN 0 ELSE f[i - 1] + ChunkSize(n, i)]
    BY <1>7 DEF f
  <2>2. f[0] = 0 /\ \A i \in Nat \ {0} : f[i] = f[i - 1] + ChunkSize(n, i)
    BY <2>1
  <2> QED BY <2>2 DEF f
<1> HIDE DEF Unfolds
<1>9. \A i \in Nat : Start(n)[i] = Sum(i)
  <2> DEFINE Wrong == {i \in Nat : Start(n)[i] # Sum(i)}
  <2>1. CASE Wrong # {}
    <3>1. PICK m \in Wrong : \A i \in Wrong : m <= i
      BY <2>1, LeastElement
    <3>2. m # 0
      BY <1>4, <1>8
    <3>3. m - 1 \in Nat /\ m - 1 \notin Wrong
      BY <3>1, <3>2
    <3>4. Start(n)[m] = Sum(m)
      BY <1>3, <1>8, <3>1, <3>2, <3>3
    <3> QED BY <3>1, <3>4
  <2> QED BY <2>1
<1> QED BY <1>9 DEF Sum, base, rest

\* Where the chunks start: one after the other, from the first member to the last.
LEMMA StartFacts ==
  ASSUME NEW n \in Nat, n > MaxGroup
  PROVE  /\ NumChunks(n) \in Nat \ {0} /\ Start(n)[0] = 0 /\ Start(n)[NumChunks(n)] = n
         /\ \A i \in Nat : Start(n)[i] \in Nat
         /\ \A i \in Nat \ {0} : ChunkSize(n, i) \in Nat \ {0} /\ Start(n)[i] = Start(n)[i - 1] + ChunkSize(n, i)
         /\ \A i, j \in Nat : i <= j => Start(n)[i] <= Start(n)[j]
<1> DEFINE k == NumChunks(n)
           base == n \div k
           rest == n % k
           f == Start(n)
<1>1. k \in Nat \ {0} /\ base \in Nat \ {0} /\ rest \in Nat /\ rest < k /\ n = k * base + rest
  BY Division
<1>2. \A i \in Nat : f[i] = i * base + (IF i <= rest THEN i ELSE rest)
  BY StartIsSum
<1>3. \A i \in Nat : ChunkSize(n, i) = base + (IF i <= rest THEN 1 ELSE 0)
  BY DEF ChunkSize
<1> HIDE DEF k, base, rest, f
<1>4. f[0] = 0 /\ f[k] = n
  <2>1. 0 * base = 0
    BY <1>1
  <2> QED BY <1>1, <1>2, <2>1
<1>5. \A i \in Nat : f[i] \in Nat
  <2>1. \A i \in Nat : i * base \in Nat
    BY <1>1
  <2> QED BY <1>1, <1>2, <2>1
<1>6. ASSUME NEW i \in Nat \ {0} PROVE ChunkSize(n, i) \in Nat \ {0} /\ f[i] = f[i - 1] + ChunkSize(n, i)
  <2>1. i * base = (i - 1) * base + base /\ (i - 1) * base \in Int
    BY <1>1
  <2>2. ChunkSize(n, i) = base + (IF i <= rest THEN 1 ELSE 0)
    BY <1>3
  <2>3. f[i] = i * base + (IF i <= rest THEN i ELSE rest)
    BY <1>2
  <2>4. f[i - 1] = (i - 1) * base + (IF i - 1 <= rest THEN i - 1 ELSE rest)
    BY <1>2
  <2> QED BY <1>1, <2>1, <2>2, <2>3, <2>4
<1>7. ASSUME NEW i \in Nat, NEW j \in Nat, i <= j PROVE f[i] <= f[j]
  <2>1. i * base <= j * base /\ i * base \in Int /\ j * base \in Int
    BY <1>1, <1>7
  <2>2. f[i] = i * base + (IF i <= rest THEN i ELSE rest)
    BY <1>2
  <2>3. f[j] = j * base + (IF j <= rest THEN j ELSE rest)
    BY <1>2
  <2> QED BY <1>1, <1>7, <2>1, <2>2, <2>3
<1> QED BY <1>1, <1>4, <1>5, <1>6, <1>7 DEF k, f

\* The ranks of a set's members number them in their order.
LEMMA RanksNumber ==
  ASSUME NEW S \in SUBSET Ids
  PROVE  /\ IsFiniteSet(S) /\ Cardinality(S) \in Nat
         /\ \A x \in S : Rank(x, S) \in 1..Cardinality(S)
         /\ \A x, y \in S : x < y <=> Rank(x, S) < Rank(y, S)
         /\ \A r \in 1..Cardinality(S) : \E x \in S : Rank(x, S) = r
<1> DEFINE n == Cardinality(S)
           Below(x) == {y \in S : y <= x}
<1>1. IsFiniteSet(S) /\ n \in Nat /\ \A x \in S : x \in Nat
  <2>1. IsFiniteSet(Ids) /\ \A x \in Ids : x \in Nat
    BY SizesAssumption, FS_Interval DEF Ids
  <2>2. IsFiniteSet(S)
    BY <2>1, FS_Subset
  <2> QED BY <2>1, <2>2, FS_CardinalityType
<1>2. \A x \in S : IsFiniteSet(Below(x)) /\ Below(x) \subseteq S /\ x \in Below(x)
  BY <1>1, FS_Subset
<1>3. \A x \in S : Rank(x, S) = Cardinality(Below(x))
  BY DEF Rank
<1>4. ASSUME NEW x \in S PROVE Rank(x, S) \in 1..n
  <2>1. Cardinality(Below(x)) \in Nat /\ Cardinality(Below(x)) <= n
    BY <1>1, <1>2, FS_Subset, FS_CardinalityType
  <2>2. Cardinality(Below(x)) # 0
    BY <1>2, FS_EmptySet
  <2> QED BY <1>1, <1>3, <2>1, <2>2
<1>5. ASSUME NEW x \in S, NEW y \in S, x < y PROVE Rank(x, S) < Rank(y, S)
  <2>1. Below(x) \subseteq Below(y) /\ y \notin Below(x) /\ y \in Below(y)
    BY <1>1, <1>5
  <2>2. Cardinality(Below(x)) <= Cardinality(Below(y)) /\ Cardinality(Below(x)) # Cardinality(Below(y))
    BY <1>2, <2>1, FS_Subset
  <2> QED BY <1>1, <1>3, <1>4, <2>2
<1> HIDE DEF n, Below
<1>6. \A x, y \in S : x < y <=> Rank(x, S) < Rank(y, S)
  <2> SUFFICES ASSUME NEW x \in S, NEW y \in S PROVE x < y <=> Rank(x, S) < Rank(y, S)
    OBVIOUS
  <2>1. x < y \/ x = y \/ y < x
    BY <1>1
  <2>2. Rank(x, S) \in Nat /\ Rank(y, S) \in Nat
    BY <1>1, <1>4
  <2> QED BY <1>1, <1>5, <2>1, <2>2
<1>7. \A r \in 1..n : \E x \in S : Rank(x, S) = r
  <2> DEFINE f == [x \in S |-> Rank(x, S)]
  <2>1. \A x, y \in S : f[x] = f[y] => x = y
    <3> SUFFICES ASSUME NEW x \in S, NEW y \in S, Rank(x, S) = Rank(y, S) PROVE x = y
      OBVIOUS
    <3>1. ~(x < y) /\ ~(y < x)
      BY <1>1, <1>4, <1>6
    <3> QED BY <1>1, <3>1
  <2>2. f \in [S -> 1..n]
    BY <1>4
  <2>3. IsFiniteSet(1..n) /\ Cardinality(1..n) = n
    BY <1>1, FS_Interval
  <2> HIDE DEF f
  <2>4. f \in Injection(S, 1..n)
    BY <2>1, <2>2 DEF Injection, IsInjective
  <2>5. f \in Surjection(S, 1..n)
    BY <2>3, <2>4, FS_Injection DEF n
  <2> QED BY <2>5 DEF Surjection, f
<1> QED BY <1>1, <1>4, <1>6, <1>7 DEF n

\* As many members have their rank between two bounds as there are ranks.
LEMMA SliceSize ==
  ASSUME NEW S \in SUBSET Ids, NEW a \in Nat, NEW b \in Nat, a <= b, b <= Cardinality(S)
  PROVE  Cardinality({x \in S : a < Rank(x, S) /\ Rank(x, S) <= b}) = b - a
<1> DEFINE T == {x \in S : a < Rank(x, S) /\ Rank(x, S) <= b}
           f == [x \in T |-> Rank(x, S)]
<1>1. /\ Cardinality(S) \in Nat /\ \A x \in S : Rank(x, S) \in Nat /\ x \in Nat
      /\ \A x, y \in S : x < y <=> Rank(x, S) < Rank(y, S)
      /\ \A r \in (a + 1)..b : \E x \in S : Rank(x, S) = r
  <2>1. (a + 1)..b \subseteq 1..Cardinality(S)
    BY RanksNumber
  <2>2. \A x \in S : x \in Nat
    BY SizesAssumption DEF Ids
  <2> QED BY <2>1, <2>2, RanksNumber
<1>2. f \in [T -> (a + 1)..b]
  BY <1>1
<1>3. \A x, y \in T : f[x] = f[y] => x = y
  <2> SUFFICES ASSUME NEW x \in T, NEW y \in T, Rank(x, S) = Rank(y, S) PROVE x = y
    OBVIOUS
  <2>1. ~(x < y) /\ ~(y < x)
    BY <1>1
  <2> QED BY <1>1, <2>1
<1>4. \A r \in (a + 1)..b : \E x \in T : f[x] = r
  BY <1>1
<1> HIDE DEF f
<1>5. f \in Bijection(T, (a + 1)..b)
  BY <1>2, <1>3, <1>4 DEF Bijection, Injection, Surjection, IsInjective
<1>6. IsFiniteSet(T)
  <2>1. IsFiniteSet(S) /\ T \in SUBSET S
    BY RanksNumber
  <2> QED BY <2>1, FS_Subset
<1> HIDE DEF T
<1>7. Cardinality((a + 1)..b) = Cardinality(T)
  BY <1>5, <1>6, FS_Bijection DEF ExistsBijection
<1>8. Cardinality((a + 1)..b) = b - a
  <2>1. Cardinality((a + 1)..b) = IF a + 1 > b THEN 0 ELSE b - (a + 1) + 1
    BY FS_Interval
  <2> QED BY <2>1
<1> QED BY <1>7, <1>8 DEF T

\* The groups of a cluster: none, it alone, or chunks of it in the order of its
\* members; no member is forgotten; and the sizes are bounded.
LEMMA ChunksDivide ==
  ASSUME NEW S \in SUBSET Ids
  PROVE  /\ Chunks(S) \in Seq(SUBSET S)
         /\ \A i \in 1..Len(Chunks(S)) : Chunks(S)[i] # {}
         /\ \A i, j \in 1..Len(Chunks(S)) : \A x \in Chunks(S)[i], y \in Chunks(S)[j] : i < j => x < y
         /\ \A x : (\E i \in 1..Len(Chunks(S)) : x \in Chunks(S)[i]) <=> x \in S /\ Cardinality(S) > 1
         /\ MaxGroup >= 3 => \A i \in 1..Len(Chunks(S)) : Cardinality(Chunks(S)[i]) \in 2..MaxGroup
<1> DEFINE n == Cardinality(S)
           c == Chunks(S)
<1>0. n \in Nat /\ MaxGroup \in Nat \ {0}
  BY RanksNumber, SizesAssumption
<1>1. CASE n < 2
  <2>1. c = <<>> /\ ~(n > 1)
    BY <1>0, <1>1 DEF Chunks
  <2> QED BY <2>1
<1>2. CASE n >= 2 /\ n <= MaxGroup
  <2>1. c = <<S>> /\ n > 1 /\ S # {}
    BY <1>0, <1>2, FS_EmptySet DEF Chunks
  <2>2. Len(c) = 1 /\ c[1] = S /\ c \in Seq(SUBSET S)
    BY <2>1
  <2> QED BY <1>0, <1>2, <2>1, <2>2
<1>3. CASE n > MaxGroup /\ n >= 2
  <2> DEFINE k == NumChunks(n)
             f == Start(n)
             Slice(i) == {x \in S : f[i - 1] < Rank(x, S) /\ Rank(x, S) <= f[i]}
  <2>1. c = [i \in 1..k |-> Slice(i)]
    BY <1>0, <1>3 DEF Chunks
  <2>2. /\ k \in Nat \ {0} /\ f[0] = 0 /\ f[k] = n
        /\ \A i \in Nat : f[i] \in Nat
        /\ \A i \in Nat \ {0} : ChunkSize(n, i) \in Nat \ {0} /\ f[i] = f[i - 1] + ChunkSize(n, i)
        /\ \A i, j \in Nat : i <= j => f[i] <= f[j]
    BY <1>0, <1>3, StartFacts
  <2>3. \A i \in 1..k : Slice(i) \in SUBSET S
    OBVIOUS
  <2> HIDE DEF k, f, c
  <2>4. c \in Seq(SUBSET S) /\ Len(c) = k /\ \A i \in 1..k : c[i] = Slice(i)
    BY <2>1, <2>2
  <2>5. ASSUME NEW i \in 1..k PROVE Cardinality(c[i]) = ChunkSize(n, i)
    <3>1. i - 1 \in Nat /\ i \in Nat \ {0} /\ f[i - 1] \in Nat /\ f[i] \in Nat /\ f[i] <= n
      BY <2>2
    <3>2. f[i] = f[i - 1] + ChunkSize(n, i) /\ ChunkSize(n, i) \in Nat
      BY <2>2, <3>1
    <3>3. Cardinality(Slice(i)) = f[i] - f[i - 1]
      BY <3>1, <3>2, SliceSize
    <3> HIDE DEF Slice
    <3> QED BY <2>4, <3>1, <3>2, <3>3
  <2>6. \A i \in 1..k : c[i] # {}
    <3> SUFFICES ASSUME NEW i \in 1..k, c[i] = {} PROVE FALSE
      OBVIOUS
    <3>1. i \in Nat \ {0} /\ Cardinality({}) = 0
      BY <2>2, FS_EmptySet
    <3> QED BY <2>2, <2>5, <3>1
  <2>7. ASSUME NEW i \in 1..k, NEW j \in 1..k, NEW x \in c[i], NEW y \in c[j], i < j PROVE x < y
    <3>1. i \in Nat /\ j - 1 \in Nat /\ i <= j - 1
      BY <2>2, <2>7
    <3>2. f[i] <= f[j - 1] /\ f[i] \in Nat /\ f[j - 1] \in Nat
      BY <2>2, <3>1
    <3>3. x \in S /\ y \in S /\ Rank(x, S) <= f[i] /\ f[j - 1] < Rank(y, S)
      BY <2>4
    <3>4. Rank(x, S) \in Nat /\ Rank(y, S) \in Nat
      BY <1>0, <3>3, RanksNumber
    <3>5. Rank(x, S) < Rank(y, S)
      BY <3>2, <3>3, <3>4
    <3> QED BY <3>3, <3>5, RanksNumber
  <2>8. ASSUME NEW x \in S PROVE \E i \in 1..k : x \in c[i]
    <3> DEFINE Ends == {i \in Nat : Rank(x, S) <= f[i]}
    <3>1. Rank(x, S) \in 1..n
      BY RanksNumber
    <3>2. k \in Ends
      BY <1>0, <2>2, <3>1
    <3>3. PICK m \in Ends : \A i \in Ends : m <= i
      BY <3>2, LeastElement
    <3>4. m # 0
      BY <1>0, <2>2, <3>1, <3>3
    <3>5. m \in 1..k /\ m - 1 \in Nat /\ m - 1 \notin Ends
      BY <2>2, <3>2, <3>3, <3>4
    <3>6. f[m - 1] < Rank(x, S) /\ Rank(x, S) <= f[m]
      BY <1>0, <2>2, <3>1, <3>3, <3>5
    <3> QED BY <2>4, <3>5, <3>6
  <2>9. MaxGroup >= 3 => \A i \in 1..k : Cardinality(c[i]) \in 2..MaxGroup
    BY <1>0, <1>3, <2>5, ChunkSizesAreBounded DEF k
  <2> HIDE DEF Slice
  <2>10. \A x : (\E i \in 1..Len(c) : x \in c[i]) <=> x \in S /\ n > 1
    <3>1. n > 1
      BY <1>0, <1>3
    <3>2. \A i \in 1..k : c[i] \subseteq S
      BY <2>3, <2>4
    <3> QED BY <2>4, <2>8, <3>1, <3>2
  <2> QED BY <2>4, <2>6, <2>7, <2>9, <2>10 DEF c
<1> QED BY <1>0, <1>1, <1>2, <1>3
-----------------------------------------------------------------------------
(* The clusters are the components of the signals.                         *)

IsRoot(r) == parent[r] = r

\* The records from which the forest leads up to r.
Rising(A) == \A x \in Ids : x \in A => parent[x] \in A
Tree(r) == {x \in Ids : \A A \in SUBSET Ids : Rising(A) /\ x \in A => r \in A}

\* A record is in the tree of one root, which is the least record there.
LEMMA TreeOfRoot ==
  ASSUME TypeOK, ForestInv, NEW r \in Ids, IsRoot(r)
  PROVE  /\ r \in Tree(r) /\ ParentClosed(Tree(r))
         /\ \A x \in Tree(r) : r <= x
         /\ \A s \in Ids : IsRoot(s) /\ s \in Tree(r) => s = r
<1>0. parent \in [Ids -> Ids] /\ parent[r] = r /\ \A x \in Ids : x \in Nat /\ parent[x] <= x
  BY SizesAssumption DEF TypeOK, ForestInv, IsRoot, Ids
<1>1. r \in Tree(r)
  BY DEF Tree
<1>2. ASSUME NEW x \in Ids PROVE x \in Tree(r) <=> parent[x] \in Tree(r)
  <2>1. ASSUME x \in Tree(r), NEW A \in SUBSET Ids, Rising(A), parent[x] \in A PROVE r \in A
    <3>1. Rising(A \cup {x})
      BY <2>1 DEF Rising
    <3>2. r \in A \cup {x}
      BY <2>1, <3>1 DEF Tree
    <3> QED BY <1>0, <2>1, <3>2
  <2>2. ASSUME parent[x] \in Tree(r), NEW A \in SUBSET Ids, Rising(A), x \in A PROVE r \in A
    BY <2>2 DEF Tree, Rising
  <2> QED BY <1>0, <2>1, <2>2 DEF Tree
<1>3. ASSUME NEW x \in Tree(r) PROVE r <= x
  <2> DEFINE A == {y \in Ids : y <= x}
  <2>1. x \in Ids
    BY DEF Tree
  <2>2. Rising(A) /\ x \in A
    <3> SUFFICES ASSUME NEW y \in Ids, y <= x PROVE parent[y] <= x
      BY <1>0, <2>1 DEF Rising
    <3>1. parent[y] \in Nat /\ y \in Nat /\ x \in Nat /\ parent[y] <= y
      BY <1>0, <2>1
    <3> QED BY <3>1
  <2> QED BY <2>1, <2>2 DEF Tree
<1>4. ASSUME NEW s \in Ids, IsRoot(s), s \in Tree(r) PROVE s = r
  <2>1. Rising({s})
    BY <1>4 DEF Rising, IsRoot
  <2> QED BY <1>4, <2>1 DEF Tree
<1> QED BY <1>1, <1>2, <1>3, <1>4 DEF ParentClosed

\* Two roots are not joined.
LEMMA RootsApart ==
  ASSUME TypeOK, ForestInv, NEW r \in Ids, IsRoot(r), NEW x \in Ids, Joined(r, x)
  PROVE  r <= x /\ (IsRoot(x) => x = r)
<1>1. Tree(r) \in SUBSET Ids /\ r \in Tree(r) /\ ParentClosed(Tree(r))
  BY TreeOfRoot DEF Tree
<1>2. x \in Tree(r)
  BY <1>1 DEF Joined
<1> QED BY <1>2, TreeOfRoot

\* What is collected stands with a root it is joined with; what is not collected yet is
\* still to be, or being collected.
ClusterInv ==
    /\ pc \in {"pairs", "first", "second"} => uncollected = Ids /\ clusters = [x \in Ids |-> {}]
    /\ \A r \in Ids : \A x \in clusters[r] : IsRoot(r) /\ Joined(x, r)
    /\ pc \in {"collect", "root", "emit", "done"} =>
          \A x \in Ids \ uncollected : (\E r \in Ids : x \in clusters[r]) \/ (pc = "root" /\ x = partner)
    /\ pc = "root" => Joined(partner, node)
    /\ pc \in {"emit", "done"} => uncollected = {}

\* Every step keeps the clusters so.
LEMMA ClusterStep == TypeOK /\ ForestInv /\ ClusterInv /\ [Next]_vars => ClusterInv'
<1> SUFFICES ASSUME TypeOK, ForestInv, ClusterInv, [Next]_vars PROVE ClusterInv'
  OBVIOUS
<1>0. clusters \in [Ids -> SUBSET Ids] /\ parent \in [Ids -> Ids]
  BY DEF TypeOK
<1>1. UNCHANGED parent => /\ \A r : IsRoot(r)' <=> IsRoot(r)
                          /\ \A a, b : Joined(a, b)' <=> Joined(a, b)
  BY DEF IsRoot, Joined, ParentClosed
<1>2. CASE TakePair \/ FirstFound
  <2>1. pc' \in {"first", "second"} /\ pc \in {"pairs", "first"} /\ UNCHANGED <<parent, uncollected, clusters>>
    BY <1>2 DEF TakePair, FirstFound
  <2> QED BY <1>0, <1>1, <2>1 DEF ClusterInv
<1>3. CASE Halve
  <2>1. /\ pc \in {"first", "second", "root"} /\ ~IsRoot(node) /\ node \in Ids
        /\ parent' = [parent EXCEPT ![node] = parent[parent[node]]]
        /\ node' = parent[parent[node]]
        /\ UNCHANGED <<pc, partner, uncollected, clusters>>
    BY <1>3 DEF Halve, IsRoot, TypeOK
  <2>2. \A r \in Ids : IsRoot(r) => IsRoot(r)'
    BY <1>0, <2>1 DEF IsRoot
  <2>3. \A a, b : Joined(a, b)' <=> Joined(a, b)
    BY <1>3, HalvingKeepsClosed DEF Joined
  <2>4. Joined(node, node')
    BY <1>0, <2>1 DEF Joined, ParentClosed
  <2>5. pc = "root" => Joined(partner, node')
    BY <2>4 DEF ClusterInv, Joined
  <2>6. pc = "root" => Joined(partner, node)'
    BY <2>1, <2>3, <2>5 DEF Joined
  <2> QED BY <2>1, <2>2, <2>3, <2>6 DEF ClusterInv
<1>4. CASE Union
  <2>1. pc = "second" /\ pc' = "pairs" /\ UNCHANGED <<uncollected, clusters>>
    BY <1>4 DEF Union
  <2> QED BY <2>1 DEF ClusterInv
<1>5. CASE EndPairs
  <2>1. pc = "pairs" /\ pc' = "collect" /\ UNCHANGED <<parent, uncollected, clusters>>
    BY <1>5 DEF EndPairs
  <2> QED BY <1>1, <2>1 DEF ClusterInv
<1>6. CASE Collect
  <2>1. /\ pc = "collect" /\ pc' = "root" /\ UNCHANGED <<parent, clusters>>
        /\ \E x \in uncollected : node' = x /\ partner' = x /\ uncollected' = uncollected \ {x}
    BY <1>6 DEF Collect
  <2>2. Joined(partner, node)'
    BY <2>1 DEF Joined
  <2> QED BY <1>1, <2>1, <2>2 DEF ClusterInv
<1>7. CASE RootFound
  <2>1. /\ pc = "root" /\ pc' = "collect" /\ IsRoot(node) /\ node \in Ids /\ partner \in Ids
        /\ clusters' = [clusters EXCEPT ![node] = @ \cup {partner}] /\ UNCHANGED <<parent, uncollected>>
    BY <1>7 DEF RootFound, IsRoot, TypeOK
  <2>2. \A r \in Ids : clusters'[r] = IF r = node THEN clusters[r] \cup {partner} ELSE clusters[r]
    BY <1>0, <2>1
  <2>3. Joined(partner, node)
    BY <2>1 DEF ClusterInv
  <2>4. \A r \in Ids : \A x \in clusters'[r] : IsRoot(r) /\ Joined(x, r)
    BY <2>1, <2>2, <2>3 DEF ClusterInv
  <2>5. \A x \in Ids \ uncollected : \E r \in Ids : x \in clusters'[r]
    BY <2>1, <2>2 DEF ClusterInv
  <2> QED BY <1>1, <2>1, <2>4, <2>5 DEF ClusterInv
<1>8. CASE EndCollect
  <2>1. pc = "collect" /\ pc' = "emit" /\ uncollected = {} /\ UNCHANGED <<parent, uncollected, clusters>>
    BY <1>8 DEF EndCollect
  <2> QED BY <1>1, <2>1 DEF ClusterInv
<1>9. CASE Emit \/ Done
  <2>1. pc = "emit" /\ pc' \in {"emit", "done"} /\ UNCHANGED <<parent, uncollected, clusters>>
    BY <1>9 DEF Emit, Done
  <2> QED BY <1>1, <2>1 DEF ClusterInv
<1>10. CASE UNCHANGED vars
  BY <1>1, <1>10 DEF ClusterInv, vars
<1> QED BY <1>2, <1>3, <1>4, <1>5, <1>6, <1>7, <1>8, <1>9, <1>10 DEF Next

\* Once the pairs are joined, two records are joined when no set that respects the
\* signals separates them.
LEMMA JoinedIsComponent ==
  ASSUME ForestIsSignalComponents, pc \in {"collect", "root", "emit", "done"},
         NEW x \in Ids, NEW y \in Ids
  PROVE  y \in Component(x) <=> Joined(x, y)
<1>1. \A S \in SUBSET Ids : ParentClosed(S) <=> SignalClosed(S)
  BY DEF ForestIsSignalComponents
<1>2. Joined(x, y) => y \in Component(x)
  BY <1>1 DEF Joined, Component
<1>3. ASSUME y \in Component(x), NEW S \in SUBSET Ids, SignalClosed(S) PROVE x \in S <=> y \in S
  <2>1. x \in S => y \in S
    BY <1>3 DEF Component
  <2>2. SignalClosed(Ids \ S) /\ Ids \ S \in SUBSET Ids
    BY <1>3 DEF SignalClosed
  <2>3. x \in Ids \ S => y \in Ids \ S
    BY <1>3, <2>2 DEF Component
  <2> QED BY <2>1, <2>3
<1> QED BY <1>1, <1>2, <1>3 DEF Joined

\* The cluster of a root is the component of which it is the least record; no other
\* record has one.
LEMMA ClustersAreComponents ==
  ASSUME TypeOK, ForestInv, ForestIsSignalComponents, ClusterInv, pc \in {"emit", "done"},
         NEW r \in Ids
  PROVE  clusters[r] = IF r \in Leasts THEN Component(r) ELSE {}
<1>0. \A x \in Ids : x \in Nat
  BY SizesAssumption DEF Ids
<1>1. \A x, y \in Ids : y \in Component(x) <=> Joined(x, y)
  BY JoinedIsComponent
<1>2. \A x \in Ids : Component(x) \in SUBSET Ids
  BY DEF Component
<1>3. \A x \in Ids : \E s \in Ids : x \in clusters[s]
  BY DEF ClusterInv
<1>4. \A s \in Ids : \A x \in clusters[s] : x \in Ids /\ IsRoot(s) /\ Joined(x, s)
  BY DEF ClusterInv, TypeOK
<1>5. ASSUME IsRoot(r) PROVE r \in Leasts /\ clusters[r] = Component(r)
  <2>1. \A y \in Component(r) : r <= y
    BY <1>1, <1>2, <1>5, RootsApart
  <2>2. ASSUME NEW y \in Component(r) PROVE y \in clusters[r]
    <3>1. PICK s \in Ids : y \in clusters[s]
      BY <1>2, <1>3
    <3>2. Joined(r, s) /\ IsRoot(s)
      BY <1>1, <1>2, <1>4, <3>1 DEF Joined
    <3>3. s = r
      BY <1>5, <3>2, RootsApart
    <3> QED BY <3>1, <3>3
  <2>3. \A y \in clusters[r] : y \in Component(r)
    BY <1>1, <1>4 DEF Joined
  <2> QED BY <2>1, <2>2, <2>3 DEF Leasts
<1>6. ASSUME r \in Leasts PROVE IsRoot(r)
  <2>1. PICK s \in Ids : r \in clusters[s]
    BY <1>3
  <2>2. IsRoot(s) /\ Joined(r, s) /\ Joined(s, r)
    BY <1>4, <2>1 DEF Joined
  <2>3. r <= s /\ s <= r
    BY <1>1, <1>6, <2>2, RootsApart DEF Leasts
  <2>4. r = s
    BY <1>0, <2>3
  <2> QED BY <2>2, <2>4
<1>7. ~IsRoot(r) => clusters[r] = {}
  BY <1>4
<1> QED BY <1>5, <1>6, <1>7

\* No record is in two clusters.
LEMMA ClustersApart ==
  ASSUME TypeOK, ForestInv, ClusterInv, NEW r \in Ids, NEW s \in Ids,
         NEW x \in clusters[r], x \in clusters[s]
  PROVE  r = s
<1>1. IsRoot(r) /\ IsRoot(s) /\ Joined(x, r) /\ Joined(x, s)
  BY DEF ClusterInv
<1> QED BY <1>1, RootsApart DEF Joined
-----------------------------------------------------------------------------
(* The groups.                                                             *)

\* The groups g are those of the first m clusters of c.
Grouped(g, c, m) ==
    /\ g \in Seq(SUBSET Ids)
    /\ \A i \in 1..Len(g) : g[i] # {} /\ \E r \in 1..m : g[i] \subseteq c[r]
    /\ \A i, j \in 1..Len(g) : \A x \in g[i], y \in g[j] : \A r \in Ids :
          i < j /\ x \in c[r] /\ y \in c[r] => x < y
    /\ \A i, j \in 1..Len(g) : \A r, s \in Ids :
          i < j /\ g[i] \subseteq c[r] /\ g[j] \subseteq c[s] => r <= s
    /\ \A x : (\E i \in 1..Len(g) : x \in g[i])
                 <=> \E r \in 1..m : x \in c[r] /\ Cardinality(c[r]) > 1
    /\ MaxGroup >= 3 => \A i \in 1..Len(g) : Cardinality(g[i]) \in 2..MaxGroup

GroupsInv ==
    /\ pc \notin {"emit", "done"} => groups = <<>>
    /\ pc = "emit" => node >= 1 /\ Grouped(groups, clusters, node - 1)
    /\ pc = "done" => Grouped(groups, clusters, N)

\* A cluster adds its chunks.
LEMMA GroupsGrow ==
  ASSUME TypeOK, ForestInv, ClusterInv, NEW m \in Ids, Grouped(groups, clusters, m - 1)
  PROVE  Grouped(groups \o Chunks(clusters[m]), clusters, m)
<1> DEFINE c == Chunks(clusters[m])
           n == Len(groups)
           g == groups \o c
<1>0. clusters[m] \in SUBSET Ids /\ m \in Nat /\ N \in Nat /\ Ids = 1..N
      /\ \A r \in 1..m : r \in Ids /\ (r = m \/ r \in 1..(m - 1))
  BY SizesAssumption DEF TypeOK, Ids
<1>1. /\ c \in Seq(SUBSET clusters[m])
      /\ \A i \in 1..Len(c) : c[i] # {}
      /\ \A i, j \in 1..Len(c) : \A x \in c[i], y \in c[j] : i < j => x < y
      /\ \A x : (\E i \in 1..Len(c) : x \in c[i]) <=> x \in clusters[m] /\ Cardinality(clusters[m]) > 1
      /\ MaxGroup >= 3 => \A i \in 1..Len(c) : Cardinality(c[i]) \in 2..MaxGroup
  BY <1>0, ChunksDivide
<1> HIDE DEF c
<1>2. groups \in Seq(SUBSET Ids) /\ n \in Nat /\ Len(c) \in Nat /\ c \in Seq(SUBSET Ids)
  <2>1. c \in Seq(SUBSET Ids)
    <3>1. SUBSET clusters[m] \subseteq SUBSET Ids
      BY <1>0
    <3>2. \A i \in 1..Len(c) : c[i] \in SUBSET Ids
      BY <1>1, <3>1
    <3> QED BY <1>1, <3>2
  <2> QED BY <2>1 DEF Grouped
<1>3. /\ g \in Seq(SUBSET Ids) /\ Len(g) = n + Len(c)
      /\ \A i \in 1..n : g[i] = groups[i]
      /\ \A i \in 1..Len(c) : g[n + i] = c[i]
  BY <1>2
<1>4. \A i \in 1..Len(g) : i \in 1..n \/ (i > n /\ i - n \in 1..Len(c) /\ g[i] = c[i - n])
  BY <1>2, <1>3
<1> HIDE DEF g, n
<1>5. \A i \in 1..n : g[i] = groups[i] /\ g[i] # {} /\ \E r \in 1..(m - 1) : g[i] \subseteq clusters[r]
  BY <1>3 DEF Grouped, n
<1>6. \A i \in 1..Len(g) : i \notin 1..n => g[i] # {} /\ g[i] \subseteq clusters[m]
  BY <1>1, <1>4
<1>7. \A i \in 1..Len(g) : g[i] # {} /\ \E r \in 1..m : g[i] \subseteq clusters[r]
  BY <1>0, <1>5, <1>6
<1>8. ASSUME NEW i \in 1..Len(g), NEW j \in 1..Len(g), NEW x \in g[i], NEW y \in g[j], NEW r \in Ids,
             i < j, x \in clusters[r], y \in clusters[r]
      PROVE  x < y
  <2>1. CASE i \in 1..n /\ j \in 1..n
    BY <1>3, <1>8, <2>1 DEF Grouped, n
  <2>2. CASE i \in 1..n /\ j \notin 1..n
    <3>1. PICK s \in 1..(m - 1) : x \in clusters[s]
      BY <1>5, <1>8, <2>2
    <3>2. s \in Ids /\ s # m /\ y \in clusters[m]
      BY <1>0, <1>6, <1>8, <2>2
    <3>3. r = s /\ r = m
      BY <1>8, <3>1, <3>2, ClustersApart
    <3> QED BY <3>2, <3>3
  <2>3. CASE i \notin 1..n /\ j \notin 1..n
    BY <1>1, <1>2, <1>4, <1>8, <2>3
  <2>4. ~(i \notin 1..n /\ j \in 1..n)
    BY <1>2, <1>4, <1>8
  <2> QED BY <2>1, <2>2, <2>3, <2>4
<1>9. ASSUME NEW i \in 1..Len(g), NEW j \in 1..Len(g), NEW r \in Ids, NEW s \in Ids, i < j,
             g[i] \subseteq clusters[r], g[j] \subseteq clusters[s]
      PROVE  r <= s
  <2>1. CASE i \in 1..n /\ j \in 1..n
    BY <1>3, <1>9, <2>1 DEF Grouped, n
  <2>2. CASE j \notin 1..n
    <3>1. PICK t \in 1..m : g[i] \subseteq clusters[t]
      BY <1>7
    <3>2. t \in Ids /\ t <= m
      BY <1>0
    <3>3. s = m
      BY <1>6, <1>9, <2>2, ClustersApart
    <3>4. r = t
      BY <1>7, <1>9, <3>1, <3>2, ClustersApart
    <3> QED BY <3>2, <3>3, <3>4
  <2>3. ~(i \notin 1..n /\ j \in 1..n)
    BY <1>2, <1>4, <1>9
  <2> QED BY <2>1, <2>2, <2>3
<1>10. ASSUME NEW x
       PROVE  (\E i \in 1..Len(g) : x \in g[i])
                 <=> \E r \in 1..m : x \in clusters[r] /\ Cardinality(clusters[r]) > 1
  <2>1. (\E i \in 1..Len(g) : x \in g[i]) <=> (\E i \in 1..n : x \in groups[i]) \/ (\E i \in 1..Len(c) : x \in c[i])
    <3>1. \A i \in 1..n : i \in 1..Len(g)
      BY <1>2, <1>3
    <3>2. \A i \in 1..Len(c) : n + i \in 1..Len(g)
      BY <1>2, <1>3
    <3> QED BY <1>3, <1>4, <3>1, <3>2
  <2>2. (\E i \in 1..n : x \in groups[i])
           <=> \E r \in 1..(m - 1) : x \in clusters[r] /\ Cardinality(clusters[r]) > 1
    BY DEF Grouped, n
  <2>3. m \in 1..m /\ \A r \in 1..(m - 1) : r \in 1..m
    BY <1>0
  <2> QED BY <1>0, <1>1, <2>1, <2>2, <2>3
<1>11. MaxGroup >= 3 => \A i \in 1..Len(g) : Cardinality(g[i]) \in 2..MaxGroup
  BY <1>1, <1>3, <1>4 DEF Grouped, n
<1>12. Grouped(g, clusters, m)
  BY <1>3, <1>7, <1>8, <1>9, <1>10, <1>11 DEF Grouped
<1> QED BY <1>12 DEF g, c

\* Every step keeps the groups so.
LEMMA GroupsStep == TypeOK /\ ForestInv /\ ClusterInv /\ GroupsInv /\ [Next]_vars => GroupsInv'
<1> SUFFICES ASSUME TypeOK, ForestInv, ClusterInv, GroupsInv, [Next]_vars PROVE GroupsInv'
  OBVIOUS
<1>1. CASE TakePair \/ Halve \/ FirstFound \/ Union \/ EndPairs \/ Collect \/ RootFound
  <2>1. pc \notin {"emit", "done"} /\ pc' \notin {"emit", "done"} /\ groups' = groups
    BY <1>1 DEF TakePair, Halve, FirstFound, Union, EndPairs, Collect, RootFound
  <2> QED BY <2>1 DEF GroupsInv
<1>2. CASE EndCollect
  <2>1. pc = "collect" /\ pc' = "emit" /\ node' = 1 /\ groups' = groups /\ groups = <<>>
    BY <1>2 DEF EndCollect, GroupsInv
  <2>2. \A c : Grouped(<<>>, c, 0)
    BY DEF Grouped
  <2>3. Grouped(groups', clusters', node' - 1)
    BY <2>1, <2>2
  <2> QED BY <2>1, <2>3 DEF GroupsInv
<1>3. CASE Emit
  <2>1. /\ pc = "emit" /\ pc' = "emit" /\ node' = node + 1 /\ clusters' = clusters
        /\ groups' = groups \o Chunks(clusters[node]) /\ node \in Ids
    BY <1>3, SizesAssumption DEF Emit, GroupsInv, TypeOK, Ids
  <2>2. Grouped(groups, clusters, node - 1)
    BY <2>1 DEF GroupsInv
  <2>3. Grouped(groups', clusters', node)
    BY <2>1, <2>2, GroupsGrow
  <2>4. node' >= 1 /\ node' - 1 = node
    BY <2>1, SizesAssumption DEF Ids
  <2>5. Grouped(groups', clusters', node' - 1)
    BY <2>3, <2>4
  <2> QED BY <2>1, <2>4, <2>5 DEF GroupsInv
<1>4. CASE Done
  <2>1. pc = "emit" /\ pc' = "done" /\ node - 1 = N /\ UNCHANGED <<groups, clusters>>
    BY <1>4, SizesAssumption DEF Done
  <2>2. Grouped(groups, clusters, N)
    BY <2>1 DEF GroupsInv
  <2>3. Grouped(groups', clusters', N)
    BY <2>1, <2>2
  <2> QED BY <2>1, <2>3 DEF GroupsInv
<1>5. CASE UNCHANGED vars
  <2>1. UNCHANGED <<pc, node, groups, clusters>>
    BY <1>5 DEF vars
  <2>2. pc = "emit" => Grouped(groups', clusters', node' - 1)
    BY <2>1 DEF GroupsInv
  <2>3. pc = "done" => Grouped(groups', clusters', N)
    BY <2>1 DEF GroupsInv
  <2> QED BY <2>1, <2>2, <2>3 DEF GroupsInv
<1> QED BY <1>1, <1>2, <1>3, <1>4, <1>5 DEF Next

\* The first state has neither clusters nor groups.
LEMMA GroupsInit == Init => ClusterInv /\ GroupsInv
  BY DEF Init, ClusterInv, GroupsInv

\* The clusters and the groups are so throughout.
LEMMA GroupsHold == Spec => [](IInv /\ ForestIsSignalComponents /\ ClusterInv /\ GroupsInv)
<1>1. ClusterInv /\ GroupsInv /\ IInv /\ [Next]_vars => ClusterInv' /\ GroupsInv'
  BY ClusterStep, GroupsStep DEF IInv
<1>2. Spec => []IInv
  BY InductiveInvariant
<1>3. Spec => [](ClusterInv /\ GroupsInv)
  BY <1>1, <1>2, GroupsInit, PTL DEF Spec
<1> QED BY <1>2, <1>3, ForestMatchesSignals, PTL

\* Groups made so follow from the signals.
LEMMA GroupsOfSignals ==
  IInv /\ ForestIsSignalComponents /\ ClusterInv /\ GroupsInv => GroupsFollowFromSignals
<1> SUFFICES ASSUME TypeOK, ForestInv, ForestIsSignalComponents, ClusterInv, GroupsInv, pc = "done"
             PROVE  GroupsFollowFromSignals
  BY DEF IInv, GroupsFollowFromSignals
<1> DEFINE n == Len(groups)
<1>0. Grouped(groups, clusters, N) /\ Ids = 1..N
  BY DEF GroupsInv, Ids
<1>1. \A r \in Ids : clusters[r] = IF r \in Leasts THEN Component(r) ELSE {}
  BY ClustersAreComponents
<1>2. Leasts \subseteq Ids /\ \A x \in Ids : Component(x) \subseteq Ids
  BY DEF Leasts, Component
<1>3. \A i \in 1..n : \E r \in Leasts : groups[i] # {} /\ groups[i] \subseteq Component(r)
  <2> SUFFICES ASSUME NEW i \in 1..n
               PROVE  \E r \in Leasts : groups[i] # {} /\ groups[i] \subseteq Component(r)
    OBVIOUS
  <2>1. PICK r \in Ids : groups[i] # {} /\ groups[i] \subseteq clusters[r]
    BY <1>0 DEF Grouped
  <2> QED BY <1>1, <2>1
<1>4. \A x, y \in Ids : y \in Component(x) <=> Joined(x, y)
  BY JoinedIsComponent
<1>5. \A r, x, y \in Ids : x \in Component(r) /\ Component(x) = Component(y) => y \in Component(r)
  BY <1>4 DEF Joined
<1>6. ASSUME NEW i \in 1..n, NEW j \in 1..n, NEW x \in groups[i], NEW y \in groups[j],
             i < j, Component(x) = Component(y)
      PROVE  x < y
  <2>1. PICK r \in Leasts : groups[i] \subseteq Component(r)
    BY <1>3
  <2>2. r \in Ids /\ x \in Ids /\ y \in Ids
    BY <1>2, <1>3, <2>1
  <2>3. x \in clusters[r] /\ y \in clusters[r]
    BY <1>1, <1>5, <1>6, <2>1, <2>2
  <2> QED BY <1>0, <1>6, <2>2, <2>3 DEF Grouped
<1>7. ASSUME NEW i \in 1..n, NEW j \in 1..n, NEW x \in Leasts, NEW y \in Leasts,
             i < j, groups[i] \subseteq Component(x), groups[j] \subseteq Component(y)
      PROVE  x <= y
  <2>1. x \in Ids /\ y \in Ids /\ clusters[x] = Component(x) /\ clusters[y] = Component(y)
    BY <1>1, <1>2
  <2>2. groups[i] \subseteq clusters[x] /\ groups[j] \subseteq clusters[y]
    BY <1>7, <2>1
  <2> QED BY <1>0, <1>7, <2>1, <2>2 DEF Grouped
<1>8. ASSUME NEW x
      PROVE  x \in UNION {groups[i] : i \in 1..n} <=> x \in {y \in Ids : Cardinality(Component(y)) > 1}
  <2>1. x \in UNION {groups[i] : i \in 1..n} <=> \E r \in Ids : x \in clusters[r] /\ Cardinality(clusters[r]) > 1
    <3>1. x \in UNION {groups[i] : i \in 1..n} <=> \E i \in 1..n : x \in groups[i]
      OBVIOUS
    <3> QED BY <1>0, <3>1 DEF Grouped
  <2>2. ASSUME NEW r \in Leasts, x \in Component(r) PROVE x \in Ids /\ Component(x) = Component(r)
    <3>1. x \in Ids /\ r \in Ids
      BY <1>2, <2>2
    <3>2. \A z \in Ids : z \in Component(x) <=> z \in Component(r)
      BY <1>4, <2>2, <3>1 DEF Joined
    <3> QED BY <1>2, <3>1, <3>2
  <2>3. ASSUME x \in Ids PROVE \E r \in Leasts : x \in Component(r)
    <3>1. PICK r \in Ids : x \in clusters[r]
      BY <2>3 DEF ClusterInv
    <3> QED BY <1>1, <3>1
  <2> QED BY <1>1, <1>2, <2>1, <2>2, <2>3
<1> QED BY <1>3, <1>6, <1>7, <1>8 DEF GroupsFollowFromSignals

\* The groups given to the adjudicator follow from the signals alone: each component
\* of two or more records, in the order of its least id, cut into consecutive chunks
\* that cover it, in whatever order the corpus lists the records.
THEOREM GroupsFollow == Spec => []GroupsFollowFromSignals
  BY GroupsHold, GroupsOfSignals, PTL

\* No group exceeds the limit and none is a single record, for every limit of three
\* or more; a limit of one or two cannot be kept by an odd cluster.
THEOREM GroupsBounded == MaxGroup >= 3 => (Spec => []ChunksAreBounded)
<1> SUFFICES ASSUME MaxGroup >= 3 PROVE Spec => []ChunksAreBounded
  OBVIOUS
<1>1. GroupsInv => ChunksAreBounded
  BY DEF GroupsInv, Grouped, ChunksAreBounded
<1> QED BY <1>1, GroupsHold, PTL
=============================================================================
