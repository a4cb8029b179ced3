-------------------------- MODULE ClusterCandidates --------------------------
(***************************************************************************)
(* `apd-gauntlet cluster-candidates` (synthesis/cluster.py): the records   *)
(* of one kind are grouped by a union-find over the pairs that share a     *)
(* signal, and a group that is too large is split into chunks.  The        *)
(* adjudicator judges each group by itself, so what this step separates is *)
(* never merged, and what it joins may be.                                 *)
(*                                                                         *)
(* Records are numbered in the order of their ids, which are unique once   *)
(* the run is canonicalized.  The order of the records in the corpus,      *)
(* which is that of the files, is left open: the loops over it take their  *)
(* next element nondeterministically.                                      *)
(***************************************************************************)
EXTENDS Integers, Sequences, FiniteSets

CONSTANTS
    N,          \* records of the kind
    MaxGroup    \* --max-group-size

Ids == 1..N

ASSUME SizesAssumption == N \in Nat /\ MaxGroup \in Nat \ {0}

VARIABLES
    signals,    \* the pairs of records with a signal between them
    todo,       \* pairs the loop has still to join
    parent,     \* the union-find forest
    pc,         \* "pairs", "first", "second", "collect", "root", "emit", "done"
    node,       \* where the find in progress stands
    partner,    \* the second record of the pair, then the first one's root
    uncollected, clusters,  \* records by root
    groups      \* the candidate groups emitted: a sequence of sets of records

vars == <<signals, todo, parent, pc, node, partner, uncollected, clusters, groups>>

Pairs == {{a, b} : a, b \in Ids} \ {{a} : a \in Ids}

Lower(a, b) == IF a <= b THEN a ELSE b
Upper(a, b) == IF a <= b THEN b ELSE a

-----------------------------------------------------------------------------
(* How a cluster of n > MaxGroup members is divided: evenly, the first     *)
(* chunks taking what is left over.                                        *)

NumChunks(n) == (n + MaxGroup - 1) \div MaxGroup

\* Mutants of ChunkSize: full chunks, then the rest; the rest is forgotten.
ChunkSizeGreedy(n, i) == IF i < NumChunks(n) THEN MaxGroup ELSE n - (i - 1) * MaxGroup

ChunkSizeNoRest(n, i) == n \div NumChunks(n)

ChunkSize(n, i) == n \div NumChunks(n) + (IF i <= n % NumChunks(n) THEN 1 ELSE 0)

\* The members of the first i chunks, where the next one starts.
Start(n) ==
    LET start[i \in Nat] == IF i = 0 THEN 0 ELSE start[i - 1] + ChunkSize(n, i)
    IN  start

Rank(x, S) == Cardinality({y \in S : y <= x})

\* The groups one cluster gives, in the order of their members.
Chunks(S) ==
    LET n == Cardinality(S) IN
    IF n < 2 THEN <<>>
    ELSE IF n <= MaxGroup THEN <<S>>
    ELSE [i \in 1..NumChunks(n) |->
            {x \in S : Start(n)[i - 1] < Rank(x, S) /\ Rank(x, S) <= Start(n)[i]}]

-----------------------------------------------------------------------------
Init ==
    /\ signals \in SUBSET Pairs
    /\ todo = signals
    /\ parent = [x \in Ids |-> x]
    /\ pc = "pairs" /\ node = 0 /\ partner = 0
    /\ uncollected = Ids /\ clusters = [x \in Ids |-> {}]
    /\ groups = <<>>

\* The next pair of the double loop that has a signal; union begins with its first.
TakePair ==
    /\ pc = "pairs"
    /\ \E a, b \in Ids : /\ a # b /\ {a, b} \in todo
                         /\ todo' = todo \ {{a, b}}
                         /\ node' = a /\ partner' = b
    /\ pc' = "first"
    /\ UNCHANGED <<signals, parent, uncollected, clusters, groups>>

\* One turn of find's loop, with path halving.
Halve ==
    /\ pc \in {"first", "second", "root"} /\ parent[node] # node
    /\ parent' = [parent EXCEPT ![node] = parent[parent[node]]]
    /\ node' = parent[parent[node]]
    /\ UNCHANGED <<signals, todo, pc, partner, uncollected, clusters, groups>>

\* Mutants of FirstFound: the first find stops at a parent; a rank is taken for a
\* record.
FirstFoundEarly ==
    /\ pc = "first"
    /\ node' = partner /\ partner' = parent[node]
    /\ pc' = "second"
    /\ UNCHANGED <<signals, todo, parent, uncollected, clusters, groups>>

FirstFoundShifted ==
    /\ pc = "first" /\ parent[node] = node
    /\ node' = partner /\ partner' = node - 1
    /\ pc' = "second"
    /\ UNCHANGED <<signals, todo, parent, uncollected, clusters, groups>>

FirstFound ==
    /\ pc = "first" /\ parent[node] = node
    /\ node' = partner /\ partner' = node
    /\ pc' = "second"
    /\ UNCHANGED <<signals, todo, parent, uncollected, clusters, groups>>

\* Mutant of Union: the second root goes under the first, whatever their order.
UnionUnordered ==
    /\ pc = "second" /\ parent[node] = node
    /\ parent' = [parent EXCEPT ![node] = partner]
    /\ pc' = "pairs" /\ node' = 0 /\ partner' = 0
    /\ UNCHANGED <<signals, todo, uncollected, clusters, groups>>

\* Both roots are found: the greater goes under the lesser.
Union ==
    /\ pc = "second" /\ parent[node] = node
    /\ parent' = [parent EXCEPT ![Upper(partner, node)] = Lower(partner, node)]
    /\ pc' = "pairs" /\ node' = 0 /\ partner' = 0
    /\ UNCHANGED <<signals, todo, uncollected, clusters, groups>>

EndPairs ==
    /\ pc = "pairs" /\ todo = {}
    /\ pc' = "collect"
    /\ UNCHANGED <<signals, todo, parent, node, partner, uncollected, clusters, groups>>

\* Each record is put with its root.
Collect ==
    /\ pc = "collect"
    /\ \E r \in uncollected : node' = r /\ partner' = r /\ uncollected' = uncollected \ {r}
    /\ pc' = "root"
    /\ UNCHANGED <<signals, todo, parent, clusters, groups>>

RootFound ==
    /\ pc = "root" /\ parent[node] = node
    /\ clusters' = [clusters EXCEPT ![node] = @ \cup {partner}]
    /\ pc' = "collect" /\ node' = 0 /\ partner' = 0
    /\ UNCHANGED <<signals, todo, parent, uncollected, groups>>

EndCollect ==
    /\ pc = "collect" /\ uncollected = {}
    /\ pc' = "emit" /\ node' = 1
    /\ UNCHANGED <<signals, todo, parent, partner, uncollected, clusters, groups>>

\* The clusters in the order of their roots.
Emit ==
    /\ pc = "emit" /\ node <= N
    /\ groups' = groups \o Chunks(clusters[node])
    /\ node' = node + 1
    /\ UNCHANGED <<signals, todo, parent, pc, partner, uncollected, clusters>>

Done ==
    /\ pc = "emit" /\ node = N + 1
    /\ pc' = "done" /\ node' = 0
    /\ UNCHANGED <<signals, todo, parent, partner, uncollected, clusters, groups>>

Next == \/ TakePair \/ Halve \/ FirstFound \/ Union \/ EndPairs
        \/ Collect \/ RootFound \/ EndCollect \/ Emit \/ Done
Spec == Init /\ [][Next]_vars

-----------------------------------------------------------------------------
(* Properties.                                                             *)

TypeOK ==
    /\ signals \subseteq Pairs /\ todo \subseteq signals
    /\ parent \in [Ids -> Ids]
    /\ pc \in {"pairs", "first", "second", "collect", "root", "emit", "done"}
    /\ node \in 0..(N + 1) /\ partner \in 0..N
    /\ pc \in {"first", "second", "root"} => node \in Ids /\ partner \in Ids
    /\ uncollected \subseteq Ids /\ clusters \in [Ids -> SUBSET Ids]

\* Every turn of find comes to a lesser record, whatever the unions made of the
\* forest meanwhile: find ends.
FindDescends == [][Halve => node' < node]_vars

\* A set of records no edge of the forest leaves, and one no signal leaves.
ParentClosed(S) == \A x \in Ids : x \in S <=> parent[x] \in S
SignalClosed(S) == \A a, b \in Ids : {a, b} \in signals => (a \in S <=> b \in S)

\* Once the pairs are joined the forest divides the records exactly as the signals
\* do: two records fall together when a chain of signals links them, and never
\* otherwise, in whatever order the corpus lists them and however the finds halved
\* the paths.
ForestIsSignalComponents ==
    pc \in {"collect", "root", "emit", "done"}
        => \A S \in SUBSET Ids : ParentClosed(S) <=> SignalClosed(S)

\* The clusters as the signals define them, without a union-find.
Component(x) == {y \in Ids : \A S \in SUBSET Ids : SignalClosed(S) /\ x \in S => y \in S}
Leasts == {x \in Ids : \A y \in Component(x) : x <= y}

\* The groups, hence their numbering, depend on the signals alone: each component
\* of two or more records, in the order of its least id, cut into consecutive
\* chunks that cover it.
GroupsFollowFromSignals ==
    pc = "done" =>
        /\ \A i \in 1..Len(groups) : \E x \in Leasts : groups[i] \subseteq Component(x)
        /\ \A i, j \in 1..Len(groups) : \A x \in groups[i], y \in groups[j] :
              i < j /\ Component(x) = Component(y) => x < y
        /\ \A i, j \in 1..Len(groups) : \A x, y \in Leasts :
              i < j /\ groups[i] \subseteq Component(x) /\ groups[j] \subseteq Component(y) => x <= y
        /\ UNION {groups[i] : i \in 1..Len(groups)} = {x \in Ids : Cardinality(Component(x)) > 1}

\* "no chunk exceeds max_group_size and no chunk is a singleton" (cluster.py).
ChunksAreBounded ==
    pc = "done" => \A i \in 1..Len(groups) : Cardinality(groups[i]) \in 2..MaxGroup

=============================================================================
