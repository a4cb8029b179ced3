----------------------------- MODULE AttackPaths -----------------------------
(***************************************************************************)
(* `analyze-attack-paths`: for each attacker position and crown jewel, the *)
(* bounded depth-first search of attack_path/enumerate.py over the asset   *)
(* graph, the ranking and cut of what it found, and the findings that      *)
(* attack_path/findings.py names from it.                                  *)
(*                                                                         *)
(* The search is iterative here: stack[i] is what the loop of the i-th     *)
(* nested call of _dfs has still to try, and trail[i] the edge it took to  *)
(* make the next one.  An edge is a number, in the order edges were added; *)
(* a path is its sequence of edges.                                        *)
(***************************************************************************)
EXTENDS Integers, Sequences, FiniteSets, SequencesExt

CONSTANTS
    Nodes, Edges,
    Graphs,            \* the graphs that may be built
    Pairs,             \* the pairs <<attacker, jewel>>, in the order of the loops
    HopLimits,         \* the max_hop a run may ask for
    MaxPaths,          \* max_paths_per_pair
    MaxRisk,           \* max_risk_findings_per_pair
    Threshold          \* bottleneck_threshold

\* An edge's severity is its finding's (informational 0 .. critical 4), its confidence
\* low 0 .. high 2; "open" says that D3FEND counters its techniques and that no
\* capability backs a counter.
EdgeRecord == [from : Nodes, to : Nodes, kind : {"reach", "finding", "capability"},
               severity : 0..4, confidence : 0..2, open : BOOLEAN]

ASSUME GraphAssumption ==
    /\ Edges \subseteq Nat /\ IsFiniteSet(Edges)
    /\ Graphs \subseteq [Edges -> EdgeRecord]

ASSUME PairsAssumption ==
    /\ Pairs \in Seq(Nodes \X Nodes)
    /\ \A i, j \in 1..Len(Pairs) : Pairs[i] = Pairs[j] => i = j

ASSUME LimitsAssumption ==
    /\ HopLimits \subseteq Nat
    /\ MaxPaths \in Nat /\ MaxRisk \in Nat /\ Threshold \in Nat \ {0}

VARIABLES
    graph, maxHop,                     \* the input
    pc, turn,                          \* the loop over Pairs
    stack, trail, visited, collector,  \* the search for one pair
    paths, truncated,                  \* attack-paths.yaml: its paths, truncated_pairs
    risks, suppressed, gaps            \* attack-path.findings.yaml

search == <<stack, trail, visited, collector>>
findings == <<risks, suppressed, gaps>>
vars == <<graph, maxHop, pc, turn, search, paths, truncated, findings>>

From(e) == graph[e].from
To(e) == graph[e].to
Attacker(k) == Pairs[k][1]
Jewel(k) == Pairs[k][2]

Init ==
    /\ graph \in Graphs /\ maxHop \in HopLimits
    /\ pc = "pair" /\ turn = 1
    /\ stack = <<>> /\ trail = <<>> /\ visited = {} /\ collector = <<>>
    /\ paths = {} /\ truncated = 0
    /\ risks = {} /\ suppressed = 0 /\ gaps = {}

-----------------------------------------------------------------------------
(* The search.                                                             *)

\* Mutant of Tries: the hop cap is not looked at.
TriesBeyondMaxHop(n, left) == {e \in Edges : From(e) = n}

\* What a call of _dfs at n tries, with `left` hops left.
Tries(n, left) == IF left <= 0 THEN {} ELSE {e \in Edges : From(e) = n}

Begin ==
    /\ pc = "pair" /\ turn <= Len(Pairs)
    /\ pc' = "search"
    /\ stack' = <<Tries(Attacker(turn), maxHop)>>
    /\ trail' = <<>> /\ visited' = {} /\ collector' = <<>>
    /\ UNCHANGED <<graph, maxHop, turn, paths, truncated, findings>>

Todo == stack[Len(stack)]
IsNext(e) == pc = "search" /\ e \in Todo /\ \A f \in Todo : e <= f
Without(e) == [stack EXCEPT ![Len(stack)] = @ \ {e}]
Skipped(e) == e \in visited \/ From(e) = To(e)

Skip(e) ==
    /\ IsNext(e) /\ Skipped(e)
    /\ stack' = Without(e)
    /\ UNCHANGED <<graph, maxHop, pc, turn, trail, visited, collector, paths, truncated, findings>>

Arrive(e) ==
    /\ IsNext(e) /\ ~Skipped(e) /\ To(e) = Jewel(turn)
    /\ stack' = Without(e)
    /\ collector' = Append(collector, Append(trail, e))
    /\ UNCHANGED <<graph, maxHop, pc, turn, trail, visited, paths, truncated, findings>>

Descend(e) ==
    /\ IsNext(e) /\ ~Skipped(e) /\ To(e) # Jewel(turn)
    /\ stack' = Append(Without(e), Tries(To(e), maxHop - Len(trail) - 1))
    /\ trail' = Append(trail, e)
    /\ visited' = visited \cup {e}
    /\ UNCHANGED <<graph, maxHop, pc, turn, collector, paths, truncated, findings>>

\* Mutant of Return: the edge stays visited.
ReturnKeepingVisited ==
    /\ pc = "search" /\ Todo = {} /\ Len(stack) > 1
    /\ stack' = Front(stack)
    /\ trail' = Front(trail)
    /\ UNCHANGED <<graph, maxHop, pc, turn, visited, collector, paths, truncated, findings>>

\* A nested call returns.
Return ==
    /\ pc = "search" /\ Todo = {} /\ Len(stack) > 1
    /\ stack' = Front(stack)
    /\ trail' = Front(trail)
    /\ visited' = visited \ {Last(trail)}
    /\ UNCHANGED <<graph, maxHop, pc, turn, collector, paths, truncated, findings>>

-----------------------------------------------------------------------------
(* Ranking.                                                                *)

Found == {collector[i] : i \in 1..Len(collector)}
OnPath(p) == {p[i] : i \in 1..Len(p)}

Severity(p) ==
    FoldLeft(LAMBDA sum, e : sum + (IF graph[e].kind = "finding" THEN graph[e].severity ELSE 0),
             0, p)
Feasibility(p) ==
    CHOOSE c \in {graph[e].confidence : e \in OnPath(p)} :
        \A e \in OnPath(p) : c <= graph[e].confidence
Mitigated(p) == \E e \in OnPath(p) : graph[e].kind = "capability"

\* The sort key but for its last part, the hash of the path.
Outranks(p, q) ==
    \/ Severity(p) > Severity(q)
    \/ Severity(p) = Severity(q) /\ Len(p) < Len(q)
    \/ Severity(p) = Severity(q) /\ Len(p) = Len(q) /\ Feasibility(p) > Feasibility(q)

\* Mutant of FirstOf: any n, unsorted.
FirstFound(S, n) ==
    {T \in SUBSET S : Cardinality(T) = IF Cardinality(S) <= n THEN Cardinality(S) ELSE n}

\* The first n of S, sorted; the hash breaks ties any way.
FirstOf(S, n) ==
    {T \in SUBSET S :
        /\ Cardinality(T) = IF Cardinality(S) <= n THEN Cardinality(S) ELSE n
        /\ \A p \in T, q \in S \ T : ~Outranks(q, p)}

\* Mutant of Rank: a pair that reaches the cap is not counted.
RankFlaggingBeyondMax ==
    /\ pc = "search" /\ Todo = {} /\ Len(stack) = 1
    /\ \E kept \in FirstOf(Found, MaxPaths) :
          /\ paths' = paths \cup kept
          /\ truncated' = truncated + (IF Cardinality(kept) > MaxPaths THEN 1 ELSE 0)
    /\ pc' = "pair" /\ turn' = turn + 1
    /\ stack' = <<>> /\ trail' = <<>> /\ visited' = {} /\ collector' = <<>>
    /\ UNCHANGED <<graph, maxHop, findings>>

\* The outermost call has returned.
Rank ==
    /\ pc = "search" /\ Todo = {} /\ Len(stack) = 1
    /\ \E kept \in FirstOf(Found, MaxPaths) :
          /\ paths' = paths \cup kept
          /\ truncated' = truncated + (IF Cardinality(kept) = MaxPaths THEN 1 ELSE 0)
    /\ pc' = "pair" /\ turn' = turn + 1
    /\ stack' = <<>> /\ trail' = <<>> /\ visited' = {} /\ collector' = <<>>
    /\ UNCHANGED <<graph, maxHop, findings>>

-----------------------------------------------------------------------------
(* Findings.                                                               *)

PathsOf(k) == {p \in paths : From(p[1]) = Attacker(k) /\ To(Last(p)) = Jewel(k)}
RiskEligible(p) == Feasibility(p) # 0 /\ Severity(p) >= 3 /\ ~Mitigated(p)
Occurrences(e) == UNION {{<<p, i>> : i \in {j \in 1..Len(p) : p[j] = e}} : p \in paths}
\* Mutant of Bottlenecks: strictly more than the threshold.
BottlenecksAbove == {e \in Edges : Cardinality(Occurrences(e)) > Threshold}

Bottlenecks == {e \in Edges : Cardinality(Occurrences(e)) >= Threshold}

\* An overlay with net-new counters and no backing is a gap.
Undefended(S) == {e \in S : graph[e].kind = "finding" /\ graph[e].open}

Emit ==
    /\ pc = "pair" /\ turn > Len(Pairs)
    /\ \E named \in SUBSET {p \in paths : RiskEligible(p)} :
          /\ \A k \in 1..Len(Pairs) :
                named \cap PathsOf(k) \in FirstOf({p \in PathsOf(k) : RiskEligible(p)}, MaxRisk)
          /\ risks' = named
          /\ suppressed' = Cardinality(paths \ named)
    /\ gaps' = Undefended(Bottlenecks)
    /\ pc' = "done"
    /\ UNCHANGED <<graph, maxHop, turn, search, paths, truncated>>

Finished == pc = "done" /\ UNCHANGED vars

Next ==
    \/ Begin
    \/ \E e \in Edges : Skip(e) \/ Arrive(e) \/ Descend(e)
    \/ Return \/ Rank \/ Emit \/ Finished

Spec == Init /\ [][Next]_vars

-----------------------------------------------------------------------------
(* Properties.                                                             *)

\* The type of the state; the search is never deeper than max_hop.
TypeOK ==
    /\ graph \in [Edges -> EdgeRecord] /\ maxHop \in HopLimits
    /\ pc \in {"pair", "search", "done"} /\ turn \in 1..(Len(Pairs) + 1)
    /\ stack \in Seq(SUBSET Edges) /\ Len(stack) <= maxHop + 1
    /\ trail \in Seq(Edges) /\ visited \subseteq Edges
    /\ collector \in Seq(Seq(Edges))
    /\ paths \subseteq Seq(Edges) /\ truncated \in Nat
    /\ risks \subseteq paths /\ suppressed \in Nat /\ gaps \subseteq Edges

\* What the search of pair k is for: the walks over different edges, none a
\* self-loop, of at most max_hop hops, from the attacker to the jewel and no further.
IsWalk(t, k) ==
    /\ \A i \in 1..Len(t) : From(t[i]) = IF i = 1 THEN Attacker(k) ELSE To(t[i - 1])
    /\ \A i \in 1..Len(t) : From(t[i]) # To(t[i])
    /\ \A i, j \in 1..Len(t) : t[i] = t[j] => i = j
IsAttackPath(t, k) ==
    /\ Len(t) >= 1 /\ Len(t) <= maxHop
    /\ IsWalk(t, k)
    /\ \A i \in 1..Len(t) : To(t[i]) = Jewel(k) <=> i = Len(t)
AttackPathsOf(k) == {t \in UNION {[1..n -> Edges] : n \in 1..maxHop} : IsAttackPath(t, k)}

\* When the search of a pair ends (enumerate.py:60-98) it has collected every attack
\* path of the pair, nothing else, and none twice.
EveryPathIsCollected ==
    pc = "search" /\ Len(stack) = 1 /\ Todo = {} =>
        /\ Found = AttackPathsOf(turn)
        /\ Len(collector) = Cardinality(Found)

\* An artifact that reports no truncated pair (cli.py:917-918) holds every attack
\* path of every pair, and its findings name or count each of them (findings.py:166-205).
NothingIsMissing ==
    pc = "done" /\ truncated = 0 =>
        /\ paths = UNION {AttackPathsOf(k) : k \in 1..Len(Pairs)}
        /\ Cardinality(risks) + suppressed = Cardinality(paths)

\* A risk-eligible attack path of the graph that the findings do not name
\* (findings.py:168-187) is behind max_risk_findings_per_pair named ones, or was cut
\* behind max_paths_per_pair reported ones (enumerate.py:90-98), of its pair.
WorstPathsAreNamed ==
    pc = "done" =>
        \A k \in 1..Len(Pairs) : \A t \in {u \in AttackPathsOf(k) : RiskEligible(u)} \ risks :
            \/ Cardinality({p \in risks \cap PathsOf(k) : ~Outranks(t, p)}) >= MaxRisk
            \/ Cardinality({p \in PathsOf(k) : ~Outranks(t, p)}) >= MaxPaths

\* A gap is named exactly for the open edges that enough different reported paths
\* share (enumerate.py:181-193 counts occurrences on paths, d3fend_overlay.py).
GapsAreSharedEdges ==
    pc = "done" =>
        gaps = Undefended({e \in Edges :
                              Cardinality({p \in paths : e \in OnPath(p)}) >= Threshold})
=============================================================================
