---------------------------- MODULE MCAttackPaths ----------------------------
EXTENDS AttackPaths

MCPairs == <<<<"a", "j">>, <<"a", "k">>>>

Edge(f, t, kind, s, c, o) ==
    [from |-> f, to |-> t, kind |-> kind, severity |-> s, confidence |-> c, open |-> o]

\* Every graph with these four edges: findings of which one makes paths of low
\* feasibility and one is defended, and a capability.  Each edge leaves the attacker or
\* an asset for an asset or a jewel: there are self-loops, parallel edges, cycles, and ties.
Sources == {"a", "x", "y"}
Targets == {"x", "y", "j", "k"}
MCGraphs ==
    {<<Edge("a", t1, "finding", 3, 1, TRUE), Edge(f2, t2, "finding", 4, 0, TRUE),
       Edge(f3, t3, "capability", 0, 2, FALSE), Edge(f4, t4, "finding", 3, c4, FALSE)>> :
       t1 \in Targets, f2 \in Sources, t2 \in Targets, f3 \in Sources, t3 \in Targets,
       f4 \in Sources, t4 \in Targets, c4 \in {1, 2}}
=============================================================================
