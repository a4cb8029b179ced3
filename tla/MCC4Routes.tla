------------------------------ MODULE MCC4Routes ------------------------------
EXTENDS C4Routes

Few == 1..4

Pairs == {p \in Few \X Few : p[1] # p[2]}

Ascending[k \in 0..5] ==
    IF k = 0 THEN {<<>>}
    ELSE UNION {{Append(s, p) : p \in {q \in Pairs : k = 1 \/ Before(s[k - 1], q)}} :
                  s \in Ascending[k - 1]}

Lists(k) == UNION {[1..j -> Pairs] : j \in 0..k}

\* Columns of four boxes and of two, and edges inside a column.
Tall == <<<<5, 6>>, <<6, 5>>, <<5, 2>>, <<5, 3>>, <<5, 1>>, <<4, 1>>, <<2, 1>>>>

\* Every list of at most three edges between four containers, parallel edges included;
\* every set of four or five, in one order; every list of at most two edges behind
\* one from a box that is not there and one to its own box; and the tall backbone as
\* its last edges join it.
MCEdgeLists == {s : s \in Lists(3) \cup Ascending[4] \cup Ascending[5]
                             \cup {<<<<0, 3>>, <<2, 2>>>> \o s : s \in Lists(2)}
                             \cup {SubSeq(Tall, 1, k) : k \in 4..7}}

MCHeight == [n \in Containers |-> <<77, 60, 95, 77, 60, 77>>[n] * Px]
MCRank == [n \in Containers |-> <<6, 5, 4, 3, 1, 2>>[n]]
=============================================================================
