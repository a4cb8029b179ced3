--------------------------- MODULE MCCanonicalize ---------------------------
EXTENDS Canonicalize, TLC

CONSTANTS d1, d2, d3, a1

\* Two record files: one with two records, one with one.
MCFileOf == [r \in Recs |-> IF r <= 2 THEN 1 ELSE r - 1]

\* A citation inside a file, and one of a record in an earlier file.
MCCites == {<<1, 2>>, <<3, 1>>}

MCIds == {d1, d2, d3, a1}
MCDerived == {d1, d2, d3}
MCAuthored == {a1, d1}
MCCutTitles == {d1}

\* The two derived ids that no agent writes are interchangeable.
MCSymmetry == Permutations({d2, d3})
=============================================================================
