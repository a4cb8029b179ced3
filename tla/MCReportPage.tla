----------------------------- MODULE MCReportPage -----------------------------
EXTENDS ReportPage

CONSTANTS p1, p2, p3, p4, attacker, jewel, vault, idle, f1, f2, f3, lens1, lens2, A, B, C

\* Pair A has a path with findings and one without, pair B only one of the first kind,
\* pair C only one of the second.
MCPathList == <<p1, p2, p3, p4>>
\* lens1 is the id of a lens's record that a merge has replaced.
MCFindingsOn == [p \in Paths |-> CASE p = p1 -> {f3, lens1} [] p = p3 -> {f2} [] OTHER -> {}]
MCPairOf == [p \in Paths |-> CASE p = p3 -> B [] p = p4 -> C [] OTHER -> A]
MCNodesOf == [p \in Paths |-> CASE p = p1 -> {attacker, jewel}
                                [] p = p3 -> {attacker, vault}
                                [] OTHER -> {attacker, jewel, vault}]
MCLooseNodes == {idle}

MCFindingList == <<f1, f2, f3>>
\* Of what was authored, one id is a finding's, one that of a record merged away.
MCAuthored == {f1, lens2}
MCFilters == {{f1, f2, f3}, {f2, f3}, {f1}, {}}
MCPathOf == [f \in Findings |-> CASE f = f1 -> p1 [] f = f2 -> p3 [] f = f3 -> None]
MCOverlays == {None, p1, p2}
=============================================================================
