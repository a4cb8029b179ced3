------------------------ MODULE GauntletContractProofs ------------------------
(***************************************************************************)
(* The drive keeps the contract of module RunContract: for any lenses and  *)
(* tiers, any set of run configs, any number of sessions, faults and stops.*)
(***************************************************************************)
EXTENDS GauntletRunProofs

-----------------------------------------------------------------------------
(* The stages of synthesis, in the order of the checklist.                 *)

Rank(r) ==
    CASE r.kind = "full-gate" -> 1
      [] r.kind = "tool" /\ r.who \in {"cluster-candidates", "apply-clusters"} -> 2
      [] r.kind = "agent" /\ r.who \in {"adjudicate", "tmeval", "apath"} -> 2
      [] r.kind = "tool" /\ r.who = "rollup" -> 3
      [] r.kind = "agent" /\ r.who = "report-writer" -> 4
      [] r.kind = "tool" /\ r.who = "build-report" -> 5
      [] r.kind = "tool" /\ r.who = "audit-report" -> 6
      [] r.kind = "audit-gate" -> 7
      [] r.kind = "report-auditor" -> 8
      [] r.kind = "tool" /\ r.who = "domain-coverage-delta" -> 8
      [] r.kind = "agent" /\ r.who = "domain-auditor" -> 8
      [] r.kind = "aside" /\ r.who = "summarize" -> 8
      [] OTHER -> 0

\* Rank k may stand before rank l.  Each of 1 and 3 to 7 has one row.
Follows(k, l) == k < l \/ (k = l /\ k \in {0, 2, 8})

\* The rows of P ascend, with ranks of S only.
Ascends(P, S) ==
    /\ P \in Seq(AllRows)
    /\ \A i \in 1..Len(P) : Rank(P[i]) \in S
    /\ \A i, j \in 1..Len(P) : i < j => Follows(Rank(P[i]), Rank(P[j]))
Occurs(r, P) == \E i \in 1..Len(P) : P[i] = r

\* Two parts of a checklist that ascend, one after the other.
LEMMA JoinAscends ==
    ASSUME NEW s, NEW S, Ascends(s, S), NEW t, NEW T, Ascends(t, T),
           \A k \in S, l \in T : Follows(k, l), NEW W, S \subseteq W, T \subseteq W
    PROVE  /\ Ascends(s \o t, W)
           /\ \A r : Occurs(r, s) \/ Occurs(r, t) => Occurs(r, s \o t)
<1> DEFINE u == s \o t
           m == Len(s)
           n == Len(t)
<1>1. /\ u \in Seq(AllRows) /\ m \in Nat /\ n \in Nat /\ Len(u) = m + n
      /\ \A i \in 1..m : u[i] = s[i]
      /\ \A i \in 1..n : u[m + i] = t[i]
  <2>1. s \in Seq(AllRows) /\ t \in Seq(AllRows)
    BY DEF Ascends
  <2>2. QED BY <2>1, Joined
<1>2. /\ \A i \in 1..m : Rank(s[i]) \in S
      /\ \A i, j \in 1..m : i < j => Follows(Rank(s[i]), Rank(s[j]))
      /\ \A i \in 1..n : Rank(t[i]) \in T
      /\ \A i, j \in 1..n : i < j => Follows(Rank(t[i]), Rank(t[j]))
  BY DEF Ascends
<1>3. /\ Ascends(u, W) <=>
            /\ u \in Seq(AllRows)
            /\ \A i \in 1..Len(u) : Rank(u[i]) \in W
            /\ \A i, j \in 1..Len(u) : i < j => Follows(Rank(u[i]), Rank(u[j]))
      /\ \A r : Occurs(r, s) => \E i \in 1..m : s[i] = r
      /\ \A r : Occurs(r, t) => \E i \in 1..n : t[i] = r
      /\ \A r : (\E i \in 1..Len(u) : u[i] = r) => Occurs(r, u)
  BY DEF Ascends, Occurs
<1> HIDE DEF u, m, n
<1>4. \A i \in 1..Len(u) : \/ i \in 1..m /\ u[i] = s[i]
                           \/ i > m /\ i - m \in 1..n /\ u[i] = t[i - m]
  <2> TAKE i \in 1..Len(u)
  <2>1. CASE i \in 1..m
    BY <2>1, <1>1
  <2>2. CASE i \notin 1..m
    <3>1. i > m /\ i - m \in 1..n /\ m + (i - m) = i
      BY <2>2, <1>1
    <3>2. u[m + (i - m)] = t[i - m]
      BY <3>1, <1>1
    <3>3. QED BY <3>1, <3>2
  <2>3. QED BY <2>1, <2>2
<1>5. \A i \in 1..Len(u) : Rank(u[i]) \in W
  BY <1>2, <1>4
<1>6. ASSUME NEW i \in 1..Len(u), NEW j \in 1..Len(u), i < j
      PROVE  Follows(Rank(u[i]), Rank(u[j]))
  <2>1. CASE i \in 1..m /\ u[i] = s[i] /\ j \in 1..m /\ u[j] = s[j]
    BY <2>1, <1>2, <1>6
  <2>2. CASE i \in 1..m /\ u[i] = s[i] /\ j - m \in 1..n /\ u[j] = t[j - m]
    BY <2>2, <1>2
  <2>3. CASE i - m \in 1..n /\ u[i] = t[i - m] /\ j - m \in 1..n /\ u[j] = t[j - m]
    <3>1. i - m < j - m
      BY <1>1, <1>6
    <3>2. QED BY <2>3, <3>1, <1>2
  <2>4. ~(i > m /\ j \in 1..m)
    BY <1>1, <1>6
  <2>5. QED BY <2>1, <2>2, <2>3, <2>4, <1>4
<1>7. \A r : Occurs(r, s) \/ Occurs(r, t) => Occurs(r, u)
  <2>1. ASSUME NEW r, NEW i \in 1..m, s[i] = r PROVE Occurs(r, u)
    <3>1. i \in 1..Len(u) /\ u[i] = r
      BY <1>1, <2>1
    <3>2. QED BY <3>1, <1>3
  <2>2. ASSUME NEW r, NEW i \in 1..n, t[i] = r PROVE Occurs(r, u)
    <3>1. m + i \in 1..Len(u) /\ u[m + i] = r
      BY <1>1, <2>2
    <3>2. QED BY <3>1, <1>3
  <2>3. QED BY <2>1, <2>2, <1>3
<1>8. QED
  BY <1>1, <1>3, <1>5, <1>6, <1>7 DEF u

\* Rows of one rank that may be repeated ascend.
LEMMA LevelAscends ==
    ASSUME NEW P \in Seq(PlainRows), NEW k \in {0, 2, 8}, \A i \in 1..Len(P) : Rank(P[i]) = k
    PROVE  Ascends(P, {k})
<1>1. P \in Seq(AllRows)
  BY DEF AllRows
<1>2. QED
  BY <1>1 DEF Ascends, Follows

\* The rows before the tiers come before every stage of synthesis; the attack-path
\* analyst belongs to the first, the summary to the last.
LEMMA OpeningAscends ==
    /\ Ascends(Beginning, {0}) /\ Ascends(Intake, {0}) /\ Ascends(Authoring, {0})
    /\ Ascends(Minting, {0}) /\ Ascends(Closing, {8})
    /\ \A b : Ascends(When(b, Recon), {0})
    /\ \A b : Ascends(When(b, TmRecon), {0})
    /\ \A b : Ascends(When(b, Pathfinding), {2})
<1> DEFINE Level(r, k) == r \in PlainRows /\ Rank(r) = k
<1>1. ASSUME NEW k \in {0, 2, 8}, NEW r, Level(r, k) PROVE Ascends(<<r>>, {k})
  <2>1. <<r>> \in Seq(PlainRows) /\ \A i \in 1..Len(<<r>>) : <<r>>[i] = r
    BY <1>1
  <2>2. QED BY <1>1, <2>1, LevelAscends
<1>2. ASSUME NEW k \in {0, 2, 8}, NEW r, NEW s, Level(r, k), Level(s, k)
      PROVE  Ascends(<<r, s>>, {k})
  <2>1. <<r, s>> \in Seq(PlainRows) /\ \A i \in 1..Len(<<r, s>>) : <<r, s>>[i] \in {r, s}
    BY <1>2
  <2>2. QED BY <1>2, <2>1, LevelAscends
<1>3. ASSUME NEW k \in {0, 2, 8}, NEW r, NEW s, NEW t, Level(r, k), Level(s, k), Level(t, k)
      PROVE  Ascends(<<r, s, t>>, {k})
  <2>1. <<r, s, t>> \in Seq(PlainRows)
        /\ \A i \in 1..Len(<<r, s, t>>) : <<r, s, t>>[i] \in {r, s, t}
    BY <1>3
  <2>2. QED BY <1>3, <2>1, LevelAscends
<1>4. Ascends(<<>>, {0}) /\ Ascends(<<>>, {2})
  BY DEF Ascends
<1>5. /\ Level(Row("resume-plan", ""), 0) /\ Level(Row("intake-gate", ""), 0)
      /\ Level(Row("canonicalize", ""), 0)
  BY DEF Rank, PlainRows, Row
<1>6. Level(Row("tool", "author-threat-model"), 0)
  BY DEF Rank, PlainRows, Row, Tools
<1>7. /\ Level(Row("agent", "intake"), 0) /\ Level(Row("agent", "code-recon"), 0)
      /\ Level(Row("agent", "threat-model-author"), 0)
      /\ Level(Row("agent", "tm-recon"), 0) /\ Level(Row("agent", "apath"), 2)
  BY DEF Rank, PlainRows, Row, OtherAgents
<1>8. 0 \in {0, 2, 8} /\ 2 \in {0, 2, 8} /\ 8 \in {0, 2, 8}
  OBVIOUS
<1>a. /\ Level(Row("aside", "build-domain-skill"), 0) /\ Level(Row("aside", "validate-domain"), 0)
      /\ Level(Row("aside", "summarize"), 8)
  BY DEF Rank, PlainRows, Row, Asides
<1> HIDE DEF Level
<1>9. Ascends(Beginning, {0})
  BY Zenon, <1>3, <1>5, <1>a, <1>8 DEF Beginning
<1>c. Ascends(Closing, {8})
  BY Zenon, <1>1, <1>a, <1>8 DEF Closing
<1>10. Ascends(Authoring, {0}) /\ Ascends(Recon, {0}) /\ Ascends(Intake, {0})
  BY Zenon, <1>2, <1>5, <1>6, <1>7, <1>8 DEF Authoring, Recon, Intake
<1>11. Ascends(Minting, {0}) /\ Ascends(TmRecon, {0}) /\ Ascends(Pathfinding, {2})
  BY Zenon, <1>1, <1>5, <1>7, <1>8 DEF Minting, TmRecon, Pathfinding
<1>12. QED
  BY <1>4, <1>9, <1>c, <1>10, <1>11 DEF When

\* The full gate, then what works on the records.
LEMMA SynthesizingAscends ==
    Ascends(Synthesizing, {1, 2}) /\ Occurs(Row("full-gate", ""), Synthesizing)
<1>1. \E r1, r2, r3, r4, r5 :
         /\ Synthesizing = <<r1, r2, r3, r4, r5>> /\ r1 = Row("full-gate", "")
         /\ {r1, r2, r3, r4, r5} \subseteq PlainRows
         /\ Rank(r1) = 1
         /\ Rank(r2) = 2 /\ Rank(r3) = 2 /\ Rank(r4) = 2 /\ Rank(r5) = 2
  <2> DEFINE r1 == Row("full-gate", "")
             r2 == Row("tool", "cluster-candidates")
             r3 == Row("agent", "adjudicate")
             r4 == Row("tool", "apply-clusters")
             r5 == Row("agent", "tmeval")
  <2>1. r1 \in PlainRows /\ Rank(r1) = 1
    BY DEF Rank, PlainRows, Row
  <2>2. r2 \in PlainRows /\ r4 \in PlainRows /\ Rank(r2) = 2 /\ Rank(r4) = 2
    BY DEF Rank, PlainRows, Row, Tools
  <2>3. r3 \in PlainRows /\ r5 \in PlainRows /\ Rank(r3) = 2 /\ Rank(r5) = 2
    BY DEF Rank, PlainRows, Row, OtherAgents
  <2>4. Synthesizing = <<r1, r2, r3, r4, r5>> /\ r1 = Row("full-gate", "")
    BY DEF Synthesizing
  <2>5. {r1, r2, r3, r4, r5} \subseteq PlainRows
    BY <2>1, <2>2, <2>3
  <2> HIDE DEF r1, r2, r3, r4, r5
  <2>6. QED BY <2>1, <2>2, <2>3, <2>4, <2>5, Zenon
<1>2. PICK r1, r2, r3, r4, r5 :
         /\ Synthesizing = <<r1, r2, r3, r4, r5>> /\ r1 = Row("full-gate", "")
         /\ {r1, r2, r3, r4, r5} \subseteq PlainRows
         /\ Rank(r1) = 1
         /\ Rank(r2) = 2 /\ Rank(r3) = 2 /\ Rank(r4) = 2 /\ Rank(r5) = 2
  BY <1>1
<1> DEFINE P == <<r1, r2, r3, r4, r5>>
<1>3. {r1, r2, r3, r4, r5} \subseteq AllRows
  BY <1>2 DEF AllRows
<1>4. P \in Seq(AllRows) /\ 1 \in 1..Len(P) /\ P[1] = r1
  BY <1>3
<1>5. \A i \in 1..Len(P) : (i = 1 /\ P[i] = r1) \/ (i > 1 /\ P[i] \in {r2, r3, r4, r5})
  OBVIOUS
<1> HIDE DEF P
<1>6. \A i \in 1..Len(P) : (i = 1 /\ Rank(P[i]) = 1) \/ (i > 1 /\ Rank(P[i]) = 2)
  BY <1>2, <1>5
<1>7. \A i, j \in 1..Len(P) : i < j => Follows(Rank(P[i]), Rank(P[j]))
  BY <1>6 DEF Follows
<1>8. Ascends(P, {1, 2}) /\ Occurs(r1, P)
  BY <1>4, <1>6, <1>7 DEF Ascends, Occurs
<1>9. QED
  BY <1>2, <1>8 DEF P

\* The reporting chain, each of its stages once.
LEMMA ReportingAscends ==
    /\ Ascends(Reporting, 3..8)
    /\ Occurs(Row("tool", "rollup"), Reporting) /\ Occurs(Row("tool", "build-report"), Reporting)
    /\ Occurs(Row("tool", "audit-report"), Reporting)
<1>1. \E r1, r2, r3, r4, r5, r6, r7, r8 :
         /\ Reporting = <<r1, r2, r3, r4, r5, r6, r7, r8>> /\ r1 = Row("tool", "rollup")
         /\ r3 = Row("tool", "build-report") /\ r4 = Row("tool", "audit-report")
         /\ {r1, r2, r3, r4, r5, r6, r7, r8} \subseteq PlainRows
         /\ Rank(r1) = 3 /\ Rank(r2) = 4 /\ Rank(r3) = 5 /\ Rank(r4) = 6 /\ Rank(r5) = 7
         /\ Rank(r6) = 8 /\ Rank(r7) = 8 /\ Rank(r8) = 8
  <2> DEFINE r1 == Row("tool", "rollup")
             r2 == Row("agent", "report-writer")
             r3 == Row("tool", "build-report")
             r4 == Row("tool", "audit-report")
             r5 == Row("audit-gate", "")
             r6 == Row("report-auditor", "")
             r7 == Row("tool", "domain-coverage-delta")
             r8 == Row("agent", "domain-auditor")
  <2>1. r5 \in PlainRows /\ r6 \in PlainRows /\ Rank(r5) = 7 /\ Rank(r6) = 8
    BY DEF Rank, PlainRows, Row
  <2>2. /\ r1 \in PlainRows /\ r3 \in PlainRows /\ r4 \in PlainRows /\ r7 \in PlainRows
        /\ Rank(r1) = 3 /\ Rank(r3) = 5 /\ Rank(r4) = 6 /\ Rank(r7) = 8
    BY DEF Rank, PlainRows, Row, Tools
  <2>3. r2 \in PlainRows /\ r8 \in PlainRows /\ Rank(r2) = 4 /\ Rank(r8) = 8
    BY DEF Rank, PlainRows, Row, OtherAgents
  <2>4. /\ Reporting = <<r1, r2, r3, r4, r5, r6, r7, r8>> /\ r1 = Row("tool", "rollup")
        /\ r3 = Row("tool", "build-report") /\ r4 = Row("tool", "audit-report")
    BY DEF Reporting
  <2> HIDE DEF r1, r2, r3, r4, r5, r6, r7, r8
  <2>5. QED BY <2>1, <2>2, <2>3, <2>4
<1>2. PICK r1, r2, r3, r4, r5, r6, r7, r8 :
         /\ Reporting = <<r1, r2, r3, r4, r5, r6, r7, r8>> /\ r1 = Row("tool", "rollup")
         /\ r3 = Row("tool", "build-report") /\ r4 = Row("tool", "audit-report")
         /\ {r1, r2, r3, r4, r5, r6, r7, r8} \subseteq PlainRows
         /\ Rank(r1) = 3 /\ Rank(r2) = 4 /\ Rank(r3) = 5 /\ Rank(r4) = 6 /\ Rank(r5) = 7
         /\ Rank(r6) = 8 /\ Rank(r7) = 8 /\ Rank(r8) = 8
  BY <1>1
<1> DEFINE P == <<r1, r2, r3, r4, r5, r6, r7, r8>>
<1>3. {r1, r2, r3, r4, r5, r6, r7, r8} \subseteq AllRows
  BY <1>2 DEF AllRows
<1>4. /\ P \in Seq(AllRows) /\ 1 \in 1..Len(P) /\ 3 \in 1..Len(P) /\ 4 \in 1..Len(P)
      /\ P[1] = r1 /\ P[3] = r3 /\ P[4] = r4
  BY <1>3
<1>5. /\ \A i \in 1..Len(P) : i \in 1..8
      /\ P[2] = r2 /\ P[5] = r5 /\ P[6] = r6 /\ P[7] = r7 /\ P[8] = r8
  OBVIOUS
<1> HIDE DEF P
<1>6. \A i \in 1..Len(P) : (i <= 5 /\ Rank(P[i]) = i + 2) \/ (i > 5 /\ Rank(P[i]) = 8)
  <2> SUFFICES ASSUME NEW i \in 1..Len(P)
               PROVE  (i <= 5 /\ Rank(P[i]) = i + 2) \/ (i > 5 /\ Rank(P[i]) = 8)
    OBVIOUS
  <2>1. i = 1 \/ i = 2 \/ i = 3 \/ i = 4 \/ i = 5 \/ i = 6 \/ i = 7 \/ i = 8
    BY <1>5
  <2>2. QED BY <2>1, <1>2, <1>4, <1>5
<1>7. \A i, j \in 1..Len(P) : i < j => Follows(Rank(P[i]), Rank(P[j]))
  BY <1>6 DEF Follows
<1>8. \A i \in 1..Len(P) : Rank(P[i]) \in 3..8
  BY <1>6
<1>9. Ascends(P, 3..8) /\ Occurs(r1, P) /\ Occurs(r3, P) /\ Occurs(r4, P)
  BY <1>4, <1>7, <1>8 DEF Ascends, Occurs
<1>10. QED
  BY <1>2, <1>9 DEF P

\* The rows of the tiers come before every stage of synthesis.
LEMMA TiersAscend == Ascends(AllTierRows, {0})
<1>1. AllTierRows \in Seq(AllRows)
  BY TiersAssumption DEF AllRows
<1>2. ASSUME NEW i \in 1..Len(AllTierRows) PROVE Rank(AllTierRows[i]) = 0
  <2> DEFINE r == AllTierRows[i]
  <2>1. r.kind \in {"agent", "canonicalize", "tier-gate"}
        /\ (r.kind = "agent" => r.who \in Lenses)
    BY TiersAssumption
  <2> HIDE DEF r
  <2>2. r.kind = "agent" => r.who \notin OtherAgents
    BY <2>1, LensesAssumption
  <2>3. Rank(r) = 0
    BY <2>1, <2>2 DEF Rank, OtherAgents
  <2>4. QED BY <2>3 DEF r
<1>3. QED
  BY <1>1, <1>2 DEF Ascends, Follows

\* Every checklist goes through the stages of synthesis in their order.
LEMMA PlanAscends ==
    ASSUME NEW c
    PROVE  /\ Ascends(BuildPlan(c), 0..8)
           /\ Occurs(Row("full-gate", ""), BuildPlan(c))
           /\ Occurs(Row("tool", "rollup"), BuildPlan(c))
           /\ Occurs(Row("tool", "build-report"), BuildPlan(c))
           /\ Occurs(Row("tool", "audit-report"), BuildPlan(c))
<1> DEFINE B == When(c.code_recon, Recon)
           D == When(c.threat_model, TmRecon)
           J == When(c.crown_jewels, Pathfinding)
           o1 == Beginning \o Intake
           o2 == o1 \o B
           o3 == o2 \o Authoring
           o4 == o3 \o D
           o5 == o4 \o Minting
           t == o5 \o AllTierRows
           s1 == t \o Synthesizing
           s2 == s1 \o J
           s3 == s2 \o Reporting
           s4 == s3 \o Closing
<1>1. BuildPlan(c) = s4
  BY DEF BuildPlan, Beginning, Intake, Recon, Authoring, TmRecon, Minting, Synthesizing,
     Pathfinding, Reporting, Closing
<1>2. Ascends(B, {0}) /\ Ascends(D, {0}) /\ Ascends(J, {2})
  BY OpeningAscends
<1>s. Ascends(Synthesizing, {1, 2})
  BY SynthesizingAscends
<1>j. /\ {0} \subseteq 0..2 /\ {1, 2} \subseteq 0..2 /\ {2} \subseteq 0..2
      /\ 0..2 \subseteq 0..8 /\ 3..8 \subseteq 0..8 /\ {8} \subseteq 0..8
  OBVIOUS
<1>f. /\ \A k, l \in {0} : Follows(k, l)
      /\ \A k \in {0}, l \in {1, 2} : Follows(k, l)
      /\ \A k \in 0..2, l \in {2} : Follows(k, l)
      /\ \A k \in 0..2, l \in 3..8 : Follows(k, l)
      /\ \A k \in 0..8, l \in {8} : Follows(k, l)
  BY DEF Follows
<1> HIDE DEF B, D, J
<1>b. Ascends(o1, {0})
  BY <1>j, <1>f, OpeningAscends, JoinAscends
<1> HIDE DEF o1
<1>3. Ascends(o2, {0})
  BY <1>2, <1>b, <1>j, <1>f, JoinAscends
<1> HIDE DEF o2
<1>4. Ascends(o3, {0})
  BY <1>3, <1>j, <1>f, OpeningAscends, JoinAscends
<1> HIDE DEF o3
<1>5. Ascends(o4, {0})
  BY <1>2, <1>4, <1>j, <1>f, JoinAscends
<1> HIDE DEF o4
<1>6. Ascends(o5, {0})
  BY <1>5, <1>j, <1>f, OpeningAscends, JoinAscends
<1> HIDE DEF o5
<1>7. Ascends(t, {0})
  BY <1>6, <1>j, <1>f, TiersAscend, JoinAscends
<1> HIDE DEF t
<1>8. Ascends(s1, 0..2) /\ \A r : Occurs(r, Synthesizing) => Occurs(r, s1)
  BY <1>7, <1>s, <1>j, <1>f, JoinAscends
<1> HIDE DEF s1
<1>9. Ascends(s2, 0..2) /\ \A r : Occurs(r, s1) => Occurs(r, s2)
  BY <1>2, <1>8, <1>j, <1>f, JoinAscends
<1> HIDE DEF s2
<1>10. Ascends(s3, 0..8)
  BY <1>9, <1>j, <1>f, ReportingAscends, JoinAscends
<1>11. \A r : Occurs(r, s2) \/ Occurs(r, Reporting) => Occurs(r, s3)
  BY <1>9, <1>j, <1>f, ReportingAscends, JoinAscends
<1> HIDE DEF s3
<1>12. Ascends(s4, 0..8) /\ \A r : Occurs(r, s3) => Occurs(r, s4)
  BY <1>10, <1>j, <1>f, OpeningAscends, JoinAscends
<1> HIDE DEF s4
<1>13. QED
  BY <1>1, <1>8, <1>9, <1>11, <1>12, SynthesizingAscends, ReportingAscends, Zenon

-----------------------------------------------------------------------------
(* The reporting chain.                                                    *)

Gate == RowOf("full-gate", "")
Fresh(g) == quality[g] = "good" /\ basis[g] = View(g)
ChainTools == {"rollup", "build-report", "audit-report"}

\* The stages of the reporting chain that this session has passed are fresh.
IsStage(i, w) == Plan[i].kind = "tool" /\ Plan[i].who = w
ChainFresh ==
    phase = "running" => \A w \in ChainTools, i \in 1..Len(Plan) :
        i < pos /\ IsStage(i, w) => Fresh(Out(w))

\* What the ranks of two rows say of the rows.
LEMMA RankOfRow ==
    \A r : /\ Rank(r) \in 0..8
           /\ Rank(r) = 1 <=> r.kind = "full-gate"
           /\ r.kind = "tool" /\ r.who = "rollup" => Rank(r) = 3
           /\ r.kind = "tool" /\ r.who = "build-report" => Rank(r) = 5
           /\ r.kind = "tool" /\ r.who = "audit-report" => Rank(r) = 6
           /\ r.kind = "audit-gate" => Rank(r) = 7
           /\ r.kind \in {"canonicalize", "tier-gate", "resume-plan", "intake-gate"} => Rank(r) = 0
           /\ r.kind = "agent" /\ Rank(r) >= 4 => r.who \in {"report-writer", "domain-auditor"}
           /\ r.kind = "agent" /\ r.who = "report-writer" => Rank(r) = 4
           /\ r.kind = "agent" /\ Rank(r) >= 2 => r.who \in OtherAgents
           /\ r.kind = "tool" /\ Rank(r) >= 4 =>
                 r.who \in {"build-report", "audit-report", "domain-coverage-delta"}
BY DEF Rank, OtherAgents

\* The full gate has one row, and behind it every row is one of synthesis.
LEMMA GateRow ==
    ASSUME TypeOK
    PROVE  /\ Gate \in 1..Len(Plan) /\ Len(Plan) \in Nat /\ Plan[Gate].kind = "full-gate"
           /\ \A i \in 1..Len(Plan) : i > Gate => Rank(Plan[i]) >= 2
           /\ \A i \in 1..Len(Plan) : i < Gate => Plan[i].kind # "full-gate"
           /\ \A i, j \in 1..Len(Plan) : i < j => Follows(Rank(Plan[i]), Rank(Plan[j]))
           /\ \E i \in 1..Len(Plan) : Plan[i].kind = "tool" /\ Plan[i].who = "rollup"
           /\ \E i \in 1..Len(Plan) : Plan[i].kind = "tool" /\ Plan[i].who = "build-report"
           /\ \E i \in 1..Len(Plan) : Plan[i].kind = "tool" /\ Plan[i].who = "audit-report"
<1>1. Plan = BuildPlan(cfg)
  BY DEF Plan, Plans, TypeOK
<1>2. /\ Ascends(Plan, 0..8) /\ Occurs(Row("full-gate", ""), Plan)
      /\ Occurs(Row("tool", "rollup"), Plan) /\ Occurs(Row("tool", "build-report"), Plan)
      /\ Occurs(Row("tool", "audit-report"), Plan)
  BY <1>1, PlanAscends, Zenon
<1>3. /\ Len(Plan) \in Nat
      /\ \A i, j \in 1..Len(Plan) : i < j => Follows(Rank(Plan[i]), Rank(Plan[j]))
  <2>1. Ascends(Plan, 0..8)
    BY <1>2
  <2>2. QED BY <2>1 DEF Ascends
<1>r. /\ Row("full-gate", "").kind = "full-gate"
      /\ Row("tool", "rollup").kind = "tool" /\ Row("tool", "rollup").who = "rollup"
      /\ Row("tool", "build-report").kind = "tool"
      /\ Row("tool", "build-report").who = "build-report"
      /\ Row("tool", "audit-report").kind = "tool"
      /\ Row("tool", "audit-report").who = "audit-report"
  BY DEF Row
<1>4. Gate \in 1..Len(Plan) /\ Plan[Gate] = Row("full-gate", "")
  <2>1. \E i \in 1..Len(Plan) : Plan[i] = Row("full-gate", "")
    BY <1>2 DEF Occurs
  <2>2. QED BY <2>1, Zenon DEF Gate, RowOf
<1>5. Plan[Gate].kind = "full-gate"
  BY <1>4, <1>r, Zenon
<1>6. Rank(Plan[Gate]) = 1
  BY <1>5, RankOfRow
<1>7. \A i \in 1..Len(Plan) : i > Gate => Rank(Plan[i]) >= 2
  <2> SUFFICES ASSUME NEW i \in 1..Len(Plan), i > Gate PROVE Rank(Plan[i]) >= 2
    OBVIOUS
  <2>1. Follows(1, Rank(Plan[i]))
    BY <1>3, <1>4, <1>6
  <2>2. Rank(Plan[i]) \in 0..8
    BY RankOfRow
  <2>3. QED BY <2>1, <2>2 DEF Follows
<1>8. \A i \in 1..Len(Plan) : i < Gate => Plan[i].kind # "full-gate"
  <2> SUFFICES ASSUME NEW i \in 1..Len(Plan), i < Gate PROVE Rank(Plan[i]) # 1
    BY RankOfRow
  <2>1. Follows(Rank(Plan[i]), 1)
    BY <1>3, <1>4, <1>6
  <2>2. QED BY <2>1 DEF Follows
<1>9. \E i \in 1..Len(Plan) : Plan[i].kind = "tool" /\ Plan[i].who = "rollup"
  BY <1>2, <1>r, Zenon DEF Occurs
<1>10. \E i \in 1..Len(Plan) : Plan[i].kind = "tool" /\ Plan[i].who = "build-report"
  BY <1>2, <1>r, Zenon DEF Occurs
<1>11. \E i \in 1..Len(Plan) : Plan[i].kind = "tool" /\ Plan[i].who = "audit-report"
  BY <1>2, <1>r, Zenon DEF Occurs
<1>12. QED
  BY <1>3, <1>4, <1>5, <1>7, <1>8, <1>9, <1>10, <1>11

\* A stage of the chain stays fresh while neither it nor an input of it is touched.
LEMMA FreshKept ==
    ASSUME TypeOK, NEW g \in Computed, Fresh(g), basis'[g] = basis[g],
           \A f \in Inputs[g] \cup {g} : quality'[f] = quality[f] /\ ver'[f] = ver[f]
    PROVE  Fresh(g)'
<1>1. \A f \in Inputs[g] : Seen(f)' = Seen(f)
  BY DEF Seen
<1>2. View(g)' = View(g)
  BY <1>1 DEF View
<1>3. QED
  BY <1>2 DEF Fresh

\* The names of the chain's files, and what they are computed from.
LEMMA ChainInputs ==
    /\ \A w \in ChainTools : Out(w) \in Computed /\ w \in Tools
    /\ Inputs[Out("rollup")] = {Out("apply-clusters"), TmFindings, ApFindings}
    /\ Inputs[Out("build-report")] =
          {Out("apply-clusters"), Out("rollup"), TmFindings, ApFindings, Out("report-writer")}
    /\ Inputs[Out("audit-report")] = {Out("build-report"), Out("rollup")}
BY DEF ChainTools, Computed, Tools, Inputs, Out, TmFindings, ApFindings

\* The present row comes later than the stages passed.
LEMMA StagesPassed ==
    ASSUME TypeOK, SessionInv, ChainFresh, NEW k, At(k),
           NEW w \in ChainTools, NEW i \in 1..Len(Plan), i < pos, IsStage(i, w)
    PROVE  /\ pos \in 1..Len(Plan) /\ Plan[pos].kind = k
           /\ Fresh(Out(w)) /\ Out(w) \in Computed
           /\ Rank(Plan[i]) \in {3, 5, 6} /\ Rank(Plan[i]) < Rank(Plan[pos])
<1>1. phase = "running" /\ pos \in 1..Len(Plan) /\ Plan[pos].kind = k
  BY PlanOrdered DEF At, SessionInv
<1>2. Fresh(Out(w)) /\ Out(w) \in Computed
  BY <1>1, ChainInputs DEF ChainFresh
<1>3. Rank(Plan[i]) \in {3, 5, 6}
  BY RankOfRow DEF IsStage, ChainTools
<1>4. Follows(Rank(Plan[i]), Rank(Plan[pos]))
  BY <1>1, GateRow
<1>5. Rank(Plan[i]) < Rank(Plan[pos])
  BY <1>3, <1>4 DEF Follows
<1>6. QED BY <1>1, <1>2, <1>3, <1>5

\* A row that is no command and leaves the stages passed fresh keeps the chain.
LEMMA ChainRow ==
    ASSUME TypeOK, SessionInv, cfg' = cfg, NEW k, At(k), k # "tool", pos' = pos + 1 \/ pos' = pos,
           \A w \in ChainTools, i \in 1..Len(Plan) : i < pos /\ IsStage(i, w) => Fresh(Out(w))'
    PROVE  ChainFresh'
<1>1. pos \in 1..Len(Plan) /\ Plan[pos].kind = k /\ Plan' = Plan
  BY PlanOrdered DEF At, SessionInv, Plan
<1>2. SUFFICES ASSUME NEW w \in ChainTools, NEW i \in 1..Len(Plan), i < pos', IsStage(i, w)
               PROVE  Fresh(Out(w))'
  BY <1>1 DEF ChainFresh, IsStage
<1>3. i # pos
  BY <1>1, <1>2 DEF IsStage
<1>4. i < pos
  BY <1>1, <1>2, <1>3
<1>5. QED BY <1>2, <1>4

\* What is computed from files that a step leaves alone stays fresh.
LEMMA FreshUnchanged == ASSUME NEW g, Fresh(g), UNCHANGED files PROVE Fresh(g)'
BY DEF Fresh, View, Seen, files

\* Of the files of the chain, writing others touches none.
LEMMA FreshWrite ==
    ASSUME TypeOK, NEW g \in Computed, Fresh(g), NEW q, Write(q),
           (Inputs[g] \cup {g}) \cap DOMAIN q = {}, g \in Files
    PROVE  Fresh(g)'
<1>1. \A f \in Inputs[g] \cup {g} : f \in Files /\ f \notin DOMAIN q
  BY InputsAreFiles
<1>2. \A f \in Inputs[g] \cup {g} : quality'[f] = quality[f] /\ ver'[f] = ver[f]
  BY <1>1 DEF Write
<1>3. basis'[g] = basis[g]
  BY <1>1 DEF Write
<1>4. QED BY <1>2, <1>3, FreshKept

\* The writer of the report, the auditor of the domain and the coverage delta write no
\* input of a stage they come after.
LEMMA LateWriters ==
    /\ (Inputs[Out("rollup")] \cup {Out("rollup")}) \cap
          {Out("report-writer"), Out("domain-auditor"), Out("build-report"), Out("audit-report"),
           Out("domain-coverage-delta")} = {}
    /\ (Inputs[Out("build-report")] \cup {Out("build-report")}) \cap
          {Out("domain-auditor"), Out("audit-report"), Out("domain-coverage-delta")} = {}
    /\ (Inputs[Out("audit-report")] \cup {Out("audit-report")}) \cap
          {Out("domain-auditor"), Out("domain-coverage-delta")} = {}
BY ChainInputs DEF Out, TmFindings, ApFindings

\* A remedy writes the report's data, or nothing.
LEMMA RewrittenWrites ==
    Rewritten => UNCHANGED files \/ \E q : DOMAIN q = {Out("report-writer")} /\ Write(q)
<1> SUFFICES ASSUME NEW b, Write([f \in {Out("report-writer")} |-> b])
             PROVE  \E q : DOMAIN q = {Out("report-writer")} /\ Write(q)
  BY DEF Rewritten
<1>1. DOMAIN [f \in {Out("report-writer")} |-> b] = {Out("report-writer")}
  OBVIOUS
<1>2. QED BY <1>1

\* Each step of a session leaves the stages it has passed fresh.
LEMMA ChainStep == TypeOK /\ SessionInv /\ ChainFresh /\ [Next]_vars => ChainFresh'
<1> SUFFICES ASSUME TypeOK, SessionInv, ChainFresh, [Next]_vars PROVE ChainFresh'
  OBVIOUS
<1>0. pos \in Int /\ pos >= 1 /\ \A w \in ChainTools : Out(w) \in Files
  BY ChainInputs, KnownFiles DEF TypeOK, SessionInv
<1>e. phase' # "running" => ChainFresh'
  BY DEF ChainFresh
<1>u. ASSUME cfg' = cfg, UNCHANGED files, NEW k, At(k), k # "tool",
             pos' = pos + 1 \/ pos' = pos \/ phase' # "running"
      PROVE  ChainFresh'
  <2>1. \A w \in ChainTools, i \in 1..Len(Plan) : i < pos /\ IsStage(i, w) => Fresh(Out(w))'
    BY <1>u, StagesPassed, FreshUnchanged
  <2>2. QED BY <1>u, <1>e, <2>1, ChainRow
<1>v. ASSUME cfg' = cfg, NEW k, At(k), k \in {"canonicalize", "tier-gate"},
             pos' = pos + 1 \/ pos' = pos
      PROVE  ChainFresh'
  <2>1. \A w \in ChainTools, i \in 1..Len(Plan) : ~(i < pos /\ IsStage(i, w))
    <3>1. SUFFICES ASSUME NEW w \in ChainTools, NEW i \in 1..Len(Plan), i < pos, IsStage(i, w)
                   PROVE  FALSE
      OBVIOUS
    <3>2. /\ Plan[pos].kind = k /\ Rank(Plan[i]) \in {3, 5, 6}
          /\ Rank(Plan[i]) < Rank(Plan[pos])
      BY <1>v, <3>1, StagesPassed
    <3>3. Rank(Plan[pos]) = 0
      BY <1>v, <3>2, RankOfRow
    <3>4. QED BY <3>2, <3>3
  <2>2. QED BY <1>v, <2>1, ChainRow
<1>1. CASE Invoke
  BY <1>1 DEF Invoke, ChainFresh
<1>2. CASE ResumePlan \/ AsideRow \/ SkipAgent \/ AuditorAgent \/ IntakeGate \/ TierGatePasses
           \/ TierHalt \/ FullGate \/ AuditPasses \/ AuditHalts
  BY <1>2, <1>u DEF ResumePlan, AsideRow, SkipAgent, AuditorAgent, IntakeGate, TierGatePasses, TierHalt,
     FullGate, AuditPasses, AuditHalts, Advance, Halt
<1>3. CASE DispatchAgent
  <2>1. /\ cfg' = cfg /\ At("agent") /\ pos' = pos + 1
    BY <1>3 DEF DispatchAgent, Advance
  <2> DEFINE sound == [f \in OutputsOf(Who) |-> Sound(f)]
  <2>2. PICK q : DOMAIN q = OutputsOf(Who) /\ Write(q)
    <3>1. CASE Write(sound)
      BY <3>1
    <3>2. CASE \E f \in OutputsOf(Who) : \E b \in Flaws(f) : Write([sound EXCEPT ![f] = b])
      BY <3>2
    <3>3. QED BY <1>3, <3>1, <3>2 DEF DispatchAgent
  <2>3. ASSUME NEW w \in ChainTools, NEW i \in 1..Len(Plan), i < pos, IsStage(i, w)
        PROVE  Fresh(Out(w))'
    <3>1. /\ pos \in 1..Len(Plan) /\ Plan[pos].kind = "agent"
          /\ Fresh(Out(w)) /\ Out(w) \in Computed
          /\ Rank(Plan[i]) \in {3, 5, 6} /\ Rank(Plan[i]) < Rank(Plan[pos])
      BY <2>1, <2>3, StagesPassed
    <3>2. Rank(Plan[pos]) >= 4 /\ (Rank(Plan[pos]) = 4 => Rank(Plan[i]) = 3)
      BY <3>1, RankOfRow
    <3>3. /\ Who \in {"report-writer", "domain-auditor"}
          /\ Who = "report-writer" => w = "rollup"
      BY <2>3, <3>1, <3>2, RankOfRow DEF Who, IsStage, ChainTools
    <3>4. OutputsOf(Who) = {Out(Who)}
      BY <3>3, LensesAssumption DEF OutputsOf, Parts, Out, OtherAgents
    <3>5. w \in ChainTools
      BY <2>3
    <3>6. (Inputs[Out(w)] \cup {Out(w)}) \cap DOMAIN q = {}
      BY <2>2, <3>3, <3>4, <3>5, LateWriters DEF ChainTools
    <3>7. Out(w) \in Files
      BY <1>0, <3>5
    <3>8. QED BY <2>2, <3>1, <3>6, <3>7, FreshWrite
  <2>4. QED BY <2>1, <2>3, ChainRow
<1>4. CASE DispatchFails
  <2>1. cfg' = cfg /\ UNCHANGED files /\ At("agent")
    BY <1>4 DEF DispatchFails
  <2>2. pos' = pos + 1 \/ pos' = pos
    BY <1>4 DEF DispatchFails, Retry, Advance, Halt
  <2>3. QED BY <1>u, <2>1, <2>2
<1>5. CASE CanonicalizeRow \/ TierRepair \/ TierRerun
  BY <1>5, <1>v DEF CanonicalizeRow, TierRepair, TierRerun, Advance, Retry, Halt
<1>6. CASE ToolRow
  <2> DEFINE g == Out(Who)
             q == [f \in {g} |-> "good"]
  <2>1. cfg' = cfg /\ At("tool")
    BY <1>6 DEF ToolRow
  <2>2. CASE Halt
    BY <2>2, <1>e DEF Halt
  <2>3. CASE /\ pos' = pos + 1
             /\ (quality[g] = "good" /\ basis[g] = View(g) /\ UNCHANGED files) \/ Write(q)
    <3>1. pos \in 1..Len(Plan) /\ Plan[pos].kind = "tool" /\ Plan' = Plan
      BY <1>0, <2>1, PlanOrdered DEF At, Plan
    <3>2. ASSUME NEW w \in ChainTools, IsStage(pos, w) PROVE Fresh(Out(w))'
      <4>1. /\ g = Out(w) /\ Out(w) \in Computed /\ Out(w) \in Files
            /\ Out(w) \notin Inputs[Out(w)]
        BY <1>0, <3>2, ChainInputs DEF IsStage, Who, ChainTools, Out, TmFindings, ApFindings
      <4>2. CASE quality[g] = "good" /\ basis[g] = View(g) /\ UNCHANGED files
        <5>1. Fresh(Out(w))
          BY <4>1, <4>2 DEF Fresh
        <5>2. QED BY <4>2, <5>1, FreshUnchanged
      <4>3. CASE Write(q)
        <5>1. quality'[Out(w)] = "good" /\ basis'[Out(w)] = View(Out(w))
          BY <4>1, <4>3 DEF Write
        <5>2. \A f \in Inputs[Out(w)] : f \in Files /\ f \notin DOMAIN q
          BY <4>1, InputsAreFiles
        <5>3. \A f \in Inputs[Out(w)] : quality'[f] = quality[f] /\ ver'[f] = ver[f]
          BY <5>2, <4>3 DEF Write
        <5>4. View(Out(w))' = View(Out(w))
          BY <5>3 DEF View, Seen
        <5>5. QED BY <5>1, <5>4 DEF Fresh
      <4>4. QED BY <2>3, <4>2, <4>3
    <3>3. ASSUME NEW w \in ChainTools, NEW i \in 1..Len(Plan), i < pos, IsStage(i, w)
          PROVE  Fresh(Out(w))'
      <4>1. /\ Fresh(Out(w)) /\ Out(w) \in Computed
            /\ Rank(Plan[i]) \in {3, 5, 6} /\ Rank(Plan[i]) < Rank(Plan[pos])
        BY <2>1, <3>3, StagesPassed
      <4>2. Rank(Plan[pos]) >= 4
        BY <4>1, RankOfRow
      <4>3. /\ Who \in {"build-report", "audit-report", "domain-coverage-delta"}
            /\ Who = "build-report" => w = "rollup"
            /\ Who = "audit-report" => w # "audit-report"
        BY <3>1, <3>3, <4>1, <4>2, RankOfRow DEF Who, IsStage, ChainTools
      <4>4. Out(w) \in Files
        BY <1>0
      <4>5. (Inputs[Out(w)] \cup {Out(w)}) \cap {g} = {}
        BY <4>3, LateWriters DEF ChainTools, g
      <4>6. CASE UNCHANGED files
        BY <4>1, <4>6, FreshUnchanged
      <4>7. CASE Write(q)
        <5>1. PICK p : p = q
          OBVIOUS
        <5>2. DOMAIN p = {g} /\ Write(p)
          BY <4>7, <5>1
        <5>3. QED BY <4>1, <4>4, <4>5, <5>2, FreshWrite
      <4>8. QED BY <2>3, <4>6, <4>7
    <3>4. \A i \in 1..Len(Plan) : i < pos' => i < pos \/ i = pos
      BY <2>3, <3>1
    <3>5. QED BY <3>1, <3>2, <3>3, <3>4 DEF ChainFresh, IsStage
  <2>4. QED BY <1>6, <2>2, <2>3 DEF ToolRow, Advance
<1>7. CASE Remediate
  <2>1. cfg' = cfg /\ At("audit-gate") /\ pos' = pos - 2 /\ Rewritten
    BY <1>7 DEF Remediate
  <2>2. /\ pos \in 1..Len(Plan) /\ pos > 2 /\ Plan' = Plan /\ pos - 2 \in 1..Len(Plan)
        /\ Plan[pos - 2].kind = "tool" /\ Plan[pos - 2].who = "build-report"
    <3>1. Plan = BuildPlan(cfg)
      BY DEF Plan, Plans, TypeOK
    <3>2. pos \in 1..Len(Plan) /\ Plan[pos].kind = "audit-gate" /\ Plan' = Plan
      BY <1>0, <2>1, PlanOrdered DEF At, Plan
    <3>3. InOrder(Plan, pos)
      BY <3>1, <3>2, PlanOrder
    <3>4. QED BY <3>2, <3>3 DEF InOrder
  <2>3. ASSUME NEW w \in ChainTools, NEW i \in 1..Len(Plan), i < pos - 2, IsStage(i, w)
        PROVE  Fresh(Out(w))'
    <3>1. i < pos
      BY <2>2, <2>3
    <3>2. Fresh(Out(w)) /\ Rank(Plan[i]) \in {3, 5, 6}
      BY <2>1, <2>3, <3>1, StagesPassed
    <3>3. Follows(Rank(Plan[i]), 5)
      BY <2>2, <2>3, GateRow, RankOfRow
    <3>4. Rank(Plan[i]) = 3
      BY <3>2, <3>3 DEF Follows
    <3>5. w = "rollup"
      BY <2>3, <3>4, RankOfRow DEF IsStage, ChainTools
    <3>6. Out("rollup") \in Computed /\ Out("rollup") \in Files
      BY <1>0, ChainInputs DEF ChainTools
    <3>7. (Inputs[Out("rollup")] \cup {Out("rollup")}) \cap {Out("report-writer")} = {}
      BY LateWriters
    <3>8. ASSUME NEW q, DOMAIN q = {Out("report-writer")}, Write(q) PROVE Fresh(Out("rollup"))'
      BY <3>8, <3>2, <3>5, <3>6, <3>7, FreshWrite
    <3>9. UNCHANGED files \/ \E q : DOMAIN q = {Out("report-writer")} /\ Write(q)
      BY <2>1, RewrittenWrites
    <3>10. Fresh(Out("rollup"))'
      BY <3>2, <3>5, <3>8, <3>9, FreshUnchanged
    <3>11. QED BY <3>5, <3>10
  <2>4. QED BY <2>1, <2>2, <2>3 DEF ChainFresh, IsStage
<1>8. CASE Closeout \/ Stop \/ StopInAgent \/ StopInCommand \/ HandFix
  BY <1>8, <1>e DEF Closeout, Stop, StopInAgent, StopInCommand, EndSession, HandFix
<1>9. CASE UNCHANGED vars
  <2>1. Plan' = Plan /\ pos' = pos /\ phase' = phase /\ UNCHANGED files
    BY <1>9 DEF vars, Plan
  <2>2. QED BY <2>1, FreshUnchanged DEF ChainFresh, IsStage
<1>10. QED
  BY <1>1, <1>2, <1>3, <1>4, <1>5, <1>6, <1>7, <1>8, <1>9 DEF Next, DriveStep, OutsideStep

-----------------------------------------------------------------------------
(* The drive implements the contract.                                      *)

\* What the drive puts for the contract's three variables.
StageBar ==
    CASE phase = "running" -> IF Past("full-gate", "") THEN "sealed" ELSE "collecting"
      [] phase \in {"ready", "stopped"} -> "idle"
      [] OTHER -> phase
ValidBar == Refused(LensFiles) = {}
CurrentBar == \A g \in ReportChain : quality[g] = "good" /\ basis[g] = View(g)

\* The contract's step, of these.
BarStep ==
    \/ /\ StageBar \in {"idle", "halted", "done"} /\ StageBar' = "collecting"
       /\ UNCHANGED <<ValidBar, CurrentBar>>
    \/ StageBar = "collecting" /\ StageBar' = "collecting"
    \/ /\ StageBar = "collecting" /\ ValidBar /\ StageBar' = "sealed"
       /\ UNCHANGED <<ValidBar, CurrentBar>>
    \/ StageBar = "sealed" /\ StageBar' = "sealed" /\ UNCHANGED ValidBar
    \/ /\ StageBar = "sealed" /\ CurrentBar /\ StageBar' = "done"
       /\ UNCHANGED <<ValidBar, CurrentBar>>
    \/ StageBar = "collecting" /\ StageBar' = "halted"
    \/ StageBar = "sealed" /\ StageBar' = "halted" /\ UNCHANGED <<ValidBar, CurrentBar>>
    \/ StageBar \in {"collecting", "sealed"} /\ StageBar' = "idle"
    \/ StageBar = "halted" /\ StageBar' = "idle"

\* BarStep is the contract's next-state relation.
LEMMA BarStepIsContracts == BarStep => Contract!Next
<1>1. ValidBar' \in BOOLEAN /\ CurrentBar' \in BOOLEAN
  BY Zenon DEF ValidBar, CurrentBar
<1>2. QED
  BY <1>1, Zenon DEF BarStep, Contract!Next, Contract!Begin, Contract!Collect, Contract!Seal,
     Contract!Report, Contract!Finish, Contract!GiveUp, Contract!Halt, Contract!Die, Contract!Fix,
     Contract!Becomes, Contract!Anything, Contract!Reporting, StageBar, ValidBar, CurrentBar

\* The stage of the contract, from the session's phase and place in the checklist.
LEMMA StageIs ==
    /\ phase = "running" /\ pos > Gate => StageBar = "sealed"
    /\ phase = "running" /\ ~(pos > Gate) => StageBar = "collecting"
    /\ phase \in {"ready", "stopped"} => StageBar = "idle"
    /\ phase \in {"halted", "done"} => StageBar = phase
BY DEF StageBar, Past, Gate

\* And after a step.
LEMMA StageBecomes ==
    ASSUME cfg' = cfg
    PROVE  /\ phase' = "running" /\ pos' > Gate => StageBar' = "sealed"
           /\ phase' = "running" /\ ~(pos' > Gate) => StageBar' = "collecting"
           /\ phase' \in {"ready", "stopped"} => StageBar' = "idle"
           /\ phase' \in {"halted", "done"} => StageBar' = phase'
<1>1. Gate' = Gate
  BY DEF Gate, RowOf, Plan
<1>2. /\ phase' = "running" /\ pos' > Gate' => StageBar' = "sealed"
      /\ phase' = "running" /\ ~(pos' > Gate') => StageBar' = "collecting"
      /\ phase' \in {"ready", "stopped"} => StageBar' = "idle"
      /\ phase' \in {"halted", "done"} => StageBar' = phase'
  BY DEF StageBar, Past, Gate
<1>3. QED BY <1>1, <1>2

\* The lens records are as valid as before when their files are left alone, and with all
\* files left alone the report is as current.
LEMMA BarsKept ==
    /\ (\A f \in LensFiles : quality'[f] = quality[f]) => UNCHANGED ValidBar
    /\ UNCHANGED files => UNCHANGED <<ValidBar, CurrentBar>>
<1>1. (\A f \in LensFiles : quality'[f] = quality[f]) => UNCHANGED ValidBar
  BY DEF ValidBar, Refused, Failing, Unfit
<1>2. UNCHANGED files => UNCHANGED CurrentBar
  BY DEF files, CurrentBar, View, Seen
<1>3. UNCHANGED files => UNCHANGED ValidBar
  BY <1>1 DEF files
<1>4. QED BY <1>1, <1>2, <1>3

\* What commands and the agents of synthesis write is no lens file.
LEMMA LensFilesApart ==
    /\ \A w : Out(w) \notin LensFiles
    /\ \A a \in OtherAgents : OutputsOf(a) \cap LensFiles = {}
    /\ LensFiles \subseteq Files
<1>1. \A f \in LensFiles : \E l \in Lenses : f = <<l, "findings">> \/ f = <<l, "capabilities">>
  BY LensParts DEF LensFiles, OutputsOf
<1>2. \A a \in OtherAgents : OutputsOf(a) \cap LensFiles = {}
  BY <1>1, LensesAssumption DEF OutputsOf
<1>3. \A w : Out(w) \notin LensFiles
  BY <1>1 DEF Out
<1>4. QED BY <1>2, <1>3, KnownFiles DEF RecordFiles

\* A row that is not the full gate collects before it and reports behind it.
LEMMA RowSteps ==
    ASSUME TypeOK, SessionInv, NEW k, At(k), k # "full-gate", cfg' = cfg, phase' = phase,
           pos' = pos + 1 \/ pos' = pos, pos > Gate => UNCHANGED ValidBar
    PROVE  BarStep
<1>1. /\ phase = "running" /\ pos \in 1..Len(Plan) /\ Plan[pos].kind = k
      /\ Gate \in 1..Len(Plan) /\ Plan[Gate].kind = "full-gate" /\ Len(Plan) \in Nat
  BY PlanOrdered, GateRow DEF At, SessionInv
<1>2. pos # Gate
  BY <1>1
<1>3. CASE pos > Gate
  <2>1. pos' > Gate
    BY <1>1, <1>3
  <2>2. QED BY <1>1, <1>3, <2>1, StageIs, StageBecomes DEF BarStep
<1>4. CASE ~(pos > Gate)
  <2>1. ~(pos' > Gate)
    BY <1>1, <1>2, <1>4
  <2>2. QED BY <1>1, <1>4, <2>1, StageIs, StageBecomes DEF BarStep
<1>5. QED BY <1>3, <1>4

\* Behind the full gate there are only commands, agents of synthesis and the audit.
LEMMA BehindGate ==
    ASSUME TypeOK, SessionInv, NEW k, At(k), pos > Gate
    PROVE  /\ k \notin {"full-gate", "canonicalize", "tier-gate"}
           /\ k = "agent" => Who \in OtherAgents
<1>1. pos \in 1..Len(Plan) /\ Plan[pos].kind = k
  BY PlanOrdered DEF At, SessionInv
<1>2. Rank(Plan[pos]) >= 2
  BY <1>1, GateRow
<1>3. QED BY <1>1, <1>2, RankOfRow DEF Who

\* Every step of the drive is one of the contract, or stutters.
LEMMA ContractStep ==
    TypeOK /\ SessionInv /\ ChainFresh /\ [Next]_vars => [Contract!Next]_(Contract!vars)
<1> SUFFICES ASSUME TypeOK, SessionInv, ChainFresh, [Next]_vars
             PROVE  BarStep \/ UNCHANGED <<StageBar, ValidBar, CurrentBar>>
  BY BarStepIsContracts DEF Contract!vars, StageBar, ValidBar, CurrentBar
<1>0. /\ pos \in Int /\ pos >= 1 /\ Gate \in 1..Len(Plan) /\ Len(Plan) \in Nat
      /\ phase \in {"ready", "running", "stopped", "halted", "done"}
  BY GateRow DEF TypeOK, SessionInv
<1>r. ASSUME cfg' = cfg, UNCHANGED files, NEW k, At(k), k # "full-gate",
             (phase' = phase /\ (pos' = pos + 1 \/ pos' = pos)) \/ phase' = "halted"
      PROVE  BarStep
  <2>1. CASE phase' = "halted"
    BY <1>r, <2>1, StageIs, StageBecomes, BarsKept DEF BarStep, At
  <2>2. CASE phase' = phase /\ (pos' = pos + 1 \/ pos' = pos)
    BY <1>r, <2>2, BarsKept, RowSteps
  <2>3. QED BY <1>r, <2>1, <2>2
<1>1. CASE Invoke
  BY <1>0, <1>1, StageIs, StageBecomes, BarsKept DEF Invoke, BarStep
<1>2. CASE ResumePlan \/ AsideRow \/ SkipAgent \/ AuditorAgent \/ IntakeGate \/ TierGatePasses
           \/ TierHalt \/ AuditPasses \/ AuditHalts
  BY <1>2, <1>r DEF ResumePlan, AsideRow, SkipAgent, AuditorAgent, IntakeGate, TierGatePasses, TierHalt,
     AuditPasses, AuditHalts, Advance, Halt
<1>3. CASE DispatchAgent
  <2>1. cfg' = cfg /\ At("agent") /\ pos' = pos + 1 /\ phase' = phase
    BY <1>3 DEF DispatchAgent, Advance
  <2> DEFINE sound == [f \in OutputsOf(Who) |-> Sound(f)]
  <2>2. PICK q : DOMAIN q = OutputsOf(Who) /\ Write(q)
    <3>1. CASE Write(sound)
      BY <3>1
    <3>2. CASE \E f \in OutputsOf(Who) : \E b \in Flaws(f) : Write([sound EXCEPT ![f] = b])
      BY <3>2
    <3>3. QED BY <1>3, <3>1, <3>2 DEF DispatchAgent
  <2>3. ASSUME pos > Gate PROVE UNCHANGED ValidBar
    <3>1. Who \in OtherAgents
      BY <2>1, <2>3, BehindGate
    <3>2. \A f \in LensFiles : f \in Files /\ f \notin DOMAIN q
      BY <2>2, <3>1, LensFilesApart
    <3>3. \A f \in LensFiles : quality'[f] = quality[f]
      BY <2>2, <3>2 DEF Write
    <3>4. QED BY <3>3, BarsKept
  <2>4. QED BY <2>1, <2>3, RowSteps
<1>4. CASE DispatchFails
  <2>1. cfg' = cfg /\ UNCHANGED files /\ At("agent")
    BY <1>4 DEF DispatchFails
  <2>2. (phase' = phase /\ (pos' = pos + 1 \/ pos' = pos)) \/ phase' = "halted"
    BY <1>4 DEF DispatchFails, Retry, Advance, Halt
  <2>3. QED BY <1>r, <2>1, <2>2
<1>5. CASE CanonicalizeRow \/ TierRepair \/ TierRerun
  <2>1. PICK k \in {"canonicalize", "tier-gate"} :
            /\ cfg' = cfg /\ At(k)
            /\ (phase' = phase /\ (pos' = pos + 1 \/ pos' = pos)) \/ phase' = "halted"
    BY <1>5 DEF CanonicalizeRow, TierRepair, TierRerun, Advance, Retry, Halt
  <2>2. ~(pos > Gate)
    BY <2>1, BehindGate
  <2>3. CASE phase' = "halted"
    BY <2>1, <2>2, <2>3, StageIs, StageBecomes DEF BarStep, At
  <2>4. CASE phase' = phase /\ (pos' = pos + 1 \/ pos' = pos)
    BY <2>1, <2>2, <2>4, RowSteps
  <2>5. QED BY <2>1, <2>3, <2>4
<1>6. CASE FullGate
  <2>1. cfg' = cfg /\ At("full-gate") /\ UNCHANGED files /\ phase = "running"
    BY <1>6 DEF FullGate, At
  <2>2. pos \in 1..Len(Plan) /\ Plan[pos].kind = "full-gate"
    BY <1>0, <2>1, PlanOrdered
  <2>3. pos = Gate
    BY <1>0, <2>1, <2>2, GateRow, BehindGate
  <2>4. CASE Refused(Files) = {} /\ Advance
    <3>1. pos' > Gate /\ phase' = "running"
      BY <1>0, <2>1, <2>3, <2>4 DEF Advance
    <3>2. ValidBar
      BY <2>4, LensFilesApart DEF ValidBar, Refused, Failing, Unfit
    <3>3. StageBar = "collecting" /\ StageBar' = "sealed"
      BY <1>0, <2>1, <2>3, <3>1, StageIs, StageBecomes
    <3>4. QED BY <2>1, <3>2, <3>3, BarsKept DEF BarStep
  <2>5. CASE Halt
    BY <2>1, <2>5, StageIs, StageBecomes, BarsKept DEF Halt, BarStep
  <2>6. QED BY <1>6, <2>4, <2>5 DEF FullGate
<1>7. CASE ToolRow
  <2>1. cfg' = cfg /\ At("tool")
    BY <1>7 DEF ToolRow
  <2>2. CASE Halt /\ UNCHANGED files
    BY <1>r, <2>1, <2>2 DEF Halt
  <2>3. CASE Advance /\ UNCHANGED files
    BY <1>r, <2>1, <2>3 DEF Advance
  <2>4. CASE Advance /\ Write([f \in {Out(Who)} |-> "good"])
    <3>1. \A f \in LensFiles : f \in Files /\ f # Out(Who)
      BY LensFilesApart
    <3>2. \A f \in LensFiles : quality'[f] = quality[f]
      BY <2>4, <3>1 DEF Write
    <3>3. QED BY <2>1, <2>4, <3>2, BarsKept, RowSteps DEF Advance
  <2>5. QED BY <1>7, <2>2, <2>3, <2>4 DEF ToolRow
<1>8. CASE Remediate
  <2>1. /\ cfg' = cfg /\ At("audit-gate") /\ pos' = pos - 2 /\ phase' = phase
        /\ phase = "running" /\ Rewritten
    BY <1>8 DEF Remediate, At
  <2>2. \A f \in LensFiles : quality'[f] = quality[f]
    BY <2>1, LensFilesApart, RewrittenWrites DEF Write, files
  <2>3. UNCHANGED ValidBar
    BY <2>2, BarsKept
  <2>4. /\ pos > 2 /\ Plan[pos - 1].kind = "tool" /\ Plan[pos - 2].kind = "tool"
        /\ Plan[Gate].kind = "full-gate"
    BY <1>0, <2>1, PlanOrdered, GateRow
  <2>5. CASE pos > Gate
    <3>1. pos' > Gate
      BY <1>0, <2>1, <2>4, <2>5
    <3>2. QED BY <2>1, <2>3, <2>5, <3>1, StageIs, StageBecomes DEF BarStep
  <2>6. CASE ~(pos > Gate)
    <3>1. ~(pos' > Gate)
      BY <1>0, <2>1, <2>6
    <3>2. QED BY <2>1, <2>6, <3>1, StageIs, StageBecomes DEF BarStep
  <2>7. QED BY <2>5, <2>6
<1>9. CASE Closeout
  <2>1. /\ phase = "running" /\ pos = Len(Plan) + 1 /\ phase' = "done" /\ cfg' = cfg
        /\ UNCHANGED files
    BY <1>9 DEF Closeout
  <2>2. pos > Gate
    BY <1>0, <2>1
  <2>3. \A w \in ChainTools : \E i \in 1..Len(Plan) : IsStage(i, w)
    BY GateRow DEF ChainTools, IsStage
  <2>4. \A w \in ChainTools : Fresh(Out(w))
    BY <1>0, <2>1, <2>3 DEF ChainFresh
  <2>5. CurrentBar
    BY <2>4 DEF CurrentBar, ReportChain, ChainTools, Fresh
  <2>6. QED BY <2>1, <2>2, <2>5, StageIs, StageBecomes, BarsKept DEF BarStep
<1>10. CASE Stop \/ StopInAgent \/ StopInCommand
  <2>1. phase = "running" /\ phase' = "stopped" /\ cfg' = cfg
    BY <1>10 DEF Stop, StopInAgent, StopInCommand, EndSession
  <2>2. QED BY <2>1, StageIs, StageBecomes DEF BarStep
<1>11. CASE HandFix
  BY <1>11, StageIs, StageBecomes DEF HandFix, BarStep
<1>12. CASE UNCHANGED vars
  <2>1. cfg' = cfg /\ phase' = phase /\ pos' = pos /\ UNCHANGED files
    BY <1>12 DEF vars
  <2>2. StageBar' = StageBar
    BY <1>0, <2>1, StageIs, StageBecomes
  <2>3. QED BY <2>1, <2>2, BarsKept
<1>13. QED
  BY <1>1, <1>2, <1>3, <1>4, <1>5, <1>6, <1>7, <1>8, <1>9, <1>10, <1>11, <1>12
     DEF Next, DriveStep, OutsideStep

\* A fresh directory is idle, and has no report.
LEMMA ContractInit == Init => Contract!Init /\ ChainFresh
<1> SUFFICES ASSUME Init PROVE Contract!Init /\ ChainFresh
  OBVIOUS
<1>1. StageBar = "idle"
  BY StageIs DEF Init
<1>2. CurrentBar = FALSE
  <2>1. Out("rollup") \in ReportChain /\ quality[Out("rollup")] = "missing"
    BY ChainInputs, KnownFiles DEF ReportChain, ChainTools, Init
  <2>2. QED BY <2>1 DEF CurrentBar
<1>3. ValidBar \in BOOLEAN
  BY Zenon DEF ValidBar
<1>4. Contract!Init
  BY <1>1, <1>2, <1>3 DEF Contract!Init, StageBar, ValidBar, CurrentBar
<1>5. QED BY <1>4 DEF Init, ChainFresh

\* The drive keeps the contract its readers rely on, whoever fails on the way: synthesis
\* starts over valid lens records that stay so, and a run closes out only with a report
\* built from, and audited with, the files as they are.
THEOREM DriveKeepsContract == Spec => KeepsContract
<1>1. Spec => Contract!Init /\ [][Contract!Next]_(Contract!vars)
  BY TypeInit, TypeStep, SessionInit, SessionStep, ChainStep, ContractInit, ContractStep, PTL
     DEF Spec
<1>2. QED BY <1>1 DEF KeepsContract, Contract!Spec

=============================================================================
