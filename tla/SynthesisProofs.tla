--------------------------- MODULE SynthesisProofs ---------------------------
(***************************************************************************)
(* Type correctness of the synthesis rows, that apply-clusters loses no    *)
(* record, drops no merge in silence and grades capabilities by all the    *)
(* verdicts, and that the rollup counts each tier-4 finding once: for any  *)
(* records, any decisions and verdicts, and sessions that stop anywhere.   *)
(***************************************************************************)
EXTENDS Synthesis, FiniteSetTheorems, TLAPS

-----------------------------------------------------------------------------
(* Bags.                                                                   *)

\* A set is a bag, and so is the sum of two bags.
LEMMA SetsAreBags == ASSUME NEW S PROVE IsABag(SetToBag(S)) /\ DOMAIN SetToBag(S) = S
BY DEF IsABag, SetToBag

\* The sum of two bags is one: the count of the rollup is well-formed.
LEMMA SumsAreBags ==
    ASSUME NEW A, NEW B, IsABag(A), IsABag(B)
    PROVE  IsABag(A (+) B)
BY DEF IsABag, (+)

\* A member of either of two disjoint sets is in the sum of their bags once.
LEMMA OnceInSum ==
    ASSUME NEW A, NEW B, A \cap B = {}, NEW e \in A \cup B
    PROVE  Copies(e, SetToBag(A) (+) SetToBag(B)) = 1
BY DEF SetToBag, (+), Copies

-----------------------------------------------------------------------------
(* Type correctness.                                                       *)

\* What the adjudicator may name, and what a decision in turn names.
LEMMA NamedAreMembers == TypeOK /\ pc = "merge" /\ step \in 1..Len(decisions) => Named \subseteq Members
<1> SUFFICES ASSUME TypeOK, step \in 1..Len(decisions) PROVE Named \subseteq Members
  OBVIOUS
<1> DEFINE D == [kind : {"merge", "link", "separate"}, members : Seq(Members)]
<1>1. DecisionLists \subseteq Seq(D)
  BY ListsAssumption
<1> HIDE DEF D
<1>2. decisions \in Seq(D)
  BY <1>1 DEF TypeOK
<1>3. decisions[step] \in D
  BY <1>2
<1>4. QED
  BY <1>3 DEF Named, D

\* The verdict in turn names a capability, unless it is passed over.
LEMMA VerdictsAreTyped == TypeOK /\ Judging => verdicts[step].capability \in Capabilities
<1> SUFFICES ASSUME TypeOK, Judging PROVE verdicts[step].capability \in Capabilities
  OBVIOUS
<1> DEFINE V == [finding : LensFindings \cup {NoId}, capability : Capabilities \cup {NoId},
                 classification : {"compatible", "contradicted", "stale"}]
<1>1. VerdictLists \subseteq Seq(V)
  BY ListsAssumption
<1> HIDE DEF V
<1>2. verdicts \in Seq(V)
  BY <1>1 DEF TypeOK, Judging, InTurn
<1>3. verdicts[step] \in V
  BY <1>2 DEF Judging, InTurn
<1>4. QED
  BY <1>3 DEF V, Judging, BothNamed

\* The state before the first session is well-typed.
LEMMA TypeInit == Init => TypeOK
<1> SUFFICES ASSUME Init PROVE TypeOK
  OBVIOUS
<1>1. IsABag(EmptyBag)
  BY SetsAreBags DEF EmptyBag
<1>2. lensRecords \subseteq Members /\ level \in [Capabilities -> 0..3] /\ sessions \in 0..MaxSessions
  BY IdsAssumption DEF Init, Members
<1>3. QED
  BY <1>1, <1>2 DEF Init, TypeOK

\* Every step of a session, a crash included, keeps the state well-typed.
LEMMA TypeStep == TypeOK /\ [Next]_vars => TypeOK'
<1> SUFFICES ASSUME TypeOK, [Next]_vars PROVE TypeOK'
  OBVIOUS
<1> USE DEF TypeOK, disk, apply, GoTo, UnchangedInputs, UnchangedTierFour, UnchangedReport
<1>1. CASE Begin
  BY <1>1, IdsAssumption DEF Begin, Members
<1>2. CASE Adjudicate
  BY <1>2 DEF Adjudicate
<1>3. CASE SkipAdjudicator \/ Blocked \/ KeepApart \/ PassOver \/ RefuseToWrite \/ Crash
  BY <1>3 DEF SkipAdjudicator, Blocked, KeepApart, PassOver, InTurn, RefuseToWrite, Crash
<1>4. CASE LoadCorpus
  BY <1>4, IdsAssumption DEF LoadCorpus
<1>5. CASE MergeFindings
  BY <1>5, NamedAreMembers DEF MergeFindings, Deciding
<1>6. CASE MergeCapabilities
  BY <1>6, NamedAreMembers DEF MergeCapabilities, Deciding
<1>7. CASE RejectMerge
  BY <1>7 DEF RejectMerge, Deciding
<1>8. CASE EndMerge \/ EndJudge
  BY <1>8 DEF EndMerge, EndJudge
<1>9. CASE Judge
  <2>1. level' \in [Capabilities -> 0..3]
    BY <1>9, VerdictsAreTyped DEF Judge, Downgrades
  <2>2. QED
    BY <1>9, <2>1 DEF Judge, Judging, InTurn
<1>10. CASE WriteOutput
  BY <1>10 DEF WriteOutput, Outputs
<1>11. CASE Evaluate
  BY <1>11 DEF Evaluate
<1>12. CASE AnalyzePaths
  BY <1>12 DEF AnalyzePaths
<1>13. CASE Rollup
  BY <1>13, SetsAreBags, SumsAreBags DEF Rollup
<1>14. CASE BuildReport
  BY <1>14, SetsAreBags, SumsAreBags DEF BuildReport
<1>15. CASE AuditReport
  BY <1>15 DEF AuditReport
<1>16. CASE CrashInEvaluator
  BY <1>16 DEF CrashInEvaluator
<1>17. CASE UNCHANGED vars
  BY <1>17 DEF vars
<1>18. QED
  BY <1>1, <1>2, <1>3, <1>4, <1>5, <1>6, <1>7, <1>8, <1>9, <1>10, <1>11, <1>12, <1>13,
     <1>14, <1>15, <1>16, <1>17 DEF Next, ApplyClusters

\* TypeOK holds for any sets of records and any decisions the adjudicator may write.
THEOREM TypeCorrect == Spec => []TypeOK
BY TypeInit, TypeStep, PTL DEF Spec

-----------------------------------------------------------------------------
(* No record is lost.  What is consumed is what the merged records came    *)
(* from, at every step of the loop; and the files, once written, are those *)
(* of the loop of this session, whatever an earlier session left in them.  *)

\* What is consumed is what the merged records were made of.
Balanced ==
    /\ \A e \in merged \cup mergedCaps : e.by > 0
    /\ consumed = UNION {e.from : e \in merged}
    /\ consumedCaps = UNION {e.from : e \in mergedCaps}

\* Output i is this session's; the others may be those of a session that died.
Written(i) == Applied \/ (pc = "write" /\ step > i)
Flushed ==
    /\ Written(1) => out["findings"] = Result["findings"]
    /\ Written(2) => out["capabilities"] = Result["capabilities"]
    /\ Written(4) => out["rejected"] = Result["rejected"]

\* The two loops consume exactly the sources of the records they merge.
LEMMA BalanceStep == TypeOK /\ Balanced /\ [Next]_vars => Balanced'
<1> SUFFICES ASSUME TypeOK, Balanced, [Next]_vars PROVE Balanced'
  OBVIOUS
<1> USE DEF Balanced, apply
<1>1. CASE LoadCorpus
  BY <1>1 DEF LoadCorpus
<1>2. CASE MergeFindings
  <2> DEFINE e == [by |-> step, from |-> Named]
  <2>1. merged' = merged \cup {e} /\ consumed' = consumed \cup e.from
    BY <1>2 DEF MergeFindings
  <2>2. e.by > 0
    BY <1>2 DEF MergeFindings, Deciding
  <2>3. UNCHANGED <<mergedCaps, consumedCaps>>
    BY <1>2 DEF MergeFindings
  <2> HIDE DEF e
  <2>4. QED
    BY <2>1, <2>2, <2>3
<1>3. CASE MergeCapabilities
  <2> DEFINE e == [by |-> step, from |-> Named, maturity |-> Highest(Named \cap caps)]
  <2>1. mergedCaps' = mergedCaps \cup {e} /\ consumedCaps' = consumedCaps \cup e.from
    BY <1>3 DEF MergeCapabilities
  <2>2. e.by > 0
    BY <1>3 DEF MergeCapabilities, Deciding
  <2>3. UNCHANGED <<merged, consumed>>
    BY <1>3 DEF MergeCapabilities
  <2> HIDE DEF e
  <2>4. QED
    BY <2>1, <2>2, <2>3
<1>4. CASE RejectMerge \/ Judge
  BY <1>4 DEF RejectMerge, Judge
<1>5. CASE UNCHANGED apply
  BY <1>5
<1>6. QED
  BY <1>1, <1>2, <1>3, <1>4, <1>5
     DEF Next, ApplyClusters, vars, Begin, Adjudicate, SkipAdjudicator, Blocked, KeepApart,
         PassOver, EndMerge, EndJudge, RefuseToWrite, WriteOutput, Evaluate, AnalyzePaths, Rollup,
         BuildReport, AuditReport, Crash, CrashInEvaluator

\* A file written in this session keeps this session's result.
LEMMA FlushStep == TypeOK /\ Flushed /\ [Next]_vars => Flushed'
<1> SUFFICES ASSUME TypeOK, Flushed, [Next]_vars PROVE Flushed'
  OBVIOUS
<1> USE DEF Flushed, Written, Applied, GoTo
<1>1. CASE WriteOutput
  <2>1. UNCHANGED apply
    BY <1>1 DEF WriteOutput
  <2>2. Result' = Result
    BY <2>1 DEF apply, Result, PlainAll
  <2>3. step \in 1..4 /\ pc = "write" /\ out' = [out EXCEPT ![Outputs[step]] = Result[Outputs[step]]]
    BY <1>1 DEF WriteOutput, Outputs
  <2>4. CASE step = 1
    <3>1. out'["findings"] = Result["findings"]
      BY <2>3, <2>4 DEF Outputs, OutputFiles, TypeOK
    <3>2. pc' = "write" /\ step' = 2
      BY <1>1, <2>4 DEF WriteOutput, Outputs
    <3>3. QED
      BY <2>2, <3>1, <3>2
  <2>5. CASE step = 2
    <3>1. out'["capabilities"] = Result["capabilities"] /\ out'["findings"] = out["findings"]
      BY <2>3, <2>5 DEF Outputs, OutputFiles, TypeOK
    <3>2. pc' = "write" /\ step' = 3
      BY <1>1, <2>5 DEF WriteOutput, Outputs
    <3>3. QED
      BY <2>2, <2>3, <2>5, <3>1, <3>2
  <2>6. CASE step = 3
    <3>1. out'["capabilities"] = out["capabilities"] /\ out'["findings"] = out["findings"]
      BY <2>3, <2>6 DEF Outputs, OutputFiles, TypeOK
    <3>2. pc' = "write" /\ step' = 4
      BY <1>1, <2>6 DEF WriteOutput, Outputs
    <3>3. QED
      BY <2>2, <2>3, <2>6, <3>1, <3>2
  <2>7. CASE step = 4
    <3>1. /\ out'["capabilities"] = out["capabilities"] /\ out'["findings"] = out["findings"]
          /\ out'["rejected"] = Result["rejected"]
      BY <2>3, <2>7 DEF Outputs, OutputFiles, TypeOK
    <3>2. QED
      BY <2>2, <2>3, <2>7, <3>1
  <2>8. QED
    BY <2>3, <2>4, <2>5, <2>6, <2>7
<1>2. CASE /\ UNCHANGED <<out, apply>>
           /\ (Written(1)' => Written(1)) /\ (Written(2)' => Written(2)) /\ (Written(4)' => Written(4))
  <2>1. Result' = Result
    BY <1>2 DEF apply, Result, PlainAll
  <2>2. QED
    BY <1>2, <2>1
<1>3. CASE pc' \in {"merge", "judge"}
  BY <1>3
<1>4. CASE EndJudge \/ Begin \/ Adjudicate \/ SkipAdjudicator \/ Blocked \/ RefuseToWrite
           \/ Crash \/ CrashInEvaluator
  BY <1>4 DEF EndJudge, Begin, Adjudicate, SkipAdjudicator, Blocked, RefuseToWrite, Crash,
              CrashInEvaluator
<1>5. CASE Evaluate \/ AnalyzePaths \/ Rollup \/ BuildReport \/ AuditReport
  BY <1>5, <1>2 DEF Evaluate, AnalyzePaths, Rollup, BuildReport, AuditReport
<1>6. CASE UNCHANGED vars
  BY <1>6, <1>2 DEF vars, disk
<1>7. CASE LoadCorpus \/ MergeFindings \/ MergeCapabilities \/ RejectMerge \/ KeepApart
           \/ EndMerge \/ PassOver \/ Judge
  <2>1. pc' \in {"merge", "judge"}
    BY <1>7 DEF LoadCorpus, MergeFindings, MergeCapabilities, RejectMerge, KeepApart, EndMerge,
                PassOver, Judge
  <2>2. QED
    BY <2>1, <1>3
<1>8. QED
  BY <1>1, <1>4, <1>5, <1>6, <1>7 DEF Next, ApplyClusters

\* A balanced list keeps each record once.
LEMMA BalancedKeeps == Balanced /\ Flushed => NothingIsLost
<1> SUFFICES ASSUME Balanced, Flushed, Applied
             PROVE  /\ \A x \in corpus : KeptOnce(x, out.findings)
                    /\ \A c \in caps : KeptOnce(c, out.capabilities)
  BY DEF NothingIsLost
<1>1. ASSUME NEW x \in corpus PROVE KeptOnce(x, out.findings)
  <2>1. out.findings = merged \cup PlainAll(corpus \ consumed)
    BY DEF Flushed, Written, Result
  <2>2. (\E e \in out.findings : e.by = 0 /\ e.from = {x}) <=> x \notin consumed
    <3>1. ASSUME NEW e \in out.findings, e.by = 0, e.from = {x} PROVE x \notin consumed
      BY <3>1, <2>1 DEF PlainAll, Plain, Balanced
    <3>2. x \notin consumed => Plain(x) \in out.findings
      BY <1>1, <2>1 DEF PlainAll
    <3>3. QED
      BY <3>1, <3>2 DEF Plain
  <2>3. (\E e \in out.findings : e.by > 0 /\ x \in e.from) <=> x \in consumed
    BY <2>1 DEF PlainAll, Plain, Balanced
  <2>4. QED
    BY <2>2, <2>3 DEF KeptOnce
<1>2. ASSUME NEW c \in caps PROVE KeptOnce(c, out.capabilities)
  <2>1. out.capabilities = mergedCaps \cup {PlainCap(k, level[k]) : k \in caps \ consumedCaps}
    BY DEF Flushed, Written, Result
  <2>2. (\E e \in out.capabilities : e.by = 0 /\ e.from = {c}) <=> c \notin consumedCaps
    <3>1. ASSUME NEW e \in out.capabilities, e.by = 0, e.from = {c} PROVE c \notin consumedCaps
      BY <3>1, <2>1 DEF PlainCap, Balanced
    <3>2. c \notin consumedCaps => PlainCap(c, level[c]) \in out.capabilities
      BY <1>2, <2>1
    <3>3. QED
      BY <3>1, <3>2 DEF PlainCap
  <2>3. (\E e \in out.capabilities : e.by > 0 /\ c \in e.from) <=> c \in consumedCaps
    BY <2>1 DEF PlainCap, Balanced
  <2>4. QED
    BY <2>2, <2>3 DEF KeptOnce
<1>3. QED
  BY <1>1, <1>2

\* Every record that apply-clusters loads it writes once, as itself or as a source.
THEOREM NoRecordIsLost == Spec => []NothingIsLost
<1>1. Init => Balanced /\ Flushed
  BY DEF Init, Balanced, Flushed, Written, Applied
<1>2. QED
  BY <1>1, TypeCorrect, BalanceStep, FlushStep, BalancedKeeps, PTL DEF Spec

-----------------------------------------------------------------------------
(* The rollup.                                                             *)

\* What the rollup counted, in terms of the files it read.
RolledUp == pc \in {"build", "audit", "done"} =>
    counted = SetToBag(out.findings) (+) SetToBag(PlainAll(minted \cup paths) \ out.findings)

\* The union the rollup takes has each tier-4 finding that has an id once.
LEMMA RolledUpCounts == RolledUp => RollupCountsTierFourOnce
<1> SUFFICES ASSUME RolledUp, pc \in {"build", "audit", "done"}, NEW x \in minted \cup paths
             PROVE  Copies(Plain(x), counted) = 1
  BY DEF RollupCountsTierFourOnce
<1>1. Plain(x) \in out.findings \cup (PlainAll(minted \cup paths) \ out.findings)
  BY DEF PlainAll
<1>2. QED
  BY <1>1, OnceInSum DEF RolledUp

\* The rollup counts each tier-4 finding with an id once, though apply-clusters may
\* have passed it on as a lens record.
THEOREM TierFourIsCountedOnce == Spec => []RollupCountsTierFourOnce
<1>1. Init => RolledUp
  BY DEF Init, RolledUp
<1>2. RolledUp /\ [Next]_vars => RolledUp'
  <2> SUFFICES ASSUME RolledUp, [Next]_vars PROVE RolledUp'
    OBVIOUS
  <2>1. CASE Rollup
    BY <2>1 DEF Rollup, RolledUp, UnchangedTierFour, PlainAll
  <2>2. CASE BuildReport \/ AuditReport
    BY <2>2 DEF BuildReport, AuditReport, RolledUp, UnchangedTierFour, GoTo, PlainAll
  <2>3. CASE UNCHANGED vars
    BY <2>3 DEF vars, disk, RolledUp, PlainAll
  <2>4. CASE /\ ~(Rollup \/ BuildReport \/ AuditReport)
             /\ Next
    <3>1. pc' \notin {"build", "audit", "done"}
      BY <2>4 DEF Next, ApplyClusters, GoTo, Begin, Adjudicate, SkipAdjudicator, Blocked,
                  LoadCorpus, MergeFindings, MergeCapabilities, RejectMerge, KeepApart, EndMerge,
                  PassOver, Judge, EndJudge, RefuseToWrite, WriteOutput, Evaluate, AnalyzePaths, Crash,
                  CrashInEvaluator
    <3>2. QED
      BY <3>1 DEF RolledUp
  <2>5. QED
    BY <2>1, <2>2, <2>3, <2>4
<1>3. QED
  BY <1>1, <1>2, RolledUpCounts, PTL DEF Spec

-----------------------------------------------------------------------------
(* Every authored merge is accounted for.  A decision the loop has passed  *)
(* has left one merged record or one group row, never both; the rollup     *)
(* counts the rows, which correspond one to one to the decisions.          *)

GroupRow(i) == RejectedFor("group", i, NoId)
NoGroupRow(rows) == \A r \in rows : r.why # "group"

\* Merged records M and rows R answer the merge decisions D below n.
Answers(M, R, D, n) ==
    /\ \A e \in M : e.by \in D /\ e.by < n
    /\ \A e, f \in M : e.by = f.by => e = f
    /\ \A r \in R : r.why = "group" => r.by \in D /\ r.by < n /\ r = GroupRow(r.by)
    /\ \A i \in D : i < n => ((\E e \in M : e.by = i) <=> GroupRow(i) \notin R)

\* An applied merge leaves one more record.
LEMMA MergeAnswers ==
    ASSUME NEW M, NEW R, NEW D \in SUBSET Nat, NEW n \in D, NEW e, e.by = n, Answers(M, R, D, n)
    PROVE  Answers(M \cup {e}, R, D, n + 1)
<1>1. GroupRow(n) \notin R
  BY DEF Answers, GroupRow, RejectedFor
<1>2. \A f \in M : f.by < n
  BY DEF Answers
<1>3. \A i \in D : i < n + 1 <=> i < n \/ i = n
  OBVIOUS
<1>4. \A f \in M \cup {e} : f.by \in D /\ f.by < n + 1
  BY <1>3 DEF Answers
<1>5. \A f, g \in M \cup {e} : f.by = g.by => f = g
  BY <1>2 DEF Answers
<1>6. \A r \in R : r.why = "group" => r.by \in D /\ r.by < n + 1 /\ r = GroupRow(r.by)
  BY <1>3 DEF Answers
<1>7. ASSUME NEW i \in D, i < n + 1
      PROVE  (\E f \in M \cup {e} : f.by = i) <=> GroupRow(i) \notin R
  BY <1>1, <1>2, <1>3, <1>7 DEF Answers
<1>8. QED
  BY <1>4, <1>5, <1>6, <1>7 DEF Answers

\* A rejected merge leaves rows of its members and one row of its group.
LEMMA RowAnswers ==
    ASSUME NEW M, NEW R, NEW D \in SUBSET Nat, NEW n \in D, NEW rows, NoGroupRow(rows),
           Answers(M, R, D, n)
    PROVE  Answers(M, R \cup rows \cup {GroupRow(n)}, D, n + 1)
<1> DEFINE S == R \cup rows \cup {GroupRow(n)}
<1>1. \A i : GroupRow(i).why = "group" /\ GroupRow(i).by = i
  BY DEF GroupRow, RejectedFor
<1>2. \A i \in D : i < n + 1 <=> i < n \/ i = n
  OBVIOUS
<1>3. \A r \in S : r.why = "group" => r \in R \/ r = GroupRow(n)
  BY DEF NoGroupRow
<1>4. \A r \in S : r.why = "group" => r.by \in D /\ r.by < n + 1 /\ r = GroupRow(r.by)
  BY <1>1, <1>2, <1>3 DEF Answers
<1>5. \A e \in M : e.by \in D /\ e.by < n
  BY DEF Answers
<1>6. ASSUME NEW i \in D, i < n + 1
      PROVE  (\E e \in M : e.by = i) <=> GroupRow(i) \notin S
  <2>1. GroupRow(i) \in S <=> GroupRow(i) \in R \/ i = n
    BY <1>1, <1>3
  <2>2. CASE i < n
    BY <2>1, <2>2 DEF Answers
  <2>3. CASE i = n
    BY <2>1, <2>3, <1>5
  <2>4. QED
    BY <1>2, <1>6, <2>2, <2>3
<1>7. \A e \in M : e.by \in D /\ e.by < n + 1
  BY <1>2, <1>5
<1>8. \A e, f \in M : e.by = f.by => e = f
  BY DEF Answers
<1>9. QED
  BY <1>4, <1>6, <1>7, <1>8 DEF Answers

\* The rows of stale verdicts and of scopes answer no decision and disturb no answer.
LEMMA OtherRowsAnswer ==
    ASSUME NEW M, NEW R, NEW D, NEW n, NEW rows, NoGroupRow(rows), Answers(M, R, D, n)
    PROVE  Answers(M, R \cup rows, D, n)
<1>1. \A i : GroupRow(i) \in R \cup rows <=> GroupRow(i) \in R
  BY DEF NoGroupRow, GroupRow, RejectedFor
<1>2. \A r \in R \cup rows : r.why = "group" => r \in R
  BY DEF NoGroupRow
<1>3. \A r \in R \cup rows : r.why = "group" => r.by \in D /\ r.by < n /\ r = GroupRow(r.by)
  BY <1>2 DEF Answers
<1>4. \A i \in D : i < n => ((\E e \in M : e.by = i) <=> GroupRow(i) \notin R \cup rows)
  BY <1>1 DEF Answers
<1>5. (\A e \in M : e.by \in D /\ e.by < n) /\ (\A e, f \in M : e.by = f.by => e = f)
  BY DEF Answers
<1>6. QED
  BY <1>3, <1>4, <1>5 DEF Answers

\* A bound no decision lies between is as good.
LEMMA BoundMoves ==
    ASSUME NEW M, NEW R, NEW D \in SUBSET Nat, NEW n \in Nat, NEW m \in Nat,
           \A i \in D : i < n <=> i < m, Answers(M, R, D, n)
    PROVE  Answers(M, R, D, m)
BY DEF Answers

\* From the loop on: how far it has come, and that all before is answered.
Looped == pc \in {"merge", "judge", "write"} \/ Applied
Bound == IF pc = "merge" THEN step ELSE Len(decisions) + 1
AllMerged == merged \cup mergedCaps
Answered == Looped => Answers(AllMerged, rejected, MergeDecisions, Bound)

\* The decisions are a finite list, and the merges among them are numbered.
LEMMA DecisionsAreFinite ==
    TypeOK => Len(decisions) \in Nat /\ MergeDecisions \in SUBSET Nat
<1> DEFINE D == [kind : {"merge", "link", "separate"}, members : Seq(Members)]
<1>1. DecisionLists \subseteq Seq(D)
  BY ListsAssumption
<1> HIDE DEF D
<1>2. SUFFICES ASSUME TypeOK PROVE Len(decisions) \in Nat /\ MergeDecisions \in SUBSET Nat
  OBVIOUS
<1>3. Len(decisions) \in Nat
  <2>1. CASE decisions \in DecisionLists
    BY <1>1, <2>1
  <2>2. CASE decisions = <<>>
    BY <2>2
  <2>3. QED
    BY <1>2, <2>1, <2>2 DEF TypeOK
<1>4. QED
  BY <1>3 DEF MergeDecisions

\* A merged capability leaves no row but those of the scopes that are no text.
LEMMA ScopeRows ==
    MergeCapabilities => \E rows : /\ \A r \in rows : r.why = "scope"
                                  /\ rejected' = rejected \cup rows
<1> SUFFICES ASSUME MergeCapabilities
             PROVE  \E rows : (\A r \in rows : r.why = "scope") /\ rejected' = rejected \cup rows
  OBVIOUS
<1>1. PICK odd : rejected' = rejected \cup {RejectedFor("scope", step, x) : x \in odd}
  BY DEF MergeCapabilities
<1>2. \A r \in {RejectedFor("scope", step, x) : x \in odd} : r.why = "scope"
  BY DEF RejectedFor
<1> QED BY <1>1, <1>2

\* Each turn of the loop answers the decision it passes, and no later step undoes it.
LEMMA AnsweredStep == TypeOK /\ Answered /\ [Next]_vars => Answered'
<1> SUFFICES ASSUME TypeOK, Answered, [Next]_vars PROVE Answered'
  OBVIOUS
<1>1. Len(decisions) \in Nat /\ MergeDecisions \in SUBSET Nat
  BY DecisionsAreFinite
<1>2. CASE LoadCorpus
  <2>1. /\ AllMerged' = {} /\ rejected' = {} /\ Bound' = 1 /\ UNCHANGED decisions
    BY <1>2 DEF LoadCorpus, disk, AllMerged, Bound, GoTo
  <2>2. MergeDecisions' \subseteq 1..Len(decisions)
    BY <2>1 DEF MergeDecisions
  <2>3. \A i \in MergeDecisions' : ~(i < 1)
    BY <2>2, <1>1
  <2>4. Answers({}, {}, MergeDecisions', 1)
    BY <2>3 DEF Answers
  <2>5. QED
    BY <2>1, <2>4 DEF Answered
<1>3. CASE MergeFindings \/ MergeCapabilities
  <2>1. /\ pc = "merge" /\ step \in MergeDecisions /\ Bound = step /\ Bound' = step + 1
        /\ UNCHANGED MergeDecisions
    BY <1>3 DEF MergeFindings, MergeCapabilities, Deciding, disk, GoTo, MergeDecisions, Bound
  <2>2. PICK e : e.by = step /\ AllMerged' = AllMerged \cup {e}
    <3>1. CASE MergeFindings
      <4> DEFINE e == [by |-> step, from |-> Named]
      <4>1. e.by = step /\ AllMerged' = AllMerged \cup {e}
        BY <3>1 DEF MergeFindings, AllMerged
      <4>2. QED
        BY <4>1
    <3>2. CASE MergeCapabilities
      <4> DEFINE e == [by |-> step, from |-> Named, maturity |-> Highest(Named \cap caps)]
      <4>1. e.by = step /\ AllMerged' = AllMerged \cup {e}
        BY <3>2 DEF MergeCapabilities, AllMerged
      <4>2. QED
        BY <4>1
    <3>3. QED
      BY <1>3, <3>1, <3>2
  <2>3. Answers(AllMerged, rejected, MergeDecisions, step)
    BY <2>1 DEF Answered, Looped
  <2>4. Answers(AllMerged \cup {e}, rejected, MergeDecisions, step + 1)
    BY <1>1, <2>1, <2>2, <2>3, MergeAnswers
  <2>5. PICK rows : NoGroupRow(rows) /\ rejected' = rejected \cup rows
    <3>1. CASE MergeFindings
      <4>1. NoGroupRow({}) /\ rejected' = rejected \cup {}
        BY <3>1 DEF MergeFindings, NoGroupRow
      <4>2. QED
        BY <4>1
    <3>2. CASE MergeCapabilities
      BY <3>2, ScopeRows DEF NoGroupRow
    <3>3. QED
      BY <1>3, <3>1, <3>2
  <2>6. Answers(AllMerged \cup {e}, rejected \cup rows, MergeDecisions, step + 1)
    BY <2>4, <2>5, OtherRowsAnswer
  <2>7. QED
    BY <2>1, <2>2, <2>5, <2>6 DEF Answered
<1>4. CASE RejectMerge
  <2> DEFINE rows == {RejectedFor("member", step, x) : x \in Named}
  <2>1. /\ pc = "merge" /\ step \in MergeDecisions /\ Bound = step /\ Bound' = step + 1
        /\ UNCHANGED <<AllMerged, MergeDecisions>>
    BY <1>4 DEF RejectMerge, Deciding, disk, GoTo, MergeDecisions, Bound, AllMerged
  <2>2. rejected' = rejected \cup rows \cup {GroupRow(step)}
    BY <1>4 DEF RejectMerge, GroupRow
  <2>3. NoGroupRow(rows)
    BY DEF NoGroupRow, RejectedFor
  <2> HIDE DEF rows
  <2>4. Answers(AllMerged, rejected, MergeDecisions, step)
    BY <2>1 DEF Answered, Looped
  <2>5. Answers(AllMerged, rejected', MergeDecisions, step + 1)
    BY <1>1, <2>1, <2>2, <2>3, <2>4, RowAnswers
  <2>6. QED
    BY <2>1, <2>5 DEF Answered
<1>5. CASE KeepApart
  <2>1. /\ pc = "merge" /\ step \in Nat /\ step \notin MergeDecisions /\ Bound = step /\ Bound' = step + 1
        /\ UNCHANGED <<AllMerged, rejected, MergeDecisions>>
    BY <1>5 DEF KeepApart, Deciding, disk, apply, GoTo, MergeDecisions, Bound, AllMerged
  <2>2. Answers(AllMerged, rejected, MergeDecisions, step)
    BY <2>1 DEF Answered, Looped
  <2>3. Answers(AllMerged, rejected, MergeDecisions, step + 1)
    BY <1>1, <2>1, <2>2, BoundMoves
  <2>4. QED
    BY <2>1, <2>3 DEF Answered
<1>6. CASE EndMerge
  <2>1. /\ pc = "merge" /\ step \in Nat /\ step > Len(decisions) /\ Bound = step
        /\ Bound' = Len(decisions) + 1 /\ UNCHANGED <<AllMerged, rejected, MergeDecisions>>
    BY <1>6 DEF EndMerge, disk, apply, GoTo, MergeDecisions, Bound, AllMerged, TypeOK
  <2>2. Answers(AllMerged, rejected, MergeDecisions, step)
    BY <2>1 DEF Answered, Looped
  <2>3. \A i \in MergeDecisions : i < step <=> i < Len(decisions) + 1
    BY <1>1, <2>1 DEF MergeDecisions
  <2>4. Answers(AllMerged, rejected, MergeDecisions, Len(decisions) + 1)
    BY <1>1, <2>1, <2>2, <2>3, BoundMoves
  <2>5. QED
    BY <2>1, <2>4 DEF Answered
<1>7. CASE Judge
  <2>1. /\ pc = "judge" /\ Bound' = Bound /\ UNCHANGED <<AllMerged, MergeDecisions>>
    BY <1>7 DEF Judge, Judging, InTurn, disk, GoTo, MergeDecisions, Bound, AllMerged
  <2>2. PICK rows : NoGroupRow(rows) /\ rejected' = rejected \cup rows
    <3>1. CASE rejected' = rejected
      <4>1. NoGroupRow({}) /\ rejected' = rejected \cup {}
        BY <3>1 DEF NoGroupRow
      <4>2. QED
        BY <4>1
    <3>2. ASSUME NEW x, rejected' = rejected \cup {RejectedFor("stale", step, x)}
          PROVE  \E rows : NoGroupRow(rows) /\ rejected' = rejected \cup rows
      <4>1. NoGroupRow({RejectedFor("stale", step, x)})
        BY DEF NoGroupRow, RejectedFor
      <4>2. QED
        BY <3>2, <4>1
    <3>3. QED
      BY <1>7, <3>1, <3>2 DEF Judge
  <2>3. Answers(AllMerged, rejected, MergeDecisions, Bound)
    BY <2>1 DEF Answered, Looped
  <2>4. Answers(AllMerged, rejected', MergeDecisions, Bound)
    BY <2>2, <2>3, OtherRowsAnswer
  <2>5. QED
    BY <2>1, <2>4 DEF Answered
<1>8. CASE PassOver \/ EndJudge \/ WriteOutput \/ Evaluate \/ AnalyzePaths \/ Rollup \/ BuildReport \/ AuditReport
  <2>1. Looped /\ UNCHANGED <<AllMerged, rejected, MergeDecisions, Bound>>
    BY <1>8 DEF PassOver, InTurn, EndJudge, WriteOutput, Evaluate, AnalyzePaths, Rollup, BuildReport,
                AuditReport,
                UnchangedInputs, disk, apply, GoTo, AllMerged, MergeDecisions, Bound, Looped, Applied
  <2>2. QED
    BY <2>1 DEF Answered
<1>9. CASE UNCHANGED vars
  <2>1. UNCHANGED <<AllMerged, rejected, MergeDecisions, Bound, Looped>>
    BY <1>9 DEF vars, disk, apply, AllMerged, MergeDecisions, Bound, Looped, Applied
  <2>2. QED
    BY <2>1 DEF Answered
<1>10. CASE Begin \/ Adjudicate \/ SkipAdjudicator \/ Blocked \/ RefuseToWrite \/ Crash
            \/ CrashInEvaluator
  <2>1. ~Looped'
    BY <1>10 DEF Begin, Adjudicate, SkipAdjudicator, Blocked, RefuseToWrite, Crash, CrashInEvaluator,
                 GoTo, Looped, Applied
  <2>2. QED
    BY <2>1 DEF Answered
<1>11. QED
  BY <1>2, <1>3, <1>4, <1>5, <1>6, <1>7, <1>8, <1>9, <1>10 DEF Next, ApplyClusters

\* The count of the rollup, as a fact of its state.
Tallied == pc \in {"build", "audit", "done"} => unresolvedMerges = Cardinality(GroupRows)

\* The rollup's number is the number of group rows it read, and these stay.
LEMMA TallyStep == Tallied /\ [Next]_vars => Tallied'
<1> SUFFICES ASSUME Tallied, [Next]_vars PROVE Tallied'
  OBVIOUS
<1> USE DEF Tallied, GoTo, GroupRows
<1>1. CASE Rollup
  BY <1>1 DEF Rollup
<1>2. CASE BuildReport \/ AuditReport
  BY <1>2 DEF BuildReport, AuditReport
<1>3. CASE UNCHANGED vars
  BY <1>3 DEF vars, disk
<1>4. CASE Next /\ ~(Rollup \/ BuildReport \/ AuditReport)
  <2>1. pc' \notin {"build", "audit", "done"}
    BY <1>4 DEF Next, ApplyClusters, Begin, Adjudicate, SkipAdjudicator, Blocked, LoadCorpus,
                MergeFindings, MergeCapabilities, RejectMerge, KeepApart, EndMerge, PassOver, Judge,
                EndJudge, RefuseToWrite, WriteOutput, Evaluate, AnalyzePaths, Crash, CrashInEvaluator
  <2>2. QED
    BY <2>1
<1>5. QED
  BY <1>1, <1>2, <1>3, <1>4

\* The answers, once in the files, account for every merge.
LEMMA AnsweredAccounts == TypeOK /\ Answered /\ Flushed /\ Tallied => EveryMergeIsAccounted
<1> SUFFICES ASSUME TypeOK, Answered, Flushed, Tallied, Applied
             PROVE  /\ \A i \in MergeDecisions : (MadeBy(i) # {}) # (GroupRow(i) \in out.rejected)
                    /\ \A i \in MergeDecisions : Cardinality(MadeBy(i)) <= 1
                    /\ pc \in {"build", "audit", "done"}
                         => unresolvedMerges = Cardinality({i \in MergeDecisions : MadeBy(i) = {}})
  BY DEF EveryMergeIsAccounted, GroupRow
<1>1. /\ out.findings = merged \cup PlainAll(corpus \ consumed)
      /\ out.capabilities = mergedCaps \cup {PlainCap(c, level[c]) : c \in caps \ consumedCaps}
      /\ out.rejected = rejected
  BY DEF Flushed, Written, Result
<1>2. \A i \in MergeDecisions : MadeBy(i) = {e \in merged \cup mergedCaps : e.by = i}
  BY <1>1 DEF MadeBy, MergeDecisions, PlainAll, Plain, PlainCap
<1>3. Answers(AllMerged, rejected, MergeDecisions, Len(decisions) + 1)
  BY DEF Answered, Looped, Bound, Applied
<1>4. Len(decisions) \in Nat /\ \A i \in MergeDecisions : i < Len(decisions) + 1
  BY DecisionsAreFinite DEF MergeDecisions
<1>5. \A i \in MergeDecisions : (MadeBy(i) # {}) # (GroupRow(i) \in out.rejected)
  <2>1. ASSUME NEW i \in MergeDecisions
        PROVE  (MadeBy(i) # {}) # (GroupRow(i) \in out.rejected)
    <3>1. (\E e \in AllMerged : e.by = i) <=> GroupRow(i) \notin rejected
      BY <1>3, <1>4 DEF Answers
    <3>2. MadeBy(i) # {} <=> \E e \in AllMerged : e.by = i
      BY <1>2 DEF AllMerged
    <3>3. QED
      BY <1>1, <3>1, <3>2
  <2>2. QED
    BY <2>1
<1>6. ASSUME NEW i \in MergeDecisions PROVE Cardinality(MadeBy(i)) <= 1
  <2>1. CASE MadeBy(i) = {}
    BY <2>1, FS_EmptySet
  <2>2. CASE MadeBy(i) # {}
    <3>1. PICK e \in MadeBy(i) : TRUE
      BY <2>2
    <3>2. MadeBy(i) = {e}
      BY <1>2, <1>3, <3>1 DEF Answers, AllMerged
    <3>3. Cardinality({e}) = 1
      BY FS_Singleton
    <3>4. QED
      BY <3>2, <3>3
  <2>3. QED
    BY <2>1, <2>2
<1>7. Cardinality(GroupRows) = Cardinality({i \in MergeDecisions : MadeBy(i) = {}})
  <2> DEFINE S == {i \in MergeDecisions : MadeBy(i) = {}}
             f == [i \in S |-> GroupRow(i)]
  <2>1. \A i \in S : GroupRow(i) \in GroupRows
    BY <1>5 DEF GroupRows, GroupRow, RejectedFor
  <2>2. ASSUME NEW r \in GroupRows PROVE r.by \in S /\ r = GroupRow(r.by)
    <3>1. r \in rejected /\ r.why = "group"
      BY <1>1 DEF GroupRows
    <3>2. r.by \in MergeDecisions /\ r = GroupRow(r.by)
      BY <1>3, <3>1 DEF Answers
    <3>3. QED
      BY <1>1, <1>5, <3>1, <3>2
  <2>3. \A i, j \in S : GroupRow(i) = GroupRow(j) => i = j
    BY DEF GroupRow, RejectedFor
  <2>4. IsFiniteSet(S)
    <3>1. IsFiniteSet(1..Len(decisions))
      BY <1>4, FS_Interval
    <3>2. S \in SUBSET (1..Len(decisions))
      BY DEF MergeDecisions
    <3>3. QED
      BY <3>1, <3>2, FS_Subset
  <2> HIDE DEF S
  <2>5. f \in [S -> GroupRows]
    BY <2>1
  <2>6. f \in Injection(S, GroupRows)
    <3>1. \A i, j \in S : f[i] = f[j] => i = j
      BY <2>3
    <3>2. QED
      BY <2>5, <3>1 DEF Injection, IsInjective
  <2>7. f \in Surjection(S, GroupRows)
    <3>1. ASSUME NEW r \in GroupRows PROVE \E i \in S : f[i] = r
      BY <2>2
    <3>2. QED
      BY <2>5, <3>1 DEF Surjection
  <2>8. ExistsBijection(S, GroupRows)
    BY <2>6, <2>7 DEF ExistsBijection, Bijection
  <2>9. Cardinality(GroupRows) = Cardinality(S)
    BY <2>4, <2>8, FS_Bijection
  <2>10. QED
    BY <2>9 DEF S
<1>8. QED
  BY <1>5, <1>6, <1>7 DEF Tallied

\* Each authored merge gives one merged record or one group row, and the rollup
\* counts exactly the merges that gave none.
THEOREM MergesAreAccounted == Spec => []EveryMergeIsAccounted
<1>1. Init => Answered /\ Flushed /\ Tallied
  BY DEF Init, Answered, Looped, Flushed, Written, Applied, Tallied
<1>2. QED
  BY <1>1, TypeCorrect, AnsweredStep, FlushStep, TallyStep, AnsweredAccounts, PTL DEF Spec
-----------------------------------------------------------------------------
(* Maturity follows the verdicts: at every turn of their loop a capability *)
(* has lost a notch, and has a row, for each stale verdict so far, until   *)
(* there is none left to lose.                                             *)

\* The stale verdicts of V on c before the m-th, the notches they cost, and the rows of
\* R that tell of c.
StaleBefore(V, c, m) ==
    {k \in 1..Len(V) : /\ k < m /\ V[k].finding # NoId /\ V[k].capability = c
                       /\ V[k].classification = "stale"}
LostBefore(V, c, m) ==
    LET n == Cardinality(StaleBefore(V, c, m)) IN IF n < Maturity[c] THEN n ELSE Maturity[c]
StaleRows(R, c) == {r \in R : r.why = "stale" /\ r.id = c}

\* The levels L and the rows R are those of the verdicts of V before the m-th.
Graded(L, R, V, m, S) ==
    \A c \in S :
        /\ L[c] = Maturity[c] - LostBefore(V, c, m)
        /\ IsFiniteSet(StaleRows(R, c)) /\ Cardinality(StaleRows(R, c)) = LostBefore(V, c, m)
        /\ \A r \in StaleRows(R, c) : r.by \in StaleBefore(V, c, m)

Heard == CASE pc = "merge" -> 1
           [] pc = "judge" -> step
           [] OTHER -> Len(verdicts) + 1
GradedInv == Looped => Graded(level, rejected, verdicts, Heard, caps)

\* There are finitely many verdicts, and a capability loses at most what it has.
LEMMA VerdictsAreFinite ==
    ASSUME TypeOK, NEW c \in Capabilities, NEW m \in Nat
    PROVE  /\ Len(verdicts) \in Nat
           /\ IsFiniteSet(StaleBefore(verdicts, c, m))
           /\ Cardinality(StaleBefore(verdicts, c, m)) \in Nat
           /\ Maturity[c] \in 0..3 /\ LostBefore(verdicts, c, m) \in 0..Maturity[c]
<1> DEFINE V == [finding : LensFindings \cup {NoId}, capability : Capabilities \cup {NoId},
                 classification : {"compatible", "contradicted", "stale"}]
<1>1. VerdictLists \subseteq Seq(V)
  BY ListsAssumption
<1> HIDE DEF V
<1>2. Len(verdicts) \in Nat
  BY <1>1 DEF TypeOK
<1>3. IsFiniteSet(1..Len(verdicts))
  BY <1>2, FS_Interval
<1>4. IsFiniteSet(StaleBefore(verdicts, c, m))
  BY <1>3, FS_Subset DEF StaleBefore
<1>5. Cardinality(StaleBefore(verdicts, c, m)) \in Nat /\ Maturity[c] \in 0..3
  BY <1>4, FS_CardinalityType, IdsAssumption
<1> QED BY <1>2, <1>4, <1>5 DEF LostBefore

\* The verdict in turn takes down what it names, and nothing else.
LEMMA JudgeGrades == TypeOK /\ GradedInv /\ Judge => GradedInv'
<1> SUFFICES ASSUME TypeOK, GradedInv, Judge PROVE GradedInv'
  OBVIOUS
<1> DEFINE c0 == verdicts[step].capability
           row == RejectedFor("stale", step, c0)
<1>1. /\ pc = "judge" /\ pc' = "judge" /\ step \in 1..Len(verdicts) /\ step' = step + 1
      /\ UNCHANGED <<verdicts, caps>> /\ c0 \in Capabilities /\ verdicts[step].finding # NoId
      /\ level \in [Capabilities -> 0..3] /\ caps \subseteq Capabilities
  BY VerdictsAreTyped DEF Judge, Judging, InTurn, BothNamed, GoTo, disk, TypeOK
<1>2. IF Downgrades(c0) THEN level' = [level EXCEPT ![c0] = @ - 1] /\ rejected' = rejected \cup {row}
                        ELSE UNCHANGED <<level, rejected>>
  BY DEF Judge
<1>3. Graded(level, rejected, verdicts, step, caps)
  BY <1>1 DEF GradedInv, Heard, Looped
<1>4. row.why = "stale" /\ row.id = c0 /\ row.by = step
  BY DEF RejectedFor
<1> HIDE DEF c0, row
<1>5. SUFFICES ASSUME NEW c \in caps
      PROVE  /\ level'[c] = Maturity[c] - LostBefore(verdicts, c, step + 1)
             /\ IsFiniteSet(StaleRows(rejected', c))
             /\ Cardinality(StaleRows(rejected', c)) = LostBefore(verdicts, c, step + 1)
             /\ \A r \in StaleRows(rejected', c) : r.by \in StaleBefore(verdicts, c, step + 1)
  BY <1>1 DEF GradedInv, Heard, Graded
<1>6. /\ level[c] = Maturity[c] - LostBefore(verdicts, c, step)
      /\ IsFiniteSet(StaleRows(rejected, c))
      /\ Cardinality(StaleRows(rejected, c)) = LostBefore(verdicts, c, step)
      /\ \A r \in StaleRows(rejected, c) : r.by \in StaleBefore(verdicts, c, step)
  BY <1>3 DEF Graded
<1>7. c \in Capabilities /\ step \in Nat /\ step + 1 \in Nat
  BY <1>1
<1> DEFINE old == StaleBefore(verdicts, c, step)
           new == StaleBefore(verdicts, c, step + 1)
<1>8. /\ IsFiniteSet(old) /\ Cardinality(old) \in Nat /\ Maturity[c] \in 0..3
      /\ LostBefore(verdicts, c, step) = IF Cardinality(old) < Maturity[c] THEN Cardinality(old) ELSE Maturity[c]
      /\ LostBefore(verdicts, c, step + 1) = IF Cardinality(new) < Maturity[c] THEN Cardinality(new) ELSE Maturity[c]
  BY <1>7, VerdictsAreFinite DEF LostBefore
<1>9. CASE c = c0 /\ verdicts[step].classification = "stale"
  <2>1. new = old \cup {step} /\ step \notin old
    BY <1>1, <1>9 DEF StaleBefore, c0
  <2>2. Cardinality(new) = Cardinality(old) + 1
    BY <1>8, <2>1, FS_AddElement
  <2>3. CASE level[c] > 0
    <3>1. Downgrades(c0)
      BY <1>9, <2>3 DEF Downgrades
    <3>2. level'[c] = level[c] - 1 /\ rejected' = rejected \cup {row}
      BY <1>1, <1>2, <1>7, <1>9, <3>1
    <3>3. StaleRows(rejected', c) = StaleRows(rejected, c) \cup {row} /\ row \notin StaleRows(rejected, c)
      BY <1>4, <1>6, <1>9, <2>1, <3>2 DEF StaleRows
    <3>4. /\ IsFiniteSet(StaleRows(rejected', c))
          /\ Cardinality(StaleRows(rejected', c)) = Cardinality(StaleRows(rejected, c)) + 1
      BY <1>6, <3>3, FS_AddElement
    <3>5. LostBefore(verdicts, c, step + 1) = LostBefore(verdicts, c, step) + 1
      BY <1>6, <1>8, <2>2, <2>3
    <3>6. \A r \in StaleRows(rejected', c) : r.by \in new
      BY <1>4, <1>6, <2>1, <3>3
    <3>7. level'[c] = Maturity[c] - LostBefore(verdicts, c, step + 1)
      BY <1>6, <1>8, <3>2, <3>5
    <3> QED BY <1>6, <3>4, <3>5, <3>6, <3>7
  <2>4. CASE ~(level[c] > 0)
    <3>1. UNCHANGED <<level, rejected>>
      BY <1>2, <1>9, <2>4 DEF Downgrades
    <3>2. LostBefore(verdicts, c, step + 1) = LostBefore(verdicts, c, step)
      BY <1>6, <1>8, <2>2, <2>4
    <3> QED BY <1>6, <2>1, <3>1, <3>2
  <2> QED BY <2>3, <2>4
<1>10. CASE ~(c = c0 /\ verdicts[step].classification = "stale")
  <2>1. new = old
    BY <1>1, <1>10 DEF StaleBefore, c0
  <2>2. level'[c] = level[c] /\ StaleRows(rejected', c) = StaleRows(rejected, c)
    BY <1>1, <1>2, <1>4, <1>7, <1>10 DEF Downgrades, StaleRows, c0
  <2> QED BY <1>6, <1>8, <2>1, <2>2
<1> QED BY <1>9, <1>10

\* Every step keeps the grades so.
LEMMA GradedStep == TypeOK /\ GradedInv /\ [Next]_vars => GradedInv'
<1> SUFFICES ASSUME TypeOK, GradedInv, [Next]_vars PROVE GradedInv'
  OBVIOUS
<1>0. Len(verdicts) \in Nat /\ step \in Nat
  <2>1. VerdictLists \subseteq Seq([finding : LensFindings \cup {NoId}, capability : Capabilities \cup {NoId},
                 classification : {"compatible", "contradicted", "stale"}])
    BY ListsAssumption
  <2> QED BY <2>1 DEF TypeOK
<1>1. CASE LoadCorpus
  <2>1. pc' = "merge" /\ level' = Maturity /\ rejected' = {} /\ UNCHANGED verdicts /\ caps' \subseteq Capabilities
    BY <1>1 DEF LoadCorpus, GoTo, disk
  <2>2. \A c \in Capabilities : LostBefore(verdicts, c, 1) = 0 /\ StaleBefore(verdicts, c, 1) = {}
    <3> SUFFICES ASSUME NEW c \in Capabilities PROVE LostBefore(verdicts, c, 1) = 0 /\ StaleBefore(verdicts, c, 1) = {}
      OBVIOUS
    <3>1. StaleBefore(verdicts, c, 1) = {}
      BY <1>0 DEF StaleBefore
    <3>2. Cardinality(StaleBefore(verdicts, c, 1)) = 0
      BY <3>1, FS_EmptySet
    <3>3. Maturity[c] \in 0..3
      BY IdsAssumption
    <3> QED BY <3>1, <3>2, <3>3 DEF LostBefore
  <2>3. \A c : StaleRows({}, c) = {}
    BY DEF StaleRows
  <2>4. Graded(Maturity, {}, verdicts, 1, caps')
    BY <2>1, <2>2, <2>3, FS_EmptySet, IdsAssumption DEF Graded
  <2> QED BY <2>1, <2>4 DEF GradedInv, Heard
<1>2. CASE RejectMerge
  <2>1. /\ pc = "merge" /\ pc' = "merge" /\ UNCHANGED <<verdicts, level, caps>>
        /\ rejected' = rejected \cup {RejectedFor("member", step, x) : x \in Named}
                                \cup {RejectedFor("group", step, NoId)}
    BY <1>2 DEF RejectMerge, Deciding, GoTo, disk
  <2>2. \A c : StaleRows(rejected', c) = StaleRows(rejected, c)
    BY <2>1 DEF StaleRows, RejectedFor
  <2>3. Graded(level, rejected', verdicts, 1, caps)
    BY <2>1, <2>2 DEF GradedInv, Heard, Looped, Graded
  <2> QED BY <2>1, <2>3 DEF GradedInv, Heard
<1>3. CASE MergeFindings \/ KeepApart
  <2>1. pc = "merge" /\ pc' = "merge" /\ UNCHANGED <<verdicts, level, caps, rejected>>
    BY <1>3 DEF MergeFindings, KeepApart, Deciding, GoTo, disk, apply
  <2> QED BY <2>1 DEF GradedInv, Heard, Looped
<1>10. CASE MergeCapabilities
  <2>1. pc = "merge" /\ pc' = "merge" /\ UNCHANGED <<verdicts, level, caps>>
    BY <1>10 DEF MergeCapabilities, Deciding, GoTo, disk
  <2>2. PICK rows : (\A r \in rows : r.why = "scope") /\ rejected' = rejected \cup rows
    BY <1>10, ScopeRows
  <2>3. \A c : StaleRows(rejected', c) = StaleRows(rejected, c)
    BY <2>2 DEF StaleRows
  <2>4. Graded(level, rejected', verdicts, 1, caps)
    BY <2>1, <2>3 DEF GradedInv, Heard, Looped, Graded
  <2> QED BY <2>1, <2>4 DEF GradedInv, Heard
<1>11. CASE PassOver
  <2>1. /\ pc = "judge" /\ pc' = "judge" /\ step \in 1..Len(verdicts) /\ step' = step + 1
        /\ ~BothNamed(step) /\ UNCHANGED <<verdicts, level, caps, rejected>> /\ caps \subseteq Capabilities
    BY <1>11 DEF PassOver, InTurn, GoTo, disk, apply, TypeOK
  <2>2. \A c \in caps : StaleBefore(verdicts, c, step + 1) = StaleBefore(verdicts, c, step)
    BY <1>0, <2>1, IdsAssumption DEF StaleBefore, BothNamed
  <2>3. Graded(level, rejected, verdicts, step, caps)
    BY <2>1 DEF GradedInv, Heard, Looped
  <2>4. Graded(level, rejected, verdicts, step + 1, caps)
    BY <2>2, <2>3 DEF Graded, LostBefore
  <2> QED BY <2>1, <2>4 DEF GradedInv, Heard
<1>4. CASE EndMerge
  <2>1. pc = "merge" /\ pc' = "judge" /\ step' = 1 /\ UNCHANGED <<verdicts, level, caps, rejected>>
    BY <1>4 DEF EndMerge, GoTo, disk, apply
  <2> QED BY <2>1 DEF GradedInv, Heard, Looped
<1>5. CASE Judge
  BY <1>5, JudgeGrades
<1>6. CASE EndJudge
  <2>1. /\ pc = "judge" /\ pc' = "write" /\ step > Len(verdicts)
        /\ UNCHANGED <<verdicts, level, caps, rejected>>
    BY <1>6 DEF EndJudge, GoTo, disk, apply
  <2>2. \A c : StaleBefore(verdicts, c, step) = StaleBefore(verdicts, c, Len(verdicts) + 1)
    BY <1>0, <2>1 DEF StaleBefore
  <2>3. Graded(level, rejected, verdicts, Len(verdicts) + 1, caps)
    BY <2>1, <2>2 DEF GradedInv, Heard, Looped, Graded, LostBefore
  <2> QED BY <2>1, <2>3 DEF GradedInv, Heard
<1>7. CASE WriteOutput \/ Evaluate \/ AnalyzePaths \/ Rollup \/ BuildReport \/ AuditReport
  <2>1. /\ pc \notin {"merge", "judge"} /\ pc' \notin {"merge", "judge"} /\ (Looped' => Looped)
        /\ UNCHANGED <<verdicts, level, caps, rejected>>
    BY <1>7 DEF WriteOutput, Evaluate, AnalyzePaths, Rollup, BuildReport, AuditReport, GoTo, apply,
                UnchangedInputs, Looped, Applied
  <2> QED BY <2>1 DEF GradedInv, Heard
<1>8. CASE Begin \/ Adjudicate \/ SkipAdjudicator \/ Blocked \/ RefuseToWrite \/ Crash \/ CrashInEvaluator
  <2>1. ~Looped'
    BY <1>8 DEF Begin, Adjudicate, SkipAdjudicator, Blocked, RefuseToWrite, Crash, CrashInEvaluator,
                GoTo, Looped, Applied
  <2> QED BY <2>1 DEF GradedInv
<1>9. CASE UNCHANGED vars
  <2>1. UNCHANGED <<pc, step, verdicts, level, caps, rejected>>
    BY <1>9 DEF vars, disk, apply
  <2> QED BY <2>1 DEF GradedInv, Heard, Looped, Applied
<1> QED BY <1>1, <1>2, <1>3, <1>4, <1>5, <1>6, <1>7, <1>8, <1>9, <1>10, <1>11 DEF Next, ApplyClusters

\* The grades, once written, are those of all the verdicts.
LEMMA GradedFollows == TypeOK /\ GradedInv /\ Balanced /\ Flushed => MaturityFollowsVerdicts
<1> SUFFICES ASSUME TypeOK, GradedInv, Balanced, Flushed, Applied
             PROVE  /\ \A e \in out.capabilities : \A c \in e.from :
                          e.by = 0 => e.maturity = Maturity[c] - Lost(c)
                    /\ \A c \in caps : Cardinality({r \in out.rejected : r.why = "stale" /\ r.id = c}) = Lost(c)
  BY DEF MaturityFollowsVerdicts
<1>1. Graded(level, rejected, verdicts, Len(verdicts) + 1, caps)
  BY DEF GradedInv, Looped, Heard, Applied
<1>2. \A c : c # NoId => LostBefore(verdicts, c, Len(verdicts) + 1) = Lost(c)
  <2>1. \A c : c # NoId => StaleBefore(verdicts, c, Len(verdicts) + 1) = StaleVerdicts(c)
    <3>1. \A k \in 1..Len(verdicts) : k < Len(verdicts) + 1
      OBVIOUS
    <3> QED BY <3>1 DEF StaleBefore, StaleVerdicts, BothNamed
  <2> QED BY <2>1 DEF LostBefore, Lost
<1>3. /\ out.capabilities = mergedCaps \cup {PlainCap(c, level[c]) : c \in caps \ consumedCaps}
      /\ out.rejected = rejected
  BY DEF Flushed, Written, Result
<1>0. \A c \in caps : c # NoId
  BY IdsAssumption DEF TypeOK
<1>4. ASSUME NEW e \in out.capabilities, NEW c \in e.from, e.by = 0
      PROVE  e.maturity = Maturity[c] - Lost(c)
  <2>1. e \notin mergedCaps
    BY <1>4 DEF Balanced
  <2>2. PICK k \in caps : e = PlainCap(k, level[k])
    BY <1>3, <2>1
  <2>3. c = k /\ e.maturity = level[c]
    BY <1>4, <2>2 DEF PlainCap
  <2> QED BY <1>0, <1>1, <1>2, <2>2, <2>3 DEF Graded
<1>5. ASSUME NEW c \in caps
      PROVE  Cardinality({r \in out.rejected : r.why = "stale" /\ r.id = c}) = Lost(c)
  BY <1>0, <1>1, <1>2, <1>3 DEF Graded, StaleRows
<1> QED BY <1>4, <1>5

\* A capability that ships as itself has lost a notch for each stale verdict on it, as
\* far as it had notches, and a row tells of each: for any verdicts in any order, and
\* whatever an earlier session left in the files.
THEOREM MaturityIsVerdicts == Spec => []MaturityFollowsVerdicts
<1>1. Init => Balanced /\ Flushed /\ GradedInv
  BY DEF Init, Balanced, Flushed, Written, Applied, GradedInv, Looped
<1> QED BY <1>1, TypeCorrect, BalanceStep, FlushStep, GradedStep, GradedFollows, PTL DEF Spec
=============================================================================
