-------------------------- MODULE GauntletRunProofs --------------------------
(***************************************************************************)
(* Type correctness of the drive, that no session drives forever, and what *)
(* a session relies on behind the rows it has passed: for any lenses and   *)
(* tiers, any set of run configs, any number of sessions, and however many *)
(* files, dispatches and audits go wrong.                                  *)
(***************************************************************************)
EXTENDS GauntletRun, SequenceTheorems, TLAPS

\* The part of TypeOK that is about the files.
Filed ==
    /\ quality \in [Files -> Qualities]
    /\ ver \in [Files -> Nat]
    /\ DOMAIN basis = Computed /\ \A g \in Computed : basis[g] \in [Inputs[g] -> Nat]

-----------------------------------------------------------------------------
(* Operators.                                                              *)

\* The outputs of agents and tools, and the record files, are files of the run.
LEMMA KnownFiles ==
    /\ \A w \in Tools : Out(w) \in Files
    /\ Out("adjudicate") \in Files /\ Out("report-writer") \in Files
    /\ RecordFiles \subseteq Files
    /\ \A a \in Resumable : OutputsOf(a) \subseteq Files
<1>1. \A a \in Resumable : OutputsOf(a) \subseteq Files
  <2>1. SUFFICES ASSUME NEW a \in Resumable, NEW f \in OutputsOf(a)
                 PROVE  f \in UNION {OutputsOf(x) : x \in Resumable}
    BY Zenon DEF Files
  <2>2. QED BY Zenon
<1>2. \A w \in Tools : Out(w) \in Files
  BY DEF Files
<1>3. LensFiles \subseteq Files
  BY DEF Files, LensFiles, Resumable
<1>4. \A a \in OtherAgents : a \notin Lenses /\ a \in Resumable
  BY LensesAssumption DEF Resumable
<1>5. Out("adjudicate") \in OutputsOf("adjudicate")
  BY <1>4 DEF Out, OutputsOf, Parts, OtherAgents
<1>6. Out("report-writer") \in OutputsOf("report-writer")
  BY <1>4 DEF Out, OutputsOf, Parts, OtherAgents
<1>7. TmFindings \in OutputsOf("tmeval")
  BY <1>4 DEF TmFindings, OutputsOf, Parts, OtherAgents
<1>8. ApFindings \in OutputsOf("apath")
  BY <1>4 DEF ApFindings, OutputsOf, Parts, OtherAgents
<1>9. /\ Out("adjudicate") \in Files /\ Out("report-writer") \in Files
      /\ TmFindings \in Files /\ ApFindings \in Files
  BY <1>1, <1>4, <1>5, <1>6, <1>7, <1>8 DEF OtherAgents
<1>10. QED
  BY <1>1, <1>2, <1>3, <1>9 DEF RecordFiles

\* What a command computes from are files of the run.
LEMMA InputsAreFiles == \A g \in Computed : Inputs[g] \subseteq Files
<1> SUFFICES ASSUME NEW g \in Computed PROVE Inputs[g] \subseteq Files
  OBVIOUS
<1>1. /\ Out("cluster-candidates") \in Files /\ Out("apply-clusters") \in Files
      /\ Out("rollup") \in Files /\ Out("build-report") \in Files
  BY KnownFiles DEF Tools
<1>2. /\ LensFiles \subseteq Files /\ TmFindings \in Files /\ ApFindings \in Files
      /\ RecordFiles \subseteq Files
      /\ Out("adjudicate") \in Files /\ Out("report-writer") \in Files
  BY KnownFiles DEF RecordFiles
<1>3. \/ Inputs[g] = RecordFiles
      \/ Inputs[g] = {Out("cluster-candidates")}
      \/ Inputs[g] = LensFiles \cup {TmFindings, Out("adjudicate")}
      \/ Inputs[g] = {Out("apply-clusters"), TmFindings, ApFindings}
      \/ Inputs[g] = {Out("apply-clusters"), Out("rollup"), TmFindings, ApFindings,
                      Out("report-writer")}
      \/ Inputs[g] = {Out("build-report"), Out("rollup")}
      \/ Inputs[g] = {}
  BY DEF Inputs
<1>4. QED
  BY <1>1, <1>2, <1>3

\* A reader's view of well-typed files is a well-typed basis.
LEMMA ViewType ==
    ASSUME Filed, NEW g \in Computed
    PROVE  View(g) \in [Inputs[g] -> Nat]
<1>1. \A f \in Inputs[g] : Seen(f) \in Nat
  BY InputsAreFiles DEF Filed, Seen
<1>2. QED
  BY <1>1 DEF View

\* Writing files of known qualities keeps the files well-typed.
LEMMA WriteType ==
    ASSUME Filed, NEW S, NEW q \in [S -> Qualities], Write(q)
    PROVE  Filed'
<1>1. quality' \in [Files -> Qualities]
  BY DEF Write, Filed
<1>2. ver' \in [Files -> Nat]
  BY DEF Write, Filed
<1>3. DOMAIN basis' = Computed /\ \A g \in Computed : basis'[g] \in [Inputs[g] -> Nat]
  BY ViewType DEF Write, Filed
<1>4. QED
  BY <1>1, <1>2, <1>3 DEF Filed

\* The same, when one of the files written is spoiled.
LEMMA SpoiltType ==
    ASSUME NEW S, NEW q \in [S -> Qualities], NEW f \in S, NEW b \in Flaws(f)
    PROVE  [q EXCEPT ![f] = b] \in [S -> Qualities]
BY DEF Flaws, Qualities

\* The remedies of the tier gate keep the files well-typed.
LEMMA RedoType ==
    ASSUME Filed, NEW fs, Redo(fs), faults \in 0..MaxFaults
    PROVE  Filed' /\ faults' \in 0..MaxFaults
<1>1. CASE Write([f \in fs |-> "good"]) /\ NoFault
  <2>1. [f \in fs |-> "good"] \in [fs -> Qualities]
    BY DEF Qualities
  <2>2. Filed'
    BY <1>1, <2>1, WriteType
  <2>3. QED BY <1>1, <2>2 DEF NoFault
<1>2. CASE Fault /\ \E f \in fs : \E b \in Flaws(f) :
                        Write([g \in fs |-> IF g = f THEN b ELSE "good"])
  <2>0. PICK f \in fs : \E b \in Flaws(f) : Write([g \in fs |-> IF g = f THEN b ELSE "good"])
    BY <1>2
  <2>1. PICK b \in Flaws(f) : Write([g \in fs |-> IF g = f THEN b ELSE "good"])
    BY <2>0
  <2>2. [g \in fs |-> IF g = f THEN b ELSE "good"] \in [fs -> Qualities]
    BY DEF Qualities, Flaws
  <2>3. Filed'
    BY <2>1, <2>2, WriteType
  <2>4. faults' \in 0..MaxFaults
    BY <1>2, BoundsAssumption DEF Fault
  <2>5. QED BY <2>3, <2>4
<1>3. CASE Fault /\ \E left \in SUBSET fs : Write([f \in fs \ left |-> "good"])
  <2>1. PICK left \in SUBSET fs : Write([f \in fs \ left |-> "good"])
    BY <1>3
  <2>2. [f \in fs \ left |-> "good"] \in [fs \ left -> Qualities]
    BY DEF Qualities
  <2>3. Filed'
    BY <2>1, <2>2, WriteType
  <2>4. faults' \in 0..MaxFaults
    BY <1>3, BoundsAssumption DEF Fault
  <2>5. QED BY <2>3, <2>4
<1>4. QED
  BY <1>1, <1>2, <1>3 DEF Redo

\* One more fault stays within the bound.
LEMMA FaultType == ASSUME Fault, faults \in 0..MaxFaults PROVE faults' \in 0..MaxFaults
BY BoundsAssumption DEF Fault
-----------------------------------------------------------------------------
(* Type correctness.                                                       *)

\* The part of TypeOK that is about the session.
Session ==
    /\ pos \in Int /\ stage \in 0..2 /\ remedies \in 0..2
    /\ phase \in {"ready", "running", "stopped", "halted", "done"}
    /\ faults \in 0..MaxFaults /\ stops \in 0..MaxStops

\* TypeOK in two parts, for the session and for the files.
LEMMA TypeParts == TypeOK <=> /\ cfg \in Configs /\ skip \subseteq Resumable
                              /\ Session /\ Filed
BY DEF TypeOK, Session, Filed

\* The initial run directory is well-typed.
LEMMA TypeInit == Init => TypeOK
<1> SUFFICES ASSUME Init PROVE TypeOK
  OBVIOUS
<1>1. Session
  BY BoundsAssumption DEF Init, Session
<1>2. Filed
  <2>1. quality \in [Files -> Qualities] /\ ver \in [Files -> Nat]
    BY DEF Init, Qualities
  <2>2. DOMAIN basis = Computed /\ \A g \in Computed : basis[g] \in [Inputs[g] -> Nat]
    BY DEF Init
  <2>3. QED BY <2>1, <2>2 DEF Filed
<1>3. cfg \in Configs /\ skip \subseteq Resumable
  BY DEF Init
<1>4. QED BY <1>1, <1>2, <1>3, TypeParts

\* What a dispatch leaves is of the known qualities.
LEMMA SoundType == \A S : [f \in S |-> Sound(f)] \in [S -> Qualities]
BY DEF Sound, Qualities

\* Moving on, trying again and halting keep the session well-typed.
LEMMA MoveType ==
    ASSUME Session, faults' \in 0..MaxFaults, stops' = stops,
           Advance \/ Retry(1) \/ Retry(2) \/ (stage < 2 /\ Retry(stage + 1)) \/ Halt
    PROVE  Session'
<1>1. CASE Advance
  BY <1>1 DEF Session, Advance
<1>2. CASE Retry(1) \/ Retry(2) \/ (stage < 2 /\ Retry(stage + 1))
  BY <1>2 DEF Session, Retry
<1>3. CASE Halt
  BY <1>3 DEF Session, Halt
<1>4. QED BY <1>1, <1>2, <1>3

\* What a remedy leaves is well-typed.
LEMMA RewrittenType == Filed /\ Rewritten => Filed'
<1> SUFFICES ASSUME Filed, Rewritten PROVE Filed'
  OBVIOUS
<1>1. CASE UNCHANGED files
  BY <1>1 DEF Filed, files
<1>2. ASSUME NEW b \in {"good"} \cup Flaws(Out("report-writer")),
             Write([f \in {Out("report-writer")} |-> b])
      PROVE  Filed'
  <2>1. [f \in {Out("report-writer")} |-> b] \in [{Out("report-writer")} -> Qualities]
    BY DEF Flaws, Qualities
  <2>2. QED BY <1>2, <2>1, WriteType
<1>3. QED
  BY <1>1, <1>2 DEF Rewritten

\* Files that a step does not touch stay well-typed.
LEMMA FiledUnchanged == Filed /\ UNCHANGED files => Filed'
BY DEF Filed, files

\* Every step of the drive and of the outside world preserves TypeOK.
LEMMA TypeStep == TypeOK /\ [Next]_vars => TypeOK'
<1> SUFFICES ASSUME TypeOK, [Next]_vars PROVE TypeOK'
  OBVIOUS
<1>0. /\ cfg \in Configs /\ skip \subseteq Resumable /\ Session /\ Filed
      /\ faults \in 0..MaxFaults /\ stops \in 0..MaxStops
  BY TypeParts DEF Session
<1>f. UNCHANGED faults => faults' \in 0..MaxFaults
  BY <1>0
<1>q. ASSUME cfg' = cfg, skip' \subseteq Resumable, Session', Filed' PROVE TypeOK'
  BY <1>0, <1>q DEF TypeOK, Session, Filed
<1>m. ASSUME cfg' = cfg, skip' = skip, stops' = stops, faults' = faults, UNCHANGED files,
             Advance \/ Halt
      PROVE  TypeOK'
  BY <1>0, <1>f, <1>q, <1>m, MoveType, FiledUnchanged
<1>1. CASE Invoke
  BY <1>1, <1>0, <1>q, FiledUnchanged DEF Invoke, Session
<1>2. CASE ResumePlan
  <2>1. Session' /\ Filed' /\ cfg' = cfg
    BY <1>2, <1>0, <1>f, MoveType, FiledUnchanged DEF ResumePlan
  <2>2. QED BY <1>2, <2>1, <1>q DEF ResumePlan
<1>3. CASE SkipAgent
  BY <1>3, <1>m DEF SkipAgent
<1>4. CASE DispatchAgent
  <2> DEFINE sound == [f \in OutputsOf(Who) |-> Sound(f)]
  <2>1. sound \in [OutputsOf(Who) -> Qualities]
    BY SoundType
  <2> HIDE DEF sound
  <2>2. CASE Write(sound) /\ NoFault
    <3>1. Filed' /\ faults' = faults
      BY <2>1, <2>2, <1>0, WriteType DEF NoFault
    <3>2. QED BY <3>1, <1>4, <1>0, <1>f, <1>q, MoveType DEF DispatchAgent
  <2>3. CASE Fault /\ \E f \in OutputsOf(Who) : \E b \in Flaws(f) : Write([sound EXCEPT ![f] = b])
    <3>1. PICK f \in OutputsOf(Who) : \E b \in Flaws(f) : Write([sound EXCEPT ![f] = b])
      BY <2>3
    <3>2. PICK b \in Flaws(f) : Write([sound EXCEPT ![f] = b])
      BY <3>1
    <3>3. [sound EXCEPT ![f] = b] \in [OutputsOf(Who) -> Qualities]
      BY <2>1, <3>2, SpoiltType
    <3>4. Filed'
      BY <3>2, <3>3, <1>0, WriteType
    <3>5. faults' \in 0..MaxFaults
      BY <2>3, <1>0, FaultType
    <3>6. QED BY <3>4, <3>5, <1>4, <1>0, <1>q, MoveType DEF DispatchAgent
  <2>4. QED BY <1>4, <2>2, <2>3 DEF DispatchAgent, sound
<1>5. CASE DispatchFails
  <2>1. faults' \in 0..MaxFaults
    BY <1>5, <1>0, FaultType DEF DispatchFails
  <2>2. Session'
    BY <1>5, <2>1, <1>0, MoveType DEF DispatchFails
  <2>3. QED BY <1>5, <2>2, <1>0, <1>q, FiledUnchanged DEF DispatchFails
<1>6. CASE AuditorAgent
  BY <1>6, <1>m DEF AuditorAgent
<1>7. CASE CanonicalizeRow
  <2>1. faults' \in 0..MaxFaults /\ (Advance \/ Halt)
    BY <1>7, <1>0, FaultType DEF CanonicalizeRow, NoFault
  <2>2. Session'
    BY <1>7, <2>1, <1>0, MoveType DEF CanonicalizeRow
  <2>3. ASSUME NEW fs, Mint(fs), UNCHANGED <<ver, basis>> PROVE Filed'
    BY <2>3, <1>0 DEF Mint, Filed, Qualities
  <2>4. Filed'
    BY <1>7, <2>3 DEF CanonicalizeRow
  <2>5. QED BY <1>7, <2>2, <2>4, <1>0, <1>q DEF CanonicalizeRow
<1>8. CASE IntakeGate
  BY <1>8, <1>m DEF IntakeGate
<1>9. CASE TierGatePasses
  BY <1>9, <1>m DEF TierGatePasses
<1>10. CASE TierRepair
  <2>1. Filed' /\ faults' \in 0..MaxFaults
    BY <1>10, <1>0, RedoType DEF TierRepair
  <2>2. QED BY <1>10, <2>1, <1>0, <1>q, MoveType DEF TierRepair
<1>11. CASE TierRerun
  <2>1. Filed' /\ faults' \in 0..MaxFaults
    BY <1>11, <1>0, RedoType DEF TierRerun
  <2>2. QED BY <1>11, <2>1, <1>0, <1>q, MoveType DEF TierRerun
<1>12. CASE TierHalt
  BY <1>12, <1>m DEF TierHalt
<1>13. CASE FullGate
  BY <1>13, <1>m DEF FullGate
<1>14. CASE ToolRow
  <2>1. [f \in {Out(Who)} |-> "good"] \in [{Out(Who)} -> Qualities]
    BY DEF Qualities
  <2>2. UNCHANGED files \/ Write([f \in {Out(Who)} |-> "good"])
    BY <1>14 DEF ToolRow
  <2>3. Filed'
    BY <2>1, <2>2, <1>0, WriteType, FiledUnchanged
  <2>4. Advance \/ Halt
    BY <1>14 DEF ToolRow
  <2>5. QED BY <1>14, <2>3, <2>4, <1>0, <1>f, <1>q, MoveType DEF ToolRow
<1>15. CASE AuditPasses
  BY <1>15, <1>m DEF AuditPasses
<1>16. CASE Remediate
  <2>2. Filed'
    BY <1>16, <1>0, RewrittenType DEF Remediate
  <2>3. Session'
    BY <1>16, <1>0, FaultType DEF Remediate, Session
  <2>4. QED BY <1>16, <2>2, <2>3, <1>0, <1>q DEF Remediate
<1>17. CASE AuditHalts
  <2>1. faults' \in 0..MaxFaults
    BY <1>17, <1>0, FaultType DEF AuditHalts
  <2>2. QED BY <1>17, <2>1, <1>0, <1>q, MoveType, FiledUnchanged DEF AuditHalts
<1>18. CASE Closeout
  BY <1>18, <1>0, <1>q, FiledUnchanged DEF Closeout, Session
<1>e. ASSUME EndSession, Filed' PROVE TypeOK'
  BY <1>e, <1>0, <1>q, BoundsAssumption DEF EndSession, Session
<1>19. CASE Stop
  BY <1>19, <1>e, <1>0, FiledUnchanged DEF Stop
<1>20. CASE StopInAgent
  <2>1. PICK done \in SUBSET InHand : \E torn \in SUBSET InHand :
            Write([f \in done \cup torn |-> IF f \in torn THEN "torn" ELSE Sound(f)])
    BY <1>20 DEF StopInAgent
  <2>2. PICK torn \in SUBSET InHand :
            Write([f \in done \cup torn |-> IF f \in torn THEN "torn" ELSE Sound(f)])
    BY <2>1
  <2>3. [f \in done \cup torn |-> IF f \in torn THEN "torn" ELSE Sound(f)]
            \in [done \cup torn -> Qualities]
    BY DEF Sound, Qualities
  <2>4. Filed'
    BY <2>2, <2>3, <1>0, WriteType
  <2>5. QED BY <2>4, <1>20, <1>e DEF StopInAgent
<1>21. CASE StopInCommand
  <2>1. ASSUME NEW f, NEW b \in Qualities, Write([g \in {f} |-> b]) PROVE Filed'
    <3>1. [g \in {f} |-> b] \in [{f} -> Qualities]
      OBVIOUS
    <3>2. QED BY <2>1, <3>1, <1>0, WriteType
  <2>2. \E f : \E b \in Qualities : Write([g \in {f} |-> b])
    <3>1. CASE At("canonicalize")
      <4>1. PICK f \in Files \cup Canonicalized :
                /\ Readable(f)
                /\ \E b \in {"missing", "torn", "invalid", quality[f]} : Write([g \in {f} |-> b])
        BY <1>21, <3>1 DEF StopInCommand, At
      <4>2. PICK b \in {"missing", "torn", "invalid", quality[f]} : Write([g \in {f} |-> b])
        BY <4>1
      <4>3. b \in Qualities
        BY <4>1, <4>2 DEF Readable, Qualities
      <4>4. QED BY <4>2, <4>3
    <3>2. CASE At("tool")
      <4>1. Write([g \in {Out(Who)} |-> "torn"])
        BY <1>21, <3>2 DEF StopInCommand, At
      <4>2. "torn" \in Qualities
        BY DEF Qualities
      <4>3. QED BY <4>1, <4>2
    <3>3. QED BY <1>21, <3>1, <3>2 DEF StopInCommand
  <2>3. PICK f : \E b \in Qualities : Write([g \in {f} |-> b])
    BY <2>2
  <2>4. Filed'
    BY <2>1, <2>3
  <2>5. QED BY <2>4, <1>21, <1>e DEF StopInCommand
<1>22. CASE HandFix
  <2>1. PICK f \in Files : Write([g \in {f} |-> "good"])
    BY <1>22 DEF HandFix
  <2>2. [g \in {f} |-> "good"] \in [{f} -> Qualities]
    BY DEF Qualities
  <2>3. Filed'
    BY <2>1, <2>2, <1>0, WriteType
  <2>4. QED BY <2>3, <1>22, <1>0, <1>q DEF HandFix, Session
<1>23. CASE UNCHANGED vars
  BY <1>23, <1>0, <1>q, FiledUnchanged DEF vars, Session
<1>24. CASE AsideRow
  <2>1. faults' \in 0..MaxFaults /\ (Advance \/ Halt)
    BY <1>24, <1>0, FaultType DEF AsideRow, NoFault
  <2>2. QED BY <1>24, <2>1, <1>0, <1>q, MoveType, FiledUnchanged DEF AsideRow
<1>25. QED
  BY <1>1, <1>2, <1>3, <1>4, <1>5, <1>6, <1>7, <1>8, <1>9, <1>10, <1>11, <1>12, <1>13,
     <1>14, <1>15, <1>16, <1>17, <1>18, <1>19, <1>20, <1>21, <1>22, <1>23,
     <1>24 DEF Next, DriveStep, OutsideStep

\* The drive is type-correct: in particular no row is tried more than three times
\* and no session asks for more than two remedies of its report.
THEOREM TypeCorrect == Spec => []TypeOK
<1>1. Init => TypeOK
  BY TypeInit
<1>2. TypeOK /\ [Next]_vars => TypeOK'
  BY TypeStep
<1>3. QED BY <1>1, <1>2, PTL DEF Spec

-----------------------------------------------------------------------------
(* Progress.                                                               *)

\* From a well-typed state every drive step brings its session nearer its end.
LEMMA StepProgresses == TypeOK /\ DriveStep => Progress
<1> SUFFICES ASSUME TypeOK, DriveStep PROVE Progress
  OBVIOUS
<1>0. pos \in Int /\ stage \in 0..2 /\ remedies \in 0..2
  BY DEF TypeOK
<1>1. CASE Advance
  BY <1>0, <1>1 DEF Advance, Progress
<1>2. CASE Halt
  BY <1>2 DEF Halt, Progress
<1>4. CASE Remediate
  BY <1>0, <1>4 DEF Remediate, Progress
<1>5. CASE Closeout
  BY <1>5 DEF Closeout, Progress
<1>6. CASE ResumePlan \/ SkipAgent \/ AuditorAgent \/ TierGatePasses \/ AuditPasses
  BY <1>6, <1>1 DEF ResumePlan, SkipAgent, AuditorAgent, TierGatePasses, AuditPasses
<1>7. CASE DispatchAgent
  BY <1>7, <1>1 DEF DispatchAgent
<1>8. CASE DispatchFails
  BY <1>0, <1>8, <1>1, <1>2 DEF DispatchFails, Retry, Progress
<1>9. CASE AsideRow \/ CanonicalizeRow \/ IntakeGate \/ FullGate \/ TierHalt \/ AuditHalts
  BY <1>9, <1>1, <1>2 DEF AsideRow, CanonicalizeRow, IntakeGate, FullGate, TierHalt, AuditHalts
<1>10. CASE TierRepair \/ TierRerun
  BY <1>0, <1>10 DEF TierRepair, TierRerun, Retry, Progress
<1>11. CASE ToolRow
  BY <1>11, <1>1, <1>2 DEF ToolRow
<1>12. QED
  BY <1>4, <1>5, <1>6, <1>7, <1>8, <1>9, <1>10, <1>11 DEF DriveStep

\* No session drives forever, whatever fails: with the bounds of TypeCorrect each of
\* its steps moves a finite measure on.
THEOREM SessionsProgress == Spec => EachStepProgresses
<1>1. TypeOK /\ [Next]_vars => [DriveStep => Progress]_vars
  BY StepProgresses
<1>2. QED BY <1>1, TypeCorrect, PTL DEF Spec, EachStepProgresses

-----------------------------------------------------------------------------
(* The order of the checklist.                                             *)

\* The rows around those of the tiers: no tier gate, and no agent that is a lens.
Asides == {"build-domain-skill", "validate-domain", "summarize"}
PlainRows ==
    [kind : {"resume-plan", "intake-gate", "canonicalize", "full-gate", "audit-gate",
             "report-auditor"}, who : {""}]
    \cup [kind : {"tool"}, who : Tools] \cup [kind : {"agent"}, who : OtherAgents]
    \cup [kind : {"aside"}, who : Asides]
AllRows == PlainRows \cup Range(AllTierRows)

\* Row i of checklist P stands where its neighbours need it: clustering follows the full
\* gate, the audit gate the building and the auditing of the report, and a tier gate
\* every row of the lenses it gates.
InOrder(P, i) ==
    /\ P[i].kind = "tool" /\ P[i].who = "cluster-candidates" =>
          i > 1 /\ P[i - 1].kind = "full-gate"
    /\ P[i].kind = "audit-gate" =>
          /\ i > 2
          /\ P[i - 1].kind = "tool"
          /\ P[i - 2].kind = "tool" /\ P[i - 2].who = "build-report"
    /\ P[i].kind = "tier-gate" =>
          /\ P[i].who \in 1..Len(Tiers)
          /\ \A j \in 1..Len(P) :
                P[j].kind = "agent" /\ P[j].who \in TierLenses(P[i].who) => j < i
Ordered(P) == P \in Seq(AllRows) /\ \A i \in 1..Len(P) : InOrder(P, i)
Plain(P) == \A i \in 1..Len(P) : P[i] \in PlainRows

\* No plain row is a tier gate or the row of a lens.
LEMMA PlainRow ==
    \A r \in PlainRows : r.kind # "tier-gate" /\ (r.kind = "agent" => r.who \notin Lenses)
BY LensesAssumption DEF PlainRows

\* The items of two sequences put together.
LEMMA Joined ==
    ASSUME NEW X, NEW s \in Seq(X), NEW t \in Seq(X)
    PROVE  /\ s \o t \in Seq(X) /\ Len(s) \in Nat /\ Len(t) \in Nat
           /\ Len(s \o t) = Len(s) + Len(t)
           /\ \A i \in 1..Len(s) : (s \o t)[i] = s[i]
           /\ \A i \in 1..Len(t) : (s \o t)[Len(s) + i] = t[i]
OBVIOUS

\* Two parts of a checklist that are in order, one of them plain, are in order together.
LEMMA JoinOrdered ==
    ASSUME NEW s, NEW t, Ordered(s), Ordered(t), Plain(s) \/ Plain(t)
    PROVE  Ordered(s \o t) /\ (Plain(s) /\ Plain(t) => Plain(s \o t))
<1> DEFINE u == s \o t
           m == Len(s)
           n == Len(t)
<1>1. /\ u \in Seq(AllRows) /\ m \in Nat /\ n \in Nat /\ Len(u) = m + n
      /\ \A i \in 1..m : u[i] = s[i]
      /\ \A i \in 1..n : u[m + i] = t[i]
  <2>1. s \in Seq(AllRows) /\ t \in Seq(AllRows)
    BY DEF Ordered
  <2>2. QED BY <2>1, Joined
<1>2. /\ \A i \in 1..m : InOrder(s, i)
      /\ \A i \in 1..n : InOrder(t, i)
      /\ \A i \in 1..m : Plain(s) => s[i] \in PlainRows
      /\ \A i \in 1..n : Plain(t) => t[i] \in PlainRows
  BY DEF Ordered, Plain
<1>3. Ordered(u) <=> u \in Seq(AllRows) /\ \A i \in 1..Len(u) : InOrder(u, i)
  BY DEF Ordered
<1>4. Plain(u) <=> \A i \in 1..Len(u) : u[i] \in PlainRows
  BY DEF Plain
<1>5. \A i \in 1..m : InOrder(s, i) <=>
         /\ s[i].kind = "tool" /\ s[i].who = "cluster-candidates" =>
               i > 1 /\ s[i - 1].kind = "full-gate"
         /\ s[i].kind = "audit-gate" =>
               /\ i > 2
               /\ s[i - 1].kind = "tool"
               /\ s[i - 2].kind = "tool" /\ s[i - 2].who = "build-report"
         /\ s[i].kind = "tier-gate" =>
               /\ s[i].who \in 1..Len(Tiers)
               /\ \A j \in 1..m :
                     s[j].kind = "agent" /\ s[j].who \in TierLenses(s[i].who) => j < i
  BY DEF InOrder
<1>6. \A i \in 1..n : InOrder(t, i) <=>
         /\ t[i].kind = "tool" /\ t[i].who = "cluster-candidates" =>
               i > 1 /\ t[i - 1].kind = "full-gate"
         /\ t[i].kind = "audit-gate" =>
               /\ i > 2
               /\ t[i - 1].kind = "tool"
               /\ t[i - 2].kind = "tool" /\ t[i - 2].who = "build-report"
         /\ t[i].kind = "tier-gate" =>
               /\ t[i].who \in 1..Len(Tiers)
               /\ \A j \in 1..n :
                     t[j].kind = "agent" /\ t[j].who \in TierLenses(t[i].who) => j < i
  BY DEF InOrder
<1> HIDE DEF u, m, n
<1>7. \A i \in 1..Len(u) : i \in 1..m \/ (i \in (m + 1)..(m + n) /\ i - m \in 1..n)
  BY <1>1
<1>8. \A i \in (m + 1)..(m + n) : u[i] = t[i - m]
  <2> TAKE i \in (m + 1)..(m + n)
  <2>1. i - m \in 1..n /\ m + (i - m) = i
    BY <1>1
  <2>2. u[m + (i - m)] = t[i - m]
    BY <1>1, <2>1
  <2>3. QED BY <2>1, <2>2
<1>9. ASSUME NEW i \in 1..m PROVE InOrder(u, i)
  <2>1. u[i] = s[i] /\ i \in 1..Len(u)
    BY <1>1
  <2>2. /\ u[i].kind = "tool" /\ u[i].who = "cluster-candidates" =>
              i > 1 /\ u[i - 1].kind = "full-gate"
        /\ u[i].kind = "audit-gate" =>
              /\ i > 2
              /\ u[i - 1].kind = "tool"
              /\ u[i - 2].kind = "tool" /\ u[i - 2].who = "build-report"
    BY <1>1, <1>2, <1>5, <2>1
  <2>3. ASSUME u[i].kind = "tier-gate" PROVE u[i].who \in 1..Len(Tiers)
    BY <1>2, <1>5, <2>1, <2>3
  <2>4. ASSUME u[i].kind = "tier-gate", NEW j \in 1..Len(u), u[j].kind = "agent",
               u[j].who \in TierLenses(u[i].who)
        PROVE  j < i
    <3>1. CASE j \in 1..m
      BY <1>1, <1>2, <1>5, <2>1, <2>4, <3>1
    <3>2. CASE j \in (m + 1)..(m + n) /\ j - m \in 1..n
      <4>1. Plain(t)
        BY <1>2, <2>1, <2>4, PlainRow
      <4>2. u[j] \in PlainRows
        BY <1>2, <1>8, <3>2, <4>1
      <4>3. u[j].who \in Lenses
        BY <2>3, <2>4 DEF Lenses
      <4>4. QED BY <2>4, <4>2, <4>3, PlainRow
    <3>3. QED BY <1>7, <3>1, <3>2
  <2>5. QED BY <2>2, <2>3, <2>4 DEF InOrder
<1>10. ASSUME NEW i \in (m + 1)..(m + n), i - m \in 1..n PROVE InOrder(u, i)
  <2> DEFINE k == i - m
  <2>1. u[i] = t[k] /\ k \in 1..n /\ i = m + k
    BY <1>1, <1>8, <1>10
  <2> HIDE DEF k
  <2>2. /\ k > 1 => i > 1 /\ u[i - 1] = t[k - 1]
        /\ k > 2 => i > 2 /\ u[i - 2] = t[k - 2]
    <3>1. ASSUME k > 1 PROVE i > 1 /\ u[i - 1] = t[k - 1]
      <4>1. k - 1 \in 1..n /\ i - 1 = m + (k - 1) /\ i > 1
        BY <1>1, <2>1, <3>1
      <4>2. u[m + (k - 1)] = t[k - 1]
        BY <1>1, <4>1
      <4>3. QED BY <4>1, <4>2
    <3>2. ASSUME k > 2 PROVE i > 2 /\ u[i - 2] = t[k - 2]
      <4>1. k - 2 \in 1..n /\ i - 2 = m + (k - 2) /\ i > 2
        BY <1>1, <2>1, <3>2
      <4>2. u[m + (k - 2)] = t[k - 2]
        BY <1>1, <4>1
      <4>3. QED BY <4>1, <4>2
    <3>3. QED BY <3>1, <3>2
  <2>3. /\ u[i].kind = "tool" /\ u[i].who = "cluster-candidates" =>
              i > 1 /\ u[i - 1].kind = "full-gate"
        /\ u[i].kind = "audit-gate" =>
              /\ i > 2
              /\ u[i - 1].kind = "tool"
              /\ u[i - 2].kind = "tool" /\ u[i - 2].who = "build-report"
    BY <1>1, <1>2, <1>6, <2>1, <2>2
  <2>4. ASSUME u[i].kind = "tier-gate" PROVE u[i].who \in 1..Len(Tiers)
    BY <1>2, <1>6, <2>1, <2>4
  <2>5. ASSUME u[i].kind = "tier-gate", NEW j \in 1..Len(u), u[j].kind = "agent",
               u[j].who \in TierLenses(u[i].who)
        PROVE  j < i
    <3>1. CASE j \in 1..m
      BY <1>1, <1>10, <3>1
    <3>2. CASE j \in (m + 1)..(m + n) /\ j - m \in 1..n
      <4>1. u[j] = t[j - m]
        BY <1>8, <3>2
      <4>2. j - m < k
        BY <1>2, <1>6, <2>1, <2>5, <3>2, <4>1
      <4>3. QED BY <1>1, <2>1, <3>2, <4>2
    <3>3. QED BY <1>7, <3>1, <3>2
  <2>6. QED BY <2>3, <2>4, <2>5 DEF InOrder
<1>11. Ordered(u)
  BY <1>1, <1>3, <1>7, <1>9, <1>10
<1>12. Plain(s) /\ Plain(t) => Plain(u)
  BY <1>1, <1>2, <1>4, <1>7, <1>8
<1>13. QED
  BY <1>11, <1>12 DEF u

\* The rows that are written out in build_plan.
Beginning ==
    <<Row("resume-plan", ""), Row("aside", "build-domain-skill"), Row("aside", "validate-domain")>>
Intake == <<Row("agent", "intake"), Row("intake-gate", "")>>
Recon == <<Row("agent", "code-recon"), Row("canonicalize", "")>>
Authoring == <<Row("tool", "author-threat-model"), Row("agent", "threat-model-author")>>
TmRecon == <<Row("agent", "tm-recon")>>
Minting == <<Row("canonicalize", "")>>
Synthesizing ==
    <<Row("full-gate", ""),
      Row("tool", "cluster-candidates"), Row("agent", "adjudicate"),
      Row("tool", "apply-clusters"), Row("agent", "tmeval")>>
Pathfinding == <<Row("agent", "apath")>>
Reporting ==
    <<Row("tool", "rollup"), Row("agent", "report-writer"),
      Row("tool", "build-report"), Row("tool", "audit-report"), Row("audit-gate", ""),
      Row("report-auditor", ""),
      Row("tool", "domain-coverage-delta"), Row("agent", "domain-auditor")>>
Closing == <<Row("aside", "summarize")>>

\* A row for which the order of the checklist asks nothing.
Indifferent(r) ==
    /\ r \in PlainRows /\ r.kind # "audit-gate"
    /\ ~(r.kind = "tool" /\ r.who = "cluster-candidates")

\* Sequences of plain rows in which clustering and the audit gate stand well are in order.
LEMMA PlainOrdered ==
    ASSUME NEW P \in Seq(PlainRows),
           \A i \in 1..Len(P) :
              \/ Indifferent(P[i])
              \/ /\ P[i].kind = "tool" /\ i > 1 /\ P[i - 1].kind = "full-gate"
              \/ /\ P[i].kind = "audit-gate" /\ i > 2 /\ P[i - 1].kind = "tool"
                 /\ P[i - 2].kind = "tool" /\ P[i - 2].who = "build-report"
    PROVE  Ordered(P) /\ Plain(P)
<1>1. \A i \in 1..Len(P) : P[i] \in PlainRows
  OBVIOUS
<1>2. P \in Seq(AllRows)
  BY DEF AllRows
<1>3. \A i \in 1..Len(P) : P[i].kind # "tier-gate"
  BY <1>1, PlainRow
<1>4. \A i \in 1..Len(P) : InOrder(P, i)
  BY <1>3 DEF InOrder, Indifferent
<1>5. QED BY <1>1, <1>2, <1>4 DEF Ordered, Plain

\* The rows that open and close the checklist, and may: none waits for another.
LEMMA OpeningOrdered ==
    /\ Ordered(Beginning) /\ Plain(Beginning)
    /\ Ordered(Intake) /\ Plain(Intake)
    /\ Ordered(Closing) /\ Plain(Closing)
    /\ Ordered(Authoring) /\ Plain(Authoring)
    /\ Ordered(Minting) /\ Plain(Minting)
    /\ \A b : Ordered(When(b, Recon)) /\ Plain(When(b, Recon))
    /\ \A b : Ordered(When(b, TmRecon)) /\ Plain(When(b, TmRecon))
    /\ \A b : Ordered(When(b, Pathfinding)) /\ Plain(When(b, Pathfinding))
<1>1. ASSUME NEW r, Indifferent(r) PROVE Ordered(<<r>>) /\ Plain(<<r>>)
  <2>1. <<r>> \in Seq(PlainRows) /\ \A i \in 1..Len(<<r>>) : <<r>>[i] = r
    BY <1>1 DEF Indifferent
  <2>2. QED BY <1>1, <2>1, PlainOrdered
<1>2. ASSUME NEW r, NEW s, Indifferent(r), Indifferent(s)
      PROVE  Ordered(<<r, s>>) /\ Plain(<<r, s>>)
  <2>1. <<r, s>> \in Seq(PlainRows) /\ \A i \in 1..Len(<<r, s>>) : <<r, s>>[i] \in {r, s}
    BY <1>2 DEF Indifferent
  <2>2. QED BY <1>2, <2>1, PlainOrdered
<1>3. ASSUME NEW r, NEW s, NEW t, Indifferent(r), Indifferent(s), Indifferent(t)
      PROVE  Ordered(<<r, s, t>>) /\ Plain(<<r, s, t>>)
  <2>1. <<r, s, t>> \in Seq(PlainRows)
        /\ \A i \in 1..Len(<<r, s, t>>) : <<r, s, t>>[i] \in {r, s, t}
    BY <1>3 DEF Indifferent
  <2>2. QED BY <1>3, <2>1, PlainOrdered
<1>4. Ordered(<<>>) /\ Plain(<<>>)
  BY DEF Ordered, Plain
<1>5. /\ Indifferent(Row("resume-plan", "")) /\ Indifferent(Row("intake-gate", ""))
      /\ Indifferent(Row("canonicalize", ""))
  BY DEF Indifferent, PlainRows, Row
<1>6. Indifferent(Row("tool", "author-threat-model"))
  BY DEF Indifferent, PlainRows, Row, Tools
<1>7. /\ Indifferent(Row("agent", "intake")) /\ Indifferent(Row("agent", "code-recon"))
      /\ Indifferent(Row("agent", "threat-model-author"))
      /\ Indifferent(Row("agent", "tm-recon")) /\ Indifferent(Row("agent", "apath"))
  BY DEF Indifferent, PlainRows, Row, OtherAgents
<1>a. /\ Indifferent(Row("aside", "build-domain-skill"))
      /\ Indifferent(Row("aside", "validate-domain")) /\ Indifferent(Row("aside", "summarize"))
  BY DEF Indifferent, PlainRows, Row, Asides
<1>8. Ordered(Beginning) /\ Plain(Beginning)
  BY Zenon, <1>3, <1>5, <1>a DEF Beginning
<1>9. /\ Ordered(Authoring) /\ Plain(Authoring) /\ Ordered(Recon) /\ Plain(Recon)
      /\ Ordered(Intake) /\ Plain(Intake)
  BY Zenon, <1>2, <1>5, <1>6, <1>7 DEF Authoring, Recon, Intake
<1>10. /\ Ordered(Minting) /\ Plain(Minting) /\ Ordered(TmRecon) /\ Plain(TmRecon)
       /\ Ordered(Pathfinding) /\ Plain(Pathfinding) /\ Ordered(Closing) /\ Plain(Closing)
  BY Zenon, <1>1, <1>5, <1>7, <1>a DEF Minting, TmRecon, Pathfinding, Closing
<1>11. QED
  BY <1>4, <1>8, <1>9, <1>10 DEF When

\* Clustering stands behind the full gate.
LEMMA SynthesizingOrdered == Ordered(Synthesizing) /\ Plain(Synthesizing)
<1>1. \E r1, r2, r3, r4, r5 :
         /\ Synthesizing = <<r1, r2, r3, r4, r5>>
         /\ Indifferent(r1) /\ r1.kind = "full-gate"
         /\ r2 \in PlainRows /\ r2.kind = "tool"
         /\ Indifferent(r3) /\ Indifferent(r4) /\ Indifferent(r5)
  <2> DEFINE r1 == Row("full-gate", "")
             r2 == Row("tool", "cluster-candidates")
             r3 == Row("agent", "adjudicate")
             r4 == Row("tool", "apply-clusters")
             r5 == Row("agent", "tmeval")
  <2>1. Indifferent(r1) /\ r1.kind = "full-gate"
    BY DEF Indifferent, PlainRows, Row
  <2>2. r2 \in PlainRows /\ r2.kind = "tool" /\ Indifferent(r4)
    BY DEF Indifferent, PlainRows, Row, Tools
  <2>3. Indifferent(r3) /\ Indifferent(r5)
    BY DEF Indifferent, PlainRows, Row, OtherAgents
  <2>4. Synthesizing = <<r1, r2, r3, r4, r5>>
    BY DEF Synthesizing
  <2> HIDE DEF r1, r2, r3, r4, r5
  <2>5. QED BY <2>1, <2>2, <2>3, <2>4
<1>2. PICK r1, r2, r3, r4, r5 :
         /\ Synthesizing = <<r1, r2, r3, r4, r5>>
         /\ Indifferent(r1) /\ r1.kind = "full-gate"
         /\ r2 \in PlainRows /\ r2.kind = "tool"
         /\ Indifferent(r3) /\ Indifferent(r4) /\ Indifferent(r5)
  BY <1>1
<1> DEFINE P == <<r1, r2, r3, r4, r5>>
<1>3. P \in Seq(PlainRows)
  BY <1>2 DEF Indifferent
<1>4. \A i \in 1..Len(P) : P[i] \in {r1, r3, r4, r5} \/ (P[i] = r2 /\ i = 2)
  OBVIOUS
<1>5. P[1] = r1
  OBVIOUS
<1> HIDE DEF P
<1>6. \A i \in 1..Len(P) :
         Indifferent(P[i]) \/ (P[i].kind = "tool" /\ i > 1 /\ P[i - 1].kind = "full-gate")
  BY <1>2, <1>4, <1>5
<1>7. Ordered(P) /\ Plain(P)
  BY <1>3, <1>6, PlainOrdered
<1>8. QED
  BY <1>2, <1>7 DEF P

\* The audit gate stands behind the building and the auditing of the report.
LEMMA ReportingOrdered == Ordered(Reporting) /\ Plain(Reporting)
<1>1. \E r1, r2, r3, r4, r5, r6, r7, r8 :
         /\ Reporting = <<r1, r2, r3, r4, r5, r6, r7, r8>>
         /\ Indifferent(r1) /\ Indifferent(r2) /\ Indifferent(r3) /\ Indifferent(r4)
         /\ r3.kind = "tool" /\ r3.who = "build-report" /\ r4.kind = "tool"
         /\ r5 \in PlainRows /\ r5.kind = "audit-gate"
         /\ Indifferent(r6) /\ Indifferent(r7) /\ Indifferent(r8)
  <2> DEFINE r1 == Row("tool", "rollup")
             r2 == Row("agent", "report-writer")
             r3 == Row("tool", "build-report")
             r4 == Row("tool", "audit-report")
             r5 == Row("audit-gate", "")
             r6 == Row("report-auditor", "")
             r7 == Row("tool", "domain-coverage-delta")
             r8 == Row("agent", "domain-auditor")
  <2>1. r5 \in PlainRows /\ r5.kind = "audit-gate" /\ Indifferent(r6)
    BY DEF Indifferent, PlainRows, Row
  <2>2. /\ Indifferent(r1) /\ Indifferent(r3) /\ Indifferent(r4) /\ Indifferent(r7)
        /\ r3.kind = "tool" /\ r3.who = "build-report" /\ r4.kind = "tool"
    BY DEF Indifferent, PlainRows, Row, Tools
  <2>3. Indifferent(r2) /\ Indifferent(r8)
    BY DEF Indifferent, PlainRows, Row, OtherAgents
  <2>4. Reporting = <<r1, r2, r3, r4, r5, r6, r7, r8>>
    BY DEF Reporting
  <2> HIDE DEF r1, r2, r3, r4, r5, r6, r7, r8
  <2>5. QED BY <2>1, <2>2, <2>3, <2>4
<1>2. PICK r1, r2, r3, r4, r5, r6, r7, r8 :
         /\ Reporting = <<r1, r2, r3, r4, r5, r6, r7, r8>>
         /\ Indifferent(r1) /\ Indifferent(r2) /\ Indifferent(r3) /\ Indifferent(r4)
         /\ r3.kind = "tool" /\ r3.who = "build-report" /\ r4.kind = "tool"
         /\ r5 \in PlainRows /\ r5.kind = "audit-gate"
         /\ Indifferent(r6) /\ Indifferent(r7) /\ Indifferent(r8)
  BY <1>1
<1> DEFINE P == <<r1, r2, r3, r4, r5, r6, r7, r8>>
<1>3. P \in Seq(PlainRows)
  BY <1>2 DEF Indifferent
<1>4. \A i \in 1..Len(P) : P[i] \in {r1, r2, r3, r4, r6, r7, r8} \/ (P[i] = r5 /\ i = 5)
  OBVIOUS
<1>5. P[3] = r3 /\ P[4] = r4
  OBVIOUS
<1> HIDE DEF P
<1>6. \A i \in 1..Len(P) :
         \/ Indifferent(P[i])
         \/ /\ P[i].kind = "audit-gate" /\ i > 2 /\ P[i - 1].kind = "tool"
            /\ P[i - 2].kind = "tool" /\ P[i - 2].who = "build-report"
  BY <1>2, <1>4, <1>5
<1>7. Ordered(P) /\ Plain(P)
  BY <1>3, <1>6, PlainOrdered
<1>8. QED
  BY <1>2, <1>7 DEF P

\* The rows of the tiers are in order among themselves.
LEMMA TiersOrdered == Ordered(AllTierRows)
<1>1. AllTierRows \in Seq(AllRows)
  BY TiersAssumption DEF AllRows
<1>2. \A i \in 1..Len(AllTierRows) : InOrder(AllTierRows, i)
  BY TiersAssumption DEF InOrder
<1>3. QED BY <1>1, <1>2 DEF Ordered

\* The checklist is finite and in order.
LEMMA PlanOrder ==
    ASSUME NEW c
    PROVE  /\ Len(BuildPlan(c)) \in Nat
           /\ \A i \in 1..Len(BuildPlan(c)) : InOrder(BuildPlan(c), i)
<1> DEFINE B == When(c.code_recon, Recon)
           D == When(c.threat_model, TmRecon)
           J == When(c.crown_jewels, Pathfinding)
           o1 == Beginning \o Intake
           o2 == o1 \o B
           o3 == o2 \o Authoring
           o4 == o3 \o D
           o5 == o4 \o Minting
           t == o5 \o AllTierRows
           s1 == t \o Synthesizing
           s2 == s1 \o J
           s3 == s2 \o Reporting
           s4 == s3 \o Closing
<1>1. BuildPlan(c) = s4
  BY DEF BuildPlan, Beginning, Intake, Recon, Authoring, TmRecon, Minting, Synthesizing,
     Pathfinding, Reporting, Closing
<1>2. Ordered(B) /\ Plain(B) /\ Ordered(D) /\ Plain(D) /\ Ordered(J) /\ Plain(J)
  BY OpeningOrdered
<1> HIDE DEF B, D, J
<1>b. Ordered(o1) /\ Plain(o1)
  BY OpeningOrdered, JoinOrdered
<1> HIDE DEF o1
<1>3. Ordered(o2) /\ Plain(o2)
  BY <1>2, <1>b, JoinOrdered
<1> HIDE DEF o2
<1>4. Ordered(o3) /\ Plain(o3)
  BY <1>3, OpeningOrdered, JoinOrdered
<1> HIDE DEF o3
<1>5. Ordered(o4) /\ Plain(o4)
  BY <1>2, <1>4, JoinOrdered
<1> HIDE DEF o4
<1>6. Ordered(o5) /\ Plain(o5)
  BY <1>5, OpeningOrdered, JoinOrdered
<1> HIDE DEF o5
<1>7. Ordered(t)
  BY <1>6, TiersOrdered, JoinOrdered
<1> HIDE DEF t
<1>8. Ordered(s1)
  BY <1>7, SynthesizingOrdered, JoinOrdered
<1> HIDE DEF s1
<1>9. Ordered(s2)
  BY <1>2, <1>8, JoinOrdered
<1> HIDE DEF s2
<1>10. Ordered(s3)
  BY <1>9, ReportingOrdered, JoinOrdered
<1> HIDE DEF s3
<1>11. Ordered(s4)
  BY <1>10, OpeningOrdered, JoinOrdered
<1> HIDE DEF s4
<1>12. QED
  BY <1>1, <1>11 DEF Ordered

-----------------------------------------------------------------------------
(* What a session relies on behind a row it has passed.                    *)

\* Whether a row of lens l is still to come.
Pending(l) == \E j \in 1..Len(Plan) : j >= pos /\ Plan[j].kind = "agent" /\ Plan[j].who = l

\* A lens that resume-plan reported complete stays whole until its row is passed.
SkippedStayWhole ==
    phase = "running" => \A l \in skip \cap Lenses :
        Pending(l) => \A f \in OutputsOf(l) : Readable(f)

\* Whenever clustering is the present row, the full gate has just passed.
GateBeforeClustering ==
    phase = "running" /\ At("tool") /\ Who = "cluster-candidates" => Refused(RecordFiles) = {}

SessionInv == pos >= 1 /\ SkippedStayWhole /\ GateBeforeClustering

\* PlanOrder, of the checklist being worked.
LEMMA PlanOrdered ==
    ASSUME TypeOK, phase = "running", pos >= 1
    PROVE  /\ \A k : At(k) => pos \in 1..Len(Plan) /\ Plan[pos].kind = k
           /\ Len(Plan) \in Nat
           /\ \A i \in 1..Len(Plan) :
                 Plan[i].kind = "tool" /\ Plan[i].who = "cluster-candidates" =>
                     i > 1 /\ Plan[i - 1].kind = "full-gate"
           /\ At("audit-gate") =>
                 /\ pos > 2 /\ Plan[pos - 1].kind = "tool" /\ Plan[pos - 2].kind = "tool"
                 /\ Plan[pos - 2].who # "cluster-candidates"
           /\ At("tier-gate") => \A l \in TierLenses(Who) : ~Pending(l)
<1>1. Plan = BuildPlan(cfg) /\ pos \in Int
  BY DEF Plan, Plans, TypeOK
<1>2. Len(Plan) \in Nat /\ \A i \in 1..Len(Plan) : InOrder(Plan, i)
  BY <1>1, PlanOrder
<1>3. ASSUME NEW k, At(k) PROVE pos \in 1..Len(Plan) /\ Plan[pos].kind = k
  BY <1>1, <1>2, <1>3 DEF At
<1>4. ASSUME NEW i \in 1..Len(Plan), Plan[i].kind = "tool", Plan[i].who = "cluster-candidates"
      PROVE  i > 1 /\ Plan[i - 1].kind = "full-gate"
  BY <1>2, <1>4 DEF InOrder
<1>5. ASSUME At("audit-gate")
      PROVE  /\ pos > 2 /\ Plan[pos - 1].kind = "tool" /\ Plan[pos - 2].kind = "tool"
             /\ Plan[pos - 2].who # "cluster-candidates"
  BY <1>2, <1>3, <1>5 DEF InOrder, Row
<1>6. ASSUME At("tier-gate"), NEW l \in TierLenses(Who) PROVE ~Pending(l)
  <2>1. pos \in 1..Len(Plan) /\ Plan[pos].kind = "tier-gate"
    BY <1>3, <1>6
  <2>2. SUFFICES ASSUME NEW j \in 1..Len(Plan), j >= pos, Plan[j].kind = "agent",
                        Plan[j].who = l
                 PROVE  FALSE
    BY DEF Pending
  <2>3. j < pos
    BY <1>2, <1>6, <2>1, <2>2 DEF InOrder, Who
  <2>4. QED BY <2>1, <2>2, <2>3, <1>1
<1>7. QED
  BY <1>2, <1>3, <1>4, <1>5, <1>6

\* A lens row leaves the files that resume-plan looks at for it.
LEMMA LensParts == \A l \in Lenses : CheckedParts(l) = Parts(l)
                                    /\ Parts(l) = {"findings", "capabilities"}
BY LensesAssumption DEF CheckedParts, Parts, OtherAgents

\* Files that pass the validator together pass it in part.
LEMMA GatedRecords == Refused(Files) = {} => Refused(RecordFiles) = {}
BY KnownFiles DEF Refused, Failing, Unfit

\* A row that is still to come after the session moved on was to come before.
LEMMA PendingBefore ==
    ASSUME TypeOK, cfg' = cfg, pos' \in Int, pos' >= pos, NEW l, Pending(l)'
    PROVE  Pending(l)
<1>1. Plan' = Plan
  BY DEF Plan
<1>2. pos \in Int
  BY DEF TypeOK
<1>3. PICK j \in 1..Len(Plan') : j >= pos' /\ Plan'[j].kind = "agent" /\ Plan'[j].who = l
  BY DEF Pending
<1>4. j \in 1..Len(Plan) /\ j >= pos
  BY <1>1, <1>2, <1>3
<1>5. QED
  BY <1>1, <1>3, <1>4 DEF Pending

\* Skipped lenses stay whole while the session moves on and spoils none of their files.
LEMMA SkippedKept ==
    ASSUME TypeOK, SessionInv, phase = "running", cfg' = cfg, skip' = skip,
           pos' \in Int, pos' >= pos,
           \A l \in skip \cap Lenses : Pending(l) =>
               \A f \in OutputsOf(l) : Readable(f) => Readable(f)'
    PROVE  SkippedStayWhole'
<1> SUFFICES ASSUME NEW l \in skip \cap Lenses, Pending(l)', NEW f \in OutputsOf(l)
             PROVE  Readable(f)'
  BY Zenon DEF SkippedStayWhole, Pending
<1>1. Pending(l)
  BY PendingBefore
<1>2. Readable(f)
  BY <1>1 DEF SessionInv, SkippedStayWhole
<1>3. QED
  BY <1>1, <1>2

\* From a row that is not the full gate no session moves on to clustering.
LEMMA GateKept ==
    ASSUME TypeOK, SessionInv, phase = "running", cfg' = cfg, NEW k, At(k),
           k # "full-gate", Advance
    PROVE  GateBeforeClustering'
<1>1. Plan' = Plan /\ pos' = pos + 1 /\ pos \in Int /\ pos >= 1
  BY DEF Plan, Advance, TypeOK, SessionInv
<1>2. SUFFICES ASSUME At("tool")', Who' = "cluster-candidates" PROVE FALSE
  BY DEF GateBeforeClustering
<1>3. Len(Plan) \in Nat /\ Plan[pos].kind = k
  BY <1>1, PlanOrdered
<1>4. /\ pos' \in 1..Len(Plan) /\ Plan[pos'].kind = "tool"
      /\ Plan[pos'].who = "cluster-candidates"
  BY <1>1, <1>2, <1>3 DEF At, Who
<1>5. Plan[pos' - 1].kind = "full-gate"
  BY <1>1, <1>4, PlanOrdered
<1>6. QED
  BY <1>1, <1>3, <1>5


\* The step spoils no file of a skipped lens that is still to come.
SparesSkipped ==
    \A l \in skip \cap Lenses : Pending(l) =>
        \A f \in OutputsOf(l) : Readable(f) => Readable(f)'

\* What a step that writes other files, or none, spares.
LEMMA WriteSpares ==
    ASSUME NEW S, NEW q, DOMAIN q = S, Write(q),
           \A l \in skip \cap Lenses : Pending(l) => OutputsOf(l) \cap S = {}
    PROVE  SparesSkipped
<1> SUFFICES ASSUME NEW l \in skip \cap Lenses, Pending(l), NEW f \in OutputsOf(l), Readable(f)
             PROVE  Readable(f)'
  BY DEF SparesSkipped
<1>1. f \in Files
  BY KnownFiles DEF Resumable
<1>2. f \notin S
  OBVIOUS
<1>3. quality'[f] = quality[f]
  BY <1>1, <1>2 DEF Write
<1>4. QED
  BY <1>3 DEF Readable

\* Moving on from a row other than the full gate keeps the session's invariant.
LEMMA AdvanceKeeps ==
    ASSUME TypeOK, SessionInv, phase = "running", cfg' = cfg, skip' = skip, NEW k, At(k),
           k # "full-gate", Advance, SparesSkipped
    PROVE  SessionInv'
<1>1. pos \in Int /\ pos >= 1 /\ pos' = pos + 1
  BY DEF TypeOK, SessionInv, Advance
<1>2. SkippedStayWhole'
  BY <1>1, SkippedKept DEF SparesSkipped
<1>3. GateBeforeClustering'
  BY GateKept
<1>4. QED
  BY <1>1, <1>2, <1>3 DEF SessionInv

\* So does trying again a row that is not a command.
LEMMA RetryKeeps ==
    ASSUME TypeOK, SessionInv, phase = "running", cfg' = cfg, skip' = skip, NEW k, At(k),
           k # "tool", pos' = pos, SparesSkipped
    PROVE  SessionInv'
<1>1. pos \in Int /\ pos >= 1
  BY DEF TypeOK, SessionInv
<1>2. SkippedStayWhole'
  BY <1>1, SkippedKept DEF SparesSkipped
<1>3. GateBeforeClustering'
  BY DEF GateBeforeClustering, At, Plan
<1>4. QED
  BY <1>1, <1>2, <1>3 DEF SessionInv

\* And whatever ends the session.
LEMMA EndKeeps == ASSUME SessionInv, pos' = pos, phase' # "running" PROVE SessionInv'
BY DEF SessionInv, SkippedStayWhole, GateBeforeClustering, At

\* Every step keeps what the session relies on.
LEMMA SessionStep == TypeOK /\ SessionInv /\ [Next]_vars => SessionInv'
<1> SUFFICES ASSUME TypeOK, SessionInv, [Next]_vars PROVE SessionInv'
  OBVIOUS
<1>0. pos \in Int /\ pos >= 1
  BY DEF TypeOK, SessionInv
<1>u. UNCHANGED files => SparesSkipped
  BY DEF files, SparesSkipped, Readable
<1>p. \A l \in Lenses : OutputsOf(l) = {<<l, "findings">>, <<l, "capabilities">>}
  BY LensParts DEF OutputsOf
<1>o. ASSUME NEW w, NEW q, DOMAIN q = {Out(w)}, Write(q) PROVE SparesSkipped
  <2>1. \A l \in skip \cap Lenses : OutputsOf(l) \cap {Out(w)} = {}
    BY <1>p DEF Out
  <2>2. QED BY <1>o, <2>1, WriteSpares
<1>m. ASSUME phase = "running", cfg' = cfg, skip' = skip, UNCHANGED files, NEW k, At(k),
             k # "full-gate", Advance \/ Halt
      PROVE  SessionInv'
  BY <1>m, <1>u, AdvanceKeeps, EndKeeps DEF Halt
<1>1. CASE Invoke
  <2>1. pos' = 1 /\ skip' = {} /\ cfg' = cfg
    BY <1>1 DEF Invoke
  <2>2. SkippedStayWhole'
    BY <2>1 DEF SkippedStayWhole
  <2>3. GateBeforeClustering'
    <3>1. SUFFICES ASSUME At("tool")', Who' = "cluster-candidates" PROVE FALSE
      BY DEF GateBeforeClustering
    <3>2. Plan' = BuildPlan(cfg) /\ Len(BuildPlan(cfg)) \in Nat
      BY <2>1, PlanOrder DEF Plan, Plans, TypeOK
    <3>3. 1 \in 1..Len(BuildPlan(cfg)) /\ BuildPlan(cfg)[1].kind = "tool"
          /\ BuildPlan(cfg)[1].who = "cluster-candidates"
      BY <2>1, <3>1, <3>2 DEF At, Who
    <3>4. QED BY <3>3, PlanOrder DEF InOrder
  <2>4. QED BY <2>1, <2>2, <2>3 DEF SessionInv
<1>2. CASE ResumePlan
  <2>1. /\ phase = "running" /\ cfg' = cfg /\ At("resume-plan") /\ Advance
        /\ skip' = {a \in Resumable : StepComplete(a)} /\ quality' = quality
    BY <1>2 DEF ResumePlan, At, files
  <2>2. SkippedStayWhole'
    <3>1. SUFFICES ASSUME NEW l \in skip' \cap Lenses, NEW f \in OutputsOf(l)
                   PROVE  Readable(f)'
      BY DEF SkippedStayWhole
    <3>2. PICK p \in CheckedParts(l) : f = <<l, p>>
      BY LensParts DEF OutputsOf
    <3>3. Readable(f)
      BY <2>1, <3>2 DEF StepComplete
    <3>4. QED BY <2>1, <3>3 DEF Readable
  <2>3. QED BY <1>0, <2>1, <2>2, GateKept DEF SessionInv, Advance
<1>3. CASE SkipAgent
  BY <1>3, <1>m DEF SkipAgent, At
<1>4. CASE DispatchAgent
  <2>1. /\ phase = "running" /\ cfg' = cfg /\ skip' = skip /\ At("agent") /\ Advance
        /\ Who \notin skip
    BY <1>4 DEF DispatchAgent, At
  <2> DEFINE sound == [f \in OutputsOf(Who) |-> Sound(f)]
  <2>2. PICK q : DOMAIN q = OutputsOf(Who) /\ Write(q)
    <3>1. CASE Write(sound)
      BY <3>1
    <3>2. CASE \E f \in OutputsOf(Who) : \E b \in Flaws(f) : Write([sound EXCEPT ![f] = b])
      BY <3>2
    <3>3. QED BY <1>4, <3>1, <3>2 DEF DispatchAgent
  <2>3. \A l \in skip \cap Lenses : OutputsOf(l) \cap OutputsOf(Who) = {}
    BY <2>1 DEF OutputsOf
  <2>4. SparesSkipped
    BY <2>2, <2>3, WriteSpares
  <2>5. QED BY <2>1, <2>4, AdvanceKeeps
<1>5. CASE DispatchFails
  <2>1. phase = "running" /\ cfg' = cfg /\ skip' = skip /\ At("agent") /\ UNCHANGED files
    BY <1>5 DEF DispatchFails, At
  <2>2. Advance \/ Halt \/ pos' = pos
    BY <1>5 DEF DispatchFails, Retry
  <2>3. QED BY <2>1, <2>2, <1>u, <1>m, RetryKeeps
<1>6. CASE AuditorAgent
  BY <1>6, <1>m DEF AuditorAgent, At
<1>7. CASE CanonicalizeRow
  <2>1. /\ phase = "running" /\ cfg' = cfg /\ skip' = skip /\ At("canonicalize")
        /\ Advance \/ Halt
    BY <1>7 DEF CanonicalizeRow, At
  <2>2. \A f \in Files : Readable(f) => Readable(f)'
    BY <1>7 DEF CanonicalizeRow, Mint, Readable
  <2>3. SparesSkipped
    BY <2>2, KnownFiles DEF SparesSkipped, Resumable
  <2>4. QED BY <2>1, <2>3, AdvanceKeeps, EndKeeps DEF Halt
<1>8. CASE IntakeGate
  BY <1>8, <1>m DEF IntakeGate, At
<1>9. CASE TierGatePasses
  BY <1>9, <1>m DEF TierGatePasses, At
<1>10. CASE TierRepair \/ TierRerun
  <2>1. /\ phase = "running" /\ cfg' = cfg /\ skip' = skip /\ At("tier-gate") /\ pos' = pos
        /\ \/ Redo(Failing(TierFiles(Who)))
           \/ Redo(FailingLenses)
    BY <1>10 DEF TierRepair, TierRerun, Retry, At
  <2>2. \A f \in Failing(TierFiles(Who)) : \E x \in TierLenses(Who) : f \in OutputsOf(x)
    BY DEF Failing, Unfit, TierFiles
  <2>3. \A f \in Failing(TierFiles(Who)) : f[1] \in TierLenses(Who)
    BY <2>2 DEF OutputsOf
  <2>4. PICK S, q : /\ DOMAIN q = S /\ Write(q)
                    /\ \A f \in S : f[1] \in TierLenses(Who)
    <3>1. ASSUME NEW S, Redo(S) PROVE \E q, U : DOMAIN q = U /\ U \subseteq S /\ Write(q)
      <4>1. CASE Write([f \in S |-> "good"])
        BY <4>1
      <4>2. CASE \E f \in S : \E b \in Flaws(f) :
                    Write([g \in S |-> IF g = f THEN b ELSE "good"])
        BY <4>2
      <4>3. CASE \E left \in SUBSET S : Write([f \in S \ left |-> "good"])
        BY <4>3
      <4>4. QED BY <3>1, <4>1, <4>2, <4>3 DEF Redo
    <3>2. \A g \in FailingLenses : g[1] \in TierLenses(Who)
      BY <2>3 DEF FailingLenses, OutputsOf
    <3>3. QED BY <2>1, <2>3, <3>1, <3>2
  <2>5. \A l \in TierLenses(Who) : ~Pending(l)
    BY <1>0, <2>1, PlanOrdered
  <2>6. \A l \in skip \cap Lenses : Pending(l) => OutputsOf(l) \cap S = {}
    BY <2>4, <2>5 DEF OutputsOf
  <2>7. SparesSkipped
    BY <2>4, <2>6, WriteSpares
  <2>8. QED BY <2>1, <2>7, RetryKeeps
<1>11. CASE TierHalt
  BY <1>11, <1>m DEF TierHalt, At
<1>12. CASE FullGate
  <2>1. CASE Refused(Files) = {} /\ Advance
    <3>1. /\ phase = "running" /\ cfg' = cfg /\ skip' = skip /\ UNCHANGED files
          /\ pos' = pos + 1
      BY <1>12, <2>1 DEF FullGate, At, Advance
    <3>2. SkippedStayWhole'
      BY <1>0, <1>u, <3>1, SkippedKept DEF SparesSkipped
    <3>3. Refused(RecordFiles)' = {}
      BY <2>1, <3>1, GatedRecords DEF Refused, Failing, Unfit, files
    <3>4. QED BY <1>0, <3>1, <3>2, <3>3 DEF SessionInv, GateBeforeClustering
  <2>2. CASE Halt
    BY <2>2, EndKeeps DEF Halt
  <2>3. QED BY <1>12, <2>1, <2>2 DEF FullGate
<1>13. CASE ToolRow
  <2>1. phase = "running" /\ cfg' = cfg /\ skip' = skip /\ At("tool")
    BY <1>13 DEF ToolRow, At
  <2>2. Halt \/ Advance
    BY <1>13 DEF ToolRow
  <2>3. UNCHANGED files \/ Write([f \in {Out(Who)} |-> "good"])
    BY <1>13 DEF ToolRow
  <2>4. SparesSkipped
    BY <2>3, <1>o, <1>u
  <2>5. QED BY <2>1, <2>2, <2>4, AdvanceKeeps, EndKeeps DEF Halt
<1>14. CASE AuditPasses
  BY <1>14, <1>m DEF AuditPasses, At
<1>15. CASE Remediate
  <2>1. /\ phase = "running" /\ cfg' = cfg /\ skip' = skip /\ At("audit-gate")
        /\ pos' = pos - 2 /\ Rewritten
    BY <1>15 DEF Remediate, At
  <2>2. /\ pos > 2 /\ Plan[pos - 1].kind = "tool" /\ Plan[pos - 2].kind = "tool"
        /\ Plan[pos - 2].who # "cluster-candidates" /\ pos \in 1..Len(Plan)
        /\ Plan[pos].kind = "audit-gate" /\ Plan' = Plan
    BY <1>0, <2>1, PlanOrdered DEF Plan
  <2>3. SparesSkipped
    BY <2>1, <1>o, <1>u DEF Rewritten
  <2>4. SkippedStayWhole'
    <3>1. SUFFICES ASSUME NEW l \in skip \cap Lenses, Pending(l)', NEW f \in OutputsOf(l)
                   PROVE  Readable(f)'
      BY <2>1, Zenon DEF SkippedStayWhole, Pending
    <3>2. PICK j \in 1..Len(Plan) : j >= pos - 2 /\ Plan[j].kind = "agent" /\ Plan[j].who = l
      BY <2>1, <2>2, <3>1 DEF Pending
    <3>3. j # pos - 2 /\ j # pos - 1
      BY <2>2, <3>2
    <3>4. Pending(l)
      BY <1>0, <3>2, <3>3 DEF Pending
    <3>5. QED BY <2>1, <2>3, <3>4 DEF SessionInv, SkippedStayWhole, SparesSkipped
  <2>5. GateBeforeClustering'
    BY <2>1, <2>2 DEF GateBeforeClustering, Who
  <2>6. QED BY <1>0, <2>1, <2>2, <2>4, <2>5 DEF SessionInv
<1>16. CASE AuditHalts
  BY <1>16, EndKeeps DEF AuditHalts, Halt
<1>17. CASE Closeout
  BY <1>17, EndKeeps DEF Closeout
<1>18. CASE Stop \/ StopInAgent \/ StopInCommand
  BY <1>18, EndKeeps DEF Stop, StopInAgent, StopInCommand, EndSession
<1>19. CASE HandFix
  BY <1>19, EndKeeps DEF HandFix
<1>20. CASE UNCHANGED vars
  BY <1>20 DEF vars, files, SessionInv, SkippedStayWhole, GateBeforeClustering, Pending, At,
     Who, Plan, Readable, Refused, Failing, Unfit
<1>21. CASE AsideRow
  BY <1>21, <1>m DEF AsideRow, At
<1>22. QED
  BY <1>1, <1>2, <1>3, <1>4, <1>5, <1>6, <1>7, <1>8, <1>9, <1>10, <1>11, <1>12, <1>13,
     <1>14, <1>15, <1>16, <1>17, <1>18, <1>19, <1>20, <1>21 DEF Next, DriveStep, OutsideStep

\* A fresh directory owes its first session nothing.
LEMMA SessionInit == Init => SessionInv
BY DEF Init, SessionInv, SkippedStayWhole, GateBeforeClustering, At

\* A session skips a lens only while both files of the lens are there and pass their
\* schema, for any tiers and any number of sessions and faults.
THEOREM SkippedLensesWhole == Spec => []SkippedLensesAreWhole
<1>1. TypeOK /\ SessionInv => SkippedLensesAreWhole
  <2> SUFFICES ASSUME TypeOK, SessionInv, At("agent"), Who \in skip \cap Lenses,
                      NEW f \in OutputsOf(Who)
               PROVE  Readable(f)
    BY DEF SkippedLensesAreWhole
  <2>1. phase = "running" /\ pos \in 1..Len(Plan) /\ Plan[pos].kind = "agent"
    BY PlanOrdered DEF At, SessionInv
  <2>2. Pending(Who)
    BY <2>1 DEF Pending, Who
  <2>3. QED BY <2>1, <2>2 DEF SessionInv, SkippedStayWhole
<1>2. QED
  BY <1>1, SessionInit, SessionStep, TypeCorrect, PTL DEF Spec

\* Nothing that clustering reads is refused by the validator, for any tiers and any
\* number of sessions and faults.
THEOREM CandidatesValid == Spec => CandidatesComeFromValidRecords
<1>1. SessionInv => (At("tool") /\ Who = "cluster-candidates" => Refused(RecordFiles) = {})
  BY DEF SessionInv, GateBeforeClustering, At
<1>2. SessionInv /\ [Next]_vars =>
          [At("tool") /\ Who = "cluster-candidates" => Refused(RecordFiles) = {}]_vars
  BY <1>1
<1>3. QED
  BY <1>2, SessionInit, SessionStep, TypeCorrect, PTL DEF Spec, CandidatesComeFromValidRecords
=============================================================================
