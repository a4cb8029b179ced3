----------------------------- MODULE GauntletRun -----------------------------
(***************************************************************************)
(* One run directory, driven row by row down the checklist of              *)
(* `apd-gauntlet plan-run` (plan_run.py), over any number of sessions:     *)
(* agents that fail, write only some of their files or write bad ones, the *)
(* canonicalize and validate steps between them, sessions that stop at any *)
(* point, and `resume-plan` (resume_plan.py), which tells the next session *)
(* which agent rows to skip.                                               *)
(*                                                                         *)
(* A file is <<producer, part>>.  Of its content the model keeps whether   *)
(* the readers accept it and a version, and for what is computed from      *)
(* other files the versions it was computed from.                          *)
(***************************************************************************)
EXTENDS Integers, Sequences, FiniteSets, SequencesExt

CONSTANTS
    Tiers,       \* the lens names of each tier: a sequence of sequences
    Configs,     \* the run configs considered, as far as they gate rows
    MaxFaults,   \* bound on bad files, failed dispatches and failed audits
    MaxStops     \* bound on interrupted sessions

ASSUME ConfigsAssumption ==
    Configs \subseteq [code_recon : BOOLEAN, threat_model : BOOLEAN, crown_jewels : BOOLEAN]
ASSUME BoundsAssumption == MaxFaults \in Nat /\ MaxStops \in Nat

VARIABLES
    cfg,       \* the run config: one of Configs
    pos,       \* the row of the checklist being worked
    phase,     \* "ready", "running", "stopped", "halted", "done"
    skip,      \* the agent rows resume-plan reported complete, this session
    stage,     \* how often the present row was tried
    remedies,  \* how often this session sent the report back to its writer
    quality,   \* file -> one of Qualities
    ver,       \* file -> the number of its content
    basis,     \* computed file -> the versions of its inputs it was made from
    faults, stops

files == <<quality, ver, basis>>
vars == <<cfg, pos, phase, skip, stage, remedies, files, faults, stops>>

\* "missing" is absent or empty, "torn" not YAML, "invalid" not of its schema,
\* "flawed" only refused by the semantic checks, "dangling" only by those across
\* files, "noids" good but for the ids.
Qualities == {"missing", "torn", "invalid", "flawed", "dangling", "noids", "good"}

-----------------------------------------------------------------------------
(* Files.                                                                  *)

TierLenses(t) == {Tiers[t][i] : i \in 1..Len(Tiers[t])}
Lenses == UNION {TierLenses(t) : t \in 1..Len(Tiers)}

\* The files an agent row leaves (the `outputs` column of plan_run); the
\* Markdown that accompanies one of them, the brief apart, is left out.
Parts(a) ==
    CASE a \in Lenses -> {"findings", "capabilities"}
      [] a = "intake" -> {"brief", "inventory"}
      [] a = "tmeval" -> {"findings", "coverage"}
      [] a = "apath"  -> {"graph", "findings"}
      [] OTHER        -> {"output"}

\* The files resume-plan looks at for the same row (RESUMABLE_STEPS).
CheckedParts(a) == IF a = "tmeval" THEN {"coverage"}
                   ELSE IF a = "apath" THEN {"findings"} ELSE Parts(a)

OtherAgents == {"intake", "code-recon", "threat-model-author", "tm-recon", "adjudicate",
                "tmeval", "apath", "report-writer", "domain-auditor"}
Resumable == Lenses \cup OtherAgents
Tools == {"author-threat-model", "cluster-candidates", "apply-clusters", "rollup",
          "build-report", "audit-report", "domain-coverage-delta"}

ASSUME LensesAssumption == Lenses \cap OtherAgents = {}

OutputsOf(a) == {<<a, p>> : p \in Parts(a)}
Out(w) == <<w, "output">>
Files == (UNION {OutputsOf(a) : a \in Resumable}) \cup {Out(w) : w \in Tools}

TierFiles(t) == UNION {OutputsOf(l) : l \in TierLenses(t)}
LensFiles == UNION {OutputsOf(l) : l \in Lenses}
TmFindings == <<"tmeval", "findings">>
ApFindings == <<"apath", "findings">>
Brief == <<"intake", "brief">>
RecordFiles == LensFiles \cup {TmFindings, ApFindings}

\* Files whose agents write no ids: canonicalize mints them.
ContextFiles == {Out(w) : w \in {"code-recon", "threat-model-author", "tm-recon"}}
MintedFiles == LensFiles \cup {TmFindings, Out("domain-auditor")} \cup ContextFiles
Canonicalized == RecordFiles \cup MintedFiles

\* Files the cross-file pass looks into for names of other files' contents.
Linked == RecordFiles \cup {<<"apath", "graph">>, Out("report-writer"), Out("domain-auditor")}

\* What a command (or the adjudicator) computes its output from, of the files
\* that change in a run.
Computed == {Out("adjudicate")} \cup {Out(w) : w \in Tools}
Inputs == [g \in Computed |->
    CASE g = Out("cluster-candidates") -> RecordFiles
      [] g = Out("adjudicate")         -> {Out("cluster-candidates")}
      [] g = Out("apply-clusters")     -> LensFiles \cup {TmFindings, Out("adjudicate")}
      [] g = Out("rollup")             -> {Out("apply-clusters"), TmFindings, ApFindings}
      [] g = Out("build-report")       -> {Out("apply-clusters"), Out("rollup"), TmFindings,
                                           ApFindings, Out("report-writer")}
      [] g = Out("audit-report")       -> {Out("build-report"), Out("rollup")}
      [] OTHER                         -> {}]

\* Inputs a command stops without; it has no quarrel with a missing record file.
Needed(g) == Inputs[g] \ RecordFiles

Readable(f) == quality[f] \in {"flawed", "dangling", "noids", "good"}

\* The version of f a reader takes in: a record without an id is dropped.
Seen(f) == IF quality[f] \in {"missing", "noids"} THEN 0 ELSE ver[f]
View(g) == [f \in Inputs[g] |-> Seen(f)]

\* The files `validate` names.  Some have no schema (the brief is parsed by the
\* whole-run pass only), and of the records only those of lenses have to have ids.
NoSchema == {Brief, Out("author-threat-model"), Out("build-report")}
Unfit(fs, kinds) == {f \in fs \ NoSchema : quality[f] \in kinds}
BadSchema(fs) == Unfit(fs, {"torn", "invalid"})
Failing(fs) == Unfit(fs, {"torn", "invalid", "flawed"}) \cup Unfit(fs \cap LensFiles, {"noids"})

\* With the cross-file pass, which wants ids in the other files that get them too.
Refused(fs) == Failing(fs) \cup Unfit(fs, {"dangling"})
                           \cup Unfit(fs \cap (MintedFiles \ RecordFiles), {"noids"})

-----------------------------------------------------------------------------
(* The checklist (build_plan).                                             *)

Row(k, w) == [kind |-> k, who |-> w]
When(b, rows) == IF b THEN rows ELSE <<>>

TierRows(t) == [i \in 1..Len(Tiers[t]) |-> Row("agent", Tiers[t][i])]
               \o <<Row("canonicalize", ""), Row("tier-gate", t)>>

AllTierRows == FlattenSeq([t \in 1..Len(Tiers) |-> TierRows(t)])

\* The rows of the tiers are agents, canonicalize rows and the gates of tiers, and no
\* lens stands in two tiers: none has a row behind the gate of its tier.
ASSUME TiersAssumption ==
    /\ AllTierRows \in Seq(Range(AllTierRows))
    /\ \A i \in 1..Len(AllTierRows) :
          /\ AllTierRows[i].kind \in {"agent", "canonicalize", "tier-gate"}
          /\ AllTierRows[i].kind = "agent" => AllTierRows[i].who \in Lenses
          /\ AllTierRows[i].kind = "tier-gate" => AllTierRows[i].who \in 1..Len(Tiers)
    /\ \A i, j \in 1..Len(AllTierRows) :
          /\ AllTierRows[i].kind = "tier-gate"
          /\ AllTierRows[j].kind = "agent"
          /\ AllTierRows[j].who \in TierLenses(AllTierRows[i].who)
          => j < i

BuildPlan(c) ==
    <<Row("resume-plan", ""), Row("aside", "build-domain-skill"), Row("aside", "validate-domain")>>
    \o <<Row("agent", "intake"), Row("intake-gate", "")>>
    \o When(c.code_recon, <<Row("agent", "code-recon"), Row("canonicalize", "")>>)
    \o <<Row("tool", "author-threat-model"), Row("agent", "threat-model-author")>>
    \o When(c.threat_model, <<Row("agent", "tm-recon")>>)
    \o <<Row("canonicalize", "")>>
    \o AllTierRows
    \o <<Row("full-gate", ""),
         Row("tool", "cluster-candidates"), Row("agent", "adjudicate"),
         Row("tool", "apply-clusters"), Row("agent", "tmeval")>>
    \o When(c.crown_jewels, <<Row("agent", "apath")>>)
    \o <<Row("tool", "rollup"), Row("agent", "report-writer"),
         Row("tool", "build-report"), Row("tool", "audit-report"), Row("audit-gate", ""),
         Row("report-auditor", ""),
         Row("tool", "domain-coverage-delta"), Row("agent", "domain-auditor")>>
    \o <<Row("aside", "summarize")>>

Plans == [c \in Configs |-> BuildPlan(c)]
Plan == Plans[cfg]
RowOf(k, w) == CHOOSE i \in 1..Len(Plan) : Plan[i] = Row(k, w)

At(k) == phase = "running" /\ pos <= Len(Plan) /\ Plan[pos].kind = k
Who == Plan[pos].who
Past(k, w) == pos > RowOf(k, w)

Advance == pos' = pos + 1 /\ stage' = 0 /\ UNCHANGED <<phase, remedies>>
Retry(n) == stage' = n /\ UNCHANGED <<pos, phase, remedies>>
Halt == phase' = "halted" /\ UNCHANGED <<pos, stage, remedies>>

Fault == faults < MaxFaults /\ faults' = faults + 1
NoFault == UNCHANGED faults

\* Files appear with the qualities q says; each is new content.
Write(q) ==
    /\ quality' = [f \in Files |-> IF f \in DOMAIN q THEN q[f] ELSE quality[f]]
    /\ ver' = [f \in Files |-> IF f \in DOMAIN q THEN ver[f] + 1 ELSE ver[f]]
    /\ basis' = [g \in Computed |-> IF g \in DOMAIN q THEN View(g) ELSE basis[g]]

\* What a sound dispatch leaves, and what an unsound one may put in its place.
Sound(f) == IF f \in MintedFiles THEN "noids" ELSE "good"
Flaws(f) == {"torn", "invalid"} \cup (IF f \in RecordFiles THEN {"flawed"} ELSE {})
                               \cup (IF f \in Linked THEN {"dangling"} ELSE {})

-----------------------------------------------------------------------------
Init ==
    /\ cfg \in Configs
    /\ pos = 1 /\ phase = "ready" /\ skip = {} /\ stage = 0 /\ remedies = 0
    /\ quality = [f \in Files |-> "missing"]
    /\ ver = [f \in Files |-> 0]
    /\ basis = [g \in Computed |-> [f \in Inputs[g] |-> 0]]
    /\ faults = 0 /\ stops = 0

\* A session begins: the first, or one more over what earlier ones left.
Invoke ==
    /\ phase # "running"
    /\ phase' = "running" /\ pos' = 1 /\ stage' = 0 /\ remedies' = 0 /\ skip' = {}
    /\ UNCHANGED <<cfg, files, faults, stops>>

\* Mutants of StepComplete: one output is enough; an absent one does no harm.
StepStarted(a) == \E p \in CheckedParts(a) : Readable(<<a, p>>)
StepUnspoilt(a) == \A p \in CheckedParts(a) : quality[<<a, p>>] \notin {"torn", "invalid"}

\* A finished output is there, not empty, parses and passes its schema.
StepComplete(a) == \A p \in CheckedParts(a) : Readable(<<a, p>>)

ResumePlan ==
    /\ At("resume-plan")
    /\ skip' = {a \in Resumable : StepComplete(a)}
    /\ Advance
    /\ UNCHANGED <<cfg, files, faults, stops>>

SkipAgent ==
    /\ At("agent") /\ Who \in skip
    /\ Advance
    /\ UNCHANGED <<cfg, skip, files, faults, stops>>

\* The dispatch ends well, or with one file that the validator will refuse.
DispatchAgent ==
    /\ At("agent") /\ Who \notin skip
    /\ LET sound == [f \in OutputsOf(Who) |-> Sound(f)] IN
         \/ Write(sound) /\ NoFault
         \/ Fault /\ \E f \in OutputsOf(Who) : \E b \in Flaws(f) :
                         Write([sound EXCEPT ![f] = b])
    /\ Advance
    /\ UNCHANGED <<cfg, skip, stops>>

\* Mutant of DispatchFails: a lens is tried once too often.
DispatchFailsAgain ==
    /\ At("agent") /\ Who \notin skip
    /\ Fault
    /\ IF Who \in Lenses /\ stage <= 2 THEN Retry(stage + 1) ELSE Advance
    /\ UNCHANGED <<cfg, skip, files, stops>>

\* The dispatch dies without output.  A lens is tried twice more, then left to
\* its gate; another agent's row is left, or ends the session.
DispatchFails ==
    /\ At("agent") /\ Who \notin skip
    /\ Fault
    /\ IF Who \in Lenses /\ stage < 2 THEN Retry(stage + 1)
       ELSE Advance \/ (Who \notin Lenses /\ Halt)
    /\ UNCHANGED <<cfg, skip, files, stops>>

\* A command that touches no file of the run directory: it works, or fails and the
\* session goes on or halts.
AsideRow ==
    /\ At("aside")
    /\ (Advance /\ NoFault) \/ (Fault /\ (Advance \/ Halt))
    /\ UNCHANGED <<cfg, skip, files, stops>>

\* The report auditor criticises; whatever it says does not block.
AuditorAgent ==
    /\ At("report-auditor")
    /\ Advance
    /\ UNCHANGED <<cfg, skip, files, faults, stops>>

\* canonicalize, as module Canonicalize has it: ids in every file that parses, and
\* a failing exit if one does not.  Two records of one id stop it before it writes
\* any but the context files.  Its row is no gate: a failing one may be passed.
Mint(fs) == quality' = [f \in Files |-> IF f \in fs /\ quality[f] = "noids"
                                        THEN "good" ELSE quality[f]]
CanonicalizeRow ==
    /\ At("canonicalize")
    /\ \/ /\ Mint(Files) /\ NoFault
          /\ Advance \/ ((\E f \in Canonicalized : quality[f] = "torn") /\ Halt)
       \/ /\ Fault /\ \E f \in RecordFiles : Readable(f)
          /\ Mint(ContextFiles) /\ (Advance \/ Halt)
    /\ UNCHANGED <<cfg, skip, ver, basis, stops>>

\* `validate <run> --schema-only`: the schema pass, over the whole run.
IntakeGate ==
    /\ At("intake-gate")
    /\ IF BadSchema(Files) # {} THEN Halt ELSE Advance
    /\ UNCHANGED <<cfg, skip, files, faults, stops>>

\* `validate <run> --tier`: a file that is not there is no error.
TierGatePasses ==
    /\ At("tier-gate") /\ Failing(TierFiles(Who)) = {}
    /\ Advance
    /\ UNCHANGED <<cfg, skip, files, faults, stops>>

\* The files fs written anew and canonicalized: all well, or one of them not, or some
\* left as they were.
Redo(fs) ==
    \/ Write([f \in fs |-> "good"]) /\ NoFault
    \/ Fault /\ \E f \in fs : \E b \in Flaws(f) :
                    Write([g \in fs |-> IF g = f THEN b ELSE "good"])
    \/ Fault /\ \E left \in SUBSET fs : Write([f \in fs \ left |-> "good"])

\* First failure: one repair per failing file.  Second: the lenses that own the
\* files still failing run once more.  Third: the run halts.
TierRepair ==
    /\ At("tier-gate") /\ stage = 0 /\ Failing(TierFiles(Who)) # {}
    /\ Redo(Failing(TierFiles(Who)))
    /\ Retry(1)
    /\ UNCHANGED <<cfg, skip, stops>>

FailingLenses == UNION {OutputsOf(f[1]) : f \in Failing(TierFiles(Who))}
TierRerun ==
    /\ At("tier-gate") /\ stage = 1 /\ Failing(TierFiles(Who)) # {}
    /\ Redo(FailingLenses)
    /\ Retry(2)
    /\ UNCHANGED <<cfg, skip, stops>>

TierHalt ==
    /\ At("tier-gate") /\ stage = 2 /\ Failing(TierFiles(Who)) # {}
    /\ Halt
    /\ UNCHANGED <<cfg, skip, files, faults, stops>>

\* Mutant of FullGate: it leaves out the pass across files.
FullGateFileByFile ==
    /\ At("full-gate")
    /\ IF Failing(Files) = {} THEN Advance ELSE Halt
    /\ UNCHANGED <<cfg, skip, files, faults, stops>>

\* `validate <run>` before synthesis: all passes, over files of an earlier
\* session too.  A brief it cannot parse may end it as well.
FullGate ==
    /\ At("full-gate")
    /\ \/ Refused(Files) = {} /\ Advance
       \/ (Refused(Files) # {} \/ quality[Brief] = "torn") /\ Halt
    /\ UNCHANGED <<cfg, skip, files, faults, stops>>

\* A command that computes one file from others: it stops when one is not YAML
\* or a needed one is not there, and the same inputs give the same output.
ToolRow ==
    /\ At("tool")
    /\ LET g == Out(Who) IN
         IF \/ \E f \in Inputs[g] : quality[f] = "torn"
            \/ \E f \in Needed(g) : quality[f] = "missing"
         THEN Halt /\ UNCHANGED files
         ELSE /\ Advance
              /\ IF quality[g] = "good" /\ basis[g] = View(g)
                 THEN UNCHANGED files ELSE Write([f \in {g} |-> "good"])
    /\ UNCHANGED <<cfg, skip, faults, stops>>

\* What audit-report found.  A structural failure sends the report back to its
\* writer, which runs whatever resume-plan said and may fail or write badly, and the
\* report is built and audited anew (the two rows before this one): twice.  The
\* third failure halts the run.
AuditPasses ==
    /\ At("audit-gate")
    /\ Advance
    /\ UNCHANGED <<cfg, skip, files, faults, stops>>

Rewritten ==
    \/ UNCHANGED files
    \/ \E b \in {"good"} \cup Flaws(Out("report-writer")) :
          Write([f \in {Out("report-writer")} |-> b])

\* Mutants of Remediate: the count is lost; the report is not built again.
RemediateUncounted ==
    /\ At("audit-gate") /\ remedies < 2 /\ Fault
    /\ Rewritten
    /\ pos' = pos - 2 /\ stage' = 0
    /\ UNCHANGED <<cfg, phase, skip, remedies, stops>>

RemediateUnbuilt ==
    /\ At("audit-gate") /\ remedies < 2 /\ Fault
    /\ Rewritten
    /\ pos' = pos - 1 /\ stage' = 0 /\ remedies' = remedies + 1
    /\ UNCHANGED <<cfg, phase, skip, stops>>

Remediate ==
    /\ At("audit-gate") /\ remedies < 2 /\ Fault
    /\ Rewritten
    /\ pos' = pos - 2 /\ stage' = 0 /\ remedies' = remedies + 1
    /\ UNCHANGED <<cfg, phase, skip, stops>>

AuditHalts ==
    /\ At("audit-gate") /\ remedies = 2 /\ Fault
    /\ Halt
    /\ UNCHANGED <<cfg, skip, files, stops>>

Closeout ==
    /\ phase = "running" /\ pos = Len(Plan) + 1
    /\ phase' = "done"
    /\ UNCHANGED <<cfg, pos, skip, stage, remedies, files, faults, stops>>

EndSession ==
    /\ phase = "running" /\ stops < MaxStops
    /\ stops' = stops + 1 /\ phase' = "stopped"
    /\ UNCHANGED <<cfg, pos, skip, stage, remedies, faults>>

\* The session ends between two rows, or before one wrote anything.
Stop == EndSession /\ UNCHANGED files

\* The files an agent may be writing: those of its row, of a repair, of a re-run or of
\* a remedy.
InHand ==
    CASE At("agent") /\ Who \notin skip   -> OutputsOf(Who)
      [] At("tier-gate") /\ stage = 0     -> Failing(TierFiles(Who))
      [] At("tier-gate") /\ stage = 1     -> FailingLenses
      [] At("audit-gate") /\ remedies < 2 -> {Out("report-writer")}
      [] OTHER                            -> {}

\* It ends inside a dispatch: some files written, at most one half-way.
StopInAgent ==
    /\ EndSession
    /\ \E done \in SUBSET InHand, torn \in SUBSET InHand :
          /\ done \cap torn = {} /\ Cardinality(torn) <= 1 /\ done \cup torn # {}
          /\ Write([f \in done \cup torn |-> IF f \in torn THEN "torn" ELSE Sound(f)])

\* It ends inside a command: canonicalize or a tool was writing a file in place.  A
\* part of it may parse, without some records or with one that is not whole.
StopInCommand ==
    /\ EndSession
    /\ \/ /\ At("canonicalize")
          /\ \E f \in {g \in Canonicalized : Readable(g)} :
                \E b \in {"missing", "torn", "invalid", quality[f]} : Write([g \in {f} |-> b])
       \/ At("tool") /\ Write([g \in {Out(Who)} |-> "torn"])

\* After a halt the operator fixes a file the validator or a command named.
HandFix ==
    /\ phase = "halted"
    /\ \E f \in {g \in Files : quality[g] \notin {"missing", "good"}} : Write([g \in {f} |-> "good"])
    /\ phase' = "stopped"
    /\ UNCHANGED <<cfg, pos, skip, stage, remedies, faults, stops>>

DriveStep ==
    \/ ResumePlan \/ AsideRow \/ SkipAgent \/ DispatchAgent \/ DispatchFails \/ AuditorAgent
    \/ CanonicalizeRow \/ IntakeGate \/ TierGatePasses \/ TierRepair \/ TierRerun
    \/ TierHalt \/ FullGate \/ ToolRow \/ AuditPasses \/ Remediate \/ AuditHalts
    \/ Closeout
OutsideStep == Invoke \/ Stop \/ StopInAgent \/ StopInCommand \/ HandFix

Next == DriveStep \/ OutsideStep
Spec == Init /\ [][Next]_vars

\* An operator who works the list, re-invokes a run that stopped or halted, and
\* fixes what a halt named.
OperatorPersists == /\ WF_vars(DriveStep)
                    /\ WF_vars(phase # "done" /\ Invoke)
                    /\ SF_vars(HandFix)
FairSpec == Spec /\ OperatorPersists
-----------------------------------------------------------------------------
(* Properties.                                                             *)

TypeOK ==
    /\ cfg \in Configs
    /\ pos \in Int /\ stage \in 0..2 /\ remedies \in 0..2
    /\ phase \in {"ready", "running", "stopped", "halted", "done"}
    /\ skip \subseteq Resumable
    /\ quality \in [Files -> Qualities]
    /\ ver \in [Files -> Nat]
    /\ DOMAIN basis = Computed /\ \A g \in Computed : basis[g] \in [Inputs[g] -> Nat]
    /\ faults \in 0..MaxFaults /\ stops \in 0..MaxStops

\* When clustering runs, nothing it reads is refused by any pass of the validator: not a
\* record of a tier-4 file that an earlier session left and resume-plan calls complete,
\* nor one that every tier gate lets through because it only names what is not there.
CandidatesComeFromValidRecords ==
    [][At("tool") /\ Who = "cluster-candidates" => Refused(RecordFiles) = {}]_vars

\* A lens is skipped only when both its files are there and pass their schema: one
\* interrupted between the two runs again, although canonicalize rows and gates lie
\* between resume-plan and its row.
SkippedLensesAreWhole ==
    At("agent") /\ Who \in skip \cap Lenses => \A f \in OutputsOf(Who) : Readable(f)

\* However many files and audits go wrong, each drive step of a session brings it
\* nearer its end: a row is tried at most three times, and the writer asked to
\* remedy its report at most twice.
Progress ==
    \/ phase' # "running"
    \/ remedies' > remedies
    \/ remedies' = remedies /\ pos' > pos
    \/ remedies' = remedies /\ pos' = pos /\ stage' > stage
EachStepProgresses == [][DriveStep => Progress]_vars

\* No run is beyond recovery: whatever files, dispatches and audits went wrong and
\* wherever sessions died, the operator's re-invocations and fixes bring it to its
\* end.  No gate waits for a file that resume-plan has its agent skip.
EveryRunCanFinish == <>(phase = "done")

\* The run keeps the contract its readers rely on (module RunContract): a failing
\* record never flows on to synthesis, and a run that closes out ships a report
\* built from, and audited with, the files as they now are: across repairs, resumed
\* sessions and remediations no stage of the reporting chain is left behind by a
\* later write of its inputs.
ReportChain == {Out("rollup"), Out("build-report"), Out("audit-report")}
Contract == INSTANCE RunContract WITH
    stage   <- CASE phase = "running" -> IF Past("full-gate", "") THEN "sealed" ELSE "collecting"
                 [] phase \in {"ready", "stopped"} -> "idle"
                 [] OTHER -> phase,
    valid   <- Refused(LensFiles) = {},
    current <- \A g \in ReportChain : quality[g] = "good" /\ basis[g] = View(g)
KeepsContract == Contract!Spec

(* What the documentation says of the drive, and the code does not do.     *)

\* docs/deterministic-field-register.md: canonicalize runs after the tmeval
\* barrier and before rollup, so rollup counts the evaluator's findings.
RollupCountsEvaluatorFindings ==
    phase = "running" /\ Past("tool", "rollup") /\ Readable(TmFindings)
        => basis[Out("rollup")][TmFindings] = ver[TmFindings]

\* docs/running-the-gauntlet.md: a step whose outputs are missing, truncated or
\* schema-invalid is not complete and runs again.
SkippedAgentsLeftEverything ==
    phase = "running" => \A a \in skip : \A f \in OutputsOf(a) : Readable(f)

=============================================================================
