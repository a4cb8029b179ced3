------------------------------ MODULE Synthesis ------------------------------
(***************************************************************************)
(* The synthesis rows of a run, inside: what `apply-clusters`              *)
(* (synthesis/apply.py) makes of the lens records and the adjudicator's    *)
(* decisions, and what the rollup, the report and its audit make of that   *)
(* and of the tier-4 findings, over sessions that stop at any point and    *)
(* are invoked again.                                                      *)
(*                                                                         *)
(* A record is its id.  An entry of an emitted list is [by, from]: by = 0  *)
(* is a record passed on unchanged, by = i > 0 the record that decision i  *)
(* merged from the ids `from`.  What else a merged record says (severity,  *)
(* evidence, mappings, links) is left out.                                 *)
(***************************************************************************)
EXTENDS Integers, Sequences, FiniteSets, Bags

CONSTANTS
    LensFindings, Capabilities,  \* ids the lenses' records may have
    Evaluated,                   \* ids of the threat-model evaluator's findings
    AttackPaths,                 \* ids of the attack-path findings
    Corpora,                     \* the sets of lens records a session may find
    Maturity,                    \* capability -> 0 (designed) .. 3 (operationalized)
    DecisionLists, VerdictLists, \* what the adjudicator may write
    MaxSessions                  \* bound on invocations

TierFour == Evaluated \cup AttackPaths

NoId == ""

ASSUME IdsAssumption ==
    /\ LensFindings \cap Capabilities = {}
    /\ (LensFindings \cup Capabilities) \cap TierFour = {}
    /\ Evaluated \cap AttackPaths = {}
    /\ NoId \notin Capabilities
    /\ Corpora \subseteq SUBSET (LensFindings \cup Capabilities)
    /\ Maturity \in [Capabilities -> 0..3]
    /\ MaxSessions \in Nat

\* An authored decision names the group's members, present or not, in any order;
\* a verdict sets a finding against a capability, either of which it may fail to name.
Members == LensFindings \cup Capabilities
ASSUME ListsAssumption ==
    /\ DecisionLists \subseteq Seq([kind : {"merge", "link", "separate"}, members : Seq(Members)])
    /\ VerdictLists \subseteq
          Seq([finding : LensFindings \cup {NoId}, capability : Capabilities \cup {NoId},
               classification : {"compatible", "contradicted", "stale"}])

VARIABLES
    \* the run directory
    lensRecords,       \* the lens records
    decided, decisions, verdicts,   \* cluster-decisions.yaml
    evaluated, tmDone, \* threat-model.findings.yaml, and is its coverage file written
    minted,            \* the evaluator's findings that have their id
    paths, pathsDone,  \* attack-path.findings.yaml
    out,               \* the files apply-clusters writes
    counted,           \* rollup: the findings it counted, a bag
    unresolvedMerges,  \* rollup: the count of merges that were not applied
    report, audited,   \* data.js: its findings, a bag; what audit-report said
    \* the session
    pc, step, sessions,
    \* apply-clusters in progress
    corpus, caps,      \* the findings and capabilities it loaded
    consumed, consumedCaps, merged, mergedCaps, rejected, contradictions,
    level              \* capability -> its maturity after the verdicts so far

disk == <<lensRecords, decided, decisions, verdicts, evaluated, tmDone, minted, paths,
          pathsDone, out, counted, unresolvedMerges, report, audited>>
apply == <<corpus, caps, consumed, consumedCaps, merged, mergedCaps, rejected,
           contradictions, level>>
vars == <<disk, pc, step, sessions, apply>>

Plain(x) == [by |-> 0, from |-> {x}]
PlainAll(S) == {Plain(x) : x \in S}
PlainCap(c, m) == [by |-> 0, from |-> {c}, maturity |-> m]

\* A finding of the evaluator before canonicalize has given it its id.
Unnamed(x) == [by |-> -1, from |-> {x}]

RejectedFor(why, i, x) == [why |-> why, by |-> i, id |-> x]

Copies(e, bag) == IF e \in DOMAIN bag THEN bag[e] ELSE 0

Outputs == <<"findings", "capabilities", "contradictions", "rejected">>
OutputFiles == {Outputs[i] : i \in 1..Len(Outputs)}

-----------------------------------------------------------------------------
Init ==
    /\ lensRecords \in Corpora
    /\ decided = FALSE /\ decisions = <<>> /\ verdicts = <<>>
    /\ evaluated = {} /\ tmDone = FALSE /\ minted = {} /\ paths = {} /\ pathsDone = FALSE
    /\ out = [f \in OutputFiles |-> {}]
    /\ counted = EmptyBag /\ unresolvedMerges = 0 /\ report = EmptyBag /\ audited = FALSE
    /\ pc = "idle" /\ step = 0 /\ sessions = 0
    /\ corpus = {} /\ caps = {} /\ consumed = {} /\ consumedCaps = {}
    /\ merged = {} /\ mergedCaps = {} /\ rejected = {} /\ contradictions = {}
    /\ level = Maturity

GoTo(l, i) == pc' = l /\ step' = i /\ UNCHANGED sessions
UnchangedInputs == UNCHANGED <<lensRecords, decided, decisions, verdicts>>
UnchangedTierFour == UNCHANGED <<evaluated, tmDone, minted, paths, pathsDone>>
UnchangedReport == UNCHANGED <<counted, unresolvedMerges, report, audited>>

\* A session comes to its synthesis.  Lenses may have run again, and the
\* canonicalize rows before it gave ids to what the evaluator left earlier.
Begin ==
    /\ pc \in {"idle", "halted", "done"} /\ sessions < MaxSessions
    /\ sessions' = sessions + 1 /\ pc' = "adjudicate" /\ step' = 0
    /\ lensRecords' \in Corpora
    /\ minted' = evaluated
    /\ UNCHANGED <<decided, decisions, verdicts, evaluated, tmDone, paths, pathsDone, out, apply>>
    /\ UnchangedReport

\* The adjudicator decides, unless resume-plan found its decisions of an earlier
\* session, made over the records of that session.
Adjudicate ==
    /\ pc = "adjudicate" /\ ~decided
    /\ decided' = TRUE
    /\ decisions' \in DecisionLists /\ verdicts' \in VerdictLists
    /\ GoTo("load", 0)
    /\ UNCHANGED <<lensRecords, out, apply>> /\ UnchangedTierFour /\ UnchangedReport

SkipAdjudicator ==
    /\ pc = "adjudicate"
    /\ GoTo("load", 0)
    /\ UNCHANGED <<disk, apply>>

\* No decisions: AdjudicationMissing.
Blocked ==
    /\ pc = "load" /\ ~decided
    /\ GoTo("halted", 0)
    /\ UNCHANGED <<disk, apply>>

\* Every *.findings.yaml but the attack paths': the lenses', and what the
\* evaluator left, as far as it has ids.
LoadCorpus ==
    /\ pc = "load" /\ decided
    /\ corpus' = (lensRecords \cap LensFindings) \cup minted
    /\ caps' = lensRecords \cap Capabilities
    /\ consumed' = {} /\ consumedCaps' = {} /\ merged' = {} /\ mergedCaps' = {}
    /\ rejected' = {} /\ contradictions' = {} /\ level' = Maturity
    /\ GoTo("merge", 1)
    /\ UNCHANGED disk

-----------------------------------------------------------------------------
(* The loop over the decisions.                                            *)

Deciding(k) == pc = "merge" /\ step \in 1..Len(decisions) /\ decisions[step].kind = k
Named == {decisions[step].members[j] : j \in 1..Len(decisions[step].members)}
SourcesIn(S) == {j \in 1..Len(decisions[step].members) : decisions[step].members[j] \in S}
FindingMerge == Cardinality(SourcesIn(corpus)) >= 2 /\ SourcesIn(caps) = {}
CapabilityMerge == Cardinality(SourcesIn(caps)) >= 2 /\ SourcesIn(corpus) = {}
Highest(S) == CHOOSE m \in {Maturity[c] : c \in S} : \A c \in S : Maturity[c] <= m

\* Mutant of MergeFindings: all the named are consumed, the first one is merged.
MergeFindingsOfOne ==
    /\ Deciding("merge") /\ FindingMerge
    /\ merged' = merged \cup {[by |-> step, from |-> {decisions[step].members[1]}]}
    /\ consumed' = consumed \cup Named
    /\ GoTo("merge", step + 1)
    /\ UNCHANGED <<disk, corpus, caps, consumedCaps, mergedCaps, rejected, contradictions, level>>

MergeFindings ==
    /\ Deciding("merge") /\ FindingMerge
    /\ merged' = merged \cup {[by |-> step, from |-> Named]}
    /\ consumed' = consumed \cup Named
    /\ GoTo("merge", step + 1)
    /\ UNCHANGED <<disk, corpus, caps, consumedCaps, mergedCaps, rejected, contradictions, level>>

\* A merged capability is as mature as the most mature of its sources; a source
\* whose scope is no text gives a failed_validation row, and nothing to the scope.
MergeCapabilities ==
    /\ Deciding("merge") /\ CapabilityMerge
    /\ mergedCaps' = mergedCaps \cup
          {[by |-> step, from |-> Named, maturity |-> Highest(Named \cap caps)]}
    /\ consumedCaps' = consumedCaps \cup Named
    /\ \E odd \in SUBSET (Named \cap caps) :
          rejected' = rejected \cup {RejectedFor("scope", step, x) : x \in odd}
    /\ GoTo("merge", step + 1)
    /\ UNCHANGED <<disk, corpus, caps, consumed, merged, contradictions, level>>

\* Mixed kinds, or fewer than two members resolved: a row for each member, one for
\* the group, and the records flow on as they are.
RejectMerge ==
    /\ Deciding("merge") /\ ~FindingMerge /\ ~CapabilityMerge
    /\ rejected' = rejected \cup {RejectedFor("member", step, x) : x \in Named}
                            \cup {RejectedFor("group", step, NoId)}
    /\ GoTo("merge", step + 1)
    /\ UNCHANGED <<disk, corpus, caps, consumed, consumedCaps, merged, mergedCaps,
                   contradictions, level>>

\* Linked and separate records flow on; the links themselves are left out.
KeepApart ==
    /\ Deciding("link") \/ Deciding("separate")
    /\ GoTo("merge", step + 1)
    /\ UNCHANGED <<disk, apply>>

EndMerge ==
    /\ pc = "merge" /\ step > Len(decisions)
    /\ GoTo("judge", 1)
    /\ UNCHANGED <<disk, apply>>

(* The loop over the verdicts.                                             *)

InTurn == pc = "judge" /\ step \in 1..Len(verdicts)
BothNamed(k) == verdicts[k].finding # NoId /\ verdicts[k].capability # NoId
Judging == InTurn /\ BothNamed(step)

\* A verdict that names no finding or no capability is passed over.
PassOver ==
    /\ InTurn /\ ~BothNamed(step)
    /\ GoTo("judge", step + 1)
    /\ UNCHANGED <<disk, apply>>

\* Mutant of Downgrades: the lowest maturity goes down too.
DowngradesLowest(c) == verdicts[step].classification = "stale" /\ c \in caps

Downgrades(c) == verdicts[step].classification = "stale" /\ c \in caps /\ level[c] > 0

\* Mutant of Judge: a second verdict starts from the authored maturity again.
JudgeAnew ==
    /\ Judging
    /\ LET c == verdicts[step].capability IN
         /\ contradictions' = contradictions \cup {<<verdicts[step].finding, c>>}
         /\ IF Downgrades(c)
            THEN /\ level' = [level EXCEPT ![c] = Maturity[c] - 1]
                 /\ rejected' = rejected \cup {RejectedFor("stale", step, c)}
            ELSE UNCHANGED <<level, rejected>>
    /\ GoTo("judge", step + 1)
    /\ UNCHANGED <<disk, corpus, caps, consumed, consumedCaps, merged, mergedCaps>>

\* Such a verdict gives a contradiction row; a stale one takes the capability down
\* a notch, unless it is at the lowest.
Judge ==
    /\ Judging
    /\ LET c == verdicts[step].capability IN
         /\ contradictions' = contradictions \cup {<<verdicts[step].finding, c>>}
         /\ IF Downgrades(c)
            THEN /\ level' = [level EXCEPT ![c] = @ - 1]
                 /\ rejected' = rejected \cup {RejectedFor("stale", step, c)}
            ELSE UNCHANGED <<level, rejected>>
    /\ GoTo("judge", step + 1)
    /\ UNCHANGED <<disk, corpus, caps, consumed, consumedCaps, merged, mergedCaps>>

EndJudge ==
    /\ pc = "judge" /\ step > Len(verdicts)
    /\ GoTo("write", 1)
    /\ UNCHANGED <<disk, apply>>

(* The files, one after the other.                                         *)

Result == [findings |-> merged \cup PlainAll(corpus \ consumed),
           capabilities |-> mergedCaps \cup {PlainCap(c, level[c]) : c \in caps \ consumedCaps},
           contradictions |-> contradictions,
           rejected |-> rejected]

\* SerializationIntegrityError: a field holds what is no text, nothing is written.
RefuseToWrite ==
    /\ pc = "write" /\ step = 1
    /\ GoTo("halted", 0)
    /\ UNCHANGED <<disk, apply>>

WriteOutput ==
    /\ pc = "write" /\ step \in 1..Len(Outputs)
    /\ out' = [out EXCEPT ![Outputs[step]] = Result[Outputs[step]]]
    /\ IF step < Len(Outputs) THEN GoTo("write", step + 1) ELSE GoTo("evaluate", 0)
    /\ UnchangedInputs /\ UnchangedTierFour /\ UnchangedReport /\ UNCHANGED apply

-----------------------------------------------------------------------------
(* Tier 4, the rollup and the report.                                      *)

\* The evaluator writes its findings, without ids, then its coverage file; it is
\* skipped when that file is there.
Evaluate ==
    /\ pc = "evaluate"
    /\ IF tmDone THEN UNCHANGED <<evaluated, tmDone, minted>>
       ELSE /\ evaluated' \in SUBSET Evaluated
            /\ tmDone' = TRUE /\ minted' = {}
    /\ GoTo("paths", 0)
    /\ UNCHANGED <<paths, pathsDone, out, apply>> /\ UnchangedInputs /\ UnchangedReport

AnalyzePaths ==
    /\ pc = "paths"
    /\ IF pathsDone THEN UNCHANGED <<paths, pathsDone>>
       ELSE paths' \in SUBSET AttackPaths /\ pathsDone' = TRUE
    /\ GoTo("rollup", 0)
    /\ UNCHANGED <<evaluated, tmDone, minted, out, apply>> /\ UnchangedInputs /\ UnchangedReport

\* The merges that were not applied, counted by the rows of their groups.
GroupRows == {r \in out.rejected : r.why = "group"}

\* Mutants of Rollup: a tier-4 finding is added whether or not it is there; the
\* rows of the members are counted.
RollupUnseen ==
    /\ pc = "rollup"
    /\ counted' = SetToBag(out.findings) (+) SetToBag(PlainAll(minted \cup paths))
    /\ unresolvedMerges' = Cardinality(GroupRows)
    /\ GoTo("build", 0)
    /\ UNCHANGED <<report, audited, out, apply>> /\ UnchangedInputs /\ UnchangedTierFour

RollupOfMembers ==
    /\ pc = "rollup"
    /\ counted' = SetToBag(out.findings)
                  (+) SetToBag(PlainAll(minted \cup paths) \ out.findings)
    /\ unresolvedMerges' = Cardinality({r \in out.rejected : r.why # "stale"})
    /\ GoTo("build", 0)
    /\ UNCHANGED <<report, audited, out, apply>> /\ UnchangedInputs /\ UnchangedTierFour

\* The deduped findings, and the tier-4 findings with an id that are not among them.
Rollup ==
    /\ pc = "rollup"
    /\ counted' = SetToBag(out.findings)
                  (+) SetToBag(PlainAll(minted \cup paths) \ out.findings)
    /\ unresolvedMerges' = Cardinality(GroupRows)
    /\ GoTo("build", 0)
    /\ UNCHANGED <<report, audited, out, apply>> /\ UnchangedInputs /\ UnchangedTierFour

\* The evaluator's findings, as the readers of the file find them.
EvaluatorFindings == PlainAll(minted) \cup {Unnamed(x) : x \in evaluated \ minted}

\* The report concatenates the three finding files.
BuildReport ==
    /\ pc = "build"
    /\ report' = SetToBag(out.findings) (+) SetToBag(PlainAll(paths)) (+) SetToBag(EvaluatorFindings)
    /\ GoTo("audit", 0)
    /\ UNCHANGED <<counted, unresolvedMerges, audited, out, apply>>
    /\ UnchangedInputs /\ UnchangedTierFour

\* id_coverage_findings compares the sets of ids; the unnamed share the id None.
IdsOf(S) == {IF e.by = -1 THEN Unnamed(NoId) ELSE e : e \in S}
AuditReport ==
    /\ pc = "audit"
    /\ audited' = (IdsOf(BagToSet(report)) = IdsOf(out.findings \cup PlainAll(paths) \cup EvaluatorFindings))
    /\ GoTo("done", 0)
    /\ UNCHANGED <<counted, unresolvedMerges, report, out, apply>>
    /\ UnchangedInputs /\ UnchangedTierFour

Working == pc \notin {"idle", "halted", "done"}

\* The session ends between two writes.
Crash ==
    /\ Working
    /\ GoTo("idle", 0)
    /\ UNCHANGED <<disk, apply>>

\* It ends between the evaluator's two files, whichever came first.
CrashInEvaluator ==
    /\ pc = "evaluate" /\ ~tmDone
    /\ \/ evaluated' \in SUBSET Evaluated /\ minted' = {} /\ UNCHANGED tmDone
       \/ tmDone' = TRUE /\ UNCHANGED <<evaluated, minted>>
    /\ GoTo("idle", 0)
    /\ UNCHANGED <<paths, pathsDone, out, apply>> /\ UnchangedInputs /\ UnchangedReport

ApplyClusters == \/ LoadCorpus \/ MergeFindings \/ MergeCapabilities \/ RejectMerge
                 \/ KeepApart \/ EndMerge \/ PassOver \/ Judge \/ EndJudge \/ RefuseToWrite \/ WriteOutput
Next == \/ Begin \/ Adjudicate \/ SkipAdjudicator \/ Blocked \/ ApplyClusters
        \/ Evaluate \/ AnalyzePaths \/ Rollup \/ BuildReport \/ AuditReport
        \/ Crash \/ CrashInEvaluator
Spec == Init /\ [][Next]_vars

-----------------------------------------------------------------------------
(* Properties.                                                             *)

TypeOK ==
    /\ lensRecords \subseteq Members
    /\ decided \in BOOLEAN
    /\ decisions \in DecisionLists \cup {<<>>} /\ verdicts \in VerdictLists \cup {<<>>}
    /\ evaluated \subseteq Evaluated /\ minted \subseteq evaluated /\ paths \subseteq AttackPaths
    /\ tmDone \in BOOLEAN /\ pathsDone \in BOOLEAN
    /\ DOMAIN out = OutputFiles
    /\ IsABag(counted) /\ IsABag(report) /\ audited \in BOOLEAN
    /\ pc \in {"idle", "adjudicate", "load", "merge", "judge", "write", "evaluate", "paths",
               "rollup", "build", "audit", "done", "halted"}
    /\ step \in Nat /\ sessions \in 0..MaxSessions
    /\ corpus \subseteq LensFindings \cup Evaluated /\ caps \subseteq Capabilities
    /\ consumed \subseteq Members /\ consumedCaps \subseteq Members
    /\ level \in [Capabilities -> 0..3]

\* The files are those of the apply-clusters run of this session.
Applied == pc \in {"evaluate", "paths", "rollup", "build", "audit", "done"}

\* Whatever the adjudicator decides, over whichever records (its decisions may name
\* records that are gone, twice, or of both kinds), every record that apply-clusters
\* loaded leaves it exactly once: as itself, or as a source of merged records.
KeptOnce(x, list) ==
    (\E e \in list : e.by = 0 /\ e.from = {x}) # (\E e \in list : e.by > 0 /\ x \in e.from)
NothingIsLost ==
    Applied => /\ \A x \in corpus : KeptOnce(x, out.findings)
               /\ \A c \in caps : KeptOnce(c, out.capabilities)

\* An authored merge is never dropped in silence: it gives one merged record, or the
\* group row that the rollup counts, whatever crashed between the files' writes in
\* earlier sessions.
MergeDecisions == {i \in 1..Len(decisions) : decisions[i].kind = "merge"}
MadeBy(i) == {e \in out.findings \cup out.capabilities : e.by = i}
EveryMergeIsAccounted ==
    Applied =>
        /\ \A i \in MergeDecisions : (MadeBy(i) # {}) # (RejectedFor("group", i, NoId) \in out.rejected)
        /\ \A i \in MergeDecisions : Cardinality(MadeBy(i)) <= 1
        /\ pc \in {"build", "audit", "done"}
              => unresolvedMerges = Cardinality({i \in MergeDecisions : MadeBy(i) = {}})

\* A capability that ships as itself has lost one notch of maturity for each verdict
\* that set a finding against it and called it stale, as far as there are notches; a row tells of each.
StaleVerdicts(c) == {k \in 1..Len(verdicts) : /\ BothNamed(k) /\ verdicts[k].capability = c
                                              /\ verdicts[k].classification = "stale"}
Lost(c) == LET n == Cardinality(StaleVerdicts(c)) IN IF n < Maturity[c] THEN n ELSE Maturity[c]
MaturityFollowsVerdicts ==
    Applied =>
        /\ \A e \in out.capabilities : \A c \in e.from :
              e.by = 0 => e.maturity = Maturity[c] - Lost(c)
        /\ \A c \in caps : Cardinality({r \in out.rejected : r.why = "stale" /\ r.id = c}) = Lost(c)

\* The rollup counts each tier-4 finding that has its id once, in a run whose earlier
\* session left evaluator findings that apply-clusters now takes for lens records too.
RollupCountsTierFourOnce ==
    pc \in {"build", "audit", "done"} =>
        \A x \in minted \cup paths : Copies(Plain(x), counted) = 1

(* What the comments say, and the code does not do.                        *)

\* apply.py: the tier-4 findings are excluded, for they are unioned downstream and
\* including them would double-render them; audit.py: id_coverage_findings checks
\* that the report lists the deduped and the tier-4 findings.
AuditedReportListsFindingsOnce ==
    pc = "done" /\ audited => \A e \in BagToSet(report) : Copies(e, report) = 1
=============================================================================
