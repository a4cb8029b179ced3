# Formal models of the gauntlet

TLA+ specifications of `apd-gauntlet` 1.7.1, the command-line tool
(`src/tools/apd_gauntlet/`) and the run it drives: a pipeline of review agents whose
records pass, file by file, through ids, gates, clustering, adjudication, rollup and
a report; and of the page in which that report is read (`src/report-template/`). Paths
below are relative to the repository root, with `synthesis/`, `report/`, `attack_path/`,
`threat_model/` and bare `*.py` names under `src/tools/apd_gauntlet/`, `screens/` and bare
`*.jsx` names under `src/report-template/`.

Every module is translated from the code. Where a document or a comment says
something else, the code is modelled and the statement of the document is checked
in a run that is expected to fail (see *Findings*).

- [Inventory](#inventory) - [Modules](#modules) - [Runs](#runs) -
  [Proofs](#proofs) - [Findings](#findings) - [Not modelled](#not-modelled) - [Plan](#plan)

## Inventory

The system is two programs that meet in one file. The first has no server and no shared memory. Its state is the **run directory**,
a tree of YAML files. Three kinds of actor change it, one at a time: *commands* of the
CLI (each a process that reads files and rewrites files in place), *agents*
(language-model processes outside `src/`, each told which files to leave), and the
*operator*, who works down the checklist that `apd-gauntlet plan-run` prints, re-invokes
it after an interruption and repairs files a gate has named. The hard behaviours
all come from this: nothing but the report's `data.js` and manifest is written
atomically, a session can end between or inside any two writes, and the next one starts
from whatever is on disk, not from what the last one knew.

The second is the report's page, a React application over a constant `data.js`. Its actor is
the *reader*; the *browser* runs, after each render, the effects that the components have
asked for, and later the frames and timers those have asked for. What is hard there is that
state lives in four places (the page, the screen, the DOM, the graph widget), each reset by other events.

| Component | State | Operations | Correct when |
|---|---|---|---|
| canonicalize (`canonicalize.py`) | ids and cross-references in every record file; an in-memory id map | one pass: mint context ids, scan and map, write files, improvement ids | ids unique, citations follow their records, idempotent, a pass that dies loses no citation but those it left behind their records |
| run plan and drive (`plan_run.py`, `docs/running-the-gauntlet.md`) | row of the checklist, retry and remediation counts | dispatch, gate, repair, re-run, remediate, halt | every session ends; only valid records reach synthesis; a finished run ships a report of its present files |
| resume plan (`resume_plan.py`) | none: reads the directory | which agent rows are complete | a skipped row has all that later rows need; no run is stuck |
| validate (`validate.py`) | none | schema, semantic and cross-reference passes; `--tier`, `--schema-only` | a failing record stops the drive |
| cluster candidates (`synthesis/cluster.py`) | union-find forest of one call | pairwise signals, join, chunk | groups are the components of the signals, whatever the corpus order; chunk sizes are bounded |
| corpus loader (`synthesis/loader.py`) | none | which files and records count | each record is taken once |
| apply clusters (`synthesis/apply.py`) | five output files | merge, link, reject, downgrade, write | no record lost or doubled; no merge dropped in silence; maturity follows the verdicts |
| rollup, metrics (`synthesis/rollup.py`, `metrics.py`) | `rollup.yaml` | union with tier 4, coverage | each finding counted once |
| report build (`report/`) | bundle, `data.js`, `manifest.yaml` | load, transform, emit | the bundle shows the present files |
| report audit (`synthesis/audit.py`) | none | 20-odd checks of a built report | a report that passes agrees with its inputs |
| attack paths (`attack_path/`) | graph and findings files | build, search, rank and cut, name | every path within the limits found, and no other; no worse risk lost behind a lesser one; no stale graph |
| threat-model ingestion (`threat_model/`) | normalised model | detect format, parse, map | deterministic choice of the format |
| C4 and asset inventory assembly (`assemble_c4.py`, `assemble_inventory.py`) | assembled model | merge fragments | containment stays acyclic; no element twice |
| domain packs (`build_domain_skill.py`, `synthesis/draft.py`) | pack drafts | render, draft edits | a proposal is drafted once |
| C4 layout and routes (`components.jsx`) | columns, ports, corridors and lines of one drawing | relax, pull, place ports, plan, draw | edges run right, lines cross no box and keep apart |
| report page (`app.jsx`, `screens/Findings.jsx`, `screens/AttackPaths.jsx`) | tab, layout, what a link asked for; filters, selection, open pairs, the graph | open, link, filter, select, fold, tap; effects | a link shows its target; the selection is never hidden; list and graph agree |
| C4 edge layer (`components.jsx`) | the last measurement, a frame and two timers | render, measure, resize, fonts | lines catch up with their boxes |
| the page's other screens | a list's own filters | render | see *Not modelled* |
| scaffolding, linters, reference data | - | - | see *Not modelled* |

**Interactions.** All are through files. The lenses write
`NN-<lens>/*.findings.yaml` and `*.capabilities.yaml`, mostly without ids; canonicalize
gives them ids; validate's gates read them; `cluster-candidates` groups them; the adjudicator
reads the groups and writes `cluster-decisions.yaml`; `apply-clusters` applies it to a
corpus it loads *again* and writes the deduped, severity-disagreement, contradiction and
rejected files; the evaluator (*tmeval*) and the attack-path analyst (*apath*) add tier-4
findings; rollup, report writer, `build-report` and `audit-report` work on the result; a failed
audit sends the report back to its writer. `resume-plan` looks at the same files at the
start of a session and no later.

**Hard behaviours.** Passes torn between files (canonicalize, apply-clusters); agents that
die between two of their outputs; decisions of one session applied to the records of
another; repairs that break what was sound; retry counters; tier-4 files of an
earlier session in reach of the tiers of the next; rounding in chunks; a search that
backtracks over shared state, and two cuts of what it found. `PROJECT.json`
lists each hazard at its line, with the properties that watch it.

## Modules

| Module | Models | Lines it follows |
|---|---|---|
| `Canonicalize` | the id pass, file by file, with writes cut short, and the agents that edit between passes | `canonicalize.py`, `cli.py` (its command) |
| `GauntletRun` | the drive: checklist, dispatch failures, gates, repairs, skipping, remediation, crashes | `plan_run.py`, `resume_plan.py`, `cli.py`, `validate.py`, `docs/running-the-gauntlet.md` through the runner |
| `RunContract` | what the drive promises its readers (abstract) | - |
| `ClusterCandidates` | the union-find, the grouping and the chunking, step by step | `synthesis/cluster.py` |
| `Synthesis` | apply-clusters' two loops and its writes, tier 4, rollup, build and audit, over sessions | `synthesis/apply.py`, `loader.py`, `rollup.py`, `report/transform.py`, `audit.py` |
| `AttackPaths` | the search for attack paths edge by edge, the ranking and cut of each pair, the findings named | `attack_path/enumerate.py`, `findings.py`, `d3fend_overlay.py`, `cli.py` (its command) |
| `C4Backbone` | the columns of the C4 view's containers, edge by edge and pass by pass | `components.jsx` (`c4BackboneLayout`) |
| `C4Routes` | over that layout, the lines between the boxes: ports, corridors, lanes, the detours and the fallback | `components.jsx` (`c4Grid`, `c4SolveRoutes`, `c4RouteWaypoints`) |
| `AttackPathsScreen` | the Attack paths screen and the asset graph's effects and taps | `screens/AttackPaths.jsx`, `components.jsx` (`GraphView`) |
| `C4EdgeLayer` | when the C4 lines are measured | `components.jsx` (`C4EdgeLayer`), `screens/C4.jsx` |
| `ReportPage` | composes the two with the page's tabs and links and the Findings screen | `app.jsx`, `screens/Findings.jsx` |
| `MC*` | constants for TLC | - |
| `*Proofs` | theorems | - |

**Correspondence.** `map` in `PROJECT.json` names the lines of every definition. The main
abstractions, and why they keep what the properties need:

- *Canonicalize.* A record's title, locator and evidence matter only through the id
  they hash to, so content **is** that id (`canon`): collision and duplicate are one case, as
  in the code. A file is YAML or not. When `write_text` dies it leaves a first part of the new text, which may
  parse or not (`CutWrite`): the records before the cut are whole and renamed, those after it are gone, and of the one
  it goes through the id, the citations and the title may each be there, gone or, the title, cut to another one
  (`CutTitles`, whose hash is another id). `NoId` is an id or a citation that is not there. What a cut
  took does not come back when the file is mended; a lens writes it again. `held` remembers the citations that could be
  followed when the pass began: they name their record by the id it has, or by the one it will get, and no other record
  has a claim to that id.
- *GauntletRun.* A file has a *quality* (what the readers tell apart: missing, not YAML, not
  of its schema, refused by the semantic checks, refused only by those across files, without ids, good), a version, and, if it is
  computed, the versions it was computed from. The prose of the checklist's rows is not
  modelled, its order and its conditions are. The runner that executes the rows is not in the
  repository; its decisions (three tries for a lens, repair then re-run then halt at a gate, two
  remediations) are taken from the rows' instructions and from
  `src/tests/test_workflow_apd_gauntlet.py`. A row that fails without a rule for it may be left or
  end the session: both are tried. So are a canonicalize row that exits with 1, on a file that does not parse (after it has given ids
  to the rest) or on two records of one id (before it writes any record file), and the rows that touch no file of the run
  (`AsideRow`). A repair, a re-run and a remedy may fail, write one bad file, leave files alone, or be what a session dies in.
  "dangling" files are the only ones the tier gates let through and the full gate does not: the pass across files is the
  whole run's alone. That a file is dangling is decided when it is written; ids of an earlier session that it names still resolve,
  through the deduplicated files (`validate.py:1114-1128`).
- *ClusterCandidates.* The three signals are an arbitrary symmetric relation on the records: what
  makes two records similar is text, that they are similar is all the algorithm uses. The
  relation ranges over all relations for the bounds given.
- *Synthesis.* A record is its id; merged records keep the set of their sources and, for
  capabilities, their maturity. Severity (and with it `severity-disagreements.yaml`, the third of the
  five files written), links and evidence are left out; that a source's scope is no text, which gives a row, is any choice. A verdict may fail to
  name its finding or its capability and is then passed over. The decisions are
  arbitrary lists, made over the records of one session and applied to another's.
- *AttackPaths.* The recursion of `_dfs` is a stack of what each call has still to try; one action per turn
  of its loop (skip, arrive, descend) and one for a call's return, with the trail and the visited edges shared
  as in the code. The graph is any graph: an edge is numbered in the order of insertion, which is the
  order the code walks them, and has the severity, the confidence and the kind that the ranking reads. Techniques and
  their D3FEND counters are one bit of an edge (`open`). The sort key ends in a hash of the path; the
  model lets it break ties any way. Path ids and finding ids are taken not to collide (32 bits of a
  hash).

- *C4Backbone, C4Routes.* A container is the rank of its id; the sort key `source|target` is the order
  of the two ranks, which is that of the strings as long as no id is a prefix of another. The order
  of rows (label, badge, id) is any injective rank. Lengths are integers, 120 to the pixel, so that the
  thirds and fifths of a side and the halves of a lane are exact where the code has floating
  point; the measured boxes are the ones the layout places, with heights that differ. The clusters of
  `c4Grid` are then the columns and rows themselves, since neighbouring ones are further apart than its tolerance. One
  action lays out an edge; ports, corridors and lines are one step each, as in the code.
- *AttackPathsScreen, ReportPage.* A handler and the render it causes are one step; the effects are queued and run one by one
  in the order of React's commit (the graph's before the screen's), before the reader can act again. A path is an
  id with its pair, its nodes and the findings on its edges; the ids that next steps, severity disagreements and C4 elements name are
  any (`Authored`), of the report or not, as are those on paths; `asked` is history, what the last link named. The
  search text and the chips of Findings are any of a set of outcomes (`Filters`). Hovering, scrolling, copying, the drill
  and zoom of the C4 view and the theme are left out: of these, drill, zoom and theme only measure once more.
- *C4EdgeLayer.* A box's position is the number of times it has moved. The page settles while the 220 ms timer runs,
  which is what that timer is there for; later moves come with a resize event or the fonts.

Nothing composes `Canonicalize` into `GauntletRun` by INSTANCE: the drive uses one fact of
it (readable records without an id have one afterwards), which `CanonicalIdsAreUnique` states.
Likewise the drive takes each synthesis command as one step from files to a file; `Synthesis` opens
those steps.

## Runs

| Run | Question | Result |
|---|---|---|
| `Canonicalize` | Do ids stay unique, citations right and the pass idempotent when passes are cut short, interrupted or collide, and agents edit between them? | passes |
| `GauntletTiers` | Two tiers, with skipping, faults and crashes: does only valid data reach clustering, is a skipped lens whole, does the drive implement `RunContract`, can any run be brought to its end by re-invoking it? | passes |
| `GauntletFaults` | With several faults in a session, does every step lead nearer to its end? | passes |
| `ClusterCandidates` | For every signal relation on five records: are the groups the right ones, and of the right size? | passes |
| `Synthesis` | Over three sessions with crashes and changing records: is no record lost, no merge unaccounted, nothing counted twice? | passes |
| `AttackPaths` | For every graph of four edges: does the search find exactly the attack paths, and do the two cuts keep what they must? | passes |
| `C4Routes` | For every list of up to three edges and every set of up to five between four containers, and for a taller backbone of six: are the columns right, and do the lines miss the boxes and one another? | passes |
| `ReportPage` | In any order of links, filters, clicks, taps, effects, timers and moves: does a link show its target, do list and graph agree, do the lines catch up? | passes |
| `RollupCountsEvaluatorFindings`, `SkippedAgentsLeftEverything`, `AuditedReportListsFindingsOnce`, `ChipsOpenTheirFinding` | statements of the documents, comments and labels the code does not keep | violated, see *Findings* |

The properties, in the order of what a review of the code would argue about:

- `KeepsContract` (refinement): a session is sealed by the full gate only over valid records and
  stays so; a run ends only when rollup, report and audit were each computed from the files as
  they are. It fails if remediation skips the rebuild. "Computed from" goes one step back: that the report-writer's text or the
  adjudicator's decisions, skipped on resume, are older than the records they were written over is not told, for nothing in the
  code looks at it.
- `CandidatesComeFromValidRecords`: no record of *any* session, tier 4 included, that any pass of the validator refuses is
  clustered. It fails if the full gate leaves out the pass across files.
- `SkippedLensesAreWhole`: the answer `resume-plan` gave at the start of a session still holds when
  the lens's row comes, although canonicalize rows and gates ran in between.
- `EveryRunCanFinish` (liveness): no file is both demanded by a gate and skipped for ever.
- `EachStepProgresses`: a lexicographic measure (remedies, row, tries) grows.
- `CrashStrandsTheCitersBehind`: exactly which citations a death between two files costs. The id map dies with the process, so those
  of records it had renamed, in files it had not come to, can be followed no more; all others can, those written ahead of
  their record too. It fails if the pass writes ids before it writes citations. It leaves out ids that change hands,
  one record getting what another had, and for a death inside a write the citations from or to the file it cut.
- `SecondPassChangesNothing`: over everything on disk. The one exception is what the code cannot avoid, since it writes each file
  back, changed or not: a death inside a write may cut that one file; ids and citations can go, none becomes another.
- `CitationsFollowTheirRecords`, `CanonicalIdsAreUnique`: the state after a complete pass, whatever earlier passes did.
- `ForestIsSignalComponents`, `GroupsFollowFromSignals`, `ChunksAreBounded`, `FindDescends`: clustering.
- `NothingIsLost`, `EveryMergeIsAccounted`, `MaturityFollowsVerdicts`, `RollupCountsTierFourOnce`: synthesis.
- `EveryPathIsCollected`, `NothingIsMissing`, `WorstPathsAreNamed`, `GapsAreSharedEdges`: attack paths. The
  first compares the search with a definition that does not search (`IsAttackPath`, over sequences of
  edges); the second and third relate the two files to the graph itself, through both cuts.
- `ColumnsAreLongestWalks` and `EdgesRunRight`: the relaxation against a definition by walks, cycles and
  all: neither the cap on columns nor the bound on passes cuts it short, and pulling a source takes it past no target.
- `RoutesClearBoxes`: corridors are planned along their middles, before the lanes are known; that the line
  drawn in the end still crosses no box, and the fallback (which may cross anything) is never needed. `PortsKeepApart`: no two
  lines meet a box at one point. `LegsKeepApart`: a leg in a gutter is at the x of no upright leg of another line, one in a
  band at the y of no level leg of another, whatever the lines join, where their corridors have room. What the code gives no lane is left out:
  the stubs between a port and its corridor, and the lines sent round a box; see *Findings* for where those coincide.
- `SelectionIsShown`, `HighlightFollowsSelection`, `LinksLeadToTheirTarget`: selection, filter, graph and link agree after
  every mixture of them; in particular the focus effect, which looks a row up before its own state is rendered,
  finds it.
- `EdgesCatchUp` (liveness): no order of renders, frames, timers, resizes and fonts leaves lines at an old place.

Each has a mutant in `PROJECT.json`: a plausible bug in a definition it depends on that makes it
fail.

**Bounds, and why they are enough.**

- `Canonicalize`: two files, three records, two citations (one inside a file, one across),
  three derivable ids, one of which a cut title gives, and one that only an agent would write, one edit between passes; of the
  derivable ids the two that no agent writes and no cut gives are interchangeable (symmetry). Deaths and cuts are not bounded. Every
  order of "renamed before or after its citer was written" occurs, and any number of passes
  (they are not bounded: the state space closes). Two records suffice for a collision, three for
  one beside a citation.
- `C4Routes`: four containers are enough for a cycle with a way in and a way out, for a box between two others in
  a column or a row, and for spans of two and three columns; five edges fill a gutter beyond the
  narrowest lane. Lists of three carry every order and every parallel edge; the sets of four and five are in one
  order. Two more edges in front, from a box that is not there and from a box to itself, check that
  they are ignored. The tall backbone, joined by its last edges one after the other, has four rows in a column and lines past all of
  them; of the heights of boxes some are equal and some differ, as ports at one height and at different ones need. The check of the
  planned lines has also been run over 1800 larger lists, which showed nothing further.
- `ReportPage`: four paths in three pairs (one pair with a path of each kind, one of only the one, one of only the other),
  three findings and two ids of merged records, one on a path and one among what was authored, four outcomes of the filters (all, some with and without the
  chosen one, none), three overlays and three moves: one for the fonts, one for the settling page and one for a resize, in any order.
- `GauntletTiers`: two tiers of two and one lenses, so that a repair can break a sibling and a later
  tier can invalidate an earlier one; one fault and one interruption, at any place; the config
  with every optional row and the one with none. `GauntletFaults` takes one lens but three faults,
  enough for all three tries of a lens, the three stages of a gate and the third failed audit.
  `MaxFaults` and `MaxStops` are the only counters capped; sessions are not.
- `ClusterCandidates`: five records and a limit of three: all 1024 relations, components of four and
  five to be divided.
- `Synthesis`: three sessions, three corpora, six lists of decisions (one per kind of trouble: a
  shared member, mixed kinds, a member twice, missing members) and four of verdicts (two on one capability, two on
  another after a harmless one, some that name no finding or no capability, none), chosen
  independently in each session that adjudicates; deadlock is not checked because a behaviour really
  ends after `MaxSessions`.
- `AttackPaths`: four edges over an attacker, two assets and two jewels. Every choice of their ends
  is a graph, so parallel edges, self-loops, a cycle through both assets and a jewel that is left again
  all occur; what holds for more edges is the business of the proofs. A hop cap of 2 cuts walks, one of 5
  cuts none. One risk, two paths and a threshold of two are each below, at and above what some
  graph has. The first edge leaves the attacker, or there is nothing to search.

**Fairness.** Two runs use it. In `GauntletTiers`, `OperatorPersists` is the recovery procedure of
`docs/running-the-gauntlet.md`: the drive steps happen (weak fairness: each row is a foreground
call the operator waits for), a run that is not done is invoked again, and the file a halt
named is fixed some time (strong fairness: a fix competes with an immediate re-invocation).
Faults and crashes are bounded and never fair. In `ReportPage` the browser is fair (weakly, each action of its own): it runs the effects of a page
it has rendered, fires the frame and the timers it was asked for and resolves `document.fonts.ready` once nothing is
loading. The reader, the moves and the fonts' arrival are not.

## Proofs

Eight modules, proved with TLAPS for all values of the constants under the named assumptions of the
modules (`FilesAssumption`, `LensesAssumption`, `IdsAssumption`, ...).

- `CanonicalizeProofs`: `TypeCorrect`; `UniqueIds`, `CitationsFollow`, `Idempotent` (`SecondPassChangesNothing`) and
  `CrashStrandsNoOthers` (`CrashStrandsTheCitersBehind`), all properties of the run. They rest on one inductive invariant that
  says what a pass in progress knows: the working state belongs to its phase; the readable records of
  the files scanned have pairwise different derived ids, all in `seen`, and each such file is
  pending or has its new ids; a settled directory has nothing left to rename (`SettledInv`); and each
  held citation is followable as it was, will be mapped to its record's final id when its file's turn comes, or has been, and
  no record still to be renamed has a claim to it (`HeldAt`). So of a pass that dies now one can tell which of them still lead to
  their record (`StrandedIsLost`, `OthersAreFollowable`).
  `CanonicalIdsAreUnique` alone is not inductive: it says nothing
  while a pass is under way.
- `GauntletRunProofs`: `TypeCorrect` and `SessionsProgress` (`EachStepProgresses`); progress rests on
  the type invariant for the bounds of the counters. `SkippedLensesWhole` (`SkippedLensesAreWhole`) and `CandidatesValid`
  (`CandidatesComeFromValidRecords`) rest on the order of the checklist, which is proved first: a property of adjacent rows and
  of gates (`InOrder`) is kept by every concatenation of `build_plan`. The invariant (`SessionInv`) then says what holds while a row is
  still to come: a skipped lens stays whole until its row is passed (repairs touch lenses that are behind their
  gate only), and when clustering is the present row the full gate has just passed.
- `GauntletContractProofs`: `DriveKeepsContract` (`KeepsContract`), that the drive implements `RunContract`. The rows have ranks
  that ascend along every checklist; so behind the full gate nothing writes a lens file, and what a row behind a stage of the reporting
  chain writes is no input of that stage. The invariant (`ChainFresh`) says that the stages the session has passed are fresh, which
  a remediation keeps because it goes back before the first stage that reads what it rewrites.
  Both modules take `TiersAssumption` for what the tiers' rows are: they are flattened by a recursive function of the community
  modules whose recursion the prover cannot unfold. TLC evaluates the assumption on the tiers of every run.
- `ClusterCandidatesProofs`: `TypeCorrect`; `FindsDescend` (each turn of *find* reaches a smaller
  index, so *find* ends); `ForestMatchesSignals`; `GroupsFollow` (`GroupsFollowFromSignals`); `GroupsBounded`
  (`ChunksAreBounded`, for every limit of three or more: a limit of two breaks it, see *Findings*), by
  `ChunkSizesAreBounded`, the arithmetic of the division for every component size. The
  invariant of the forest: parents never exceed their children; a set of records that no signal leaves is left by no
  edge of the forest; and every pair taken is joined or about to be. Partitions are compared by
  their closed sets, so no induction along paths is needed. The groups take two more: what is collected
  stands with a root it is joined with (`ClusterInv`), which makes the cluster of a root the component whose least
  record it is; and the groups are the chunks of the clusters before the present one (`GroupsInv`). That chunks cover a
  cluster, in order, rests on `StartIsSum`, a closed form of the recursive function `Start`, and on ranks that number a set
  without gaps (`RanksNumber`).
- `SynthesisProofs`: `TypeCorrect`; `NoRecordIsLost`, `MergesAreAccounted`, `MaturityIsVerdicts`
  (`MaturityFollowsVerdicts`) and `TierFourIsCountedOnce`. The invariant has six parts: `Balanced` (in the loop, a record is consumed exactly when a
  merged record has it for a source), `Answered` (each decision passed has one merged
  record or one group row), `Flushed` (of the output files those written so far hold this session's
  result, whatever a dead session left in the others), `GradedInv` (at each turn of the verdicts' loop a capability has lost
  as many notches, and has as many rows, as there were stale verdicts on it so far, up to what it had), `Tallied` and `RolledUp` (what the rollup took).
- `AttackPathsProofs`: `TypeCorrect`; `SearchIsExact` (`EveryPathIsCollected`), for any graph, pairs and
  limits; `UntruncatedIsComplete` (`NothingIsMissing`). The invariant of a search under way: the trail is a walk
  from the attacker, not yet at the jewel; `visited` is its set of edges; `stack[i]` holds a part of
  what the node after i - 1 edges has to try; and each attack path is collected,
  exactly once, or is still *ahead*: it leaves the trail by an edge still to be tried. The property alone
  speaks of the end of a search only, and is not inductive. A second
  invariant, over the pairs done, says that if none was flagged every one is in `paths` whole.
  `WorstPathsNamed` (`WorstPathsAreNamed`) and `GapsShared` (`GapsAreSharedEdges`) follow the cut of each pair: of the
  pairs done, each keeps a first `MaxPaths` part of its attack paths by rank; the findings name a first `MaxRisk` part
  of the eligible ones among them; no path is kept twice (`RankedInv`). So a path left unnamed is behind the named ones.
- `C4RoutesProofs`: `LayoutTypeCorrect`, `LongestWalkColumns`, `EdgesAscend` and `PortsApart` (`PortsKeepApart`), for any containers and any lists of
  edges; `LanesApart`, that rounding and clamping leave the lanes of a corridor distinct as long as it has eight pixels for each edge and eight more. The properties speak of what relaxing leaves; the invariant says what it knows on its way:
  a container's column is the length of a walk that ends there (`WalkInv`); an edge that would still move its target starts in a
  column at least as large as the number of passes made, since every pass pushes what it changes one column on
  (`PassInv`), so the cap on columns stops the passes before their own bound does; and once settled no edge would move its target, nor
  does one after the pull, but those of sources, which stand one left of the nearest (`SettledInv`). The longest walk then follows by
  induction along it. The ends on one side of a box are in a strict order, so they have different places (`PlacesDiffer`), and
  different places are different marks strictly inside the side (`MarksAscend`, `MarksInside`): ends on different sides are apart
  too. `LengthsAssumption` asks for a unit of length so small that a side has more of them than ends: the code divides exactly, the model rounds.
  `RoutesClear` (`RoutesClearBoxes`) and `LegsApart` (`LegsKeepApart`) are theorems of every backbone under one condition, `BoxesApart`: boxes of
  neighbouring columns and of neighbouring rows stand at least twice the padding, sixteen pixels, apart. Of columns that is 162 + 16 against a step of 360,
  fixed in the code; of rows it says that no measured box is taller than 134 of the step's 150 pixels, which only the page can know.
  The argument: the grid numbers the occupied columns, and the rows, without gaps (`GridFacts` and `RowsFacts`, both by `RanksOnto`), so each
  box lies on one side of a corridor (`GutterBoxes`, `BandFacts`) and corridors follow one another. The clamp keeps every lane inside
  its corridor, however many share it (`LaneInside`). So a leg there meets no box (`FreeUpright`, `FreeLevel`), and a stub from a port to a
  corridor beside its box only that box (`FreeSideStub`, `FreeEndStub`). The first band tried for the long way is always free
  (`LongBandIsFirst`), both detours of an upright line are clear (`DetourClear`), and so is every planned line (`PlannedClear`). The invariant
  `PlanInv` says that ports, corridors and lines stay those of the finished layout, each stage's as the stage before left it. For
  `LegsApart` every leg is traced to a lane of a corridor or to a place at a box (`LegPlaces`); lanes of one corridor
  differ by `LanesApart`, of two because those do not overlap, and no lane is at a box (`GutterLanesDiffer`, `BandLanesDiffer`).
- `ReportPageProofs`: `PageTypeCorrect`, `SelectionShown`, `HighlightFollows` and `LinksLead`, for any paths, findings, filters and
  overlays, and `StaleLinesAreAwaited`, the safety half of `EdgesCatchUp`: lines that are out of date always have a measurement to
  come. The three screen properties hold only once the effects have run; the invariant says what is true while they are queued:
  that the graph is the filter's unless a build waits, that it is lit rightly unless a highlight waits, and that the
  link's target is selected and its pair open unless the focus effect waits (`GraphInv`, `LightInv`, `LinkInv`).

Model-checked only: the liveness properties `EdgesCatchUp` and `EveryRunCanFinish`, which are beyond the prover. Every
other property of a passing run is a theorem.

## Findings

1. **Rollup does not count the evaluator's findings in their first session.** `plan_run.py:160-181`
   goes from tmeval to rollup with no canonicalize row between, and `synthesis/loader.py:54-56` drops
   records without ids. `docs/deterministic-field-register.md:59` has that row.
2. **A tmeval or apath step that died between its files is skipped.** `resume_plan.py:72-79` looks at one
   file of each; `docs/running-the-gauntlet.md:447` says such a step runs again.
3. **A report that passes its audit can list a finding twice.** On a re-invoked run the evaluator's
   findings have ids, and `load_corpus` (`synthesis/apply.py:252`) leaves out the attack-path file only; the
   comment at `apply.py:246-251` says that they are not folded in.
4. **A chip of a path can open another finding.** The attack-path graph takes its findings from every lens's records
   (`attack_path/build.py:115-117`), the report lists the deduplicated ones (`report/transform.py:33-45`). A chip with the id of a
   merged record selects it, Findings has no such row and shows the first of its list (`screens/Findings.jsx:40`), while the
   chip's title is "Open this finding in the Findings view" (`screens/AttackPaths.jsx:112`). Links of the C4 view
  (`screens/C4.jsx:169`, `:294`), of next steps (`screens/Overview.jsx:141`) and of severity disagreements (`screens/Annexes.jsx:167`) with
  such an id end there too. The home-assistant example under
   `src/examples/` has seven such ids in its paths.

Divergences noticed that no run states, because no document is exact enough to refute, the detail
is abstracted, or a proof's hypothesis says it already:

- A group limit of two makes groups of one: the limit is any integer (`cli.py:1355-1375`), and with two a cluster
  of three is cut into a pair and a single record, which the comment at `synthesis/cluster.py:126-127` rules out. With
  `MaxGroup = 2` and `N = 3` TLC finds `ChunksAreBounded` violated; `GroupsBounded` proves it from three upwards.
- The intake gate (`plan_run.py:71-78`) is a schema pass over the whole run and never opens
  `context-brief.md`, the file its row is about.
- A pass of canonicalize over a directory it has settled is harmless unless it dies inside a write: every file with a record in
  scope is written back (`canonicalize.py:459-465`), which truncates it first. The docstring's "idempotent" is about what is written.
- The tier gate takes a missing file for no error (`cli.py:84-99`): a tier whose lenses all died passes.
- `_members` says it mirrors `cluster-candidates.yaml` (`apply.py:236-238`), but the adjudicator is skipped on
  resume while the candidates are computed anew; `merged_from` may list records that do not exist.
- `enumerate.py:3` and `:68` speak of acyclic paths. No edge is repeated, but a node may be: a path may go
  round a cycle, and the detour's findings add to its severity and lift it above the direct path.
- `truncated_pairs` also counts a pair that has exactly `max_paths_per_pair` paths and lost none (`cli.py:917`).
- The cut per pair comes before the choice of risks, over all paths: a risk-eligible path can fall behind
  more severe ones that are mitigated or hardly feasible, and the pair is then flagged but names no risk.
- The id of a merged record hashes title and first locator only (`apply.py:311`).
- Source severities are collected by goal (`apply.py:345`), so the last source of a goal wins.
- The drift check hashes five files (`audit.py:481`).
- `attack_path/findings.py:198` counts every path finding that was not kept; the text emitted with the count (line 234) calls them
  "additional risk-eligible attack path(s)", while the docstring at lines 138-141 has them right.
- `synthesis/apply.py:402` takes the maximum of the maturities before the verdicts are applied, so a stale capability keeps
  its maturity inside a merged record; the docstring at lines 18-22 says each is downgraded. The model has the code's order.
- After a cycle, a container's column depends on the order of the edges' ids; nothing says that it should not.
- The stubs between ports and corridors have no lanes, and two of them can coincide: level ones of crossing edges between boxes of equal
  heights, and upright ones too, at a port's x, which `components.jsx:841` ("so parallel legs in one corridor stay distinct") does not say but a reader
  may take it to. With six containers of 77 pixels in the order of their numbers and the edges 1-2, 2-1, 1-4, 1-3, 1-5, 6-5 and 4-5, two
  upright lines run on one another for some 16 pixels; on the run's backbones of four no upright lines do. So can the legs of two lines sent round a box by one gutter.
  The test of one fixture (`src/report-template/.build/test/c4_solve_routes.test.mjs`) finds no collinear overlap there.
- The fallback is never drawn, and the second detour never tried, while boxes stand sixteen pixels apart (`RoutesClear`): the comment at
  `components.jsx:858-859` has the guard for larger backbones, but only taller boxes can need it. The search for a free band
  (`components.jsx:827-831`) likewise ends at its first step.
- The page never forgets `focusPathId` (`app.jsx:63`): opening the Attack paths tab again selects the path of
  the last link once more.
- A tap on a node that no path touches lights its neighbours, but while a path is selected the effect that follows
  clears them (`components.jsx:497`, `:510`).
- `Findings.jsx:36` ranks the first tier 99, since `0 || 99` is 99; line 32 sorts `data.findings` in place when no filter is set; its
  toolbar is a component declared inside the render (line 43), so that each keystroke mounts a new search field.
- The branch of the focus effect for a finding-free path (`screens/AttackPaths.jsx:34`) is not reachable from a strip: only a path that is a
  risk has one, and severities come from finding edges.

## Not modelled

- Report build, manifest and the audit's other checks; the attack-path graph's construction from inventories,
  threat models and findings, and the blocked builder; C4 and inventory
  assembly; threat-model dispatch; domain improvements drafting: in the plan.
- Parsing, rendering and text similarity: conversions no property is about. Where their
  outcome matters it is a free choice (signals, file qualities, derived ids).
- Reference-data refresh and its download client: maintainers' tools, not part of a run.
- Linters, `summary.py`, `manual_audit.py`, run scaffolding: stateless, or run
  once before or after everything else.
- The page's other screens (Overview, Coverage, Capabilities, Annexes, Threat model, Start here) and the tweaks panel: renderings of
  data, with at most a list's own filter. Of the modelled ones, labels and their placing, rounded corners, hovering, the drill and
  the zoom. Of the repository's JavaScript by far the most lines are the generated `data.js` of the template and of the examples
  (some 135,000 of 140,000), which hold a report's data and no behaviour: no model can stand for them.
- Agents and the runner: outside `src/`; modelled as external from what the code asks of them.

## Plan

Done: `Canonicalize`, `GauntletRun` with `RunContract`, `ClusterCandidates`, `Synthesis`,
`AttackPaths`, `C4Backbone` with `C4Routes`, `ReportPage` with `AttackPathsScreen` and `C4EdgeLayer`, and their proofs.

Next, in this order:

1. `ReportBuild`: `build_report`, `emit.py` (atomic `data.js`, in-place bundle, manifest last),
   `hash_dir`, the audit's drift check; crash between any two writes; an abstract `Manifest` contract
   (an audited bundle matches the files hashed) and where the five files fall short of it.
2. `AttackGraph`: the construction of the graph (`attack_path/build.py`), crown jewels no asset realizes, and the
   blocked builder that leaves old graph files beside a new findings file.
3. `SeverityRules`: severities, disagreement rows and confidence of merges as pure operators, added to
   `Synthesis`' merge; the goal-keyed collection checked against every source order.
4. `Coverage`: rollup's matrix, gaps and metrics over a corpus; ties the tier gate's missing-file case to a
   coverage gap.
5. `ValidatePasses`: the passes and the options that select them, so that `Failing` in
   `GauntletRun` becomes a consequence.
6. `AssembleC4` and `AssembleInventory`: fragments in any order against one result; acyclic containment.
7. `ThreatModelDispatch`, `DraftImprovements`.

Proofs next: the theorems of the modules above as they are written.
