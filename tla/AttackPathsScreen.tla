-------------------------- MODULE AttackPathsScreen --------------------------
(***************************************************************************)
(* The Attack paths screen of the report (screens/AttackPaths.jsx) and the *)
(* asset graph it shows (GraphView of components.jsx): a list of paths     *)
(* folded by pair, a findings-only filter, and a graph that shares the     *)
(* list's selection.                                                       *)
(*                                                                         *)
(* A handler changes the screen's state and the page is rendered from it   *)
(* at once; what React runs after that, the effects, waits in a queue, the *)
(* graph's before the screen's.  Nobody acts on the page in between.       *)
(***************************************************************************)
EXTENDS Integers, Sequences, SequencesExt

CONSTANTS
    PathList,          \* the enumerated paths, in the order of the pairs
    FindingsOn,        \* the ids on a path's edges of the findings that made them
    PairOf,            \* the pair a path is listed under
    NodesOf,           \* the nodes a path's edges touch
    LooseNodes,        \* nodes of the asset graph that no path touches
    None

Paths == Range(PathList)
FindingPaths == {p \in Paths : FindingsOn[p] # {}}
Nodes == UNION {NodesOf[p] : p \in Paths} \cup LooseNodes

ASSUME PathsAssumption ==
    /\ IsInjective(PathList)
    /\ DOMAIN FindingsOn = Paths /\ DOMAIN PairOf = Paths /\ DOMAIN NodesOf = Paths
    /\ None \notin Paths \cup Nodes /\ Paths \cap Nodes = {}

VARIABLES
    focus,             \* focusPathId: the path another screen asked for last
    selectedPath, findingsOnly,
    open,              \* the pairs whose <details> is open: kept by the DOM alone
    graph,             \* the filter the graph was built for; None: no graph
    light,             \* the path or the node whose surroundings the graph lights
    effects            \* the effects still to run

screen == <<selectedPath, findingsOnly, open>>
picture == <<graph, light>>
pathsVars == <<focus, screen, picture, effects>>

-----------------------------------------------------------------------------
(* Rendering.                                                              *)

Effective(only) == only /\ FindingPaths # {}
ListedWith(only) == IF Effective(only) THEN FindingPaths ELSE Paths
Listed == ListedWith(findingsOnly)
PairsListed(only) == {PairOf[p] : p \in ListedWith(only)}

Mount == <<"build", "highlight", "focus">>
Queues == {Mount, <<"highlight", "focus">>, <<"focus">>,
           <<"build", "highlight">>, <<"highlight">>, <<>>}

\* The screen as it is put on the page, or taken off it.
Reset ==
    /\ selectedPath' = None /\ findingsOnly' = TRUE /\ open' = {}
    /\ graph' = None /\ light' = None

\* A new state is rendered: a pair left without paths goes, its <details> with it.  The
\* graph is built again if the filter changed, and lit again in any case, since its list
\* of paths is a new one each time.
Render(sel, only, opened) ==
    /\ selectedPath' = sel /\ findingsOnly' = only
    /\ open' = opened \cap PairsListed(only)
    /\ effects' = IF sel = selectedPath /\ only = findingsOnly THEN <<>>
                  ELSE IF Effective(only) # Effective(findingsOnly)
                       THEN <<"build", "highlight">> ELSE <<"highlight">>

-----------------------------------------------------------------------------
(* Effects.                                                                *)

IsNextEffect(name) == effects # <<>> /\ Head(effects) = name

\* The graph's build effect: what was lit goes with the graph that was there.
Build ==
    /\ IsNextEffect("build")
    /\ graph' = Effective(findingsOnly)
    /\ light' = None
    /\ effects' = Tail(effects)
    /\ UNCHANGED <<focus, screen>>

\* Mutant of Highlight: with no path selected, what is lit stays.
HighlightNeverClears ==
    /\ IsNextEffect("highlight")
    /\ light' = IF selectedPath \in Listed THEN selectedPath ELSE light
    /\ effects' = Tail(effects)
    /\ UNCHANGED <<focus, screen, graph>>

Highlight ==
    /\ IsNextEffect("highlight")
    /\ light' = IF selectedPath \in Listed THEN selectedPath ELSE None
    /\ effects' = Tail(effects)
    /\ UNCHANGED <<focus, screen, graph>>

\* The focus effect: the path is selected and the filter taken off if it hides the path,
\* but the row is looked for on the page as it is before that is rendered.
Focus ==
    /\ IsNextEffect("focus")
    /\ IF focus = None
       THEN effects' = <<>> /\ UNCHANGED screen
       ELSE Render(focus, findingsOnly /\ focus \in FindingPaths,
                   IF focus \in Listed THEN open \cup {PairOf[focus]} ELSE open)
    /\ UNCHANGED <<focus, picture>>

-----------------------------------------------------------------------------
(* What the reader does.                                                   *)

\* Mutant of Toggle: the selection stays.
ToggleKeepsSelection ==
    /\ FindingPaths # {}
    /\ Render(selectedPath, ~findingsOnly, open)
    /\ UNCHANGED <<focus, picture>>

Toggle ==
    /\ FindingPaths # {}
    /\ Render(None, ~findingsOnly, open)
    /\ UNCHANGED <<focus, picture>>

\* The summary of a pair: the DOM's own doing, nothing is rendered.
FoldPair(pair) ==
    /\ pair \in PairsListed(findingsOnly)
    /\ open' = IF pair \in open THEN open \ {pair} ELSE open \cup {pair}
    /\ UNCHANGED <<focus, selectedPath, findingsOnly, picture, effects>>

ClickRow(p) ==
    /\ p \in Listed /\ PairOf[p] \in open
    /\ Render(IF selectedPath = p THEN None ELSE p, findingsOnly, open)
    /\ UNCHANGED <<focus, picture>>

\* The graph as built: its nodes, and the paths its handlers know.
PathsDrawn == ListedWith(graph)
NodesDrawn == IF graph THEN UNION {NodesOf[p] : p \in FindingPaths} ELSE Nodes

IsFirst(p, among) ==
    /\ p \in among
    /\ \A i, j \in DOMAIN PathList : PathList[i] = p /\ PathList[j] \in among => i <= j

\* A tap on a node selects the first path through it; there being none, it clears the
\* selection and lights the node's neighbours.
TapNode(n) ==
    LET through == {p \in PathsDrawn : n \in NodesOf[p]}
    IN  /\ graph # None /\ n \in NodesDrawn
        /\ \/ \E p \in through : IsFirst(p, through) /\ Render(p, findingsOnly, open)
                                  /\ UNCHANGED light
           \/ through = {} /\ Render(None, findingsOnly, open) /\ light' = n
        /\ UNCHANGED <<focus, graph>>

TapBackground ==
    /\ graph # None
    /\ light' = None
    /\ Render(None, findingsOnly, open)
    /\ UNCHANGED <<focus, graph>>

Read ==
    /\ effects = <<>>
    /\ \/ Toggle \/ TapBackground
       \/ \E pair \in {PairOf[p] : p \in Paths} : FoldPair(pair)
       \/ \E p \in Paths : ClickRow(p)
       \/ \E n \in Nodes : TapNode(n)

RunEffect == Build \/ Highlight \/ Focus

-----------------------------------------------------------------------------
(* Properties.                                                             *)

ScreenTypeOK ==
    /\ focus \in Paths \cup {None} /\ selectedPath \in Paths \cup {None}
    /\ findingsOnly \in BOOLEAN /\ open \subseteq PairsListed(findingsOnly)
    /\ graph \in BOOLEAN \cup {None} /\ light \in Paths \cup Nodes \cup {None}
    /\ effects \in Queues

\* Whatever mixture of links, filter clicks, row clicks and taps has led here, a selected
\* path is one the list shows: the filter never hides the selection (the toggle clears it,
\* the focus effect lifts the filter, taps reach listed paths only).
SelectionIsShown == effects = <<>> /\ selectedPath # None => selectedPath \in Listed

\* Once the effects have run, the graph on the page is the one of the filter, and it
\* lights the selected path; without a selection it lights no path at all.
HighlightFollowsSelection ==
    effects = <<>> /\ graph # None =>
      /\ graph = Effective(findingsOnly)
      /\ IF selectedPath = None THEN light \notin Paths ELSE light = selectedPath
=============================================================================
