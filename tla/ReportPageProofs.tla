--------------------------- MODULE ReportPageProofs ---------------------------
(***************************************************************************)
(* The report's page, for any paths, findings, filters and overlays: what  *)
(* is selected is listed, the graph follows the list, links lead where     *)
(* they say, and lines drawn to boxes that have moved are awaited.         *)
(***************************************************************************)
EXTENDS ReportPage, TLAPS

SelectionInv == selectedPath # None => selectedPath \in Listed

\* Once the build effect has run, the graph is the filter's.
GraphInv ==
    effects \notin {Mount, <<"build", "highlight">>} /\ graph # None =>
      graph = Effective(findingsOnly)

\* Once the highlight effect has run, the graph lights the selection.
LightInv ==
    effects \in {<<"focus">>, <<>>} /\ graph # None =>
      IF selectedPath = None THEN light \notin Paths ELSE light = selectedPath

ScreenInv == ScreenTypeOK /\ SelectionInv /\ GraphInv /\ LightInv

\* The focus effect of a new screen is still to run.
Unfocused == effects \in {Mount, <<"highlight", "focus">>, <<"focus">>}

\* What a link named is on its way, or there.
LinkInv ==
    /\ asked \in Findings => tab = "findings" /\ asked \in kept /\ chosen = asked
    /\ asked \in Paths =>
         /\ tab = "attack_paths" /\ focus = asked /\ asked \in FindingPaths
         /\ Unfocused \/ (selectedPath = asked /\ PairOf[asked] \in open)

\* Lines that are behind the boxes are going to be measured.
LinesInv == tab = "c4" /\ drawn # Now => redraw \/ timer \/ resized \/ fonts = "shown"

\* What the page itself holds; a screen that is not on the page has lost its state.
TabsInv ==
    /\ tab \in Tabs /\ layout \in Layouts /\ kept \in Filters
    /\ chosen \in FindingIds \cup {None} /\ asked \in FindingIds \cup Paths \cup {None}
    /\ tab # "findings" => kept = Findings
    /\ tab # "attack_paths" => /\ effects = <<>> /\ graph = None
                               /\ selectedPath = None /\ open = {}

\* What the layer keeps: its types, its blank state off the page, and LinesInv.
LayerInv ==
    /\ LayerTypeOK /\ LinesInv
    /\ tab # "c4" => ~redraw /\ ~frame /\ ~timer /\ ~resized /\ drawn = Blank

PageInv == TabsInv /\ ScreenInv /\ LinkInv /\ LayerInv

-----------------------------------------------------------------------------
(* The Attack paths screen.                                                *)

LEMMA PathFacts ==
  /\ FindingPaths \subseteq Paths
  /\ \A only \in BOOLEAN : ListedWith(only) \subseteq Paths /\ Effective(only) \in BOOLEAN
  /\ \A only \in BOOLEAN : FindingPaths \subseteq ListedWith(only)
  /\ \A only \in BOOLEAN : ListedWith(Effective(only)) = ListedWith(only)
BY DEF FindingPaths, ListedWith, Effective

\* What is left of a queue of effects when its first has run.
LEMMA QueueFacts ==
  /\ Head(Mount) = "build" /\ Tail(Mount) = <<"highlight", "focus">>
  /\ Head(<<"highlight", "focus">>) = "highlight" /\ Tail(<<"highlight", "focus">>) = <<"focus">>
  /\ Head(<<"build", "highlight">>) = "build" /\ Tail(<<"build", "highlight">>) = <<"highlight">>
  /\ Head(<<"highlight">>) = "highlight" /\ Tail(<<"highlight">>) = <<>>
  /\ Head(<<"focus">>) = "focus" /\ Tail(<<"focus">>) = <<>>
<1>1. Head(Mount) = "build" /\ Tail(Mount) = <<"highlight", "focus">>
  BY DEF Mount
<1>2. Head(<<"highlight", "focus">>) = "highlight" /\ Tail(<<"highlight", "focus">>) = <<"focus">>
  OBVIOUS
<1>3. Head(<<"build", "highlight">>) = "build" /\ Tail(<<"build", "highlight">>) = <<"highlight">>
  OBVIOUS
<1>4. Head(<<"highlight">>) = "highlight" /\ Tail(<<"highlight">>) = <<>>
  OBVIOUS
<1>5. Head(<<"focus">>) = "focus" /\ Tail(<<"focus">>) = <<>>
  OBVIOUS
<1> QED BY <1>1, <1>2, <1>3, <1>4, <1>5

\* A rendered selection is listed; what it changes in the graph is left to effects.
LEMMA RenderKeepsScreen ==
  ASSUME ScreenTypeOK, SelectionInv, GraphInv, effects \in {<<"focus">>, <<>>},
         NEW sel \in Paths \cup {None}, NEW only \in BOOLEAN, NEW opened,
         sel # None => sel \in ListedWith(only),
         Render(sel, only, opened), focus' = focus, graph' = graph,
         light' \in Paths \cup Nodes \cup {None},
         graph # None /\ sel = selectedPath =>
           IF sel = None THEN light' \notin Paths ELSE light' = sel
  PROVE  ScreenInv'
<1>1. effects' \in {<<"build", "highlight">>, <<"highlight">>, <<>>}
  BY DEF Render
<1>2. ScreenTypeOK'
  BY <1>1 DEF ScreenTypeOK, Render, Queues, PairsListed, ListedWith, Effective
<1>3. SelectionInv'
  BY DEF Render, SelectionInv, Listed, ListedWith, Effective
<1>4. GraphInv'
  <2>1. CASE sel = selectedPath /\ only = findingsOnly
    BY <2>1 DEF Render, GraphInv, Effective, Mount
  <2>2. CASE ~(sel = selectedPath /\ only = findingsOnly)
    <3>1. CASE Effective(only) # Effective(findingsOnly)
      <4>1. effects' = <<"build", "highlight">>
        BY <2>2, <3>1 DEF Render
      <4> QED BY <4>1 DEF GraphInv
    <3>2. CASE Effective(only) = Effective(findingsOnly)
      <4>1. Effective(findingsOnly)' = Effective(findingsOnly)
        BY <3>2 DEF Render, Effective
      <4>2. effects \notin {Mount, <<"build", "highlight">>}
        BY DEF Mount
      <4> QED BY <4>1, <4>2 DEF GraphInv
    <3> QED BY <3>1, <3>2
  <2> QED BY <2>1, <2>2
<1>5. LightInv'
  <2>1. CASE sel = selectedPath /\ only = findingsOnly
    BY <2>1 DEF Render, LightInv
  <2>2. CASE ~(sel = selectedPath /\ only = findingsOnly)
    <3>1. effects' \in {<<"build", "highlight">>, <<"highlight">>}
      BY <2>2 DEF Render
    <3> QED BY <3>1 DEF LightInv
  <2> QED BY <2>1, <2>2
<1> QED BY <1>2, <1>3, <1>4, <1>5 DEF ScreenInv

\* What the reader does on the screen.
LEMMA ReadKeepsScreen ==
  ASSUME ScreenInv, Read
  PROVE  ScreenInv'
<1> USE PathsAssumption
<1>1. effects = <<>> /\ ScreenTypeOK /\ SelectionInv /\ GraphInv /\ LightInv
  BY DEF Read, ScreenInv
<1>2. CASE Toggle
  BY <1>1, <1>2, RenderKeepsScreen DEF Toggle, picture, ScreenTypeOK, LightInv
<1>3. CASE TapBackground
  <2>1. light' \notin Paths
    BY <1>3 DEF TapBackground
  <2> QED BY <1>1, <1>3, <2>1, RenderKeepsScreen DEF TapBackground, ScreenTypeOK
<1>4. ASSUME NEW pair, FoldPair(pair) PROVE ScreenInv'
  <2>1. ScreenTypeOK'
    BY <1>1, <1>4 DEF FoldPair, ScreenTypeOK, picture, PairsListed, ListedWith, Effective
  <2>2. SelectionInv' /\ GraphInv' /\ LightInv'
    BY <1>1, <1>4 DEF FoldPair, SelectionInv, GraphInv, LightInv, picture, Listed,
                      ListedWith, Effective
  <2> QED BY <2>1, <2>2 DEF ScreenInv
<1>5. ASSUME NEW p \in Paths, ClickRow(p) PROVE ScreenInv'
  <2> DEFINE sel == IF selectedPath = p THEN None ELSE p
  <2>1. sel \in Paths \cup {None} /\ (sel # None => sel \in ListedWith(findingsOnly))
    BY <1>5 DEF ClickRow, Listed
  <2>2. sel # selectedPath
    OBVIOUS
  <2>3. Render(sel, findingsOnly, open) /\ light' = light /\ graph' = graph /\ focus' = focus
    BY <1>5 DEF ClickRow, picture
  <2> HIDE DEF sel
  <2> QED BY <1>1, <2>1, <2>2, <2>3, RenderKeepsScreen DEF ScreenTypeOK
<1>6. ASSUME NEW n \in Nodes, TapNode(n) PROVE ScreenInv'
  <2> DEFINE through == {p \in PathsDrawn : n \in NodesOf[p]}
  <2>1. PathsDrawn = Listed
    BY <1>1, <1>6, PathFacts DEF TapNode, GraphInv, PathsDrawn, Listed, ScreenTypeOK, Mount
  <2>2. graph' = graph /\ focus' = focus
    BY <1>6 DEF TapNode
  <2>3. ASSUME NEW p \in through, Render(p, findingsOnly, open), light' = light
        PROVE  ScreenInv'
    <3>1. p \in Paths /\ p \in ListedWith(findingsOnly)
      BY <1>1, <2>1, <2>3, PathFacts DEF Listed, ScreenTypeOK
    <3>2. graph # None /\ p = selectedPath => light' = p
      BY <1>1, <2>3, <3>1 DEF LightInv
    <3> QED BY <1>1, <2>2, <2>3, <3>1, <3>2, RenderKeepsScreen DEF ScreenTypeOK
  <2>4. ASSUME Render(None, findingsOnly, open), light' = n
        PROVE  ScreenInv'
    BY <1>1, <2>2, <2>4, RenderKeepsScreen DEF ScreenTypeOK
  <2> QED BY <1>6, <2>3, <2>4 DEF TapNode
<1> QED BY <1>2, <1>3, <1>4, <1>5, <1>6 DEF Read

\* The effects.
LEMMA EffectKeepsScreen ==
  ASSUME ScreenInv, RunEffect
  PROVE  ScreenInv'
<1> USE PathsAssumption
<1>1. ScreenTypeOK /\ SelectionInv /\ GraphInv /\ LightInv
  BY DEF ScreenInv
<1>2. CASE Build
  <2>1. \/ effects = Mount /\ effects' = <<"highlight", "focus">>
        \/ effects = <<"build", "highlight">> /\ effects' = <<"highlight">>
    BY <1>1, <1>2, QueueFacts DEF Build, IsNextEffect, ScreenTypeOK, Queues
  <2>2. ScreenTypeOK'
    BY <1>1, <1>2, <2>1, PathFacts
       DEF Build, ScreenTypeOK, Queues, screen, PairsListed, ListedWith, Effective
  <2>3. SelectionInv' /\ GraphInv'
    BY <1>1, <1>2 DEF Build, SelectionInv, GraphInv, screen, Listed, ListedWith, Effective
  <2>4. LightInv'
    BY <2>1 DEF LightInv
  <2> QED BY <2>2, <2>3, <2>4 DEF ScreenInv
<1>3. CASE Highlight
  <2>1. \/ effects = <<"highlight", "focus">> /\ effects' = <<"focus">>
        \/ effects = <<"highlight">> /\ effects' = <<>>
    BY <1>1, <1>3, QueueFacts DEF Highlight, IsNextEffect, ScreenTypeOK, Queues
  <2>2. ScreenTypeOK'
    BY <1>1, <1>3, <2>1
       DEF Highlight, ScreenTypeOK, Queues, screen, PairsListed, ListedWith, Effective
  <2>3. effects \notin {Mount, <<"build", "highlight">>}
    BY <2>1 DEF Mount
  <2>4. SelectionInv' /\ GraphInv'
    BY <1>1, <1>3, <2>3
       DEF Highlight, SelectionInv, GraphInv, screen, Listed, ListedWith, Effective
  <2>5. LightInv'
    BY <1>1, <1>3, PathFacts
       DEF Highlight, LightInv, SelectionInv, screen, ScreenTypeOK, Listed
  <2> QED BY <2>2, <2>4, <2>5 DEF ScreenInv
<1>4. CASE Focus
  <2>1. effects = <<"focus">>
    BY <1>1, <1>4 DEF Focus, IsNextEffect, ScreenTypeOK, Queues, Mount
  <2>2. CASE focus = None
    <3>1. effects' = <<>> /\ UNCHANGED <<focus, screen, picture>>
      BY <1>4, <2>2 DEF Focus
    <3>2. ScreenTypeOK'
      BY <1>1, <3>1
         DEF ScreenTypeOK, Queues, screen, picture, PairsListed, ListedWith, Effective
    <3>3. SelectionInv' /\ GraphInv' /\ LightInv'
      BY <1>1, <2>1, <3>1
         DEF SelectionInv, GraphInv, LightInv, screen, picture, Listed, ListedWith,
             Effective, Mount
    <3> QED BY <3>2, <3>3 DEF ScreenInv
  <2>3. CASE focus # None
    <3> DEFINE only == findingsOnly /\ focus \in FindingPaths
    <3>1. PICK opened : Render(focus, only, opened)
      BY <1>4, <2>3 DEF Focus
    <3>2. focus' = focus /\ graph' = graph /\ light' = light
      BY <1>4 DEF Focus, picture
    <3>3. focus \in Paths /\ only \in BOOLEAN
      BY <1>1, <2>3 DEF ScreenTypeOK
    <3>4. focus \in ListedWith(only)
      BY <3>3 DEF ListedWith, Effective
    <3>5. graph # None /\ focus = selectedPath => light' = focus
      BY <1>1, <2>1, <2>3, <3>2 DEF LightInv
    <3> HIDE DEF only
    <3> QED BY <1>1, <2>1, <2>3, <3>1, <3>2, <3>3, <3>4, <3>5, RenderKeepsScreen
              DEF ScreenTypeOK
  <2> QED BY <2>2, <2>3
<1> QED BY <1>2, <1>3, <1>4 DEF RunEffect

LEMMA ScreenStutters ==
  ASSUME ScreenInv, UNCHANGED pathsVars
  PROVE  ScreenInv'
<1>1. ScreenTypeOK'
  BY DEF ScreenInv, pathsVars, screen, picture, ScreenTypeOK, Queues, PairsListed,
         ListedWith, Effective
<1>2. SelectionInv' /\ GraphInv' /\ LightInv'
  BY DEF ScreenInv, pathsVars, screen, picture, SelectionInv, GraphInv, LightInv, Listed,
         ListedWith, Effective
<1> QED BY <1>1, <1>2 DEF ScreenInv

-----------------------------------------------------------------------------
(* The lines of the C4 view.                                               *)

LEMMA BlankFacts == Blank \in [boxes : -1..MaxMoves, overlay : Overlays] /\ None \in Overlays
BY FindingsAssumption, MovesAssumption DEF Blank

LEMMA LayerSteps ==
  ASSUME LayerInv, tab' = tab,
         \/ tab = "c4" /\ (Resize \/ Settling \/ \E o \in Overlays : ChooseOverlay(o))
         \/ Redraw \/ Frame \/ Timer \/ ResizeTimer \/ FontsShown
         \/ FontsReady(tab = "c4")
  PROVE  LayerInv'
<1> USE MovesAssumption DEF LayerInv, LayerTypeOK, LinesInv, Now, timers
<1>1. Now \in [boxes : -1..MaxMoves, overlay : Overlays]
  OBVIOUS
<1>2. CASE tab = "c4" /\ Resize
  BY <1>2 DEF Resize, Move
<1>3. CASE tab = "c4" /\ Settling
  BY <1>3 DEF Settling, Move
<1>4. ASSUME NEW o \in Overlays, tab = "c4", ChooseOverlay(o) PROVE LayerInv'
  BY <1>4 DEF ChooseOverlay
<1>5. CASE Redraw
  BY <1>1, <1>5 DEF Redraw
<1>6. CASE Frame
  BY <1>1, <1>6 DEF Frame
<1>7. CASE Timer
  BY <1>1, <1>7 DEF Timer
<1>8. CASE ResizeTimer
  BY <1>1, <1>8 DEF ResizeTimer
<1>9. CASE FontsShown
  BY <1>9 DEF FontsShown, Move, Blank
<1>10. CASE FontsReady(tab = "c4")
  BY <1>1, <1>10 DEF FontsReady
<1> QED BY <1>2, <1>3, <1>4, <1>5, <1>6, <1>7, <1>8, <1>9, <1>10

LEMMA LayerStutters ==
  ASSUME LayerInv, tab' = tab, UNCHANGED layerVars
  PROVE  LayerInv'
BY DEF LayerInv, LayerTypeOK, LinesInv, Now, Blank, layerVars, timers

-----------------------------------------------------------------------------
(* The page.                                                               *)

LEMMA Kinds ==
  /\ None \notin Findings /\ None \notin Paths /\ None \notin FindingIds
  /\ Findings \subseteq FindingIds /\ FindingIds \cap Paths = {}
  /\ \A p \in Paths : FindingsOn[p] \subseteq FindingIds
BY PathsAssumption, FindingsAssumption DEF FindingIds

LEMMA InitPageInv == Init => PageInv
<1> SUFFICES ASSUME Init PROVE PageInv
  OBVIOUS
<1>1. TabsInv
  BY Kinds, FindingsAssumption DEF Init, TabsInv, Tabs, Layouts
<1>2. ScreenInv
  BY PathsAssumption
     DEF Init, ScreenInv, ScreenTypeOK, SelectionInv, GraphInv, LightInv, Queues
<1>3. LinkInv
  BY <1>1, Kinds DEF Init, LinkInv
<1>4. LayerInv
  <2>1. {redraw, frame, timer, resized} \subseteq BOOLEAN
    BY DEF Init
  <2>2. LayerTypeOK
    BY <2>1, BlankFacts, MovesAssumption DEF Init, LayerTypeOK
  <2> QED BY <2>2 DEF Init, LayerInv, LinesInv
<1> QED BY <1>1, <1>2, <1>3, <1>4 DEF PageInv

\* A screen that is opened starts anew.
LEMMA OpenKeeps ==
  ASSUME PageInv, NEW t \in Tabs, Open(t), layout' = layout,
         chosen' \in FindingIds \cup {None}, asked' \in FindingIds \cup Paths \cup {None},
         focus' \in Paths \cup {None}
  PROVE  TabsInv' /\ ScreenInv' /\ LayerInv'
<1> USE DEF PageInv
<1>1. TabsInv'
  BY FindingsAssumption DEF TabsInv, Open, Reset
<1>2. effects' \in {Mount, <<>>}
  BY DEF Open
<1>3. ScreenInv'
  BY <1>2, PathsAssumption
     DEF ScreenInv, ScreenTypeOK, SelectionInv, GraphInv, LightInv, Queues, Open, Reset
<1>4. LayerInv'
  <2>1. LayerReset(None, t = "c4") /\ tab' = t
    BY DEF Open
  <2>2. {redraw', frame', timer', resized'} \subseteq BOOLEAN
    BY <2>1 DEF LayerReset
  <2>3. LayerTypeOK'
    BY <2>1, <2>2, BlankFacts, MovesAssumption DEF LayerInv, LayerTypeOK, LayerReset
  <2>4. LinesInv'
    BY <2>1 DEF LinesInv, LayerReset
  <2>5. tab' # "c4" => ~redraw' /\ ~frame' /\ ~timer' /\ ~resized' /\ drawn' = Blank
    BY <2>1 DEF LayerReset
  <2> QED BY <2>3, <2>4, <2>5 DEF LayerInv, Blank
<1> QED BY <1>1, <1>3, <1>4

LEMMA GoToKeeps ==
  ASSUME PageInv, NEW t \in Tabs, GoTo(t)
  PROVE  PageInv'
<1>1. TabsInv' /\ ScreenInv' /\ LayerInv'
  BY OpenKeeps DEF GoTo, PageInv, TabsInv, ScreenInv, ScreenTypeOK
<1>2. LinkInv'
  BY Kinds DEF GoTo, LinkInv
<1> QED BY <1>1, <1>2 DEF PageInv

LEMMA OpenFindingKeeps ==
  ASSUME PageInv, NEW f \in FindingIds, OpenFinding(f)
  PROVE  PageInv'
<1>1. Open("findings") /\ "findings" \in Tabs /\ layout' = layout /\ focus' = focus
      /\ chosen' = f /\ asked' = f
  BY DEF OpenFinding, Tabs
<1>2. TabsInv' /\ ScreenInv' /\ LayerInv'
  BY <1>1, OpenKeeps DEF PageInv, ScreenInv, ScreenTypeOK
<1>3. LinkInv'
  BY <1>1, Kinds DEF Open, LinkInv
<1> QED BY <1>2, <1>3 DEF PageInv

LEMMA OpenPathKeeps ==
  ASSUME PageInv, NEW f \in Findings, OpenPath(f)
  PROVE  PageInv'
<1>1. PathOf[f] \in FindingPaths /\ PathOf[f] \in Paths
  BY FindingsAssumption, PathFacts DEF OpenPath
<1>2. Open("attack_paths") /\ "attack_paths" \in Tabs /\ layout' = layout
      /\ chosen' = chosen /\ asked' = PathOf[f] /\ focus' = PathOf[f]
  BY DEF OpenPath, Tabs
<1>3. TabsInv' /\ ScreenInv' /\ LayerInv'
  BY <1>1, <1>2, OpenKeeps DEF PageInv, TabsInv
<1>4. tab' = "attack_paths" /\ effects' = Mount
  BY <1>2 DEF Open
<1>5. LinkInv'
  BY <1>1, <1>2, <1>4, Kinds DEF LinkInv, Unfocused
<1> QED BY <1>3, <1>5 DEF PageInv

LEMMA FindingsScreenKeeps ==
  ASSUME PageInv, tab = "findings", tab' = tab, UNCHANGED <<pathsVars, layerVars>>,
         layout' \in Layouts, kept' \in Filters, chosen' \in FindingIds \cup {None},
         asked' = None \/ UNCHANGED <<asked, kept, chosen>>
  PROVE  PageInv'
<1>1. ScreenInv' /\ LayerInv'
  BY ScreenStutters, LayerStutters DEF PageInv
<1>2. TabsInv'
  BY DEF PageInv, TabsInv, pathsVars, screen, picture
<1>3. LinkInv'
  BY Kinds DEF PageInv, LinkInv, Unfocused, pathsVars, screen
<1> QED BY <1>1, <1>2, <1>3 DEF PageInv

LEMMA ReadPathsKeeps ==
  ASSUME PageInv, ReadPaths
  PROVE  PageInv'
<1>1. ScreenInv' /\ LayerInv'
  BY ReadKeepsScreen, LayerStutters DEF PageInv, ReadPaths
<1>2. TabsInv' /\ LinkInv'
  BY Kinds DEF PageInv, ReadPaths, TabsInv, LinkInv
<1> QED BY <1>1, <1>2 DEF PageInv

\* The effects bring a focused path's selection about, and leave it.
LEMMA RunEffectsKeeps ==
  ASSUME PageInv, RunEffects
  PROVE  PageInv'
<1>1. RunEffect /\ UNCHANGED <<tab, layout, chosen, kept, asked, layerVars>>
  BY DEF RunEffects, page
<1>2. ScreenInv' /\ LayerInv'
  BY <1>1, EffectKeepsScreen, LayerStutters DEF PageInv
<1>3. tab = "attack_paths" /\ effects \in Queues
  <2>1. effects # <<>>
    BY <1>1 DEF RunEffect, Build, Highlight, Focus, IsNextEffect
  <2> QED BY <2>1 DEF PageInv, TabsInv, ScreenInv, ScreenTypeOK
<1>4. TabsInv'
  BY <1>1, <1>3 DEF PageInv, TabsInv
<1>5. LinkInv'
  <2> SUFFICES ASSUME asked \in Paths
               PROVE  Unfocused' \/ (selectedPath' = asked /\ PairOf[asked] \in open')
    <3>1. focus' = focus
      BY <1>1 DEF RunEffect, Build, Highlight, Focus
    <3> QED BY <1>1, <3>1 DEF PageInv, LinkInv
  <2>1. /\ focus = asked /\ asked \in FindingPaths /\ focus # None
        /\ Unfocused \/ (selectedPath = asked /\ PairOf[asked] \in open)
    BY Kinds DEF PageInv, LinkInv
  <2>2. CASE Build
    <3>1. effects = Mount => effects' = <<"highlight", "focus">>
      BY <2>2, QueueFacts DEF Build
    <3>2. effects \in {Mount, <<"build", "highlight">>}
      BY <1>3, <2>2, QueueFacts DEF Build, IsNextEffect, Queues
    <3> QED BY <2>1, <2>2, <3>1, <3>2 DEF Build, Unfocused, screen, Mount
  <2>3. CASE Highlight
    <3>1. effects = <<"highlight", "focus">> => effects' = <<"focus">>
      BY <2>3, QueueFacts DEF Highlight
    <3>2. effects \in {<<"highlight", "focus">>, <<"highlight">>}
      BY <1>3, <2>3, QueueFacts DEF Highlight, IsNextEffect, Queues
    <3> QED BY <2>1, <2>3, <3>1, <3>2 DEF Highlight, Unfocused, screen, Mount
  <2>4. CASE Focus
    <3> DEFINE only == findingsOnly /\ focus \in FindingPaths
    <3>1. focus \in Listed
      BY <2>1, PathFacts DEF Listed, ListedWith
    <3>2. Render(focus, only, open \cup {PairOf[focus]})
      BY <2>1, <2>4, <3>1 DEF Focus
    <3>3. focus \in ListedWith(only)
      BY <2>1, PathFacts DEF ListedWith
    <3>4. selectedPath' = focus /\ PairOf[focus] \in open'
      BY <3>2, <3>3 DEF Render, PairsListed
    <3> QED BY <2>1, <3>4
  <2> QED BY <1>1, <2>2, <2>3, <2>4 DEF RunEffect
<1> QED BY <1>2, <1>4, <1>5 DEF PageInv

LEMMA LayerKeeps ==
  ASSUME PageInv, UseC4 \/ Measure \/ NextFrame \/ Late \/ AfterResize \/ FontsCome \/ FontsDone
  PROVE  PageInv'
<1>1. UNCHANGED <<tab, layout, chosen, kept, asked, pathsVars>>
  BY DEF UseC4, Measure, NextFrame, Late, AfterResize, FontsCome, FontsDone, page
<1>2. LayerInv'
  BY <1>1, LayerSteps
     DEF PageInv, UseC4, Measure, NextFrame, Late, AfterResize, FontsCome, FontsDone
<1>3. ScreenInv'
  BY <1>1, ScreenStutters DEF PageInv
<1>4. TabsInv' /\ LinkInv'
  BY <1>1 DEF PageInv, TabsInv, LinkInv, Unfocused, pathsVars, screen, picture
<1> QED BY <1>2, <1>3, <1>4 DEF PageInv

LEMMA NextKeepsPageInv == PageInv /\ [Next]_vars => PageInv'
<1> SUFFICES ASSUME PageInv, [Next]_vars PROVE PageInv'
  OBVIOUS
<1>1. ASSUME NEW left \in Filters, Filter(left) PROVE PageInv'
  BY <1>1, FindingsScreenKeeps DEF Filter, PageInv, TabsInv
<1>2. ASSUME NEW f \in Findings, SelectFinding(f) PROVE PageInv'
  BY <1>2, FindingsScreenKeeps, Kinds DEF SelectFinding, PageInv, TabsInv
<1>3. ASSUME NEW l \in Layouts, SetLayout(l) PROVE PageInv'
  BY <1>3, FindingsScreenKeeps DEF SetLayout, PageInv, TabsInv
<1>4. CASE UNCHANGED vars
  <2>1. ScreenInv' /\ LayerInv'
    BY <1>4, ScreenStutters, LayerStutters DEF PageInv, vars, page
  <2>2. TabsInv' /\ LinkInv'
    BY <1>4
       DEF PageInv, TabsInv, LinkInv, Unfocused, vars, page, pathsVars, screen, picture
  <2> QED BY <2>1, <2>2 DEF PageInv
<1> QED
  BY <1>1, <1>2, <1>3, <1>4, GoToKeeps, OpenFindingKeeps, OpenPathKeeps, ReadPathsKeeps,
     RunEffectsKeeps, LayerKeeps DEF Next

LEMMA Invariant == Spec => []PageInv
BY InitPageInv, NextKeepsPageInv, PTL DEF Spec

-----------------------------------------------------------------------------
(* Results.                                                                *)

\* The screens' variables keep their types, and a screen that is not on the page keeps
\* nothing (the unmounts of app.jsx).
THEOREM PageTypeCorrect == Spec => []TypeOK
<1>1. PageInv => TypeOK
  BY DEF PageInv, TabsInv, ScreenInv, LayerInv, TypeOK
<1> QED BY Invariant, <1>1, PTL

\* The findings-only filter never hides the selected path.
THEOREM SelectionShown == Spec => []SelectionIsShown
<1>1. PageInv => SelectionIsShown
  BY DEF PageInv, ScreenInv, SelectionInv, SelectionIsShown
<1> QED BY Invariant, <1>1, PTL

\* When no effect is waiting, the graph is the one of the filter and lights the
\* selected path.
THEOREM HighlightFollows == Spec => []HighlightFollowsSelection
<1>1. PageInv => HighlightFollowsSelection
  BY DEF PageInv, ScreenInv, GraphInv, LightInv, HighlightFollowsSelection, Mount
<1> QED BY Invariant, <1>1, PTL

\* A link to a finding of the report, or to a path, ends where it leads.
THEOREM LinksLead == Spec => []LinksLeadToTheirTarget
<1>1. ASSUME PageInv PROVE LinksLeadToTheirTarget
  <2> SUFFICES ASSUME Settled PROVE LinksLeadToTheirTarget
    BY DEF LinksLeadToTheirTarget
  <2>1. asked \in Findings => tab = "findings" /\ asked \in kept /\ Detail = asked
    BY <1>1 DEF PageInv, LinkInv, Detail
  <2>2. ~Unfocused
    BY DEF Settled, Unfocused, Mount
  <2>3. asked \in Paths => /\ tab = "attack_paths" /\ selectedPath = asked
                           /\ asked \in Listed /\ PairOf[asked] \in open
    BY <1>1, <2>2, Kinds DEF PageInv, LinkInv, ScreenInv, SelectionInv
  <2> QED BY <2>1, <2>3 DEF LinksLeadToTheirTarget
<1> QED BY Invariant, <1>1, PTL

\* The safety half of EdgesCatchUp: at no time are lines drawn to where boxes no longer
\* are without a measurement on its way.
THEOREM StaleLinesAreAwaited == Spec => []LinesInv
<1>1. PageInv => LinesInv
  BY DEF PageInv, LayerInv
<1> QED BY Invariant, <1>1, PTL
=============================================================================
