------------------------------ MODULE ReportPage ------------------------------
(***************************************************************************)
(* The report's page (app.jsx) with the three screens that keep state and  *)
(* link to each other: Findings, Attack paths and the C4 view.  The page   *)
(* holds what was last asked for; a screen is put on the page when its tab *)
(* is opened and loses its own state when another is.                      *)
(***************************************************************************)
EXTENDS AttackPathsScreen, C4EdgeLayer

CONSTANTS
    FindingList,       \* the findings of the report, as the Findings screen sorts them
    Filters,           \* what search text and chips may leave of them
    PathOf,            \* the path a finding shows in its strip, or None
    Authored           \* the ids that next steps, disagreements and C4 elements name

Findings == Range(FindingList)
FindingIds == Findings \cup Authored \cup UNION {FindingsOn[p] : p \in Paths}

\* "overview" stands for every screen with no state of its own.
Tabs == {"overview", "findings", "attack_paths", "c4"}
Layouts == {"two-pane", "stacked", "table"}

\* Only a finding on a path that is a risk has a strip, and the edges from findings alone
\* make a path a risk.
ASSUME FindingsAssumption ==
    /\ FindingList # <<>> /\ IsInjective(FindingList)
    /\ Findings \in Filters /\ Filters \subseteq SUBSET Findings
    /\ PathOf \in [Findings -> FindingPaths \cup {None}]
    /\ None \notin FindingIds /\ FindingIds \cap Paths = {}
    /\ None \in Overlays /\ Overlays \subseteq Paths \cup {None}

VARIABLES
    tab,               \* activeTab
    layout,            \* findingsLayout
    chosen,            \* selectedFinding
    kept,              \* the findings the Findings screen's filters leave
    asked              \* history: what the last step's link, if it was one, named

page == <<tab, layout, chosen, kept, asked>>
vars == <<page, pathsVars, layerVars>>

Init ==
    /\ tab = "overview" /\ layout = "two-pane" /\ chosen = None
    /\ kept = Findings /\ asked = None
    /\ focus = None /\ selectedPath = None /\ findingsOnly = TRUE /\ open = {}
    /\ graph = None /\ light = None /\ effects = <<>>
    /\ boxes = 0 /\ fonts = "loading" /\ overlay = None /\ drawn = Blank
    /\ redraw = FALSE /\ frame = FALSE /\ timer = FALSE /\ resized = FALSE

Settled == effects = <<>> /\ ~redraw

Shown == SelectSeq(FindingList, LAMBDA f : f \in kept)

\* The finding the two-pane layout shows: the selected one, the first if it is not there.
Detail ==
    CASE chosen \in kept -> chosen
      [] chosen \notin kept /\ kept # {} -> Head(Shown)
      [] OTHER -> None

\* Mutant of Open: the filters outlive the Findings screen.
OpenKeepsFilters(t) ==
    /\ t # tab
    /\ tab' = t
    /\ kept' = kept
    /\ Reset /\ effects' = IF t = "attack_paths" THEN Mount ELSE <<>>
    /\ LayerReset(None, t = "c4")

\* Another tab: its screen starts anew, the one that was there is gone.
Open(t) ==
    /\ t # tab
    /\ tab' = t
    /\ kept' = Findings
    /\ Reset /\ effects' = IF t = "attack_paths" THEN Mount ELSE <<>>
    /\ LayerReset(None, t = "c4")

GoTo(t) ==
    /\ Settled
    /\ Open(t)
    /\ asked' = None
    /\ UNCHANGED <<layout, chosen, focus>>

-----------------------------------------------------------------------------
(* Links.                                                                  *)

\* The findings that the screen links to: the report's, and what its next steps and its
\* severity disagreements name; those of the C4 elements and of the hops of the overlaid
\* path; those on the chips of the paths in open pairs.  Nothing makes an id that was
\* authored, or is on a hop, that of a finding of the report.
Linked ==
    CASE tab = "overview" -> Findings \cup Authored
      [] tab = "c4" -> Authored \cup UNION {FindingsOn[p] : p \in Paths \cap {overlay}}
      [] tab = "attack_paths" -> UNION {FindingsOn[p] : p \in {q \in Listed : PairOf[q] \in open}}
      [] OTHER -> {}

OpenFinding(f) ==
    /\ Settled /\ f \in Linked
    /\ chosen' = f /\ asked' = f
    /\ Open("findings")
    /\ UNCHANGED <<layout, focus>>

\* The findings shown with their strip.
Displayed ==
    CASE layout = "two-pane" -> {Detail}
      [] layout = "stacked" -> kept
      [] layout = "table" -> {}

OpenPath(f) ==
    /\ Settled /\ tab = "findings"
    /\ f \in Displayed /\ f \in Findings /\ PathOf[f] # None
    /\ focus' = PathOf[f] /\ asked' = PathOf[f]
    /\ Open("attack_paths")
    /\ UNCHANGED <<layout, chosen>>

-----------------------------------------------------------------------------
(* The Findings screen.                                                    *)

Filter(left) ==
    /\ tab = "findings" /\ left # kept
    /\ kept' = left /\ asked' = None
    /\ UNCHANGED <<tab, layout, chosen, pathsVars, layerVars>>

SelectFinding(f) ==
    /\ tab = "findings" /\ layout # "stacked"
    /\ f \in kept /\ f # chosen
    /\ chosen' = f /\ asked' = None
    /\ UNCHANGED <<tab, layout, kept, pathsVars, layerVars>>

SetLayout(l) ==
    /\ tab = "findings" /\ l # layout
    /\ layout' = l
    /\ UNCHANGED <<tab, chosen, kept, asked, pathsVars, layerVars>>

-----------------------------------------------------------------------------
(* The other two screens' own steps, while they are on the page.           *)

ReadPaths ==
    /\ tab = "attack_paths"
    /\ Read
    /\ asked' = None
    /\ UNCHANGED <<tab, layout, chosen, kept, layerVars>>

RunEffects == RunEffect /\ UNCHANGED <<page, layerVars>>

UseC4 ==
    /\ tab = "c4"
    /\ Resize \/ Settling \/ \E o \in Overlays : ChooseOverlay(o)
    /\ UNCHANGED <<page, pathsVars>>

Measure == Redraw /\ UNCHANGED <<page, pathsVars>>
NextFrame == Frame /\ UNCHANGED <<page, pathsVars>>
Late == Timer /\ UNCHANGED <<page, pathsVars>>
AfterResize == ResizeTimer /\ UNCHANGED <<page, pathsVars>>
FontsCome == FontsShown /\ UNCHANGED <<page, pathsVars>>
FontsDone == FontsReady(tab = "c4") /\ UNCHANGED <<page, pathsVars>>

Next ==
    \/ \E t \in Tabs : GoTo(t)
    \/ \E f \in FindingIds : OpenFinding(f)
    \/ \E f \in Findings : OpenPath(f)
    \/ \E left \in Filters : Filter(left)
    \/ \E f \in Findings : SelectFinding(f)
    \/ \E l \in Layouts : SetLayout(l)
    \/ ReadPaths \/ RunEffects
    \/ UseC4 \/ Measure \/ NextFrame \/ Late \/ AfterResize \/ FontsCome \/ FontsDone

Spec == Init /\ [][Next]_vars

\* The browser runs the effects of a page it has rendered, the frame and the timers it
\* was asked for, and settles document.fonts.ready once nothing is loading.  Of the
\* reader, and of the fonts, nothing is assumed.
FairSpec ==
    /\ Spec
    /\ WF_vars(RunEffects) /\ WF_vars(Measure) /\ WF_vars(NextFrame)
    /\ WF_vars(Late) /\ WF_vars(AfterResize) /\ WF_vars(FontsDone)

-----------------------------------------------------------------------------
(* Properties.                                                             *)

\* The types of the three screens, and: a screen that is not on the page keeps nothing.
TypeOK ==
    /\ ScreenTypeOK /\ LayerTypeOK
    /\ tab \in Tabs /\ layout \in Layouts /\ kept \in Filters
    /\ chosen \in FindingIds \cup {None} /\ asked \in FindingIds \cup Paths \cup {None}
    /\ tab # "attack_paths" => /\ effects = <<>> /\ graph = None
                               /\ selectedPath = None /\ open = {}
    /\ tab # "c4" => ~redraw /\ ~frame /\ ~timer /\ ~resized /\ drawn = Blank

\* A link shows what it names, on whatever screen, filter, layout and selection it was
\* followed: a finding of the report is listed, and is the one the two-pane layout shows;
\* a path is selected and listed, and the pair that lists it is open.
LinksLeadToTheirTarget ==
    Settled =>
      /\ asked \in Findings => /\ tab = "findings" /\ asked \in kept
                               /\ layout = "two-pane" => Detail = asked
      /\ asked \in Paths => /\ tab = "attack_paths" /\ selectedPath = asked
                            /\ asked \in Listed /\ PairOf[asked] \in open

\* What a path's chip says of itself: "Open this finding in the Findings view".
ChipsOpenTheirFinding ==
    asked \in UNION {FindingsOn[p] : p \in Paths} /\ layout = "two-pane" => Detail = asked

\* Lines drawn to boxes that have moved, or for another overlay, are drawn again for as
\* long as the C4 view stays: no order of renders, frames, timers and fonts leaves none
\* of them to come.
EdgesCatchUp == (tab = "c4" /\ drawn # Now) ~> (tab # "c4" \/ drawn = Now)
=============================================================================
