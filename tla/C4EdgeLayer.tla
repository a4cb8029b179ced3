----------------------------- MODULE C4EdgeLayer -----------------------------
(***************************************************************************)
(* C4EdgeLayer of components.jsx: the lines between the boxes of the C4    *)
(* screen, drawn from where the boxes are at the time they are measured.   *)
(* Boxes move when fonts arrive, when the window is resized and while the  *)
(* page settles; an effect of each render measures at once, arranges to    *)
(* measure again in the next frame and 220 ms later, and cancels what the  *)
(* previous render had arranged.                                           *)
(***************************************************************************)
EXTENDS Integers

CONSTANTS
    Overlays,          \* what the overlay control may light (the paths, or nothing)
    MaxMoves           \* how often the boxes move while the layer is on the page

ASSUME MovesAssumption == MaxMoves \in Nat

VARIABLES
    boxes,             \* how often they have moved since the layer came on the page
    fonts,             \* "loading", "shown", "ready": document.fonts.ready resolves last
    overlay,           \* the overlay the C4 screen was last rendered with
    drawn,             \* what the last measurement saw
    redraw,            \* the effect is still to run
    frame, timer,      \* a frame, the 220 ms timer are awaited
    resized            \* the debounced resize timer runs

timers == <<frame, timer, resized>>
layerVars == <<boxes, fonts, overlay, drawn, redraw, timers>>

Now == [boxes |-> boxes, overlay |-> overlay]
Blank == [boxes |-> -1, overlay |-> CHOOSE o \in Overlays : TRUE]

\* Mutant of LayerReset: what the last render arranged is not cancelled.
LayerResetCancelsNothing(o, mounted) ==
    /\ boxes' = 0 /\ overlay' = o /\ drawn' = Blank /\ redraw' = mounted
    /\ UNCHANGED <<fonts, timers>>

\* The layer as it is put on the page with overlay o, or taken off it.
LayerReset(o, mounted) ==
    /\ boxes' = 0 /\ overlay' = o /\ drawn' = Blank /\ redraw' = mounted
    /\ frame' = FALSE /\ timer' = FALSE /\ resized' = FALSE
    /\ UNCHANGED fonts

\* Another overlay: every render of the C4 screen gives the layer a new list of edges,
\* and so a new measure function.
ChooseOverlay(o) ==
    /\ ~redraw /\ o # overlay
    /\ overlay' = o
    /\ redraw' = TRUE
    /\ UNCHANGED <<boxes, fonts, drawn, timers>>

\* Mutant of Redraw: the effect cleans up and leaves the measuring to the handlers.
RedrawOnlyCleansUp ==
    /\ redraw
    /\ redraw' = FALSE
    /\ frame' = FALSE /\ timer' = FALSE /\ resized' = FALSE
    /\ UNCHANGED <<boxes, fonts, overlay, drawn>>

\* The effect, and the clean-up of the one before it.
Redraw ==
    /\ redraw
    /\ redraw' = FALSE
    /\ drawn' = Now
    /\ frame' = TRUE /\ timer' = TRUE /\ resized' = FALSE
    /\ UNCHANGED <<boxes, fonts, overlay>>

Frame ==
    /\ ~redraw /\ frame
    /\ frame' = FALSE /\ drawn' = Now
    /\ UNCHANGED <<boxes, fonts, overlay, redraw, timer, resized>>

Timer ==
    /\ ~redraw /\ timer
    /\ timer' = FALSE /\ drawn' = Now
    /\ UNCHANGED <<boxes, fonts, overlay, redraw, frame, resized>>

ResizeTimer ==
    /\ ~redraw /\ resized
    /\ resized' = FALSE /\ drawn' = Now
    /\ UNCHANGED <<boxes, fonts, overlay, redraw, frame, timer>>

\* The boxes move: the page settles, before the 220 ms are over; the window is resized,
\* which starts the debounce anew; or the fonts come.
Move == boxes < MaxMoves /\ boxes' = boxes + 1

Settling ==
    /\ ~redraw /\ timer /\ Move
    /\ UNCHANGED <<fonts, overlay, drawn, redraw, timers>>

Resize ==
    /\ ~redraw /\ Move
    /\ resized' = TRUE
    /\ UNCHANGED <<fonts, overlay, drawn, redraw, frame, timer>>

FontsShown ==
    /\ ~redraw /\ fonts = "loading" /\ Move
    /\ fonts' = "shown"
    /\ UNCHANGED <<overlay, drawn, redraw, timers>>

\* Every render since the mount awaits the fonts, and none of them is cancelled: they
\* measure in the order they were rendered, the last one for the present overlay.
FontsReady(mounted) ==
    /\ ~redraw /\ fonts = "shown"
    /\ fonts' = "ready"
    /\ drawn' = IF mounted THEN Now ELSE drawn
    /\ UNCHANGED <<boxes, overlay, redraw, timers>>

LayerTypeOK ==
    /\ boxes \in 0..MaxMoves /\ fonts \in {"loading", "shown", "ready"}
    /\ overlay \in Overlays
    /\ drawn \in [boxes : -1..MaxMoves, overlay : Overlays]
    /\ {redraw, frame, timer, resized} \subseteq BOOLEAN
=============================================================================
