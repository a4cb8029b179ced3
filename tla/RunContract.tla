----------------------------- MODULE RunContract -----------------------------
(***************************************************************************)
(* What a driven run promises the readers of its records and its report,   *)
(* whoever fails on the way: synthesis starts over a valid set of lens     *)
(* records, which stays valid while the session lasts, and a run closes    *)
(* out only with a report of its present files.                            *)
(***************************************************************************)
VARIABLES
    stage,    \* "idle", "collecting", "sealed", "halted" or "done"
    valid,    \* no lens record on disk is refused by the validator
    current   \* rollup, report and audit were computed from the files on disk

vars == <<stage, valid, current>>

Init == stage = "idle" /\ valid \in BOOLEAN /\ current = FALSE

Becomes(s) == stage' = s
Anything == valid' \in BOOLEAN /\ current' \in BOOLEAN
Reporting == UNCHANGED valid /\ current' \in BOOLEAN

Begin == stage \in {"idle", "halted", "done"} /\ Becomes("collecting") /\ UNCHANGED <<valid, current>>
Collect == stage = "collecting" /\ Becomes("collecting") /\ Anything
Seal == stage = "collecting" /\ valid /\ Becomes("sealed") /\ UNCHANGED <<valid, current>>
Report == stage = "sealed" /\ Becomes("sealed") /\ Reporting
Finish == stage = "sealed" /\ current /\ Becomes("done") /\ UNCHANGED <<valid, current>>
GiveUp == stage = "collecting" /\ Becomes("halted") /\ Anything
Halt == stage = "sealed" /\ Becomes("halted") /\ UNCHANGED <<valid, current>>
Die == stage \in {"collecting", "sealed"} /\ Becomes("idle") /\ Anything
Fix == stage = "halted" /\ Becomes("idle") /\ Anything

Next == Begin \/ Collect \/ Seal \/ Report \/ Finish \/ GiveUp \/ Halt \/ Die \/ Fix
Spec == Init /\ [][Next]_vars
=============================================================================
