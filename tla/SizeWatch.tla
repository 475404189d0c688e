----------------------------- MODULE SizeWatch -----------------------------
(***************************************************************************)
(* What ResizeSensor promises whoever watches the size of an element: a    *)
(* watch begins with the size the element has; sizes are measured and the  *)
(* measurements are reported, never anything else; and an element that is  *)
(* shown and heard does not keep a size the watch has not reported.        *)
(***************************************************************************)
EXTENDS Naturals

CONSTANT Sizes    \* the sizes of an element that is shown

VARIABLES
    size,         \* the size of the element, 0 while it is hidden
    heard,        \* the watch can notice changes of the size
    watching,
    measured,     \* the last measurement of this watch
    known         \* the last measurement it reported

vars == <<size, heard, watching, measured, known>>

Init ==
    /\ size \in Sizes \cup {0}
    /\ heard = TRUE
    /\ watching = FALSE
    /\ measured = 0 /\ known = 0

Change ==
    /\ size' \in Sizes \cup {0} /\ heard' \in BOOLEAN
    /\ UNCHANGED <<watching, measured, known>>

Start ==
    /\ ~watching /\ watching' = TRUE
    /\ measured' = size /\ known' = size
    /\ UNCHANGED size /\ heard' = TRUE

Stop ==
    /\ watching /\ watching' = FALSE
    /\ measured' = 0 /\ known' = 0
    /\ UNCHANGED size /\ heard' = TRUE

Measure ==
    /\ watching /\ measured' = size
    /\ heard' \in {heard, TRUE}
    /\ UNCHANGED <<size, watching, known>>

Report ==
    /\ watching /\ known' = measured
    /\ UNCHANGED <<size, heard, watching, measured>>

Next == Change \/ Start \/ Stop \/ Measure \/ Report

\* A size that the element keeps, while the watch can hear it, gets known.
Prompt == \A z \in Sizes : <>[](watching /\ heard /\ size = z) => <>[](known = z)

SafeSpec == Init /\ [][Next]_vars
Spec == SafeSpec /\ Prompt
=============================================================================
