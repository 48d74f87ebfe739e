------------------------------ MODULE Gestures ------------------------------
(***************************************************************************)
(* The events src/src/button.h promises its callers, in the only orders     *)
(* they may come in.  What a caller opens on a press or a hold it closes on *)
(* the event that answers it, so an answer must name the button that is     *)
(* down, come once, and be of the kind its press has earned:                *)
(*   - a press comes first, and may replace a button without a release;     *)
(*   - a hold comes at most once in a press;                                *)
(*   - a release is a tap if there was no hold and a hold-release if there   *)
(*     was, never both;                                                     *)
(*   - a double tap answers one earlier tap of the same button, which no    *)
(*     other tap came after and which no other double tap has used.          *)
(***************************************************************************)
CONSTANTS Buttons, NoButton

VARIABLES down,    \* the button that is down, or NoButton
          held,    \* whether its hold has been reported
          pending, \* the button whose tap a second one would double, or NoButton
          event    \* [kind, button]: what this pass reported

vars == <<down, held, pending, event>>

Report(k, b) == event' = [kind |-> k, button |-> b]

Init ==
    /\ down = NoButton /\ held = FALSE /\ pending = NoButton
    /\ event = [kind |-> "none", button |-> NoButton]

Quiet == Report("none", down) /\ UNCHANGED <<down, held, pending>>

Press(b) ==
    /\ b # down
    /\ down' = b /\ held' = FALSE
    /\ Report("press", b)
    /\ UNCHANGED pending

Hold ==
    /\ down \in Buttons /\ ~held
    /\ held' = TRUE
    /\ Report("hold", down)
    /\ UNCHANGED <<down, pending>>

Lift == down \in Buttons /\ down' = NoButton /\ held' = FALSE

Tap == Lift /\ ~held /\ pending' = down /\ Report("tap", down)

DoubleTap ==
    /\ Lift /\ ~held
    /\ pending = down /\ pending' = NoButton
    /\ Report("double_tap", down)

HoldRelease == Lift /\ held /\ Report("hold_release", down) /\ UNCHANGED pending

Next == Quiet \/ (\E b \in Buttons : Press(b)) \/ Hold \/ Tap \/ DoubleTap \/ HoldRelease

Spec == Init /\ [][Next]_vars

=============================================================================
