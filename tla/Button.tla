------------------------------- MODULE Button -------------------------------
(***************************************************************************)
(* From the handset's replies to button events: the code and age that      *)
(* src/src/handset.c keeps of the last frame, the silence rule at the head  *)
(* of control_update (src/src/control.c), and button_update (Presses).      *)
(*                                                                         *)
(* The finger on the handset is the environment.  A pass may or may not      *)
(* hear a frame; one that is heard says which button the finger is on.       *)
(***************************************************************************)
EXTENDS Presses

CONSTANT SILENT \* HANDSET_TIMEOUT_MS

\* A silence, too, is noticed before its age can wrap.
ASSUME SilenceConstants ==
    SILENT \in Nat /\ \A d \in Durations : SILENT + d < WORD

VARIABLES
    last_button, \* handset.c: the code of the last valid frame
    frame_age,   \* handset_age_ms()
    button,      \* button.c's static variables, as a record
    event,       \* what button_update returned in this pass
    finger,      \* the button that is physically down
    \* Histories, which nothing in the code reads: how long it really is since
    \* a frame and since a tap (up to WORD), and whether the finger has been off
    \* the button since its last tap was reported.
    quiet, since_tap, lifted

vars == <<last_button, frame_age, button, event, finger, quiet, since_tap, lifted>>

button_hold_active == button.hold_done

-----------------------------------------------------------------------------
(* One pass of the main loop.                                               *)

Init ==
    /\ last_button = NONE /\ frame_age = 0
    /\ button = PowerOn /\ event = Event("none", NONE)
    /\ finger = NONE
    /\ quiet = 0 /\ since_tap = WORD /\ lifted = TRUE

\* handset_poll: a valid frame, or none.
Heard == last_button' = finger' /\ frame_age' = 0 /\ quiet' = 0

Unheard(d) ==
    /\ last_button' = last_button
    /\ frame_age' = (frame_age + d) % WORD
    /\ quiet' = UpTo(WORD, quiet + d)

\* The age of the last frame is not looked at.
SlipHeardButton == last_button'

\* control_update: a silent handset has nothing pressed.
HeardButton == IF frame_age' > SILENT THEN NONE ELSE last_button'

Observe(d, code) ==
    LET ev == Reported(Elapse(button, d), code) IN
    /\ since_tap' = IF ev.kind = "tap" THEN 0 ELSE UpTo(WORD, since_tap + d)
    /\ lifted' = IF ev.kind = "tap" THEN finger' # ev.button
                 ELSE lifted \/ finger' # button.tap_button

Pass(d) ==
    /\ finger' \in Codes
    /\ Heard \/ Unheard(d)
    /\ button' = Updated(Elapse(button, d), HeardButton)
    /\ event' = Reported(Elapse(button, d), HeardButton)
    /\ Observe(d, HeardButton)

Next == \E d \in Durations : Pass(d)

Spec == Init /\ [][Next]_vars

=============================================================================
