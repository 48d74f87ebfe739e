------------------------------- MODULE Presses -------------------------------
(***************************************************************************)
(* Button codes to button events: src/src/button.c.                         *)
(*                                                                         *)
(* Time stamps are kept as ages, as in Relays, but the ages here are left    *)
(* to run for as long as nothing stamps them again, so they wrap with       *)
(* ms_ticks: they count modulo WORD, 2^32 in the code.                      *)
(***************************************************************************)
EXTENDS Naturals

CONSTANTS
    Buttons,   \* the button codes, HS_NONE apart
    ShortHold, \* those that hold_ms_for answers with BUTTON_SHORT_HOLD_MS
    HOLD,      \* BUTTON_HOLD_MS
    SHORT,     \* BUTTON_SHORT_HOLD_MS
    DOUBLE,    \* BUTTON_DOUBLE_MS
    WORD,      \* the values ms_ticks can take
    Durations  \* how long a pass of the main loop can take

NONE == "none"

ASSUME PressConstants ==
    /\ NONE \notin Buttons /\ ShortHold \subseteq Buttons
    /\ {HOLD, SHORT, DOUBLE} \subseteq Nat /\ WORD \in Nat \ {0}
    /\ Durations \subseteq Nat
    \* A hold is noticed before its age can wrap.
    /\ \A d \in Durations, span \in {HOLD, SHORT, DOUBLE} : span + d < WORD

Codes == Buttons \cup {NONE}
Kinds == {"none", "press", "tap", "double_tap", "hold", "hold_release"}
Tick  == 0 .. WORD - 1

ButtonState ==
    [prev : Codes, down_age : Tick, hold_done : BOOLEAN,
     tapped : BOOLEAN, tap_button : Codes, tap_age : Tick]

PowerOn ==
    [prev |-> NONE, down_age |-> 0, hold_done |-> FALSE,
     tapped |-> FALSE, tap_button |-> NONE, tap_age |-> 0]

UpTo(cap, n) == IF n > cap THEN cap ELSE n

Event(k, b) == [kind |-> k, button |-> b]

\* An age that is not read before it is next stamped stays at 0.
Elapse(b, d) ==
    [b EXCEPT !.down_age = IF b.prev # NONE /\ ~b.hold_done THEN (@ + d) % WORD ELSE 0,
              !.tap_age  = IF b.tapped THEN (@ + d) % WORD ELSE 0]

-----------------------------------------------------------------------------
(* button_update: one event at most, and the state it leaves.               *)

hold_ms_for(code) == IF code \in ShortHold THEN SHORT ELSE HOLD

\* A press that replaces another button inherits its hold.
SlipPressed(b, code) == [b EXCEPT !.prev = code, !.down_age = 0]

Pressed(b, code) == [b EXCEPT !.prev = code, !.down_age = 0, !.hold_done = FALSE]

\* Any two taps of a button are a double tap.
SlipDoubles(b) == b.tapped /\ b.prev = b.tap_button

Doubles(b) == b.tapped /\ b.prev = b.tap_button /\ b.tap_age <= DOUBLE

HoldEarned(b, code) ==
    code # NONE /\ ~b.hold_done /\ b.down_age >= hold_ms_for(code)

\* What is reported when `code` is the button down in this pass.
Reported(b, code) ==
    CASE code = b.prev /\ HoldEarned(b, code)  -> Event("hold", code)
      [] code = b.prev /\ ~HoldEarned(b, code) -> Event("none", code)
      [] code # b.prev /\ code # NONE          -> Event("press", code)
      [] code # b.prev /\ code = NONE /\ b.hold_done -> Event("hold_release", b.prev)
      [] OTHER -> Event(IF Doubles(b) THEN "double_tap" ELSE "tap", b.prev)

Released(b) ==
    IF b.hold_done THEN [b EXCEPT !.prev = NONE]
    ELSE IF Doubles(b) THEN [b EXCEPT !.prev = NONE, !.tapped = FALSE, !.tap_age = 0]
    ELSE [b EXCEPT !.prev = NONE, !.tapped = TRUE, !.tap_age = 0, !.tap_button = b.prev]

Updated(b, code) ==
    IF code # b.prev THEN IF code = NONE THEN Released(b) ELSE Pressed(b, code)
    ELSE IF HoldEarned(b, code) THEN [b EXCEPT !.hold_done = TRUE, !.down_age = 0]
    ELSE b

=============================================================================
