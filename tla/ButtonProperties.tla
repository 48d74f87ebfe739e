-------------------------- MODULE ButtonProperties --------------------------
(***************************************************************************)
(* What must be true of button events, whatever the finger does and         *)
(* whatever the line to the handset loses.                                  *)
(***************************************************************************)
EXTENDS Button

TypeOK ==
    /\ last_button \in Codes /\ frame_age \in Tick
    /\ button \in ButtonState
    /\ event \in [kind : Kinds, button : Codes]
    /\ finger \in Codes
    /\ quiet \in 0 .. WORD /\ since_tap \in 0 .. WORD /\ lifted \in BOOLEAN

Promised == INSTANCE Gestures WITH
    NoButton <- NONE, down <- button.prev,
    held <- button.prev # NONE /\ button.hold_done,
    pending <- IF button.tapped THEN button.tap_button ELSE NONE

\* button_update reports only the sequences of events that Gestures allows,
\* through every rollover, lost frame and wrap of the clock.
Protocol == Promised!Spec

\* A double tap is two taps inside BUTTON_DOUBLE_MS, release to release; or,
\* since the age of a tap that was never doubled wraps with ms_ticks, at least
\* a whole turn of the clock apart.
DoubleTapInWindow ==
    [][event'.kind = "double_tap" =>
          \E d \in Durations : \/ since_tap + d <= DOUBLE
                               \/ since_tap + d >= WORD]_vars

\* control.c:17, "a disconnected or dead remote must not leave a motor running":
\* while the handset has been silent for more than HANDSET_TIMEOUT_MS no button
\* is taken to be down, for the first whole turn of the clock.
SilentIsReleased ==
    quiet > SILENT /\ quiet < WORD => button.prev = NONE

\* The same, for however long the silence lasts.
AlwaysSilentIsReleased ==
    quiet > SILENT => button.prev = NONE

\* enhancements-spec.md:110, "Two POWER presses within BUTTON_DOUBLE_MS": the
\* finger has left the button between the two taps.
DoubleTapIsTwoPresses ==
    [][event'.kind = "double_tap" => lifted]_vars

\* button.h:63, "True from BTN_HOLD until the release that ends it."
HoldActiveWhileHeld ==
    button_hold_active => button.prev # NONE

=============================================================================
