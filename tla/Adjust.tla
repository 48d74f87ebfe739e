------------------------------- MODULE Adjust -------------------------------
(***************************************************************************)
(* The level adjuster: src/src/adjust.c.  One bar of lamps and one borrowed *)
(* set of buttons, shared by heat and massage.                              *)
(*                                                                         *)
(* As in Motion, the file's static variables are a record, its functions    *)
(* are operators on it, and a time stamp is kept as its age.  Which lamps    *)
(* a phase lights is left out; how long each phase lasts is not, because    *)
(* the window the buttons are borrowed for is one of them.                   *)
(***************************************************************************)
EXTENDS Naturals

CONSTANTS
    LEVEL_MAX,  \* ADJUST_LEVEL_MAX
    ADJUST_ARM, \* ADJUST_ARM_MS
    READOUT,    \* ADJUST_READOUT_MS
    SHORT,      \* BUTTON_SHORT_HOLD_MS, what control.c defers the bar by
    BAR_STEP,   \* ADJUST_BAR_STEP_MS
    BAR_EXIT,   \* ADJUST_BAR_EXIT_MS
    FLASHES,    \* ADJUST_CONFIRM_FLASHES
    CONFIRM,    \* ADJUST_CONFIRM_MS
    Durations   \* how long a pass of the main loop can take

ASSUME AdjustConstants ==
    /\ {LEVEL_MAX, FLASHES} \subseteq Nat \ {0}
    /\ {ADJUST_ARM, READOUT, SHORT, BAR_STEP, BAR_EXIT, CONFIRM} \subseteq Nat
    /\ Durations \subseteq Nat

Levels == 1 .. LEVEL_MAX
Owners == {"heat", "massage"}
NOBODY == "nobody"
Spans  == {ADJUST_ARM, READOUT, SHORT}

AdjustState ==
    [phase     : {"off", "in", "hold", "confirm", "out"},
     step      : 0 .. 2 * FLASHES + LEVEL_MAX,
     step_age  : Nat,
     hold_age  : Nat,
     hold_span : {0} \cup Spans,
     owner     : Owners \cup {NOBODY},
     level     : {0} \cup Levels,
     armed     : BOOLEAN]

AdjustOff ==
    [phase |-> "off", step |-> 0, step_age |-> 0, hold_age |-> 0, hold_span |-> 0,
     owner |-> NOBODY, level |-> 0, armed |-> FALSE]

UpTo(cap, n) == IF n > cap THEN cap ELSE n

\* The longest a phase looks back; an age its phase does not read stays at 0,
\* and a bar that is gone has nothing that is read again but its owner.
LongestStep == CHOOSE n \in {BAR_STEP, BAR_EXIT, CONFIRM} :
                   \A k \in {BAR_STEP, BAR_EXIT, CONFIRM} : k <= n

ElapseAdjust(a, d) ==
    IF a.phase = "off" THEN [AdjustOff EXCEPT !.owner = a.owner, !.armed = a.armed]
    ELSE [a EXCEPT
            !.step_age = IF a.phase = "hold" THEN 0 ELSE UpTo(LongestStep, @ + d),
            !.hold_age = IF a.phase = "hold" THEN UpTo(a.hold_span, @ + d) ELSE 0]

-----------------------------------------------------------------------------
(* Opening and closing.                                                     *)

Showing(a) == a.phase \in {"in", "hold"}

\* A bar that is up stays up, and waits again.
StartBar(a, who, want, span) ==
    IF Showing(a)
    THEN [a EXCEPT !.owner = who, !.level = want, !.hold_age = 0, !.hold_span = span]
    ELSE [a EXCEPT !.owner = who, !.level = want, !.hold_span = span,
                   !.phase = "in", !.step = 1, !.step_age = 0]

\* The bar goes, but the buttons stay borrowed until the slide is over.
SlipSlideOut(a) ==
    IF a.phase \in {"off", "out"} THEN [a EXCEPT !.armed = FALSE]
    ELSE [a EXCEPT !.phase = "out", !.step = 1, !.step_age = 0]

slide_out(a) ==
    IF a.phase \in {"off", "out"} THEN [a EXCEPT !.armed = FALSE]
    ELSE [a EXCEPT !.armed = FALSE, !.phase = "out", !.step = 1, !.step_age = 0]

adjust_show(a, who, want) == [StartBar(a, who, want, READOUT) EXCEPT !.armed = FALSE]
adjust_open(a, who, want) == [StartBar(a, who, want, ADJUST_ARM) EXCEPT !.armed = TRUE]

adjust_pick(a, want) ==
    IF ~a.armed \/ want \notin Levels THEN a
    ELSE [a EXCEPT !.level = want, !.armed = FALSE,
                   !.phase = "confirm", !.step = 0, !.step_age = 0]

adjust_accept(a)  == IF a.armed THEN slide_out(a) ELSE a
adjust_dismiss(a) == slide_out(a)

adjust_close(a, who) ==
    IF a.owner # who THEN a
    ELSE [a EXCEPT !.phase = "off", !.armed = FALSE, !.owner = NOBODY]

\* A window that is filling in keeps the span it has.
SlipDefer(a, ms) ==
    IF a.phase = "hold" /\ a.hold_span < a.hold_age + ms
    THEN [a EXCEPT !.hold_age = 0, !.hold_span = ms]
    ELSE a

\* At least ms more, counted from the end of the fill if that is still going.
adjust_defer(a, ms) ==
    CASE a.phase = "in" /\ a.hold_span < ms -> [a EXCEPT !.hold_span = ms]
      [] a.phase = "hold" /\ a.hold_span < a.hold_age + ms ->
            [a EXCEPT !.hold_age = 0, !.hold_span = ms]
      [] OTHER -> a

-----------------------------------------------------------------------------
(* adjust_update: the phases in turn.                                       *)

Stepped(a) == [a EXCEPT !.step = @ + 1, !.step_age = 0]
Gone(a)    == [a EXCEPT !.phase = "off", !.owner = NOBODY]

FillIn(a) ==
    LET next == Stepped(a) IN
    IF a.step_age < BAR_STEP THEN a
    ELSE IF next.step >= a.level THEN [next EXCEPT !.phase = "hold", !.hold_age = 0]
    ELSE next

Flash(a) ==
    IF a.step_age < CONFIRM THEN a
    ELSE IF a.step + 1 >= 2 * FLASHES THEN Gone(Stepped(a))
    ELSE Stepped(a)

\* The last lit frame stays longer, and the phase ends with it.
Slide(a) ==
    LET last == a.step + 1 >= LEVEL_MAX IN
    IF a.step_age < (IF last THEN BAR_EXIT ELSE BAR_STEP) THEN a
    ELSE IF last THEN Gone(Stepped(a)) ELSE Stepped(a)

adjust_update(a) ==
    CASE a.phase = "in" -> FillIn(a)
      [] a.phase = "hold" /\ a.hold_age >= a.hold_span -> slide_out(a)
      [] a.phase = "confirm" -> Flash(a)
      [] a.phase = "out" -> Slide(a)
      [] OTHER -> a

=============================================================================
