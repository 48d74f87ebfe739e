-------------------------- MODULE AdjustProperties --------------------------
(***************************************************************************)
(* The level adjuster under any sequence of calls, and what must be true.   *)
(***************************************************************************)
EXTENDS Adjust

\* BUTTON_SHORT_HOLD_MS and ADJUST_ARM_MS; and a pass ends.
ASSUME WindowConstants ==
    /\ SHORT <= ADJUST_ARM
    /\ \E d \in Durations : \A e \in Durations : e <= d

-----------------------------------------------------------------------------
(* The adjuster under any sequence of calls, at most one in a pass, before   *)
(* adjust_update: control.c, heat.c and pneumatics.c are its environment.   *)
(* Histories: for how long the bar has been due, since it was last put up or *)
(* deferred; and whether the press of its owner's button, which may be the   *)
(* start of a hold, is why.                                                 *)

VARIABLES adjust, asked, deferred

vars == <<adjust, asked, deferred>>

Init == adjust = AdjustOff /\ asked = 0 /\ deferred = FALSE

Longest == CHOOSE d \in Durations : \A e \in Durations : e <= d

\* The longest a window can stay up: its fill, one pass late for each lamp, and
\* its longest wait, one pass late.
Fill   == LEVEL_MAX * (BAR_STEP + Longest)
Window == Fill + ADJUST_ARM + READOUT + SHORT + Longest

Step(d, called) == adjust' = adjust_update(called) /\ asked' = UpTo(Window, asked + d)

Ask(called) == adjust' = adjust_update(called) /\ asked' = 0

Quiet(d) == Step(d, ElapseAdjust(adjust, d)) /\ deferred' = deferred

Show(d) ==
    /\ \E who \in Owners, want \in Levels :
          Ask(adjust_show(ElapseAdjust(adjust, d), who, want))
    /\ deferred' = FALSE

Open(d) ==
    /\ \E who \in Owners, want \in Levels :
          Ask(adjust_open(ElapseAdjust(adjust, d), who, want))
    /\ deferred' = FALSE

Defer(d) ==
    /\ Ask(adjust_defer(ElapseAdjust(adjust, d), SHORT))
    /\ deferred' = Showing(adjust)

End(d) ==
    /\ LET a == ElapseAdjust(adjust, d) IN
       \/ \E want \in Levels : Step(d, adjust_pick(a, want))
       \/ Step(d, adjust_accept(a))
       \/ Step(d, adjust_dismiss(a))
       \/ \E who \in Owners : Step(d, adjust_close(a, who))
    /\ deferred' = FALSE

Next == \E d \in Durations : Quiet(d) \/ Show(d) \/ Open(d) \/ Defer(d) \/ End(d)

Spec == Init /\ [][Next]_vars

-----------------------------------------------------------------------------

TypeOK ==
    /\ adjust \in AdjustState
    /\ asked \in 0 .. Window
    /\ deferred \in BOOLEAN

\* The motion buttons are borrowed only while a bar with an owner is up to say so,
\* and the window closes by itself: nothing borrows them longer than a fill and a
\* wait after it was last asked for.
WindowCloses ==
    /\ adjust.armed => Showing(adjust) /\ asked <= Fill + ADJUST_ARM + Longest
    /\ adjust.phase # "off" => adjust.owner # NOBODY

\* adjust.h, adjust_defer: a bar that is up when its owner's button goes down is
\* still up when it is known whether that was a hold.
DeferredStaysUp == deferred /\ asked < SHORT => Showing(adjust)

=============================================================================
