-------------------------------- MODULE Heat --------------------------------
(***************************************************************************)
(* The seat heater: src/src/heat.c, as operators on the chair.              *)
(*                                                                         *)
(* A component that calls others takes and returns the whole chair, a       *)
(* record with a field for each: here  heat,  adjust  (Adjust),  motion      *)
(* (Motion; only what motion_active returns is looked at) and  store, what   *)
(* settings.c has live.  Modules that compose components are written so.    *)
(***************************************************************************)
EXTENDS Adjust

CONSTANTS
    HEAT_TIMEOUT, \* HEAT_TIMEOUT_MS
    HEAT_PERIOD   \* HEAT_DUTY_PERIOD_MS

ASSUME HeatConstants ==
    HEAT_TIMEOUT \in Nat /\ HEAT_PERIOD \in Nat \ {0}

HeatState ==
    [on : BOOLEAN, age : 0 .. HEAT_TIMEOUT, level : {0} \cup Levels, pin : BOOLEAN]

HeatOff == [on |-> FALSE, age |-> 0, level |-> 0, pin |-> FALSE]

ElapseHeat(h, d) == [h EXCEPT !.age = IF h.on THEN UpTo(HEAT_TIMEOUT, @ + d) ELSE 0]

\* motion_active() == MOTION_NONE, on which everything that draws current waits.
Still(c) == c.motion.requested = "none"

\* What was never stored is taken as a level.
SlipRemembered(stored) == stored

\* A stored level that is no level stands for the default, the top one.
Remembered(stored) == IF stored \in Levels THEN stored ELSE LEVEL_MAX

-----------------------------------------------------------------------------

switch_on(c) ==
    IF c.heat.on THEN c
    ELSE [c EXCEPT !.heat.on = TRUE, !.heat.age = 0,
                   !.heat.level = Remembered(c.store.heat)]

heat_arm(c) ==
    LET level == IF c.heat.on THEN c.heat.level ELSE Remembered(c.store.heat) IN
    [c EXCEPT !.heat.level = level, !.adjust = adjust_open(@, "heat", level)]

\* The level a recall runs at becomes the remembered one.
SlipHeatUseLevel(c, want) ==
    IF want \in Levels THEN [c EXCEPT !.heat.level = want, !.store.heat = want] ELSE c

heat_use_level(c, want) ==
    IF want \in Levels THEN [c EXCEPT !.heat.level = want] ELSE c

\* A new level starts the hour again.
SlipHeatSetLevel(c, want) ==
    IF want \in Levels
    THEN [heat_use_level(c, want) EXCEPT !.store.heat = want, !.heat.age = 0]
    ELSE c

heat_set_level(c, want) ==
    IF want \in Levels
    THEN [heat_use_level(c, want) EXCEPT !.store.heat = want]
    ELSE c

heat_off(c) == [c EXCEPT !.heat = HeatOff, !.adjust = adjust_close(@, "heat")]

heat_set(c, on) ==
    IF on = c.heat.on THEN c
    ELSE IF ~on THEN heat_off(c)
    ELSE IF Still(c) THEN switch_on(c) ELSE c

\* The press answers an open menu; otherwise it toggles, never during a motion.
heat_press(c) ==
    IF c.adjust.armed /\ c.adjust.owner = "heat"
    THEN [c EXCEPT !.adjust = adjust_accept(@)]
    ELSE IF ~Still(c) THEN c
    ELSE IF c.heat.on THEN heat_off(c)
    ELSE LET lit == switch_on(c) IN
         [lit EXCEPT !.adjust = adjust_show(@, "heat", lit.heat.level)]

\* duty_pct: the same share of the period for every level.
Span(level) == (HEAT_PERIOD * level) \div LEVEL_MAX

\* The element is not cut for a motion.
SlipHeatUpdate(c) ==
    IF ~c.heat.on THEN [c EXCEPT !.heat.pin = FALSE]
    ELSE IF c.heat.age >= HEAT_TIMEOUT THEN heat_off(c)
    ELSE [c EXCEPT !.heat.pin = c.heat.age % HEAT_PERIOD < Span(c.heat.level)]

heat_update(c) ==
    IF ~c.heat.on THEN [c EXCEPT !.heat.pin = FALSE]
    ELSE IF c.heat.age >= HEAT_TIMEOUT THEN heat_off(c)
    ELSE [c EXCEPT !.heat.pin =
             Still(c) /\ c.heat.age % HEAT_PERIOD < Span(c.heat.level)]

=============================================================================
