------------------------------- MODULE Control -------------------------------
(***************************************************************************)
(* One pass of src/src/control.c: which component each button event goes to, *)
(* and the order in which the components and macros are updated, as          *)
(* operators on the chair, which is complete here: the button events         *)
(* (Presses) are its field  button  and the borrowed button its  consumed.   *)
(*                                                                         *)
(* The lamps are left out.  So is settings_update, which writes to flash     *)
(* what  store  holds and changes nothing else (Settings).                   *)
(***************************************************************************)
EXTENDS Macros

CONSTANTS
    MotionButtons, \* the motion buttons in use, in bar order: one per level
    Comfort,       \* the comfort buttons in use
    HOLD,          \* BUTTON_HOLD_MS
    DOUBLE,        \* BUTTON_DOUBLE_MS
    WORD           \* the values ms_ticks can take

Drives  == {MotionButtons[i] : i \in DOMAIN MotionButtons}
Buttons == Drives \cup Comfort \cup {"power"}

ASSUME ControlConstants ==
    /\ MotionButtons \in Seq(Relay!Recline \cup Relay!Headrest)
    /\ Len(MotionButtons) = LEVEL_MAX
    /\ Comfort \subseteq {"heat", "massage", "lumbar"}
    /\ {HOLD, DOUBLE} \subseteq Nat /\ WORD \in Nat \ {0}

Press == INSTANCE Presses WITH ShortHold <- Owners \cup Drives

\* A tap too old to be the first of two is as good as none (Presses has the
\* wrap of its age), and a hold needs no longer age than HOLD.
ElapseButton(b, d) ==
    LET e     == Press!Elapse(b, d)
        fresh == e.tapped /\ e.tap_age <= DOUBLE
    IN  [e EXCEPT !.down_age   = UpTo(HOLD, @),
                  !.tapped     = fresh,
                  !.tap_age    = IF fresh THEN @ ELSE 0,
                  !.tap_button = IF fresh THEN @ ELSE "none"]

-----------------------------------------------------------------------------
(* The routing of events.                                                   *)

\* level_button: the level or slot of a motion button, for these buttons only.
Level(b) == CHOOSE i \in DOMAIN MotionButtons : MotionButtons[i] = b

\* deliver_level; what set_level and adjust_pick each do with it.
deliver_level(c, want) ==
    LET set == IF c.adjust.owner = "heat" THEN heat_set_level(c, want)
               ELSE pneumatics_massage_set_level(c, want)
    IN  IF c.adjust.owner = NOBODY THEN c
        ELSE [set EXCEPT !.adjust = adjust_pick(@, want)]

\* The gate closes on what is still running.
SlipPowerShortPress(c) == power_toggle(c)

power_short_press(c) ==
    LET now == power_toggle(c) IN IF now.power THEN now ELSE power_comfort_off(now)

comfort_button(c, b) ==
    CASE ~c.power -> c
      [] c.power /\ b = "heat"    -> heat_press(c)
      [] c.power /\ b = "massage" -> MassageButton(c)
      [] c.power /\ b = "lumbar"  -> LumbarButton(c)
      [] OTHER -> c

consume_motion(c, b) == [c EXCEPT !.consumed = b]

\* The bar comes down, but not under the press that may be asking for it again.
TouchBar(c, b) ==
    [c EXCEPT !.adjust = IF @.owner = b THEN adjust_defer(@, SHORT) ELSE adjust_dismiss(@)]

\* The level is taken, and the button not kept off its motor.
SlipOnPress(c, b) ==
    CASE c.preset.stage # "idle" -> consume_motion(c, b)
      [] c.preset.stage = "idle" /\ c.preset.armed /\ b \in Drives -> consume_motion(c, b)
      [] c.preset.stage = "idle" /\ ~c.preset.armed /\ b \in Drives /\ c.adjust.armed ->
            deliver_level(c, Level(b))
      [] OTHER ->
            IF b \in Owners \cup {"power"} THEN TouchBar(c, b)
            ELSE comfort_button(TouchBar(c, b), b)

\* What stops a recall, names a slot or picks a level does nothing else.
OnPress(c, b) ==
    CASE c.preset.stage # "idle" -> consume_motion(c, b)
      [] c.preset.stage = "idle" /\ c.preset.armed /\ b \in Drives -> consume_motion(c, b)
      [] c.preset.stage = "idle" /\ ~c.preset.armed /\ b \in Drives /\ c.adjust.armed ->
            consume_motion(deliver_level(c, Level(b)), b)
      [] OTHER ->
            IF b \in Owners \cup {"power"} THEN TouchBar(c, b)
            ELSE comfort_button(TouchBar(c, b), b)

OnMotionTap(c, b, double) ==
    CASE c.preset.armed            -> preset_save(c, Level(b))
      [] ~c.preset.armed /\ double -> preset_recall(c, Level(b))
      [] OTHER                     -> c

OnPowerTap(c, double) ==
    CASE c.preset.armed             -> preset_cancel(c)
      [] ~c.preset.armed /\ double  -> flatten_tap_start(c)
      [] ~c.preset.armed /\ ~double -> power_short_press(c)

Release(c) == IF c.power THEN pneumatics_lumbar_release(c) ELSE c

OnTap(c, b, double) ==
    CASE b = "power"  -> OnPowerTap(c, double)
      [] b \in Drives -> OnMotionTap(c, b, double)
      [] b \in Owners -> comfort_button(c, b)
      [] b = "lumbar" -> Release(c)
      [] OTHER        -> c

OnHold(c, b) ==
    CASE b \in Drives                -> IF c.preset.armed THEN preset_clear(c, Level(b)) ELSE c
      [] b = "power"                 -> preset_arm(c)
      [] b = "heat" /\ c.power       -> heat_arm(c)
      [] b = "massage" /\ c.power    -> pneumatics_massage_arm(c)
      [] OTHER                       -> c

route_event(c, ev) ==
    CASE ev.kind = "press"        -> OnPress(c, ev.button)
      [] ev.kind = "tap"          -> OnTap(c, ev.button, FALSE)
      [] ev.kind = "double_tap"   -> OnTap(c, ev.button, TRUE)
      [] ev.kind = "hold"         -> OnHold(c, ev.button)
      [] ev.kind = "hold_release" -> IF ev.button = "lumbar" THEN Release(c) ELSE c
      [] OTHER                    -> c

-----------------------------------------------------------------------------
(* control_update, from the button it heard and the reading motion_update    *)
(* looks at.                                                                *)

\* Every age of the chair, over a pass of length d.
ElapseChair(c, d) ==
    [c EXCEPT !.button = ElapseButton(@, d), !.adjust = ElapseAdjust(@, d),
              !.heat   = ElapseHeat(@, d),   !.pneu   = ElapsePneumatics(@, d),
              !.preset = ElapsePreset(@, d), !.motion = Relay!Elapse(@, d)]

motion_for(code) == IF code \in Drives THEN code ELSE "none"

\* What is asked of the motors: a macro outranks the button, and a consumed
\* button asks for nothing.
Wanted(c, code) ==
    CASE c.preset.drive # "none"              -> c.preset.drive
      [] c.preset.drive = "none" /\ c.flatten -> "flatten"
      [] OTHER -> IF c.consumed = code THEN "none" ELSE motion_for(code)

control_update(c, code, current) ==
    LET ev      == Press!Reported(c.button, code)
        routed  == route_event([c EXCEPT !.button = Press!Updated(@, code)], ev)
        comfort == heat_update(pneumatics_update(routed))
        bar     == [comfort EXCEPT !.adjust = adjust_update(@)]
        borrow  == [bar EXCEPT !.consumed = IF code = @ THEN @ ELSE "none"]
        macros  == preset_update(flatten_update(borrow, code), code)
        asked   == Request(macros, Wanted(macros, code))
    IN  [asked EXCEPT !.motion = Relay!motion_update(@, current)]

=============================================================================
