------------------------------- MODULE Macros -------------------------------
(***************************************************************************)
(* The power gate (src/src/power.c) and the two macros that move the chair  *)
(* with nobody holding a button: flatten (src/src/macros/flatten.c) and     *)
(* presets (src/src/macros/preset.c), as operators on the chair.            *)
(*                                                                         *)
(* To what Heat and Pneumatics use of the chair they add the fields  power,  *)
(* flatten  (its `unattended`; `held` is never set in this build),  preset,  *)
(* the whole of  motion  (Relays), and the presets of  store.  The lamps     *)
(* and flashes of preset.c are left out.                                    *)
(***************************************************************************)
EXTENDS Pneumatics

CONSTANTS
    SETTLE, STAGGER, TIMEOUT, STALL, ARM, ARRIVED, \* as in Relays
    TRAVEL_RECLINE, TRAVEL_HEADREST,
    SEEK,        \* MOTION_SEEK_MS
    PRESET_STEP, \* PRESET_STEP_MS
    PRESET_ARM   \* PRESET_ARM_MS

ASSUME MacroConstants ==
    /\ SETTLE \in Nat \ {0} /\ {STAGGER, TIMEOUT, STALL, ARM, ARRIVED} \subseteq Nat
    /\ {SEEK, PRESET_ARM} \subseteq Nat /\ PRESET_STEP \in Nat \ {0}
    /\ {TRAVEL_RECLINE, TRAVEL_HEADREST} \subseteq Nat

Relay == INSTANCE Relays

\* PRESET_SLOTS is ADJUST_LEVEL_MAX: a slot and a level for each motion button.
Slots == Levels

\* A slot that is not in USED, and what a slot holds: both positions, in steps,
\* which comfort functions were running, and the level of each.
Unused == [used |-> FALSE]

Preset ==
    [used : {TRUE}, recline : Nat, headrest : Nat,
     flags : SUBSET {"heat", "massage", "lumbar"},
     heat : {0} \cup Levels, massage : {0} \cup Levels, lumbar : Nat]

PresetState ==
    [stage     : {"idle", "recline", "headrest"},
     slot      : {0} \cup Slots,
     target    : Nat,
     drive     : Relay!Motions \cup {"none"},
     armed     : BOOLEAN,
     armed_age : 0 .. PRESET_ARM]

PresetOff ==
    [stage |-> "idle", slot |-> 0, target |-> 0, drive |-> "none",
     armed |-> FALSE, armed_age |-> 0]

\* slot and target are not read again until the next recall writes them.
ElapsePreset(p, d) ==
    [p EXCEPT !.armed_age = IF p.armed THEN UpTo(PRESET_ARM, @ + d) ELSE 0,
              !.slot   = IF p.stage = "idle" THEN 0 ELSE @,
              !.target = IF p.stage = "idle" THEN 0 ELSE @]

Request(c, want) == [c EXCEPT !.motion = Relay!motion_request(@, want)]

-----------------------------------------------------------------------------
(* power.c                                                                  *)

power_toggle(c) == [c EXCEPT !.power = ~@]

power_comfort_off(c) == heat_off(pneumatics_shutdown(c))

-----------------------------------------------------------------------------
(* flatten.c                                                                *)

\* It toggles the gate whichever way it stands.
SlipFinish(c) == power_toggle(power_comfort_off(c))

finish(c) ==
    LET off == power_comfort_off(c) IN IF off.power THEN power_toggle(off) ELSE off

flatten_tap_start(c) == Request([c EXCEPT !.flatten = TRUE], "flatten")

\* Only the release of every button ends it.
SlipFlattenUpdate(c, code) ==
    IF c.flatten /\ Still(c) THEN finish([c EXCEPT !.flatten = FALSE]) ELSE c

\* A move ends at the stops only, not on the ceiling.
SlipFlattenEnds(c, code) ==
    CASE c.flatten /\ code # "none" -> [c EXCEPT !.flatten = FALSE]
      [] c.flatten /\ code = "none" /\ Still(c) /\ c.motion.arrived_latched -> finish([c EXCEPT !.flatten = FALSE])
      [] OTHER -> c

\* It returns MOTION_FLATTEN while unattended is still set.
flatten_update(c, code) ==
    CASE c.flatten /\ code # "none" -> [c EXCEPT !.flatten = FALSE]
      [] c.flatten /\ code = "none" /\ Still(c) -> finish([c EXCEPT !.flatten = FALSE])
      [] OTHER -> c

-----------------------------------------------------------------------------
(* preset.c: the store window.                                              *)

preset_arm(c)    == [c EXCEPT !.preset.armed = TRUE, !.preset.armed_age = 0]
preset_cancel(c) == [c EXCEPT !.preset.armed = FALSE]

preset_clear(c, slot) ==
    IF c.preset.armed
    THEN [c EXCEPT !.store.presets[slot] = Unused, !.preset.armed_age = 0]
    ELSE c

Snapshot(c) ==
    LET running == {f \in {"heat", "massage", "lumbar"} :
                       \/ f = "heat"    /\ c.heat.on
                       \/ f = "massage" /\ c.pneu.massage_on
                       \/ f = "lumbar"  /\ Lit(c.pneu)}
    IN  [used     |-> TRUE,
         recline  |-> c.motion.pos_recline \div PRESET_STEP,
         headrest |-> c.motion.pos_headrest \div PRESET_STEP,
         flags    |-> running,
         heat     |-> IF "heat" \in running THEN c.heat.level ELSE 0,
         massage  |-> IF "massage" \in running THEN c.pneu.massage_level ELSE 0,
         lumbar   |-> IF "lumbar" \in running
                      THEN pneumatics_lumbar_current(c.pneu) ELSE 0]

preset_save(c, slot) ==
    [c EXCEPT !.store.presets[slot] = Snapshot(c), !.preset.armed = FALSE]

-----------------------------------------------------------------------------
(* preset.c: the recall.                                                    *)

pos_for(c, stage) ==
    IF stage = "recline" THEN c.motion.pos_recline ELSE c.motion.pos_headrest

\* The direction to drive in, or none when it is close enough.
seek(c, stage, target) ==
    LET pos == pos_for(c, stage) IN
    CASE pos + SEEK < target ->
            IF stage = "recline" THEN "recline_up" ELSE "headrest_up"
      [] target + SEEK < pos ->
            IF stage = "recline" THEN "recline_down" ELSE "headrest_down"
      [] OTHER -> "none"

\* begin_recline and begin_headrest.
Stage(c, stage) ==
    LET target == c.store.presets[c.preset.slot][stage] * PRESET_STEP IN
    [c EXCEPT !.preset.stage = stage, !.preset.target = target,
              !.preset.drive = seek(c, stage, target)]

restore_comfort(c) ==
    LET p    == c.store.presets[c.preset.slot]
        on   == IF c.power THEN c ELSE power_toggle(c)
        warm == heat_set(on, "heat" \in p.flags)
        heat == IF "heat" \in p.flags THEN heat_use_level(warm, p.heat) ELSE warm
        mass == pneumatics_massage_set(heat, "massage" \in p.flags)
        use  == IF "massage" \in p.flags
                THEN pneumatics_massage_use_level(mass, p.massage) ELSE mass
    IN  pneumatics_lumbar_set(use, "lumbar" \in p.flags, p.lumbar)

\* No axis is left to drive.
Arrive(c) == restore_comfort([c EXCEPT !.preset.stage = "idle", !.preset.drive = "none"])

\* The headrest's stage follows one of no movement at once.
preset_recall(c, slot) ==
    LET recline  == Stage([c EXCEPT !.preset.slot = slot], "recline")
        headrest == Stage(recline, "headrest")
    IN  CASE c.preset.armed \/ c.preset.stage # "idle" \/ ~c.store.presets[slot].used -> c
          [] OTHER ->
               IF recline.preset.drive # "none"
               THEN Request(recline, recline.preset.drive)
               ELSE IF headrest.preset.drive # "none"
               THEN Request(headrest, headrest.preset.drive)
               ELSE Arrive(headrest)

Expire(c) ==
    IF c.preset.armed /\ c.preset.armed_age >= PRESET_ARM THEN preset_cancel(c) ELSE c

Cancel(c) == [c EXCEPT !.preset.stage = "idle", !.preset.drive = "none"]

\* A recall whose motor has stopped goes to its other axis, or ends.
NextStage(c) ==
    LET headrest == Stage(c, "headrest") IN
    IF c.preset.stage = "recline" /\ headrest.preset.drive # "none"
    THEN Request(headrest, headrest.preset.drive)
    ELSE Arrive(IF c.preset.stage = "recline" THEN headrest ELSE c)

\* The position is not looked at on the way.
SlipAdvance(c) == IF Still(c) THEN NextStage(c) ELSE c

Advance(c) ==
    LET there == ~Still(c) /\ seek(c, c.preset.stage, c.preset.target) = "none"
        now   == IF there THEN Request(c, "none") ELSE c
    IN  IF Still(now) THEN NextStage(now) ELSE now

\* It returns `drive`, which is MOTION_NONE unless a stage is under way.
preset_update(c, code) ==
    LET now == Expire(c) IN
    CASE now.preset.stage = "idle" -> now
      [] now.preset.stage # "idle" /\ code # "none" -> Cancel(now)
      [] now.preset.stage # "idle" /\ code = "none" -> Advance(now)

=============================================================================
