-------------------------------- MODULE Chair --------------------------------
(***************************************************************************)
(* The chair: pass after pass of the main loop, under any buttons and any    *)
(* readings.  What a pass hears is the code control_update works with, which  *)
(* is HS_NONE when nothing is pressed and when the handset is silent.        *)
(***************************************************************************)
EXTENDS Control

CONSTANTS
    Samples, \* the readings of the sense channel that this instance shows
    Stores,   \* what settings_init may have loaded
    PRESSES   \* a bound on the presses of a behaviour

\* What settings_init leaves of any flash: every slot is there, used or not.
ASSUME StoresLoaded ==
    Stores \subseteq [heat : Nat, massage : Nat, lumbar : Nat,
                      presets : [Slots -> Preset \cup {Unused}]]

\* adc_read returns nothing else.
ASSUME SamplesRead == Samples \subseteq Relay!Readings

VARIABLES
    chair,
    ticks,   \* dbg.ticks, which every pass counts, modulo 2
    code,    \* the button control_update heard in this pass
    presses, \* how many there have been
    \* Histories: what the press of this button was taken for, if not for its
    \* own purpose, and how long the heat has been on.
    claim, heated

vars == <<chair, ticks, code, presses, claim, heated>>

Init ==
    /\ \E store \in Stores :
          chair = [button |-> Press!PowerOn, power |-> FALSE, flatten |-> FALSE,
                   preset |-> PresetOff, consumed |-> "none",
                   adjust |-> AdjustOff, heat |-> HeatOff, pneu |-> PneumaticsOff,
                   motion |-> Relay!PowerOn, store |-> store]
    /\ ticks = 0 /\ code = "none" /\ presses = 0 /\ claim = "none" /\ heated = 0

Pressed(b) == b # "none" /\ b # code

\* A press is claimed by the recall it stops, or by the window that has borrowed
\* the motion buttons, until the button is up.
Claimed(c, b) ==
    CASE c.preset.stage # "idle" -> "stop"
      [] c.preset.stage = "idle" /\ c.preset.armed /\ b \in Drives -> "slot"
      [] c.preset.stage = "idle" /\ ~c.preset.armed /\ c.adjust.armed
            /\ b \in Drives -> "level"
      [] OTHER -> "none"

Longest == CHOOSE d \in Durations : \A e \in Durations : e <= d

\* A recall that ends in the pass in which heat's time is up may want it on, one
\* that begins and ends there too.
Relit(d, b, after) ==
    /\ heated + d >= HEAT_TIMEOUT
    /\ \/ chair.preset.stage # "idle"
       \/ Press!Reported(ElapseButton(chair.button, d), b).kind = "double_tap"
    /\ after.preset.stage = "idle"

\* The reading is sampled before the pass closes a contact.
Sampled == IF chair.motion.closed = {} THEN Samples \ {"high"} ELSE Samples

\* LONGEST_PAUSE bounds how long motions follow each other without a gap.
InBounds(b, after) ==
    /\ Pressed(b) => presses < PRESSES
    /\ after.motion.requested # "none" =>
          after.pneu.pause_age + 2 * Longest <= LONGEST_PAUSE

Pass(d, b, current) ==
    LET now   == ElapseChair(chair, d)
        after == control_update(now, b, current)
    IN  /\ InBounds(b, after)
        /\ chair' = after
        /\ ticks' = 1 - ticks
        /\ code' = b
        /\ presses' = IF Pressed(b) THEN presses + 1 ELSE presses
        /\ claim' = IF Pressed(b) THEN Claimed(now, b)
                    ELSE IF b = code THEN claim ELSE "none"
        /\ heated' = IF chair.heat.on /\ after.heat.on /\ ~Relit(d, b, after)
                     THEN heated + d ELSE 0

Next == \E d \in Durations, b \in Buttons \cup {"none"}, current \in Sampled :
            Pass(d, b, current)

\* The main loop goes on for as long as there is power (the watchdog resets one
\* that does not): passes are counted for ever.  Every pass is counted and one is
\* always possible, so this is weak fairness of Next.
Fairness == []<><<TRUE>>_ticks

Spec == Init /\ [][Next]_vars /\ Fairness

=============================================================================
