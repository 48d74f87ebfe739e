--------------------------- MODULE ChairProperties ---------------------------
(***************************************************************************)
(* What must be true of the chair, across its components.                    *)
(***************************************************************************)
EXTENDS Chair

\* The passes have a longest one, too short to step over the whole of the window
\* in which a recall stops (MOTION_SEEK_MS to either side of its slot).
ASSUME PassesShort ==
    /\ Longest \in Durations /\ \A d \in Durations : d <= Longest
    /\ Longest <= 2 * SEEK + 1

TypeOK ==
    /\ chair.button \in Press!ButtonState
    /\ chair.power \in BOOLEAN /\ chair.flatten \in BOOLEAN
    /\ chair.preset \in PresetState
    /\ chair.consumed \in Buttons \cup {"none"}
    /\ chair.adjust \in AdjustState
    /\ chair.heat \in HeatState
    /\ chair.pneu \in PneumaticsState
    /\ chair.motion \in Relay!MotionState
    /\ chair.store.presets \in [Slots -> Preset \cup {Unused}]

\* The power budget: heat, pump and motors are never driven together, whichever
\* of them was switched on first and whoever asked.
PowerBudget == chair.motion.closed # {} => ~chair.heat.pin /\ ~chair.pneu.pump

\* A press that stops a recall, names a slot or picks a level never drives the
\* motor of its button, for as long as the button stays down.
ClaimedNeverDrives == claim # "none" => chair.motion.requested = "none"

\* Nothing moves but what the button that is down asks for, unless none is:
\* any press ends an unattended move.
PressEndsMacro ==
    code # "none" =>
        /\ chair.motion.requested \in {"none", code}
        /\ ~chair.flatten /\ chair.preset.stage = "idle"

\* A recall drives an axis no further than its slot: it stops for the position,
\* which is estimated, and does not run to the end of the travel.
SeekStops ==
    LET p   == chair.preset
        pos == pos_for(chair, p.stage)
    IN  p.drive # "none" /\ chair.motion.requested = p.drive
        => IF p.drive \in {"recline_up", "headrest_up"}
           THEN pos <= p.target + Longest ELSE p.target <= pos + Longest

\* Nothing that heats or inflates is on with the gate off.
GateCovers ==
    chair.heat.on \/ chair.pneu.massage_on \/ Lit(chair.pneu) => chair.power

\* Heat goes off by itself after its time, whatever is done to its level.
HeaterBound == heated <= HEAT_TIMEOUT

-----------------------------------------------------------------------------

\* A recall leaves the remembered levels alone, and only the store window
\* changes a slot: what is remembered changes under a finger's own press.
MemoryByHand ==
    [][/\ chair'.store.heat # chair.store.heat
             => code' # code /\ claim' = "level" /\ chair.adjust.owner = "heat"
       /\ chair'.store.massage # chair.store.massage
             => code' # code /\ claim' = "level" /\ chair.adjust.owner = "massage"
       /\ chair'.store.presets # chair.store.presets
             => claim = "slot" /\ chair.preset.armed]_vars

\* A flatten that ends by itself leaves nothing on.
FlattenLeavesAllOff ==
    [][chair.flatten /\ ~chair'.flatten /\ code' = "none"
         => /\ ~chair'.power /\ ~chair'.heat.on /\ ~chair'.pneu.massage_on
            /\ ~Lit(chair'.pneu) /\ chair'.motion.requested = "none"]_vars

\* An unattended move ends, arrival or no arrival.
Unattended == chair.flatten \/ chair.preset.stage # "idle"
MacrosEnd == Unattended ~> ~Unattended

-----------------------------------------------------------------------------
(* What the code's own texts say and the code does not do.                  *)

\* A recall whose chair is already there restores the comfort of its slot.
Restored(slot) ==
    LET p == chair'.store.presets[slot] IN
    /\ chair'.heat.on = ("heat" \in p.flags)
    /\ chair'.pneu.massage_on = ("massage" \in p.flags)
    /\ Lit(chair'.pneu) = ("lumbar" \in p.flags)

InPlace(slot) ==
    /\ chair.store.presets[slot].used
    /\ \A stage \in {"recline", "headrest"} :
          seek(chair, stage, chair.store.presets[slot][stage] * PRESET_STEP) = "none"

InPlaceRecallRestores ==
    [][\A b \in Drives :
          /\ code = b /\ code' = "none" /\ ~chair.preset.armed
          /\ Press!Reported(ElapseButton(chair.button, Longest), "none").kind = "double_tap"
          /\ InPlace(Level(b))
          => Restored(Level(b))]_vars

\* The button that stops a recall does nothing else.
StopDoesNothingElse ==
    [][claim = "stop" => /\ chair'.power = chair.power
                         /\ chair'.heat.on = chair.heat.on
                         /\ chair'.pneu.massage_on = chair.pneu.massage_on]_vars

\* Only one window has the motion buttons at a time.
OneWindow == ~(chair.adjust.armed /\ chair.preset.armed)

\* A recall drives both axes to its slot, whichever way its first motor stopped.
BothAxesDriven ==
    [][chair.preset.stage = "recline" /\ chair'.preset.stage = "headrest"
         => chair'.motion.requested = chair'.preset.drive]_vars

\* Holding HEAT switches heat on if it was off.
HoldSwitchesOn ==
    [][~chair.adjust.armed /\ chair'.adjust.armed /\ chair'.adjust.owner = "heat"
         => chair'.heat.on]_vars

=============================================================================
