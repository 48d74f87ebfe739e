----------------------------- MODULE ChairProofs -----------------------------
(***************************************************************************)
(* What is proved of the chair, whatever the constants are.                 *)
(*                                                                         *)
(* The power budget, first: no two loads at once.  What a part of the pass   *)
(* may do to the motors and to what else draws current is enough for it      *)
(* (NoMore, Ask), because the loads are cut where a motion stands, and one    *)
(* that is requested after them settles first.                              *)
(*                                                                         *)
(* Then what relates the components to each other: the gate, the macros,     *)
(* the borrowed buttons, the clock of heat and what is remembered.  The       *)
(* calls of a pass are sorted by what they leave alone and what they may      *)
(* switch on (Serves, Hushes, Recalls), every point of a pass is  Sound,  and *)
(* ChairInv is what a pass keeps.  SeekInv adds the positions.               *)
(*                                                                         *)
(* Last the types, of the whole chair: TypeInv.  They need the two before,   *)
(* for a recall reads the slot it has (Aimed), and three facts that TypeOK    *)
(* does not say: how far each phase of the bar has come (BarState), who owns  *)
(* the valves (Owned), and that lumbar is pumped from within its ceiling      *)
(* (Fits), but under the one press that may have found it fuller.  With the  *)
(* types the clocks of a motion are numbers, and an unattended move runs down *)
(* with them (MovesRunDown).                                                 *)
(*                                                                         *)
(* At the end the chair is put together with Motion: its motors implement    *)
(* it (ChairIsMotion), and what MotionProofs shows of them holds in the       *)
(* chair.                                                                  *)
(***************************************************************************)
EXTENDS ChairProperties, TLAPS, WellFoundedInduction

PneuFields ==
    {"massage_on", "massage_level", "massage_step", "step_started", "step_age",
     "start_age", "lumbar_state", "lumbar_age", "lumbar_target_ms",
     "lumbar_choosing", "lumbar_base_ms", "lumbar_level_ms", "paused",
     "pause_age", "venting", "vent_age", "valves_now", "closed_age", "pump"}

MotionFields ==
    {"requested", "seq", "closed", "headrest_dir", "fault_latched",
     "arrived_latched", "over", "zero", "requested_age", "running_age",
     "over_age", "zero_age", "track_age", "pos_recline", "pos_headrest"}

\* The records have their fields, of whatever value: no load depends on more.
Shape(c) ==
    /\ DOMAIN c = {"button", "power", "flatten", "preset", "consumed", "adjust",
                   "heat", "pneu", "motion", "store"}
    /\ DOMAIN c.heat = {"on", "age", "level", "pin"}
    /\ DOMAIN c.pneu = PneuFields
    /\ DOMAIN c.motion = MotionFields

\* No load is on in d that was not in c, and nothing was asked of the motors.
NoMore(c, d) ==
    /\ Shape(d)
    /\ d.motion = c.motion
    /\ d.heat.pin => c.heat.pin
    /\ d.pneu.pump => c.pneu.pump

LEMMA NoMoreThen ==
    ASSUME NEW c, NEW d, NEW e, NoMore(c, d), NoMore(d, e)
    PROVE  NoMore(c, e)
  BY DEF NoMore

\* Fields that no load depends on.
LEMMA Aside ==
    ASSUME NEW c, Shape(c), NEW x
    PROVE  /\ NoMore(c, c)
           /\ NoMore(c, [c EXCEPT !.adjust = x])
           /\ NoMore(c, [c EXCEPT !.store = x])
           /\ NoMore(c, [c EXCEPT !.power = x])
           /\ NoMore(c, [c EXCEPT !.preset = x])
           /\ NoMore(c, [c EXCEPT !.consumed = x])
           /\ NoMore(c, [c EXCEPT !.flatten = x])
           /\ NoMore(c, [c EXCEPT !.button = x])
  BY DEF NoMore, Shape, PneuFields

LEMMA HeatCalls ==
    ASSUME NEW c, Shape(c), NEW want, NEW on
    PROVE  /\ NoMore(c, switch_on(c))
           /\ NoMore(c, heat_arm(c))
           /\ NoMore(c, heat_use_level(c, want))
           /\ NoMore(c, heat_set_level(c, want))
           /\ NoMore(c, heat_off(c))
           /\ NoMore(c, heat_set(c, on))
           /\ NoMore(c, heat_press(c))
  <1>1. NoMore(c, switch_on(c)) /\ NoMore(c, heat_off(c))
    BY DEF NoMore, Shape, PneuFields, switch_on, heat_off, HeatOff
  <1>2. NoMore(c, heat_arm(c))
    BY DEF NoMore, Shape, PneuFields, heat_arm
  <1>3. NoMore(c, heat_use_level(c, want))
    BY DEF NoMore, Shape, PneuFields, heat_use_level
  <1>4. NoMore(c, heat_set_level(c, want))
    BY DEF NoMore, Shape, PneuFields, heat_use_level, heat_set_level
  <1>5. NoMore(c, heat_set(c, on))
    BY <1>1, Aside DEF heat_set
  <1>6. NoMore(c, heat_press(c))
    <2> DEFINE lit == switch_on(c)
    <2>1. NoMore(c, lit) /\ Shape(lit)
      BY <1>1 DEF NoMore
    <2>2. \A x : NoMore(lit, [lit EXCEPT !.adjust = x])
      BY <2>1, Aside
    <2>3. \A x : NoMore(c, [lit EXCEPT !.adjust = x])
      BY <2>1, <2>2, NoMoreThen
    <2>4. NoMore(c, c) /\ \A x : NoMore(c, [c EXCEPT !.adjust = x])
      BY Aside
    <2> QED
      BY <1>1, <2>3, <2>4 DEF heat_press
  <1> QED
    BY <1>1, <1>2, <1>3, <1>4, <1>5, <1>6

-----------------------------------------------------------------------------

\* The records of the air cells, with the pump as it was, or off.
Air(p, q) == DOMAIN q = DOMAIN p /\ (q.pump => p.pump)

LEMMA AirNoMore ==
    ASSUME NEW c, Shape(c), NEW q, Air(c.pneu, q)
    PROVE  NoMore(c, [c EXCEPT !.pneu = q])
  BY DEF NoMore, Shape, PneuFields, Air

LEMMA ValvesDomain ==
    ASSUME NEW p, DOMAIN p = PneuFields, NEW bits
    PROVE  DOMAIN valves_set(p, bits) = PneuFields
  <1> DEFINE q == [p EXCEPT !.valves_now = bits]
  <1>1. DOMAIN q = PneuFields
    OBVIOUS
  <1> HIDE DEF q
  <1>2. DOMAIN pump_update(q) = PneuFields
    BY <1>1 DEF pump_update
  <1> QED
    BY <1>2 DEF valves_set, q

\* Only a cell's valve has the pump on.
LEMMA ValvesShut ==
    ASSUME NEW p, DOMAIN p = PneuFields
    PROVE  valves_set(p, {}).pump = FALSE /\ valves_set(p, {"vent"}).pump = FALSE
  <1>1. ASSUME NEW bits, bits \cap CellValves = {} PROVE valves_set(p, bits).pump = FALSE
    <2> DEFINE q == [p EXCEPT !.valves_now = bits]
    <2>1. q.valves_now = bits /\ DOMAIN q = PneuFields
      BY DEF PneuFields
    <2>2. pump_update(q) = [q EXCEPT !.closed_age = 0, !.pump = FALSE]
      BY <2>1, <1>1 DEF pump_update
    <2> QED
      BY <2>1, <2>2 DEF valves_set, PneuFields
  <1>2. {} \cap CellValves = {} /\ {"vent"} \cap CellValves = {}
    BY DEF CellValves
  <1> QED
    BY <1>1, <1>2

LEMMA StartVent ==
    ASSUME NEW c, Shape(c), NEW p, DOMAIN p = DOMAIN c.pneu
    PROVE  DOMAIN start_vent(p) = DOMAIN p /\ start_vent(p).pump = FALSE
  <1> DEFINE v == valves_set(p, {"vent"})
  <1>1. DOMAIN p = PneuFields
    BY DEF Shape
  <1>2. DOMAIN v = PneuFields /\ v.pump = FALSE
    BY <1>1, ValvesDomain, ValvesShut
  <1> HIDE DEF v
  <1>3. DOMAIN [v EXCEPT !.vent_age = 0, !.venting = TRUE] = PneuFields
    BY <1>2
  <1>4. [v EXCEPT !.vent_age = 0, !.venting = TRUE].pump = v.pump
    BY <1>2 DEF PneuFields
  <1> QED
    BY <1>1, <1>2, <1>3, <1>4 DEF start_vent, v

LEMMA MassageCalls ==
    ASSUME NEW c, Shape(c), NEW want, NEW on
    PROVE  /\ NoMore(c, massage_off(c))
           /\ NoMore(c, massage_start(c))
           /\ NoMore(c, pneumatics_massage_arm(c))
           /\ NoMore(c, pneumatics_massage_use_level(c, want))
           /\ NoMore(c, pneumatics_massage_set_level(c, want))
           /\ NoMore(c, EndMassage(c))
           /\ NoMore(c, pneumatics_massage_set(c, on))
           /\ NoMore(c, MassageButton(c))
  <1>1. NoMore(c, massage_off(c))
    BY DEF NoMore, Shape, PneuFields, massage_off
  <1>2. NoMore(c, massage_start(c))
    BY DEF NoMore, Shape, PneuFields, massage_start
  <1>3. NoMore(c, pneumatics_massage_arm(c))
    BY DEF NoMore, Shape, PneuFields, pneumatics_massage_arm
  <1>4. NoMore(c, pneumatics_massage_use_level(c, want))
    BY DEF NoMore, Shape, PneuFields, pneumatics_massage_use_level
  <1>5. NoMore(c, pneumatics_massage_set_level(c, want))
    BY DEF NoMore, Shape, PneuFields, pneumatics_massage_use_level, pneumatics_massage_set_level
  <1>6. NoMore(c, EndMassage(c))
    <2> DEFINE off == massage_off(c)
    <2>1. Shape(off) /\ NoMore(c, off)
      BY <1>1 DEF NoMore
    <2>2. Air(off.pneu, start_vent(off.pneu))
      BY <2>1, StartVent DEF Air
    <2>3. NoMore(off, [off EXCEPT !.pneu = start_vent(off.pneu)])
      BY <2>1, <2>2, AirNoMore
    <2> QED
      BY <2>1, <2>3, NoMoreThen DEF EndMassage
  <1>7. NoMore(c, pneumatics_massage_set(c, on))
    BY <1>2, <1>6, Aside DEF pneumatics_massage_set
  <1>8. NoMore(c, MassageButton(c))
    <2> DEFINE begun == massage_start(c)
    <2>1. NoMore(c, begun) /\ Shape(begun)
      BY <1>2 DEF NoMore
    <2>2. \A x : NoMore(begun, [begun EXCEPT !.adjust = x])
      BY <2>1, Aside
    <2>3. \A x : NoMore(c, [begun EXCEPT !.adjust = x])
      BY <2>1, <2>2, NoMoreThen
    <2>4. \A x : NoMore(c, [c EXCEPT !.adjust = x])
      BY Aside
    <2> QED
      BY <1>6, <2>3, <2>4 DEF MassageButton
  <1> QED
    BY <1>1, <1>2, <1>3, <1>4, <1>5, <1>6, <1>7, <1>8

LEMMA LumbarStops ==
    ASSUME NEW c, Shape(c), NEW elapsed, NEW remember
    PROVE  /\ NoMore(c, lumbar_stop_at(c, elapsed, remember))
           /\ NoMore(c, lumbar_keep(c, elapsed))
  BY DEF NoMore, Shape, PneuFields, lumbar_stop_at, lumbar_keep, set_lumbar

LEMMA LumbarCalls ==
    ASSUME NEW c, Shape(c), NEW on, NEW tenths
    PROVE  /\ NoMore(c, pneumatics_lumbar_release(c))
           /\ NoMore(c, pneumatics_lumbar_set(c, on, tenths))
           /\ NoMore(c, LumbarButton(c))
           /\ NoMore(c, pneumatics_shutdown(c))
  <1>3. NoMore(c, pneumatics_lumbar_release(c))
    <2> DEFINE done == [c EXCEPT !.pneu.lumbar_choosing = FALSE]
               toStored == [done EXCEPT !.pneu.lumbar_target_ms = Target(c.store.lumbar)]
    <2>1. NoMore(c, done) /\ Shape(done)
      BY DEF NoMore, Shape, PneuFields
    <2>4. NoMore(c, toStored)
      <3>1. \A x : NoMore(done, [done EXCEPT !.pneu.lumbar_target_ms = x])
        BY <2>1 DEF NoMore, Shape, PneuFields
      <3> QED
        BY <2>1, <3>1, NoMoreThen
    <2>2. \A d, e : NoMore(c, d) => NoMore(c, lumbar_keep(d, e))
      <3> SUFFICES ASSUME NEW d, NEW e, NoMore(c, d) PROVE NoMore(c, lumbar_keep(d, e))
        OBVIOUS
      <3>1. Shape(d)
        BY DEF NoMore
      <3> QED
        BY <3>1, LumbarStops, NoMoreThen
    <2>3. NoMore(c, [done EXCEPT !.pneu = set_lumbar(done.pneu, "deflate")])
      BY DEF NoMore, Shape, PneuFields, set_lumbar
    <2> HIDE DEF done, toStored
    <2> QED
      BY <2>1, <2>2, <2>3, <2>4 DEF pneumatics_lumbar_release, done, toStored
  <1>4. NoMore(c, pneumatics_lumbar_set(c, on, tenths))
    BY DEF NoMore, Shape, PneuFields, pneumatics_lumbar_set, massage_off, set_lumbar
  <1>5. NoMore(c, LumbarButton(c))
    BY DEF NoMore, Shape, PneuFields, LumbarButton, massage_off, set_lumbar
  <1>6. NoMore(c, pneumatics_shutdown(c))
    <2> DEFINE off == massage_off(c)
               p   == [off.pneu EXCEPT !.lumbar_state = "off", !.lumbar_choosing = FALSE,
                                       !.lumbar_base_ms = 0]
    <2>1. Shape(off) /\ NoMore(c, off)
      BY MassageCalls DEF NoMore
    <2>2. DOMAIN p = DOMAIN off.pneu
      BY <2>1 DEF Shape
    <2>3. Air(off.pneu, start_vent(p))
      BY <2>1, <2>2, StartVent DEF Air
    <2>4. NoMore(off, [off EXCEPT !.pneu = start_vent(p)])
      BY <2>1, <2>3, AirNoMore
    <2> QED
      BY <2>1, <2>4, NoMoreThen DEF pneumatics_shutdown
  <1> QED
    BY <1>3, <1>4, <1>5, <1>6

-----------------------------------------------------------------------------
(* The updates: each switches its own load off while anything moves.         *)

\* The air cells aside, which may start the pump.
Same(c, d) ==
    /\ Shape(d)
    /\ d.motion = c.motion
    /\ d.heat.pin => c.heat.pin

LEMMA AirIsSame ==
    ASSUME NEW c, Shape(c), NEW q, DOMAIN q = PneuFields
    PROVE  /\ Same(c, [c EXCEPT !.pneu = q])
           /\ [c EXCEPT !.pneu = q].pneu = q
  BY DEF Same, Shape

LEMMA VentTick ==
    ASSUME NEW p, DOMAIN p = PneuFields
    PROVE  DOMAIN vent_tick(p) = PneuFields /\ vent_tick(p).pump = FALSE
  <1> DEFINE q == [p EXCEPT !.venting = FALSE, !.vent_age = 0]
  <1>1. DOMAIN q = PneuFields
    OBVIOUS
  <1> HIDE DEF q
  <1>2. vent_tick(p) = IF p.vent_age >= VENT THEN valves_set(q, {}) ELSE valves_set(p, {"vent"})
    BY DEF vent_tick, q
  <1> QED
    BY <1>1, <1>2, ValvesDomain, ValvesShut

LEMMA DeflateTicks ==
    ASSUME NEW p, DOMAIN p = PneuFields
    PROVE  DOMAIN DeflateTick(p) = PneuFields /\ DeflateTick(p).pump = FALSE
  <1> DEFINE open == valves_set(p, {"vent"})
             q    == [open EXCEPT !.lumbar_state = "off"]
  <1>1. DOMAIN open = PneuFields /\ open.pump = FALSE
    BY ValvesDomain, ValvesShut
  <1> HIDE DEF open
  <1>2. DOMAIN q = PneuFields
    BY <1>1
  <1> HIDE DEF q
  <1>3. DeflateTick(p) = IF p.lumbar_age >= VENT THEN valves_set(q, {}) ELSE open
    BY DEF DeflateTick, q, open
  <1> QED
    BY <1>1, <1>2, <1>3, ValvesDomain, ValvesShut

LEMMA MassageTick ==
    ASSUME NEW p, DOMAIN p = PneuFields
    PROVE  DOMAIN massage_tick(p) = PneuFields
  <1> DEFINE len  == Pattern[p.massage_step].len[p.massage_level]
             next == IF ~p.step_started
                     THEN [p EXCEPT !.step_started = TRUE, !.step_age = 0]
                     ELSE IF p.step_age < len THEN p
                     ELSE [p EXCEPT !.massage_step = (@ % Len(Pattern)) + 1,
                                    !.step_age = 0]
  <1>1. DOMAIN next = PneuFields
    OBVIOUS
  <1>2. massage_tick(p) = valves_set(next, Pattern[next.massage_step].bits)
    BY DEF massage_tick
  <1> HIDE DEF next
  <1> QED
    BY <1>1, <1>2, ValvesDomain

LEMMA InflateTicks ==
    ASSUME NEW c, Shape(c)
    PROVE  NoMore(c, InflateTick(c))
  BY LumbarStops, Aside DEF InflateTick

LEMMA QuietAir ==
    ASSUME NEW c, Shape(c), NEW q, DOMAIN q = PneuFields, q.pump = FALSE
    PROVE  Same(c, [c EXCEPT !.pneu = q]) /\ ~[c EXCEPT !.pneu = q].pneu.pump
  BY AirIsSame

LEMMA LumbarTick ==
    ASSUME NEW c, Shape(c)
    PROVE  /\ Same(c, lumbar_tick(c))
           /\ c.pneu.lumbar_state = "deflate" => ~lumbar_tick(c).pneu.pump
  <1> DEFINE Set(bits) == [c EXCEPT !.pneu = valves_set(c.pneu, bits)]
  <1>0. DOMAIN c.pneu = PneuFields /\ Same(c, c)
    BY DEF Shape, Same
  <1>1. \A bits : Same(c, Set(bits)) /\ Shape(Set(bits))
    BY <1>0, ValvesDomain, AirIsSame DEF Same
  <1> HIDE DEF Set
  <1>2. Same(c, InflateTick(Set({"bottom"})))
    BY <1>1, InflateTicks DEF Same, NoMore
  <1>3. /\ Same(c, [c EXCEPT !.pneu = DeflateTick(c.pneu)])
        /\ ~[c EXCEPT !.pneu = DeflateTick(c.pneu)].pneu.pump
    BY <1>0, DeflateTicks, QuietAir
  <1> QED
    BY <1>0, <1>1, <1>2, <1>3 DEF lumbar_tick, Set

LEMMA PausedAir ==
    ASSUME NEW c, Shape(c)
    PROVE  Same(c, WhilePaused(c)) /\ ~WhilePaused(c).pneu.pump
  <1> DEFINE shut == [c EXCEPT !.pneu = valves_set(c.pneu, {})]
             vent == [c EXCEPT !.pneu = vent_tick(c.pneu)]
  <1>1. DOMAIN c.pneu = PneuFields
    BY DEF Shape
  <1>2. Same(c, shut) /\ ~shut.pneu.pump
    BY <1>1, ValvesDomain, ValvesShut, QuietAir
  <1>3. Same(c, vent) /\ ~vent.pneu.pump
    BY <1>1, VentTick, QuietAir
  <1> HIDE DEF shut, vent
  <1> QED
    BY <1>2, <1>3, LumbarTick DEF WhilePaused, shut, vent

LEMMA RunningAir ==
    ASSUME NEW c, Shape(c)
    PROVE  Same(c, Running(c))
  <1> DEFINE tick == [c EXCEPT !.pneu = massage_tick(c.pneu)]
             shut == [c EXCEPT !.pneu = valves_set(c.pneu, {})]
             vent == [c EXCEPT !.pneu = vent_tick(c.pneu)]
  <1>1. DOMAIN c.pneu = PneuFields
    BY DEF Shape
  <1>2. Same(c, tick) /\ Same(c, shut) /\ Same(c, vent)
    BY <1>1, MassageTick, ValvesDomain, VentTick, AirIsSame
  <1>3. Same(c, EndMassage(c))
    BY MassageCalls DEF Same, NoMore
  <1> HIDE DEF tick, shut, vent
  <1> QED
    BY <1>2, <1>3, LumbarTick DEF Running, tick, shut, vent

\* The pump waits for the motors.
LEMMA AirUpdate ==
    ASSUME NEW c, Shape(c)
    PROVE  /\ Same(c, pneumatics_update(c))
           /\ ~Still(c) => ~pneumatics_update(c).pneu.pump
  <1> DEFINE begun == [c EXCEPT !.pneu.paused = TRUE, !.pneu.pause_age = 0]
             ended == [c EXCEPT !.pneu = Unpause(c.pneu)]
  <1>1. Shape(c) /\ Same(c, c)
    BY DEF Same
  <1>2. Same(c, begun) /\ Shape(begun)
    BY DEF Same, Shape, PneuFields
  <1>3. Same(c, ended) /\ Shape(ended)
    <2>1. DOMAIN Unpause(c.pneu) = PneuFields
      BY DEF Unpause, Shape
    <2> QED
      BY <2>1, AirIsSame DEF Same
  <1> HIDE DEF begun, ended
  <1>4. ASSUME NEW d, NEW e, Same(c, d), Same(d, e) PROVE Same(c, e)
    BY <1>4 DEF Same
  <1> QED
    BY <1>1, <1>2, <1>3, <1>4, PausedAir, RunningAir DEF pneumatics_update, begun, ended

\* So does the heater.
LEMMA HeatUpdate ==
    ASSUME NEW c, Shape(c)
    PROVE  LET d == heat_update(c) IN
           /\ Shape(d) /\ d.motion = c.motion /\ d.pneu = c.pneu
           /\ ~Still(c) => ~d.heat.pin
  BY DEF heat_update, heat_off, HeatOff, Shape

-----------------------------------------------------------------------------
(* The motors.                                                              *)

\* A closed contact has a request behind it.
Wired(m) == m.closed # {} => m.requested # "none"

\* No contact is closed, nor will be in this pass.
Fresh(m) ==
    /\ m.closed = {}
    /\ m.requested = "none" \/ (m.seq = "settling" /\ m.requested_age = 0)

LEMMA RequestMotion ==
    ASSUME NEW m, DOMAIN m = MotionFields, Wired(m), NEW want
    PROVE  LET n == Relay!motion_request(m, want) IN
           /\ DOMAIN n = MotionFields /\ Wired(n)
           /\ Fresh(m) => Fresh(n)
           /\ (m.requested # "none" /\ want # "none") => n.requested # "none"
  <1> DEFINE open == Relay!Unlatch(m)
             stop == Relay!motion_stop(m)
             turn == Relay!select_direction(stop, want)
             new  == Relay!Begin(m, want)
  <1>1. /\ DOMAIN open = MotionFields
        /\ open.closed = m.closed /\ open.requested = m.requested
        /\ open.seq = m.seq /\ open.requested_age = m.requested_age
    BY DEF Relay!Unlatch, MotionFields
  <1>2. ASSUME NEW k, DOMAIN k = MotionFields
        PROVE  /\ DOMAIN Relay!motion_stop(k) = MotionFields
               /\ Relay!motion_stop(k).closed = {}
               /\ Relay!motion_stop(k).requested = "none"
    BY <1>2 DEF Relay!motion_stop, Relay!NONE, MotionFields
  <1>3. DOMAIN turn = MotionFields /\ turn.closed = {}
    BY <1>2 DEF Relay!select_direction, MotionFields
  <1>4. /\ DOMAIN new = MotionFields
        /\ new.closed = {} /\ new.requested = want
        /\ new.seq = "settling" /\ new.requested_age = 0
    <2> HIDE DEF turn
    <2> QED
      BY <1>3 DEF Relay!Begin, turn, MotionFields
  <1> HIDE DEF open, stop, new
  <1>5. /\ DOMAIN Relay!motion_stop(open) = MotionFields
        /\ Relay!motion_stop(open).closed = {}
        /\ Relay!motion_stop(open).requested = "none"
    BY <1>1, <1>2
  <1> QED
    BY <1>1, <1>4, <1>5 DEF Relay!motion_request, Relay!NONE, Wired, Fresh, open, new

\* What a pass's update of the motors leaves of the relays.
LEMMA UpdateMotion ==
    ASSUME NEW m, DOMAIN m = MotionFields, Wired(m), NEW current
    PROVE  LET n == Relay!motion_update(m, current) IN
           /\ DOMAIN n = MotionFields /\ Wired(n)
           /\ Fresh(m) => n.closed = {}
  <1> DEFINE seq == Relay!Sequence(m)
             pos == Relay!track(seq)
  <1>1. CASE m.requested = "none" \/ seq.seq = "settling"
    BY <1>1 DEF Relay!motion_update, Relay!NONE, Fresh
  <1>2. CASE ~(m.requested = "none" \/ seq.seq = "settling")
    <2>1. DOMAIN seq = MotionFields /\ seq.requested # "none"
      BY <1>2 DEF Relay!Sequence, Relay!CloseFirst, Relay!CloseSecond, MotionFields
    <2> HIDE DEF seq
    <2>2. DOMAIN pos = MotionFields /\ pos.requested # "none"
      BY <2>1 DEF Relay!track, MotionFields
    <2>3. ~(0 >= SETTLE)
      BY MacroConstants
    <2>4. ~Fresh(m)
      <3>1. CASE m.requested_age = 0 /\ m.seq = "settling"
        BY <1>2, <2>3, <3>1 DEF Relay!Sequence, seq
      <3> QED
        BY <1>2, <3>1 DEF Fresh
    <2>5. Relay!motion_update(m, current) = Relay!EndStall(pos, current)
      BY <1>2 DEF Relay!motion_update, Relay!NONE, seq
    <2> HIDE DEF pos
    <2> DEFINE Fine(k) == DOMAIN k = MotionFields /\ Wired(k)
    <2>6. ASSUME NEW k, DOMAIN k = MotionFields PROVE Fine(Relay!Fault(k))
      BY <2>6 DEF Relay!Fault, Relay!motion_stop, Relay!NONE, Wired, MotionFields
    <2>7. ASSUME NEW k, DOMAIN k = MotionFields PROVE Fine(Relay!Arrive(k))
      BY <2>7 DEF Relay!Arrive, Relay!AtStop, Relay!motion_stop, Relay!NONE, Wired, MotionFields
    <2> DEFINE Live(k) == DOMAIN k = MotionFields /\ k.requested # "none"
    <2>8. ASSUME NEW k, Live(k)
          PROVE  Live(Relay!Undercurrent(k, current)) /\ Live(Relay!Overcurrent(k, current))
      BY <2>8 DEF Relay!Undercurrent, Relay!Overcurrent, MotionFields
    <2>9. ASSUME NEW k, Live(k) PROVE Fine(Relay!EndTimeout(k))
      BY <2>6, <2>9 DEF Relay!EndTimeout, Wired
    <2>10. ASSUME NEW k, Live(k) PROVE Fine(Relay!EndArrival(k, current))
      BY <2>7, <2>8, <2>9, <2>10 DEF Relay!EndArrival
    <2> QED
      BY <2>2, <2>4, <2>5, <2>6, <2>8, <2>10 DEF Relay!EndStall
  <1> QED
    BY <1>1, <1>2

-----------------------------------------------------------------------------
(* The macros and the events: nothing they do closes a contact or switches a *)
(* load on.                                                                 *)

\* The same, but the motors may be asked for another motion, or for none.
Ask(c, d) ==
    /\ Shape(d)
    /\ Wired(c.motion) => Wired(d.motion)
    /\ Wired(c.motion) /\ Fresh(c.motion) => Fresh(d.motion)
    /\ d.heat.pin => c.heat.pin
    /\ d.pneu.pump => c.pneu.pump

LEMMA AskThen ==
    ASSUME NEW c, NEW d, NEW e, Ask(c, d), Ask(d, e)
    PROVE  Ask(c, e)
  BY DEF Ask

LEMMA NoMoreAsks ==
    ASSUME NEW c, NEW d, NoMore(c, d)
    PROVE  Ask(c, d)
  BY DEF Ask, NoMore

LEMMA Requests ==
    ASSUME NEW c, Shape(c), NEW want
    PROVE  Ask(c, Request(c, want))
  <1> DEFINE n == Relay!motion_request(c.motion, want)
  <1>1. Wired(c.motion) => DOMAIN n = MotionFields /\ Wired(n) /\ (Fresh(c.motion) => Fresh(n))
    BY RequestMotion DEF Shape
  <1>2. DOMAIN n = MotionFields
    BY DEF Shape, MotionFields, Relay!motion_request, Relay!Unlatch, Relay!motion_stop,
           Relay!Begin, Relay!select_direction
  <1> HIDE DEF n
  <1>3. Request(c, want) = [c EXCEPT !.motion = n]
    BY DEF Request, n
  <1> QED
    BY <1>1, <1>2, <1>3 DEF Ask, Shape, PneuFields

LEMMA PowerCalls ==
    ASSUME NEW c, Shape(c)
    PROVE  /\ NoMore(c, power_toggle(c))
           /\ NoMore(c, power_comfort_off(c))
           /\ NoMore(c, power_short_press(c))
           /\ NoMore(c, finish(c))
  <1>1. \A d : Shape(d) => NoMore(d, power_toggle(d)) /\ NoMore(d, d)
    BY Aside DEF power_toggle
  <1>2. \A d : Shape(d) => NoMore(d, power_comfort_off(d))
    <2> SUFFICES ASSUME NEW d, Shape(d) PROVE NoMore(d, power_comfort_off(d))
      OBVIOUS
    <2>1. NoMore(d, pneumatics_shutdown(d)) /\ Shape(pneumatics_shutdown(d))
      BY LumbarCalls DEF NoMore
    <2>2. NoMore(pneumatics_shutdown(d), heat_off(pneumatics_shutdown(d)))
      BY <2>1, HeatCalls
    <2> QED
      BY <2>1, <2>2, NoMoreThen DEF power_comfort_off
  <1>3. NoMore(c, power_short_press(c))
    <2>1. NoMore(c, power_toggle(c)) /\ Shape(power_toggle(c))
      BY <1>1 DEF NoMore
    <2>2. NoMore(power_toggle(c), power_comfort_off(power_toggle(c)))
      BY <2>1, <1>2
    <2> QED
      BY <2>1, <2>2, NoMoreThen DEF power_short_press
  <1>4. NoMore(c, finish(c))
    <2>1. NoMore(c, power_comfort_off(c)) /\ Shape(power_comfort_off(c))
      BY <1>2 DEF NoMore
    <2>2. NoMore(power_comfort_off(c), power_toggle(power_comfort_off(c)))
      BY <2>1, <1>1
    <2> QED
      BY <2>1, <2>2, NoMoreThen DEF finish
  <1> QED
    BY <1>1, <1>2, <1>3, <1>4

LEMMA FlattenCalls ==
    ASSUME NEW c, Shape(c), NEW key
    PROVE  /\ Ask(c, flatten_tap_start(c))
           /\ Ask(c, flatten_update(c, key))
  <1> DEFINE on  == [c EXCEPT !.flatten = TRUE]
             off == [c EXCEPT !.flatten = FALSE]
  <1>1. NoMore(c, on) /\ NoMore(c, off) /\ NoMore(c, c) /\ Shape(on) /\ Shape(off)
    BY Aside DEF NoMore
  <1> HIDE DEF on, off
  <1>2. Ask(c, Request(on, "flatten"))
    BY <1>1, Requests, NoMoreAsks, AskThen
  <1>3. NoMore(c, finish(off))
    BY <1>1, PowerCalls, NoMoreThen
  <1> QED
    BY <1>1, <1>2, <1>3, NoMoreAsks DEF flatten_tap_start, flatten_update, on, off

LEMMA WindowCalls ==
    ASSUME NEW c, Shape(c), NEW slot
    PROVE  /\ NoMore(c, preset_arm(c))
           /\ NoMore(c, preset_cancel(c))
           /\ NoMore(c, preset_clear(c, slot))
           /\ NoMore(c, preset_save(c, slot))
           /\ NoMore(c, Expire(c))
           /\ NoMore(c, Cancel(c))
  <1>1. NoMore(c, preset_arm(c)) /\ NoMore(c, preset_cancel(c)) /\ NoMore(c, Cancel(c))
    BY DEF NoMore, Shape, PneuFields, preset_arm, preset_cancel, Cancel
  <1>2. NoMore(c, preset_clear(c, slot))
    BY DEF NoMore, Shape, PneuFields, preset_clear
  <1>3. NoMore(c, preset_save(c, slot))
    <2> DEFINE snap == Snapshot(c)
    <2>1. preset_save(c, slot) =
            [c EXCEPT !.store.presets[slot] = snap, !.preset.armed = FALSE]
      BY DEF preset_save
    <2> HIDE DEF snap
    <2> QED
      BY <2>1 DEF NoMore, Shape, PneuFields
  <1> QED
    BY <1>1, <1>2, <1>3, Aside DEF Expire

LEMMA StageCalls ==
    ASSUME NEW c, Shape(c), NEW stage
    PROVE  NoMore(c, Stage(c, stage))
  <1> DEFINE target == c.store.presets[c.preset.slot][stage] * PRESET_STEP
             drive  == seek(c, stage, target)
  <1>1. Stage(c, stage) = [c EXCEPT !.preset.stage = stage, !.preset.target = target,
                                    !.preset.drive = drive]
    BY DEF Stage
  <1> HIDE DEF target, drive
  <1> QED
    BY <1>1 DEF NoMore, Shape, PneuFields

LEMMA ArriveCalls ==
    ASSUME NEW c, Shape(c)
    PROVE  NoMore(c, Arrive(c))
  <1>1. ASSUME NEW d, Shape(d) PROVE NoMore(d, restore_comfort(d))
    <2> DEFINE p    == d.store.presets[d.preset.slot]
               on   == IF d.power THEN d ELSE power_toggle(d)
               warm == heat_set(on, "heat" \in p.flags)
               heat == IF "heat" \in p.flags THEN heat_use_level(warm, p.heat) ELSE warm
               mass == pneumatics_massage_set(heat, "massage" \in p.flags)
               use  == IF "massage" \in p.flags
                       THEN pneumatics_massage_use_level(mass, p.massage) ELSE mass
               lum  == pneumatics_lumbar_set(use, "lumbar" \in p.flags, p.lumbar)
    <2>1. NoMore(d, on) /\ Shape(on)
      BY <1>1, PowerCalls, Aside DEF NoMore
    <2> HIDE DEF on
    <2>2. NoMore(d, warm) /\ Shape(warm)
      BY <2>1, HeatCalls, NoMoreThen DEF NoMore
    <2> HIDE DEF warm
    <2>3. NoMore(d, heat) /\ Shape(heat)
      <3>1. NoMore(warm, heat_use_level(warm, p.heat))
        BY <2>2, HeatCalls
      <3>2. NoMore(d, heat_use_level(warm, p.heat))
        BY <2>2, <3>1, NoMoreThen
      <3> QED
        BY <2>2, <3>2 DEF NoMore
    <2> HIDE DEF heat
    <2>4. NoMore(d, mass) /\ Shape(mass)
      BY <2>3, MassageCalls, NoMoreThen DEF NoMore
    <2> HIDE DEF mass
    <2>5. NoMore(d, use) /\ Shape(use)
      BY <2>4, MassageCalls, NoMoreThen DEF NoMore
    <2> HIDE DEF use
    <2>6. NoMore(d, lum)
      BY <2>5, LumbarCalls, NoMoreThen
    <2> QED
      BY <2>6 DEF restore_comfort, on, warm, heat, mass, use, p
  <1>2. NoMore(c, [c EXCEPT !.preset.stage = "idle", !.preset.drive = "none"])
    BY DEF NoMore, Shape, PneuFields
  <1> QED
    BY <1>1, <1>2, NoMoreThen DEF Arrive, NoMore

LEMMA RecallCalls ==
    ASSUME NEW c, Shape(c), NEW slot, NEW key
    PROVE  /\ Ask(c, preset_recall(c, slot))
           /\ Ask(c, preset_update(c, key))
  <1>0. \A d : Shape(d) => Ask(d, d) /\ Ask(d, Arrive(d))
    BY ArriveCalls, Aside, NoMoreAsks
  <1>1. ASSUME NEW d, Shape(d), NEW stage
        PROVE  /\ Ask(d, Stage(d, stage)) /\ Shape(Stage(d, stage))
               /\ Ask(d, Arrive(Stage(d, stage)))
               /\ \A want : Ask(d, Request(Stage(d, stage), want))
    <2> DEFINE e == Stage(d, stage)
    <2>1. Ask(d, e) /\ Shape(e)
      BY <1>1, StageCalls, NoMoreAsks DEF Ask
    <2> HIDE DEF e
    <2>2. Ask(d, Arrive(e))
      BY <2>1, <1>0, AskThen
    <2>3. \A want : Ask(d, Request(e, want))
      BY <2>1, Requests, AskThen
    <2> QED
      BY <2>1, <2>2, <2>3 DEF e
  <1>2. ASSUME NEW d, Shape(d) PROVE Ask(d, NextStage(d))
    BY <1>2, <1>0, <1>1 DEF NextStage
  <1>3. Ask(c, preset_recall(c, slot))
    <2> DEFINE named    == [c EXCEPT !.preset.slot = slot]
               recline  == Stage(named, "recline")
               headrest == Stage(recline, "headrest")
    <2>1. Ask(c, named) /\ Shape(named)
      <3>1. NoMore(c, named)
        BY DEF NoMore, Shape, PneuFields
      <3> QED
        BY <3>1, NoMoreAsks DEF Ask
    <2> HIDE DEF named
    <2>2. Ask(c, recline) /\ Shape(recline)
      BY <2>1, <1>1, AskThen DEF Ask
    <2>3. Ask(c, Request(recline, recline.preset.drive))
      BY <2>1, <1>1, AskThen
    <2> HIDE DEF recline
    <2>4. Ask(recline, Arrive(headrest)) /\ Ask(recline, Request(headrest, headrest.preset.drive))
      BY <2>2, <1>1
    <2>5. Ask(c, Arrive(headrest)) /\ Ask(c, Request(headrest, headrest.preset.drive))
      BY <2>2, <2>4, AskThen
    <2> QED
      BY <1>0, <2>3, <2>5 DEF preset_recall, named, recline, headrest
  <1>4. Ask(c, preset_update(c, key))
    <2> DEFINE now == Expire(c)
    <2>1. Ask(c, now) /\ Shape(now)
      BY WindowCalls, NoMoreAsks DEF Ask
    <2> HIDE DEF now
    <2>2. Ask(now, Cancel(now))
      BY <2>1, WindowCalls, NoMoreAsks
    <2>3. Ask(now, Advance(now))
      <3> DEFINE there == ~Still(now) /\ seek(now, now.preset.stage, now.preset.target) = "none"
                 end   == IF there THEN Request(now, "none") ELSE now
      <3>1. Ask(now, end) /\ Shape(end)
        BY <2>1, <1>0, Requests DEF Ask
      <3> HIDE DEF there, end
      <3>2. Ask(now, NextStage(end))
        BY <3>1, <1>2, AskThen
      <3> QED
        BY <3>1, <3>2 DEF Advance, there, end
    <2> QED
      BY <2>1, <2>2, <2>3, AskThen DEF preset_update, now
  <1> QED
    BY <1>3, <1>4

LEMMA PressCalls ==
    ASSUME NEW c, Shape(c), NEW b
    PROVE  Ask(c, OnPress(c, b))
  <1>1. \A d, x : Shape(d) => NoMore(d, [d EXCEPT !.adjust = x]) /\ NoMore(d, d)
    BY Aside
  <1>2. ASSUME NEW d, Shape(d) PROVE NoMore(d, consume_motion(d, b))
    BY <1>2, Aside DEF consume_motion
  <1>3. NoMore(c, deliver_level(c, Level(b)))
    <2> DEFINE want == Level(b)
               set  == IF c.adjust.owner = "heat" THEN heat_set_level(c, want)
                       ELSE pneumatics_massage_set_level(c, want)
               pick == adjust_pick(set.adjust, want)
    <2> HIDE DEF want
    <2>1. NoMore(c, set) /\ Shape(set)
      BY HeatCalls, MassageCalls DEF NoMore
    <2> HIDE DEF set, pick
    <2>2. NoMore(c, [set EXCEPT !.adjust = pick])
      BY <2>1, <1>1, NoMoreThen
    <2> QED
      BY <2>2, <1>1 DEF deliver_level, want, set, pick
  <1>4. NoMore(c, consume_motion(deliver_level(c, Level(b)), b))
    <2> DEFINE d == deliver_level(c, Level(b))
    <2>1. NoMore(c, d) /\ Shape(d)
      BY <1>3 DEF NoMore
    <2> HIDE DEF d
    <2>2. NoMore(c, consume_motion(d, b))
      BY <2>1, <1>2, NoMoreThen
    <2> QED
      BY <2>2 DEF d
  <1>5. NoMore(c, TouchBar(c, b)) /\ Shape(TouchBar(c, b))
    <2> DEFINE x == IF c.adjust.owner = b THEN adjust_defer(c.adjust, SHORT)
                    ELSE adjust_dismiss(c.adjust)
    <2>1. TouchBar(c, b) = [c EXCEPT !.adjust = x]
      BY DEF TouchBar
    <2> HIDE DEF x
    <2> QED
      BY <2>1, <1>1 DEF NoMore
  <1>6. ASSUME NEW d, Shape(d) PROVE NoMore(d, comfort_button(d, b))
    BY <1>6, <1>1, HeatCalls, MassageCalls, LumbarCalls DEF comfort_button
  <1>7. NoMore(c, comfort_button(TouchBar(c, b), b))
    BY <1>5, <1>6, NoMoreThen
  <1>8. NoMore(c, consume_motion(c, b))
    BY <1>2
  <1>9. NoMore(c, OnPress(c, b))
    BY <1>4, <1>5, <1>7, <1>8 DEF OnPress
  <1> QED
    BY <1>9, NoMoreAsks

LEMMA TapCalls ==
    ASSUME NEW c, Shape(c), NEW b, NEW double
    PROVE  /\ Ask(c, OnTap(c, b, double))
           /\ Ask(c, OnHold(c, b))
           /\ Ask(c, Release(c))
  <1>0. Ask(c, c)
    BY Aside, NoMoreAsks
  <1>1. Ask(c, Release(c))
    BY <1>0, LumbarCalls, NoMoreAsks DEF Release
  <1>2. Ask(c, comfort_button(c, b))
    BY <1>0, HeatCalls, MassageCalls, LumbarCalls, NoMoreAsks DEF comfort_button
  <1>3. Ask(c, OnMotionTap(c, b, double))
    BY <1>0, WindowCalls, RecallCalls, NoMoreAsks DEF OnMotionTap
  <1>4. Ask(c, OnPowerTap(c, double))
    BY <1>0, WindowCalls, FlattenCalls, PowerCalls, NoMoreAsks DEF OnPowerTap
  <1>5. Ask(c, OnTap(c, b, double))
    BY <1>0, <1>1, <1>2, <1>3, <1>4 DEF OnTap
  <1>6. Ask(c, OnHold(c, b))
    BY <1>0, WindowCalls, HeatCalls, MassageCalls, NoMoreAsks DEF OnHold
  <1> QED
    BY <1>1, <1>5, <1>6

LEMMA EventCalls ==
    ASSUME NEW c, Shape(c), NEW ev
    PROVE  Ask(c, route_event(c, ev))
  <1>1. Ask(c, c)
    BY Aside, NoMoreAsks
  <1> QED
    BY <1>1, PressCalls, TapCalls DEF route_event

-----------------------------------------------------------------------------
(* A pass.                                                                  *)

\* The time that passes moves nothing.
LEMMA TimePasses ==
    ASSUME NEW c, Shape(c), NEW d
    PROVE  LET e == ElapseChair(c, d) IN
           Shape(e) /\ (Wired(c.motion) => Wired(e.motion))
  <1> DEFINE p == ElapsePneumatics(c.pneu, d)
             m == Relay!Elapse(c.motion, d)
             h == ElapseHeat(c.heat, d)
             b == ElapseButton(c.button, d)
             a == ElapseAdjust(c.adjust, d)
             r == ElapsePreset(c.preset, d)
  <1>1. DOMAIN p = PneuFields
    <2>1. DOMAIN Forget(c.pneu) = PneuFields
      BY DEF Forget, Shape
    <2> QED
      BY <2>1 DEF ElapsePneumatics
  <1>2. DOMAIN m = MotionFields /\ m.requested = c.motion.requested /\ m.closed = c.motion.closed
    BY DEF Relay!Elapse, Shape, MotionFields
  <1>3. DOMAIN h = {"on", "age", "level", "pin"}
    BY DEF ElapseHeat, Shape
  <1>4. ElapseChair(c, d) = [c EXCEPT !.button = b, !.adjust = a, !.heat = h, !.pneu = p,
                                      !.preset = r, !.motion = m]
    BY DEF ElapseChair
  <1> HIDE DEF p, m, h, b, a, r
  <1> QED
    BY <1>1, <1>2, <1>3, <1>4 DEF Shape, Wired

\* Whatever is pressed and read, a pass leaves the loads apart.
LEMMA PassApart ==
    ASSUME NEW now, Shape(now), Wired(now.motion), NEW key, NEW current
    PROVE  LET after == control_update(now, key, current) IN
           /\ Shape(after) /\ Wired(after.motion)
           /\ after.motion.closed # {} => ~after.heat.pin /\ ~after.pneu.pump
  <1> DEFINE ev      == Press!Reported(now.button, key)
             heard   == [now EXCEPT !.button = Press!Updated(now.button, key)]
             routed  == route_event(heard, ev)
             air     == pneumatics_update(routed)
             comfort == heat_update(air)
             bar     == [comfort EXCEPT !.adjust = adjust_update(comfort.adjust)]
             kept    == IF key = bar.consumed THEN bar.consumed ELSE "none"
             borrow  == [bar EXCEPT !.consumed = kept]
             flat    == flatten_update(borrow, key)
             macros  == preset_update(flat, key)
             asked   == Request(macros, Wanted(macros, key))
             relays  == Relay!motion_update(asked.motion, current)
  <1> HIDE DEF ev
  <1>1. Shape(heard) /\ Wired(heard.motion)
    BY DEF Shape, PneuFields
  <1> HIDE DEF heard
  <1>2. Shape(routed) /\ Wired(routed.motion)
    BY <1>1, EventCalls DEF Ask
  <1> HIDE DEF routed
  <1>3. Same(routed, air) /\ Shape(air) /\ (~Still(routed) => ~air.pneu.pump)
    BY <1>2, AirUpdate DEF Same
  <1> HIDE DEF air
  <1>4. /\ Shape(comfort) /\ comfort.motion = air.motion /\ comfort.pneu = air.pneu
        /\ ~Still(air) => ~comfort.heat.pin
    BY <1>3, HeatUpdate
  <1> HIDE DEF comfort
  <1>5. NoMore(comfort, bar) /\ Shape(bar)
    BY <1>4, Aside DEF NoMore
  <1> HIDE DEF bar
  <1> HIDE DEF kept
  <1>6. NoMore(comfort, borrow) /\ Shape(borrow)
    <2>1. NoMore(bar, borrow)
      BY <1>5, Aside
    <2> QED
      BY <1>5, <2>1, NoMoreThen DEF NoMore
  <1> HIDE DEF borrow
  <1>7. Ask(comfort, flat) /\ Shape(flat)
    BY <1>6, FlattenCalls, NoMoreAsks, AskThen DEF Ask
  <1> HIDE DEF flat
  <1>8. Ask(comfort, macros) /\ Shape(macros)
    BY <1>7, RecallCalls, AskThen DEF Ask
  <1> HIDE DEF macros
  <1>9. Ask(comfort, asked) /\ Shape(asked)
    BY <1>8, Requests, AskThen DEF Ask
  <1> HIDE DEF asked
  <1>10. comfort.motion = routed.motion
    BY <1>3, <1>4 DEF Same
  <1>11. Wired(asked.motion)
    BY <1>2, <1>9, <1>10 DEF Ask
  <1>12. /\ DOMAIN relays = MotionFields /\ Wired(relays)
         /\ Fresh(asked.motion) => relays.closed = {}
    BY <1>9, <1>11, UpdateMotion DEF Shape
  <1>13. control_update(now, key, current) = [asked EXCEPT !.motion = relays]
    BY DEF control_update, ev, heard, routed, air, comfort, bar, kept, borrow, flat,
           macros, asked
  <1> DEFINE after == [asked EXCEPT !.motion = relays]
  <1> HIDE DEF relays
  <1>14. /\ Shape(after) /\ after.motion = relays
         /\ after.heat = asked.heat /\ after.pneu = asked.pneu
    BY <1>9, <1>12 DEF Shape
  \* Something was wanted when the loads were updated: they are off.
  <1>15. CASE ~Still(routed)
    <2>1. ~comfort.heat.pin /\ ~comfort.pneu.pump
      BY <1>3, <1>4, <1>15 DEF Same, Still
    <2>2. ~asked.heat.pin /\ ~asked.pneu.pump
      BY <2>1, <1>9 DEF Ask
    <2> QED
      BY <2>2, <1>12, <1>13, <1>14
  \* Nothing was: what the pass goes on to ask for has to settle first.
  <1>16. CASE Still(routed)
    <2>1. Fresh(comfort.motion) /\ Wired(comfort.motion)
      BY <1>2, <1>10, <1>16 DEF Wired, Fresh, Still
    <2>2. relays.closed = {}
      BY <2>1, <1>9, <1>12 DEF Ask
    <2> QED
      BY <2>2, <1>12, <1>13, <1>14
  <1> QED
    BY <1>15, <1>16

\* What a pass needs of the one before it, and the budget.
LoadInv == Shape(chair) /\ Wired(chair.motion) /\ PowerBudget

\* The loads stay apart (control_update: heat_update and pneumatics_update look
\* at motion_active before the macros and the button ask for a motion): heat,
\* pump and motors are never driven together, for every length of the passes,
\* every press, every reading and every store, provided that a relay settles for
\* more than no time.
THEOREM LoadsApart == Spec => []PowerBudget
  <1>1. Init => LoadInv
    BY DEF Init, LoadInv, Shape, Wired, PowerBudget, Press!PowerOn, PresetOff, AdjustOff,
           HeatOff, PneumaticsOff, Relay!PowerOn, PneuFields, MotionFields
  <1>2. LoadInv /\ [Next]_vars => LoadInv'
    <2> SUFFICES ASSUME LoadInv, [Next]_vars PROVE LoadInv'
      OBVIOUS
    <2>1. CASE Next
      <3>1. PICK d \in Durations, b \in Buttons \cup {"none"}, current \in Sampled :
               Pass(d, b, current)
        BY <2>1 DEF Next
      <3> DEFINE now == ElapseChair(chair, d)
      <3>2. Shape(now) /\ Wired(now.motion)
        BY TimePasses DEF LoadInv
      <3>3. chair' = control_update(now, b, current)
        BY <3>1 DEF Pass
      <3> HIDE DEF now
      <3> QED
        BY <3>2, <3>3, PassApart DEF LoadInv, PowerBudget
    <2>2. CASE UNCHANGED vars
      BY <2>2 DEF vars, LoadInv, PowerBudget
    <2> QED
      BY <2>1, <2>2
  <1>3. LoadInv => PowerBudget
    BY DEF LoadInv
  <1> QED
    BY <1>1, <1>2, <1>3, PTL DEF Spec

-----------------------------------------------------------------------------
(* The whole of the chair: what the components' calls leave alone, and what *)
(* they may switch on.                                                      *)

StoreFields  == {"heat", "massage", "lumbar", "presets"}
PresetFields == {"stage", "slot", "target", "drive", "armed", "armed_age"}
AdjustFields == {"phase", "step", "step_age", "hold_age", "hold_span", "owner", "level", "armed"}
ButtonFields == {"prev", "down_age", "hold_done", "tapped", "tap_button", "tap_age"}

Bar(a) == DOMAIN a = AdjustFields /\ a.owner \in Owners \cup {NOBODY}

\* The whole record, of whatever values, but a bar that belongs to one of its owners.
Whole(c) ==
    /\ Shape(c)
    /\ DOMAIN c.store = StoreFields /\ DOMAIN c.preset = PresetFields
    /\ DOMAIN c.button = ButtonFields
    /\ Bar(c.adjust)

\* The bar of lamps is all that its calls change.
LEMMA Bars ==
    ASSUME NEW a, Bar(a), NEW who \in Owners, NEW want, NEW ms
    PROVE  /\ Bar(slide_out(a)) /\ Bar(adjust_show(a, who, want)) /\ Bar(adjust_open(a, who, want))
           /\ Bar(adjust_pick(a, want)) /\ Bar(adjust_accept(a)) /\ Bar(adjust_dismiss(a))
           /\ Bar(adjust_close(a, who)) /\ Bar(adjust_defer(a, ms)) /\ Bar(adjust_update(a))
  <1>1. Bar(slide_out(a)) /\ Bar(adjust_dismiss(a)) /\ Bar(adjust_accept(a))
    BY DEF Bar, AdjustFields, slide_out, adjust_dismiss, adjust_accept
  <1>2. \A span : Bar(StartBar(a, who, want, span))
    BY DEF Bar, AdjustFields, StartBar
  <1>3. \A e, x : Bar(e) => Bar([e EXCEPT !.armed = x])
    BY DEF Bar, AdjustFields
  <1>4. Bar(adjust_show(a, who, want)) /\ Bar(adjust_open(a, who, want))
    BY <1>2, <1>3 DEF adjust_show, adjust_open
  <1>5. Bar(adjust_pick(a, want)) /\ Bar(adjust_close(a, who)) /\ Bar(adjust_defer(a, ms))
    BY DEF Bar, AdjustFields, adjust_pick, adjust_close, adjust_defer
  <1>6. Bar(adjust_update(a))
    <2>1. \A e : Bar(e) => Bar(Stepped(e)) /\ Bar(Gone(e))
      BY DEF Bar, AdjustFields, Stepped, Gone
    <2>2. \A e : Bar(e) => Bar([e EXCEPT !.phase = "hold", !.hold_age = 0])
      BY DEF Bar, AdjustFields
    <2>3. Bar(FillIn(a)) /\ Bar(Flash(a)) /\ Bar(Slide(a))
      BY <2>1, <2>2 DEF FillIn, Flash, Slide
    <2> QED
      BY <1>1, <2>3 DEF adjust_update
  <1> QED
    BY <1>1, <1>4, <1>5, <1>6

\* What no comfort call changes.
Apart(c, d) ==
    /\ Whole(d)
    /\ d.button = c.button /\ d.power = c.power /\ d.flatten = c.flatten
    /\ d.preset = c.preset /\ d.consumed = c.consumed /\ d.motion = c.motion
    /\ d.store.presets = c.store.presets

Remembers(c, d) == d.store.heat = c.store.heat /\ d.store.massage = c.store.massage

\* Heat that is on keeps its clock, and heat switched on starts it.
Clocked(c, d) ==
    d.heat.on => IF c.heat.on THEN d.heat.age = c.heat.age ELSE d.heat.age = 0

\* Nothing is switched on.
Quiets(c, d) ==
    /\ d.heat.on => c.heat.on /\ d.heat.age = c.heat.age
    /\ d.pneu.massage_on => c.pneu.massage_on
    /\ Lit(d.pneu) => Lit(c.pneu)

\* A call that may switch something on, and one that may not.
Serves(c, d) == Apart(c, d) /\ Remembers(c, d) /\ Clocked(c, d)
Hushes(c, d) == Apart(c, d) /\ Remembers(c, d) /\ Quiets(c, d)

LEMMA ServeThen ==
    ASSUME NEW c, NEW d, NEW e
    PROVE  /\ Hushes(c, d) => Serves(c, d)
           /\ Hushes(c, d) /\ Hushes(d, e) => Hushes(c, e)
           /\ Serves(c, d) /\ Hushes(d, e) => Serves(c, e)
           /\ Whole(c) => Hushes(c, c)
  <1>1. Hushes(c, d) => Serves(c, d)
    BY DEF Hushes, Serves, Quiets, Clocked
  <1>2. Hushes(c, d) /\ Hushes(d, e) => Hushes(c, e)
    BY DEF Hushes, Apart, Remembers, Quiets
  <1>3. Serves(c, d) /\ Hushes(d, e) => Serves(c, e)
    BY DEF Hushes, Serves, Apart, Remembers, Quiets, Clocked
  <1>4. Whole(c) => Hushes(c, c)
    BY DEF Hushes, Apart, Remembers, Quiets
  <1> QED
    BY <1>1, <1>2, <1>3, <1>4

\* A field at a time.
LEMMA SetFields ==
    ASSUME NEW c, Whole(c)
    PROVE  /\ \A a : Bar(a) => Hushes(c, [c EXCEPT !.adjust = a])
           /\ \A h : DOMAIN h = {"on", "age", "level", "pin"} => Apart(c, [c EXCEPT !.heat = h]) /\ Remembers(c, [c EXCEPT !.heat = h])
           /\ \A p : DOMAIN p = PneuFields => Apart(c, [c EXCEPT !.pneu = p]) /\ Remembers(c, [c EXCEPT !.pneu = p])
           /\ \A x : Hushes(c, [c EXCEPT !.store.lumbar = x])
  <1>1. \A a : Bar(a) => Hushes(c, [c EXCEPT !.adjust = a])
    BY DEF Hushes, Apart, Remembers, Quiets, Whole, Shape
  <1>2. \A h : DOMAIN h = {"on", "age", "level", "pin"} => Apart(c, [c EXCEPT !.heat = h]) /\ Remembers(c, [c EXCEPT !.heat = h])
    BY DEF Apart, Remembers, Whole, Shape
  <1>3. \A p : DOMAIN p = PneuFields => Apart(c, [c EXCEPT !.pneu = p]) /\ Remembers(c, [c EXCEPT !.pneu = p])
    BY DEF Apart, Remembers, Whole, Shape
  <1>4. \A x : Hushes(c, [c EXCEPT !.store.lumbar = x])
    BY DEF Hushes, Apart, Remembers, Quiets, Whole, Shape, StoreFields
  <1> QED
    BY <1>1, <1>2, <1>3, <1>4

LEMMA HeatServes ==
    ASSUME NEW c, Whole(c), NEW want, NEW on
    PROVE  /\ Serves(c, switch_on(c))
           /\ Hushes(c, heat_arm(c))
           /\ Hushes(c, heat_use_level(c, want))
           /\ Apart(c, heat_set_level(c, want)) /\ Quiets(c, heat_set_level(c, want))
           /\ heat_set_level(c, want).store.massage = c.store.massage
           /\ Hushes(c, heat_off(c)) /\ ~heat_off(c).heat.on /\ heat_off(c).pneu = c.pneu
           /\ Serves(c, heat_set(c, on))
           /\ Serves(c, heat_press(c))
  <1>0. "heat" \in Owners
    BY DEF Owners
  <1>1. Serves(c, switch_on(c))
    BY DEF Serves, Apart, Remembers, Clocked, Whole, Shape, switch_on
  <1>2. Hushes(c, heat_off(c)) /\ ~heat_off(c).heat.on /\ heat_off(c).pneu = c.pneu
    <2> DEFINE x == adjust_close(c.adjust, "heat")
    <2>1. Bar(x)
      BY <1>0, Bars DEF Whole
    <2> HIDE DEF x
    <2>2. heat_off(c) = [c EXCEPT !.heat = HeatOff, !.adjust = x]
      BY DEF heat_off, x
    <2> QED
      BY <2>1, <2>2 DEF Hushes, Apart, Remembers, Quiets, Whole, Shape, HeatOff
  <1>3. Hushes(c, heat_use_level(c, want))
    BY ServeThen DEF heat_use_level, Hushes, Apart, Remembers, Quiets, Whole, Shape
  <1>4. Hushes(c, heat_arm(c))
    <2> DEFINE level == IF c.heat.on THEN c.heat.level ELSE Remembered(c.store.heat)
               x     == adjust_open(c.adjust, "heat", level)
    <2>1. Bar(x)
      BY <1>0, Bars DEF Whole
    <2>2. heat_arm(c) = [c EXCEPT !.heat.level = level, !.adjust = x]
      BY DEF heat_arm
    <2> HIDE DEF x, level
    <2> QED
      BY <2>1, <2>2 DEF Hushes, Apart, Remembers, Quiets, Whole, Shape
  <1>5. /\ Apart(c, heat_set_level(c, want)) /\ Quiets(c, heat_set_level(c, want))
        /\ heat_set_level(c, want).store.massage = c.store.massage
    <2> DEFINE d == heat_use_level(c, want)
    <2>1. Hushes(c, d) /\ Whole(d)
      BY <1>3 DEF Hushes, Apart
    <2> HIDE DEF d
    <2> DEFINE e == [d EXCEPT !.store.heat = want]
    <2>2. Apart(c, e) /\ Quiets(c, e) /\ e.store.massage = c.store.massage
      BY <2>1 DEF Hushes, Apart, Remembers, Quiets, Whole, Shape, StoreFields
    <2>3. Apart(c, c) /\ Quiets(c, c)
      BY ServeThen DEF Hushes
    <2> HIDE DEF e
    <2> QED
      BY <2>2, <2>3 DEF heat_set_level, d, e
  <1>6. Serves(c, c)
    BY ServeThen
  <1>7. Serves(c, heat_set(c, on))
    BY <1>1, <1>2, <1>6, ServeThen DEF heat_set
  <1>8. Serves(c, heat_press(c))
    <2> DEFINE lit == switch_on(c)
    <2>1. Serves(c, lit) /\ Whole(lit)
      BY <1>1 DEF Serves, Apart
    <2> HIDE DEF lit
    <2>2. Serves(c, [lit EXCEPT !.adjust = adjust_show(lit.adjust, "heat", lit.heat.level)])
      <3>1. Bar(adjust_show(lit.adjust, "heat", lit.heat.level))
        BY <1>0, <2>1, Bars DEF Whole
      <3> QED
        BY <2>1, <3>1, SetFields, ServeThen
    <2>3. Serves(c, [c EXCEPT !.adjust = adjust_accept(c.adjust)])
      <3>1. Bar(adjust_accept(c.adjust))
        BY <1>0, Bars DEF Whole
      <3> QED
        BY <3>1, SetFields, ServeThen
    <2> QED
      BY <1>2, <1>6, <2>2, <2>3, ServeThen DEF heat_press, lit
  <1> QED
    BY <1>1, <1>2, <1>3, <1>4, <1>5, <1>7, <1>8

LEMMA HeatHushes ==
    ASSUME NEW c, Whole(c)
    PROVE  /\ Hushes(c, heat_update(c))
           /\ heat_update(c).heat.on => ~(c.heat.age >= HEAT_TIMEOUT)
           /\ heat_update(c).pneu = c.pneu
           /\ c.heat.on /\ ~(c.heat.age >= HEAT_TIMEOUT) => heat_update(c).heat.on
  <1> DEFINE pin == Still(c) /\ c.heat.age % HEAT_PERIOD < Span(c.heat.level)
  <1>1. heat_update(c) = IF ~c.heat.on THEN [c EXCEPT !.heat.pin = FALSE]
                         ELSE IF c.heat.age >= HEAT_TIMEOUT THEN heat_off(c)
                         ELSE [c EXCEPT !.heat.pin = pin]
    BY DEF heat_update
  <1> HIDE DEF pin
  <1>2. \A x : Hushes(c, [c EXCEPT !.heat.pin = x])
    BY DEF Hushes, Apart, Remembers, Quiets, Whole, Shape
  <1>3. \A x : /\ [c EXCEPT !.heat.pin = x].heat.on = c.heat.on
               /\ [c EXCEPT !.heat.pin = x].pneu = c.pneu
    BY DEF Whole, Shape
  <1> QED
    BY <1>1, <1>2, <1>3, HeatServes

\* The same of the air cells alone.
Calms(p, q) ==
    /\ DOMAIN q = PneuFields
    /\ q.massage_on => p.massage_on
    /\ Lit(q) => Lit(p)

LEMMA CalmHushes ==
    ASSUME NEW c, Whole(c), NEW q, Calms(c.pneu, q)
    PROVE  Hushes(c, [c EXCEPT !.pneu = q]) /\ [c EXCEPT !.pneu = q].pneu = q
  <1> DEFINE d == [c EXCEPT !.pneu = q]
  <1>1. Apart(c, d) /\ Remembers(c, d)
    BY SetFields DEF Calms
  <1>2. d.pneu = q /\ d.heat = c.heat
    BY DEF Whole, Shape
  <1> HIDE DEF d
  <1>3. Quiets(c, d)
    BY <1>2 DEF Quiets, Calms
  <1> QED
    BY <1>1, <1>2, <1>3 DEF Hushes, d

LEMMA CalmCells ==
    ASSUME NEW p, DOMAIN p = PneuFields, NEW bits, NEW x
    PROVE  /\ Calms(p, p)
           /\ Calms(p, valves_set(p, bits))
           /\ Calms(p, start_vent(p))
           /\ Calms(p, vent_tick(p))
           /\ Calms(p, DeflateTick(p))
           /\ Calms(p, massage_tick(p))
           /\ Calms(p, Unpause(p))
           /\ Calms(p, set_lumbar(p, "deflate"))
           /\ Lit(p) => Calms(p, set_lumbar(p, x))
           /\ Calms(p, [p EXCEPT !.massage_on = FALSE])
  <1>0. \A q, r : Calms(p, q) /\ Calms(q, r) => Calms(p, r)
    BY DEF Calms
  <1>1. Calms(p, p)
    BY DEF Calms
  <1>2. ASSUME NEW q, DOMAIN q = PneuFields, NEW s PROVE Calms(q, valves_set(q, s))
    <2> DEFINE v == [q EXCEPT !.valves_now = s]
    <2>1. Calms(q, v) /\ DOMAIN v = PneuFields
      BY <1>2 DEF Calms, Lit, PneuFields
    <2> HIDE DEF v
    <2>2. Calms(v, pump_update(v))
      <3>1. \A y, z : Calms(v, [v EXCEPT !.closed_age = y, !.pump = z]) /\ Calms(v, [v EXCEPT !.pump = z])
        BY <2>1 DEF Calms, Lit, PneuFields
      <3> QED
        BY <3>1 DEF pump_update
    <2>3. Calms(q, pump_update(v))
      BY <2>1, <2>2 DEF Calms
    <2> QED
      BY <2>3 DEF valves_set, v
  <1>3. Calms(p, start_vent(p))
    <2> DEFINE v == valves_set(p, {"vent"})
    <2>1. Calms(p, v) /\ DOMAIN v = PneuFields
      BY <1>2 DEF Calms
    <2> HIDE DEF v
    <2>2. Calms(v, [v EXCEPT !.vent_age = 0, !.venting = TRUE])
      BY <2>1 DEF Calms, Lit, PneuFields
    <2> QED
      BY <1>0, <2>1, <2>2 DEF start_vent, v
  <1>4. Calms(p, vent_tick(p))
    <2> DEFINE v == [p EXCEPT !.venting = FALSE, !.vent_age = 0]
    <2>1. Calms(p, v) /\ DOMAIN v = PneuFields
      BY DEF Calms, Lit, PneuFields
    <2> HIDE DEF v
    <2>2. Calms(p, valves_set(v, {})) /\ Calms(p, valves_set(p, {"vent"}))
      BY <1>0, <1>2, <2>1
    <2> QED
      BY <2>2 DEF vent_tick, v
  <1>5. Calms(p, DeflateTick(p))
    <2> DEFINE v == valves_set(p, {"vent"})
               off == [v EXCEPT !.lumbar_state = "off"]
    <2>1. Calms(p, v) /\ DOMAIN v = PneuFields
      BY <1>2 DEF Calms
    <2> HIDE DEF v
    <2>2. Calms(v, off) /\ DOMAIN off = PneuFields
      BY <2>1 DEF Calms, Lit, PneuFields
    <2> HIDE DEF off
    <2>3. Calms(p, valves_set(off, {}))
      BY <1>0, <1>2, <2>1, <2>2
    <2> QED
      BY <2>1, <2>3 DEF DeflateTick, v, off
  <1>6. Calms(p, massage_tick(p))
    <2> DEFINE len  == Pattern[p.massage_step].len[p.massage_level]
               next == IF ~p.step_started
                       THEN [p EXCEPT !.step_started = TRUE, !.step_age = 0]
                       ELSE IF p.step_age < len THEN p
                       ELSE [p EXCEPT !.massage_step = (@ % Len(Pattern)) + 1,
                                      !.step_age = 0]
    <2>1. \A y, z : /\ Calms(p, [p EXCEPT !.step_started = y, !.step_age = z])
                    /\ Calms(p, [p EXCEPT !.massage_step = y, !.step_age = z])
      BY DEF Calms, Lit, PneuFields
    <2>2. Calms(p, next) /\ DOMAIN next = PneuFields
      BY <1>1, <2>1 DEF Calms
    <2>3. massage_tick(p) = valves_set(next, Pattern[next.massage_step].bits)
      BY DEF massage_tick
    <2> HIDE DEF next
    <2> QED
      BY <1>0, <1>2, <2>2, <2>3
  <1>7. Calms(p, Unpause(p))
    <2>1. \A x1, x2, x3 :
            Calms(p, [p EXCEPT !.paused = FALSE, !.pause_age = 0, !.step_age = x1,
                               !.start_age = x2, !.lumbar_age = x3])
      BY DEF Calms, Lit, PneuFields
    <2> QED
      BY <2>1 DEF Unpause
  <1>8. Calms(p, set_lumbar(p, "deflate")) /\ (Lit(p) => Calms(p, set_lumbar(p, x)))
    BY DEF Calms, Lit, PneuFields, set_lumbar
  <1>9. Calms(p, [p EXCEPT !.massage_on = FALSE])
    BY DEF Calms, Lit, PneuFields
  <1> QED
    BY <1>1, <1>2, <1>3, <1>4, <1>5, <1>6, <1>7, <1>8, <1>9

LEMMA MassageServes ==
    ASSUME NEW c, Whole(c), NEW want, NEW on
    PROVE  /\ Hushes(c, massage_off(c)) /\ ~massage_off(c).pneu.massage_on
           /\ Serves(c, massage_start(c))
           /\ Hushes(c, pneumatics_massage_arm(c))
           /\ Hushes(c, pneumatics_massage_use_level(c, want))
           /\ Apart(c, pneumatics_massage_set_level(c, want))
           /\ Quiets(c, pneumatics_massage_set_level(c, want))
           /\ pneumatics_massage_set_level(c, want).store.heat = c.store.heat
           /\ Hushes(c, EndMassage(c))
           /\ Serves(c, pneumatics_massage_set(c, on))
           /\ Serves(c, MassageButton(c))
  <1>0. "massage" \in Owners /\ DOMAIN c.pneu = PneuFields
    BY DEF Owners, Whole, Shape
  <1>1. Hushes(c, massage_off(c)) /\ ~massage_off(c).pneu.massage_on
    <2> DEFINE x == adjust_close(c.adjust, "massage")
    <2>1. Bar(x)
      BY <1>0, Bars DEF Whole
    <2>2. massage_off(c) = [c EXCEPT !.pneu.massage_on = FALSE, !.adjust = x]
      BY DEF massage_off
    <2> HIDE DEF x
    <2> QED
      BY <2>1, <2>2 DEF Hushes, Apart, Remembers, Quiets, Whole, Shape, PneuFields, Lit
  <1>2. Serves(c, massage_start(c))
    <2>1. \A x : LET q == [c.pneu EXCEPT !.massage_on = TRUE, !.venting = FALSE, !.vent_age = 0,
                              !.lumbar_state = "off", !.massage_step = 1,
                              !.step_started = FALSE, !.step_age = 0, !.start_age = 0,
                              !.massage_level = x]
                 IN Serves(c, [c EXCEPT !.pneu = q])
      <3> TAKE x
      <3> DEFINE q == [c.pneu EXCEPT !.massage_on = TRUE, !.venting = FALSE, !.vent_age = 0,
                              !.lumbar_state = "off", !.massage_step = 1,
                              !.step_started = FALSE, !.step_age = 0, !.start_age = 0,
                              !.massage_level = x]
      <3>1. DOMAIN q = PneuFields
        BY <1>0
      <3> HIDE DEF q
      <3>2. Apart(c, [c EXCEPT !.pneu = q]) /\ Remembers(c, [c EXCEPT !.pneu = q])
        BY <3>1, SetFields
      <3>3. [c EXCEPT !.pneu = q].heat = c.heat
        BY DEF Whole, Shape
      <3>4. Serves(c, [c EXCEPT !.pneu = q])
        BY <3>2, <3>3 DEF Serves, Clocked
      <3> QED
        BY <3>4 DEF q
    <2>2. Serves(c, c)
      BY ServeThen
    <2> QED
      BY <2>1, <2>2 DEF massage_start
  <1>3. Hushes(c, pneumatics_massage_arm(c))
    <2> DEFINE level == IF c.pneu.massage_on THEN c.pneu.massage_level
                        ELSE Remembered(c.store.massage)
               x     == adjust_open(c.adjust, "massage", level)
    <2>1. Bar(x)
      BY <1>0, Bars DEF Whole
    <2>2. pneumatics_massage_arm(c) = [c EXCEPT !.pneu.massage_level = level, !.adjust = x]
      BY DEF pneumatics_massage_arm
    <2> HIDE DEF x, level
    <2> QED
      BY <2>1, <2>2 DEF Hushes, Apart, Remembers, Quiets, Whole, Shape, PneuFields, Lit
  <1>4. Hushes(c, pneumatics_massage_use_level(c, want))
    BY ServeThen DEF pneumatics_massage_use_level, Hushes, Apart, Remembers, Quiets, Whole, Shape,
                     PneuFields, Lit
  <1>5. /\ Apart(c, pneumatics_massage_set_level(c, want))
        /\ Quiets(c, pneumatics_massage_set_level(c, want))
        /\ pneumatics_massage_set_level(c, want).store.heat = c.store.heat
    <2> DEFINE d == pneumatics_massage_use_level(c, want)
    <2>1. Hushes(c, d) /\ Whole(d)
      BY <1>4 DEF Hushes, Apart
    <2> HIDE DEF d
    <2> DEFINE e == [d EXCEPT !.store.massage = want]
    <2>2. Apart(c, e) /\ Quiets(c, e) /\ e.store.heat = c.store.heat
      BY <2>1 DEF Hushes, Apart, Remembers, Quiets, Whole, Shape, StoreFields
    <2>3. Apart(c, c) /\ Quiets(c, c)
      BY ServeThen DEF Hushes
    <2> HIDE DEF e
    <2> QED
      BY <2>2, <2>3 DEF pneumatics_massage_set_level, d, e
  <1>6. Hushes(c, EndMassage(c))
    <2> DEFINE off == massage_off(c)
    <2>1. Hushes(c, off) /\ Whole(off) /\ DOMAIN off.pneu = PneuFields
      BY <1>1 DEF Hushes, Apart, Whole, Shape
    <2> HIDE DEF off
    <2>2. Hushes(off, [off EXCEPT !.pneu = start_vent(off.pneu)])
      BY <2>1, CalmCells, CalmHushes
    <2> QED
      BY <2>1, <2>2, ServeThen DEF EndMassage, off
  <1>7. Serves(c, c)
    BY ServeThen
  <1>8. Serves(c, pneumatics_massage_set(c, on))
    BY <1>2, <1>6, <1>7, ServeThen DEF pneumatics_massage_set
  <1>9. Serves(c, MassageButton(c))
    <2> DEFINE begun == massage_start(c)
    <2>1. Serves(c, begun) /\ Whole(begun)
      BY <1>2 DEF Serves, Apart
    <2> HIDE DEF begun
    <2>2. Serves(c, [begun EXCEPT !.adjust = adjust_show(begun.adjust, "massage", begun.pneu.massage_level)])
      <3>1. Bar(adjust_show(begun.adjust, "massage", begun.pneu.massage_level))
        BY <1>0, <2>1, Bars DEF Whole
      <3> QED
        BY <2>1, <3>1, SetFields, ServeThen
    <2>3. Serves(c, [c EXCEPT !.adjust = adjust_accept(c.adjust)])
      <3>1. Bar(adjust_accept(c.adjust))
        BY <1>0, Bars DEF Whole
      <3> QED
        BY <3>1, SetFields, ServeThen
    <2> QED
      BY <1>6, <2>2, <2>3, ServeThen DEF MassageButton, begun
  <1> QED
    BY <1>1, <1>2, <1>3, <1>4, <1>5, <1>6, <1>8, <1>9

LEMMA LumbarKeeps ==
    ASSUME NEW c, Whole(c), Lit(c.pneu), NEW elapsed, NEW remember
    PROVE  Hushes(c, lumbar_stop_at(c, elapsed, remember)) /\ Hushes(c, lumbar_keep(c, elapsed))
  <1>1. ASSUME NEW r PROVE Hushes(c, lumbar_stop_at(c, elapsed, r))
    <2> DEFINE tenths == (UpTo(INFLATE_MAX, elapsed) + TENTH \div 2) \div TENTH
               p == [c.pneu EXCEPT !.lumbar_level_ms = tenths * TENTH]
               q == set_lumbar(p, "hold")
               x == IF r THEN tenths ELSE c.store.lumbar
               d == [c EXCEPT !.pneu = q]
    <2>1. lumbar_stop_at(c, elapsed, r) = [d EXCEPT !.store.lumbar = x]
      BY DEF lumbar_stop_at, Whole, Shape
    <2> HIDE DEF tenths, x
    <2>2. DOMAIN c.pneu = PneuFields
      BY DEF Whole, Shape
    <2>3. Calms(c.pneu, p) /\ DOMAIN p = PneuFields /\ Lit(p)
      BY <2>2 DEF Calms, Lit, PneuFields
    <2>4. Calms(c.pneu, q)
      <3>1. Calms(p, q)
        BY <2>3, CalmCells
      <3> QED
        BY <2>3, <3>1 DEF Calms
    <2> HIDE DEF p, q
    <2>5. Hushes(c, d) /\ Whole(d)
      BY <2>4, CalmHushes DEF Hushes, Apart
    <2> HIDE DEF d
    <2>6. Hushes(d, [d EXCEPT !.store.lumbar = x])
      BY <2>5, SetFields
    <2> QED
      BY <2>1, <2>5, <2>6, ServeThen
  <1> QED
    BY <1>1 DEF lumbar_keep

LEMMA LumbarServes ==
    ASSUME NEW c, Whole(c), NEW on, NEW tenths
    PROVE  /\ Hushes(c, pneumatics_lumbar_release(c))
           /\ Serves(c, pneumatics_lumbar_set(c, on, tenths))
           /\ Serves(c, LumbarButton(c))
           /\ Hushes(c, pneumatics_shutdown(c))
           /\ ~pneumatics_shutdown(c).pneu.massage_on /\ ~Lit(pneumatics_shutdown(c).pneu)
  <1>0. DOMAIN c.pneu = PneuFields
    BY DEF Whole, Shape
  <1>1. Hushes(c, pneumatics_lumbar_release(c))
    <2> DEFINE done == [c EXCEPT !.pneu.lumbar_choosing = FALSE]
               toStored == [done EXCEPT !.pneu.lumbar_target_ms = Target(c.store.lumbar)]
    <2>1. Hushes(c, done) /\ Whole(done) /\ (Lit(done.pneu) <=> Lit(c.pneu)) /\ done.store = c.store
      BY DEF Hushes, Apart, Remembers, Quiets, Whole, Shape, PneuFields, Lit
    <2>2. Hushes(c, toStored) /\ Whole(toStored) /\ (Lit(toStored.pneu) <=> Lit(c.pneu))
      <3> HIDE DEF done
      <3>1. \A x : LET t == [done EXCEPT !.pneu.lumbar_target_ms = x] IN
                   Hushes(done, t) /\ (Lit(t.pneu) <=> Lit(done.pneu))
        BY <2>1 DEF Hushes, Apart, Remembers, Quiets, Whole, Shape, PneuFields, Lit
      <3>2. Hushes(done, toStored) /\ (Lit(toStored.pneu) <=> Lit(done.pneu))
        BY <3>1
      <3> HIDE DEF toStored
      <3> QED
        BY <2>1, <3>2, ServeThen DEF Hushes, Apart
    <2> HIDE DEF done, toStored
    <2>3. \A e : Lit(c.pneu) => Hushes(c, lumbar_keep(done, e)) /\ Hushes(c, lumbar_keep(toStored, e))
      BY <2>1, <2>2, LumbarKeeps, ServeThen
    <2>4. Hushes(c, [done EXCEPT !.pneu = set_lumbar(done.pneu, "deflate")])
      <3>1. Hushes(done, [done EXCEPT !.pneu = set_lumbar(done.pneu, "deflate")])
        BY <2>1, CalmCells, CalmHushes DEF Whole, Shape
      <3> QED
        BY <2>1, <3>1, ServeThen
    <2>5. c.pneu.lumbar_state = "inflate" => Lit(c.pneu)
      BY DEF Lit
    <2> QED
      BY <2>1, <2>2, <2>3, <2>4, <2>5 DEF pneumatics_lumbar_release, done, toStored
  <1>2. ASSUME NEW x1, NEW x2, NEW x3
        PROVE  Serves(c, [massage_off(c) EXCEPT !.pneu =
                   set_lumbar([@ EXCEPT !.lumbar_base_ms = x1, !.lumbar_choosing = x2,
                                        !.lumbar_target_ms = x3], "inflate")])
    <2> DEFINE off == massage_off(c)
               p == [off.pneu EXCEPT !.lumbar_base_ms = x1, !.lumbar_choosing = x2,
                                     !.lumbar_target_ms = x3]
               q == set_lumbar(p, "inflate")
    <2>1. Hushes(c, off) /\ Whole(off)
      BY MassageServes DEF Hushes, Apart
    <2> HIDE DEF off
    <2>2. DOMAIN p = PneuFields
      BY <2>1 DEF Whole, Shape
    <2>3. DOMAIN q = PneuFields
      BY <2>2 DEF set_lumbar
    <2> HIDE DEF p, q
    <2>4. Apart(off, [off EXCEPT !.pneu = q]) /\ Remembers(off, [off EXCEPT !.pneu = q])
      BY <2>1, <2>3, SetFields
    <2>5. [off EXCEPT !.pneu = q].heat = off.heat
      BY <2>1 DEF Whole, Shape
    <2> DEFINE d == [off EXCEPT !.pneu = q]
    <2> HIDE DEF d
    <2>6. Serves(c, d)
      BY <2>1, <2>4, <2>5 DEF Serves, Hushes, Apart, Remembers, Quiets, Clocked, d
    <2> QED
      BY <2>6 DEF d, q, p, off
  <1>3. Serves(c, LumbarButton(c))
    BY <1>2 DEF LumbarButton
  <1>4. Serves(c, pneumatics_lumbar_set(c, on, tenths))
    <2>1. Serves(c, [c EXCEPT !.pneu = set_lumbar(c.pneu, "deflate")])
      BY <1>0, CalmCells, CalmHushes, ServeThen
    <2>2. Serves(c, c)
      BY ServeThen
    <2> QED
      BY <1>2, <2>1, <2>2 DEF pneumatics_lumbar_set
  <1>5. /\ Hushes(c, pneumatics_shutdown(c))
        /\ ~pneumatics_shutdown(c).pneu.massage_on /\ ~Lit(pneumatics_shutdown(c).pneu)
    <2> DEFINE off == massage_off(c)
               p   == [off.pneu EXCEPT !.lumbar_state = "off", !.lumbar_choosing = FALSE,
                                       !.lumbar_base_ms = 0]
               q   == start_vent(p)
    <2>1. Hushes(c, off) /\ Whole(off) /\ ~off.pneu.massage_on
      BY MassageServes DEF Hushes, Apart
    <2> HIDE DEF off
    <2>2. Calms(off.pneu, p) /\ DOMAIN p = PneuFields /\ ~p.massage_on /\ ~Lit(p)
      BY <2>1 DEF Calms, Whole, Shape, PneuFields, Lit
    <2> HIDE DEF p
    <2>3. Calms(p, q)
      BY <2>2, CalmCells
    <2> HIDE DEF q
    <2>4. Calms(off.pneu, q) /\ ~q.massage_on /\ ~Lit(q)
      BY <2>2, <2>3 DEF Calms
    <2>5. Hushes(off, [off EXCEPT !.pneu = q]) /\ [off EXCEPT !.pneu = q].pneu = q
      BY <2>1, <2>4, CalmHushes
    <2>6. pneumatics_shutdown(c) = [off EXCEPT !.pneu = q]
      BY DEF pneumatics_shutdown, off, p, q
    <2> QED
      BY <2>1, <2>4, <2>5, <2>6, ServeThen
  <1> QED
    BY <1>1, <1>3, <1>4, <1>5

LEMMA AirHushes ==
    ASSUME NEW c, Whole(c)
    PROVE  Hushes(c, pneumatics_update(c))
  <1>0. ASSUME NEW d, Whole(d)
        PROVE  /\ DOMAIN d.pneu = PneuFields /\ Hushes(d, d)
               /\ \A bits : Hushes(d, [d EXCEPT !.pneu = valves_set(d.pneu, bits)])
               /\ Hushes(d, [d EXCEPT !.pneu = vent_tick(d.pneu)])
               /\ Hushes(d, [d EXCEPT !.pneu = massage_tick(d.pneu)])
               /\ Hushes(d, [d EXCEPT !.pneu = DeflateTick(d.pneu)])
               /\ Hushes(d, [d EXCEPT !.pneu = Unpause(d.pneu)])
    <2>1. DOMAIN d.pneu = PneuFields /\ Hushes(d, d)
      BY <1>0, ServeThen DEF Whole, Shape
    <2> QED
      BY <1>0, <2>1, CalmCells, CalmHushes
  <1>1. ASSUME NEW d, Whole(d) PROVE Hushes(d, lumbar_tick(d))
    <2> DEFINE fill == [d EXCEPT !.pneu = valves_set(d.pneu, {"bottom"})]
    <2>1. Hushes(d, fill) /\ Whole(fill) /\ fill.pneu = valves_set(d.pneu, {"bottom"})
      <3>1. Hushes(d, fill)
        BY <1>0, <1>1
      <3>2. fill.pneu = valves_set(d.pneu, {"bottom"})
        BY <1>1 DEF Whole, Shape
      <3> QED
        BY <3>1, <3>2 DEF Hushes, Apart
    <2>2. d.pneu.lumbar_state = "inflate" => Lit(fill.pneu)
      <3> DEFINE v == [d.pneu EXCEPT !.valves_now = {"bottom"}]
      <3>1. DOMAIN v = PneuFields /\ v.lumbar_state = d.pneu.lumbar_state
        BY <1>0, <1>1 DEF PneuFields
      <3> HIDE DEF v
      <3>2. pump_update(v).lumbar_state = v.lumbar_state
        BY <3>1 DEF pump_update, PneuFields
      <3> QED
        BY <2>1, <3>1, <3>2 DEF valves_set, Lit, v
    <2> HIDE DEF fill
    <2>3. d.pneu.lumbar_state = "inflate" => Hushes(fill, InflateTick(fill))
      BY <1>0, <2>1, <2>2, LumbarKeeps DEF InflateTick
    <2> QED
      BY <1>0, <1>1, <2>1, <2>3, ServeThen DEF lumbar_tick, fill
  <1>2. ASSUME NEW d, Whole(d) PROVE Hushes(d, WhilePaused(d)) /\ Hushes(d, Running(d))
    BY <1>0, <1>1, <1>2, MassageServes DEF WhilePaused, Running
  <1>3. Hushes(c, [c EXCEPT !.pneu.paused = TRUE, !.pneu.pause_age = 0])
    BY DEF Hushes, Apart, Remembers, Quiets, Whole, Shape, PneuFields, Lit
  <1>4. /\ Hushes(c, c) /\ Whole(c) /\ Whole([c EXCEPT !.pneu = Unpause(c.pneu)])
        /\ Whole([c EXCEPT !.pneu.paused = TRUE, !.pneu.pause_age = 0])
        /\ Hushes(c, [c EXCEPT !.pneu = Unpause(c.pneu)])
    BY <1>0, <1>3 DEF Hushes, Apart
  <1> QED
    BY <1>2, <1>3, <1>4, ServeThen DEF pneumatics_update

-----------------------------------------------------------------------------
(* Latches, and what is sound at every point of a pass: a motion outlived by its *)
(* latch asks for nothing, nothing is on behind a closed gate, one macro at a time. *)

LEMMA AirKeepsHeat ==
    ASSUME NEW c, Whole(c), NEW on, NEW x
    PROVE  /\ pneumatics_massage_set(c, on).heat = c.heat
           /\ pneumatics_massage_use_level(c, x).heat = c.heat
           /\ pneumatics_lumbar_set(c, on, x).heat = c.heat
  <1>1. \A q, a : [c EXCEPT !.pneu = q].heat = c.heat /\ [c EXCEPT !.pneu = q, !.adjust = a].heat = c.heat
    BY DEF Whole, Shape
  <1>2. massage_off(c).heat = c.heat /\ DOMAIN massage_off(c) = DOMAIN c
    BY DEF massage_off, Whole, Shape
  <1>3. \A q : [massage_off(c) EXCEPT !.pneu = q].heat = c.heat
    <2> DEFINE off == massage_off(c)
    <2>1. off.heat = c.heat /\ DOMAIN off = DOMAIN c
      BY <1>2
    <2> HIDE DEF off
    <2>2. \A q : [off EXCEPT !.pneu = q].heat = c.heat
      BY <2>1 DEF Whole, Shape
    <2> QED
      BY <2>2 DEF off
  <1>4. massage_start(c).heat = c.heat
    BY DEF massage_start, Whole, Shape
  <1>5. EndMassage(c).heat = c.heat
    BY <1>3 DEF EndMassage
  <1>6. pneumatics_massage_set(c, on).heat = c.heat
    BY <1>4, <1>5 DEF pneumatics_massage_set
  <1>7. pneumatics_massage_use_level(c, x).heat = c.heat
    BY DEF pneumatics_massage_use_level, Whole, Shape
  <1>8. pneumatics_lumbar_set(c, on, x).heat = c.heat
    BY <1>1, <1>3 DEF pneumatics_lumbar_set
  <1> QED
    BY <1>6, <1>7, <1>8

-----------------------------------------------------------------------------

\* A latch outlives its motion, and refuses every other.
Latchable(m) == DOMAIN m = MotionFields /\ (Relay!Latched(m) => m.requested = "none")

LEMMA RequestLatch ==
    ASSUME NEW m, Latchable(m), NEW want
    PROVE  LET n == Relay!motion_request(m, want) IN
           Latchable(n) /\ n.requested \in {"none", want}
  <1> DEFINE Stopped(n) == /\ DOMAIN n = MotionFields /\ n.requested = "none"
                           /\ n.fault_latched = m.fault_latched
                           /\ n.arrived_latched = m.arrived_latched
  <1>1. Stopped(Relay!motion_stop(m))
    BY DEF Relay!motion_stop, Relay!NONE, MotionFields, Latchable
  <1>2. /\ DOMAIN Relay!Unlatch(m) = MotionFields /\ Relay!Unlatch(m).requested = m.requested
        /\ ~Relay!Latched(Relay!Unlatch(m))
    BY DEF Relay!Unlatch, Relay!Latched, MotionFields, Latchable
  <1>3. /\ DOMAIN Relay!motion_stop(Relay!Unlatch(m)) = MotionFields
        /\ Relay!motion_stop(Relay!Unlatch(m)).requested = "none"
    <2> DEFINE u == Relay!Unlatch(m)
    <2>1. DOMAIN u = MotionFields
      BY <1>2
    <2> HIDE DEF u
    <2>2. DOMAIN Relay!motion_stop(u) = MotionFields /\ Relay!motion_stop(u).requested = "none"
      BY <2>1 DEF Relay!motion_stop, Relay!NONE, MotionFields
    <2> QED
      BY <2>2 DEF u
  <1>4. /\ DOMAIN Relay!Begin(m, want) = MotionFields /\ Relay!Begin(m, want).requested = want
        /\ Relay!Begin(m, want).fault_latched = m.fault_latched
        /\ Relay!Begin(m, want).arrived_latched = m.arrived_latched
    <2> DEFINE stop == Relay!motion_stop(m)
               turn == Relay!select_direction(stop, want)
    <2>1. Stopped(stop)
      BY <1>1
    <2> HIDE DEF stop
    <2>2. Stopped(turn)
      BY <2>1 DEF Relay!select_direction, MotionFields
    <2> HIDE DEF turn
    <2>3. Relay!Begin(m, want) =
             [turn EXCEPT !.requested = want, !.requested_age = 0, !.seq = "settling",
                          !.zero = FALSE, !.running_age = 0, !.track_age = 0]
      BY DEF Relay!Begin, turn, stop
    <2> QED
      BY <2>2, <2>3 DEF MotionFields
  <1> HIDE DEF Stopped
  <1> QED
    BY <1>2, <1>3, <1>4 DEF Relay!motion_request, Relay!NONE, Latchable, Relay!Latched

LEMMA UpdateLatch ==
    ASSUME NEW m, Latchable(m), NEW current
    PROVE  LET n == Relay!motion_update(m, current) IN
           Latchable(n) /\ n.requested \in {"none", m.requested}
  <1> DEFINE seq == Relay!Sequence(m)
             pos == Relay!track(seq)
             Goes(k) == /\ DOMAIN k = MotionFields /\ k.requested = m.requested
                        /\ k.fault_latched = m.fault_latched
                        /\ k.arrived_latched = m.arrived_latched
             Fine(k) == Latchable(k) /\ k.requested \in {"none", m.requested}
  <1>1. Goes(m)
    BY DEF Latchable
  <1>2. Goes(seq)
    BY <1>1 DEF Relay!Sequence, Relay!CloseFirst, Relay!CloseSecond, MotionFields
  <1> HIDE DEF seq
  <1>3. Goes(pos)
    BY <1>2 DEF Relay!track, MotionFields
  <1> HIDE DEF pos
  <1>4. ASSUME NEW k, Goes(k)
        PROVE  Goes(Relay!Undercurrent(k, current)) /\ Goes(Relay!Overcurrent(k, current))
    BY <1>4 DEF Relay!Undercurrent, Relay!Overcurrent, MotionFields
  <1>5. ASSUME NEW k, Goes(k) PROVE Fine(k)
    BY <1>5 DEF Latchable, Relay!Latched
  <1>6. ASSUME NEW k, DOMAIN k = MotionFields PROVE Fine(Relay!Fault(k)) /\ Fine(Relay!Arrive(k))
    <2>1. Fine(Relay!Fault(k))
      BY <1>6 DEF Relay!Fault, Relay!motion_stop, Relay!NONE, Latchable, MotionFields
    <2>2. Fine(Relay!Arrive(k))
      BY <1>6 DEF Relay!Arrive, Relay!AtStop, Relay!motion_stop, Relay!NONE, Latchable, MotionFields
    <2> QED
      BY <2>1, <2>2
  <1>7. ASSUME NEW k, Goes(k) PROVE DOMAIN k = MotionFields
    BY <1>7
  <1> HIDE DEF Goes, Fine
  <1>8. Fine(Relay!motion_update(m, current))
    BY <1>1, <1>3, <1>4, <1>5, <1>6, <1>7
       DEF Relay!motion_update, Relay!EndStall, Relay!EndArrival, Relay!EndTimeout, seq, pos
  <1> QED
    BY <1>8 DEF Fine

LEMMA RequestChair ==
    ASSUME NEW c, Whole(c), NEW want
    PROVE  LET d == Request(c, want) IN
           /\ d.motion = Relay!motion_request(c.motion, want)
           /\ Whole(d)
           /\ d.button = c.button /\ d.power = c.power /\ d.flatten = c.flatten
           /\ d.preset = c.preset /\ d.consumed = c.consumed /\ d.heat = c.heat
           /\ d.pneu = c.pneu /\ d.store = c.store /\ d.adjust = c.adjust
  <1> DEFINE n == Relay!motion_request(c.motion, want)
  <1>1. DOMAIN n = MotionFields
    BY DEF Whole, Shape, MotionFields, Relay!motion_request, Relay!Unlatch, Relay!motion_stop,
           Relay!Begin, Relay!select_direction
  <1> HIDE DEF n
  <1>2. Request(c, want) = [c EXCEPT !.motion = n]
    BY DEF Request, n
  <1>3. LET d == [c EXCEPT !.motion = n] IN
           /\ d.motion = n
           /\ Whole(d)
           /\ d.button = c.button /\ d.power = c.power /\ d.flatten = c.flatten
           /\ d.preset = c.preset /\ d.consumed = c.consumed /\ d.heat = c.heat
           /\ d.pneu = c.pneu /\ d.store = c.store /\ d.adjust = c.adjust
    BY <1>1 DEF Whole, Shape
  <1> QED
    BY <1>2, <1>3 DEF n

-----------------------------------------------------------------------------

Asleep(c) == ~c.heat.on /\ ~c.pneu.massage_on /\ ~Lit(c.pneu)
Covered(c) == Asleep(c) \/ c.power

\* One macro at a time, and no window while a recall is under way.
Single(c) ==
    /\ c.flatten => c.preset.stage = "idle"
    /\ c.preset.stage = "idle" => c.preset.drive = "none"
    /\ c.preset.stage # "idle" => ~c.preset.armed

Sound(c) == Whole(c) /\ Latchable(c.motion) /\ Covered(c) /\ Single(c)

LEMMA CallsSound ==
    ASSUME NEW c, Sound(c), NEW d
    PROVE  /\ Hushes(c, d) => Sound(d)
           /\ Apart(c, d) /\ Quiets(c, d) => Sound(d)
           /\ Apart(c, d) /\ c.power => Sound(d)
  <1>1. Apart(c, d) /\ Quiets(c, d) => Sound(d)
    BY DEF Sound, Apart, Quiets, Covered, Asleep, Single
  <1>2. Apart(c, d) /\ c.power => Sound(d)
    BY DEF Sound, Apart, Covered, Single
  <1> QED
    BY <1>1, <1>2 DEF Hushes

LEMMA RequestSound ==
    ASSUME NEW c, Sound(c), NEW want
    PROVE  Sound(Request(c, want)) /\ Request(c, want).motion.requested \in {"none", want}
  <1> DEFINE d == Request(c, want)
  <1>1. /\ d.motion = Relay!motion_request(c.motion, want)
        /\ Whole(d)
        /\ d.power = c.power /\ d.flatten = c.flatten
        /\ d.preset = c.preset /\ d.heat = c.heat /\ d.pneu = c.pneu
    BY RequestChair DEF Sound
  <1> HIDE DEF d
  <1>2. Latchable(d.motion) /\ d.motion.requested \in {"none", want}
    BY <1>1, RequestLatch DEF Sound
  <1>3. Sound(d)
    BY <1>1, <1>2 DEF Sound, Covered, Asleep, Single
  <1> QED
    BY <1>2, <1>3 DEF d

\* What a recall does of a chair, but to its motors: it may serve it.
Recalls(c, d) ==
    /\ Whole(d)
    /\ d.button = c.button /\ d.flatten = c.flatten /\ d.consumed = c.consumed
    /\ d.store.presets = c.store.presets /\ Remembers(c, d) /\ Clocked(c, d)
    /\ d.preset.armed => c.preset.armed

LEMMA RestoreServes ==
    ASSUME NEW c, Whole(c)
    PROVE  LET d == restore_comfort(c) IN
           Recalls(c, d) /\ d.power /\ d.preset = c.preset /\ d.motion = c.motion
  <1> DEFINE p    == c.store.presets[c.preset.slot]
             on   == IF c.power THEN c ELSE power_toggle(c)
             hot  == "heat" \in p.flags
             soft == "massage" \in p.flags
             firm == "lumbar" \in p.flags
             warm == heat_set(on, hot)
             heat == IF hot THEN heat_use_level(warm, p.heat) ELSE warm
             mass == pneumatics_massage_set(heat, soft)
             use  == IF soft THEN pneumatics_massage_use_level(mass, p.massage) ELSE mass
             lum  == pneumatics_lumbar_set(use, firm, p.lumbar)
  <1>1. /\ Whole(on) /\ on.button = c.button /\ on.flatten = c.flatten
        /\ on.consumed = c.consumed /\ on.store = c.store /\ on.heat = c.heat
        /\ on.preset = c.preset /\ on.motion = c.motion /\ on.power
    <2>1. CASE c.power
      BY <2>1
    <2>2. CASE ~c.power
      BY <2>2 DEF power_toggle, Whole, Shape
    <2> QED
      BY <2>1, <2>2
  <1> HIDE DEF on, hot, soft, firm
  <1>2. Serves(on, warm) /\ Whole(warm)
    <2>1. \A x : Serves(on, heat_set(on, x))
      BY <1>1, HeatServes
    <2>2. Serves(on, warm)
      BY <2>1
    <2> QED
      BY <2>2 DEF Serves, Apart
  <1> HIDE DEF warm
  <1>3. Serves(on, heat) /\ Whole(heat)
    <2>1. Serves(on, heat)
      BY <1>2, HeatServes, ServeThen
    <2> QED
      BY <2>1 DEF Serves, Apart
  <1> HIDE DEF heat
  <1>4. Serves(heat, mass) /\ Whole(mass) /\ mass.heat = heat.heat
    BY <1>3, MassageServes, AirKeepsHeat DEF Serves, Apart
  <1> HIDE DEF mass
  <1>5. Serves(mass, use) /\ Whole(use) /\ use.heat = mass.heat
    <2>1. Serves(mass, use) /\ use.heat = mass.heat
      BY <1>4, MassageServes, AirKeepsHeat, ServeThen
    <2> QED
      BY <2>1 DEF Serves, Apart
  <1> HIDE DEF use
  <1>6. Serves(use, lum) /\ Whole(lum) /\ lum.heat = use.heat
    BY <1>5, LumbarServes, AirKeepsHeat DEF Serves, Apart
  <1> HIDE DEF lum
  <1>7. restore_comfort(c) = lum
    BY DEF restore_comfort, on, warm, heat, mass, use, lum, p, hot, soft, firm
  <1>8. /\ lum.button = c.button /\ lum.flatten = c.flatten /\ lum.consumed = c.consumed
        /\ lum.preset = c.preset /\ lum.motion = c.motion /\ lum.power
        /\ lum.store.presets = c.store.presets /\ Remembers(c, lum)
    BY <1>1, <1>3, <1>4, <1>5, <1>6 DEF Serves, Apart, Remembers
  <1>9. Clocked(c, lum)
    BY <1>1, <1>3, <1>4, <1>5, <1>6 DEF Serves, Clocked
  <1> QED
    BY <1>6, <1>7, <1>8, <1>9 DEF Recalls

LEMMA StageSets ==
    ASSUME NEW c, Whole(c), NEW stage
    PROVE  LET d == Stage(c, stage) IN
           /\ Recalls(c, d) /\ d.power = c.power /\ d.motion = c.motion /\ d.heat = c.heat
           /\ d.pneu = c.pneu /\ d.preset.stage = stage
  <1> DEFINE target == c.store.presets[c.preset.slot][stage] * PRESET_STEP
             drive  == seek(c, stage, target)
             d      == [c EXCEPT !.preset.stage = stage, !.preset.target = target,
                                 !.preset.drive = drive]
  <1>1. Stage(c, stage) = d
    BY DEF Stage
  <1> HIDE DEF target, drive
  <1>2. /\ Recalls(c, d) /\ d.power = c.power /\ d.motion = c.motion /\ d.heat = c.heat
        /\ d.pneu = c.pneu /\ d.preset.stage = stage
    BY DEF Recalls, Remembers, Clocked, Whole, Shape, PresetFields
  <1> QED
    BY <1>1, <1>2

LEMMA ArriveServes ==
    ASSUME NEW c, Whole(c)
    PROVE  LET d == Arrive(c) IN
           /\ Recalls(c, d) /\ d.power /\ d.motion = c.motion
           /\ d.preset.stage = "idle" /\ d.preset.drive = "none"
  <1> DEFINE e == [c EXCEPT !.preset.stage = "idle", !.preset.drive = "none"]
             d == restore_comfort(e)
  <1>1. /\ Recalls(c, e) /\ e.motion = c.motion /\ e.heat = c.heat
        /\ e.preset.stage = "idle" /\ e.preset.drive = "none"
    BY DEF Recalls, Remembers, Clocked, Whole, Shape, PresetFields
  <1> HIDE DEF e
  <1>2. Recalls(e, d) /\ d.power /\ d.preset = e.preset /\ d.motion = e.motion
    BY <1>1, RestoreServes DEF Recalls
  <1> HIDE DEF d
  <1>3. Recalls(c, d)
    BY <1>1, <1>2 DEF Recalls, Remembers, Clocked
  <1> QED
    BY <1>1, <1>2, <1>3 DEF Arrive, d, e

LEMMA RecallThen ==
    ASSUME NEW c, NEW d, NEW e, Recalls(c, d), Recalls(d, e)
    PROVE  /\ d.heat = c.heat => Recalls(c, e)
           /\ e.heat = d.heat => Recalls(c, e)
  BY DEF Recalls, Remembers, Clocked

\* A recall on its way has changed nothing that heats.
OnItsWay(c, d) == d.preset.stage # "idle" => d.heat = c.heat

LEMMA ArriveSound ==
    ASSUME NEW c, Whole(c), Latchable(c.motion)
    PROVE  Sound(Arrive(c)) /\ OnItsWay(c, Arrive(c)) /\ Recalls(c, Arrive(c))
  <1> DEFINE d == Arrive(c)
  <1>1. /\ Recalls(c, d) /\ d.power /\ d.motion = c.motion
        /\ d.preset.stage = "idle" /\ d.preset.drive = "none"
    BY ArriveServes
  <1> HIDE DEF d
  <1>2. Sound(d) /\ OnItsWay(c, d)
    BY <1>1 DEF Sound, Covered, Single, Recalls, OnItsWay
  <1> QED
    BY <1>1, <1>2 DEF d

\* A stage that begins, with its request.
LEMMA StageSound ==
    ASSUME NEW c, Whole(c), Latchable(c.motion), Covered(c), ~c.flatten, ~c.preset.armed,
           NEW stage \in {"recline", "headrest"}
    PROVE  LET d == Stage(c, stage)
               e == Request(d, d.preset.drive)
           IN  /\ Sound(d) /\ Recalls(c, d) /\ d.heat = c.heat /\ d.motion = c.motion
               /\ d.pneu = c.pneu /\ d.power = c.power /\ ~d.flatten /\ ~d.preset.armed
               /\ d.preset.stage = stage
               /\ Sound(e) /\ Recalls(c, e) /\ e.heat = c.heat
               /\ e.preset = d.preset
  <1> DEFINE d == Stage(c, stage)
             e == Request(d, d.preset.drive)
  <1>1. /\ Recalls(c, d) /\ d.power = c.power /\ d.motion = c.motion /\ d.heat = c.heat
        /\ d.pneu = c.pneu /\ d.preset.stage = stage
    BY StageSets
  <1> HIDE DEF d
  <1>2. ~d.flatten /\ ~d.preset.armed /\ Whole(d)
    BY <1>1 DEF Recalls
  <1>3. Sound(d)
    BY <1>1, <1>2 DEF Sound, Covered, Asleep, Single
  <1>4. Sound(e)
    BY <1>3, RequestSound
  <1>5. /\ Whole(e) /\ e.button = d.button /\ e.flatten = d.flatten /\ e.preset = d.preset
        /\ e.consumed = d.consumed /\ e.heat = d.heat /\ e.store = d.store
    BY <1>2, RequestChair
  <1> HIDE DEF e
  <1>6. Recalls(c, e)
    BY <1>1, <1>5 DEF Recalls, Remembers, Clocked
  <1> QED
    BY <1>1, <1>2, <1>3, <1>4, <1>5, <1>6 DEF d, e

LEMMA NextStageSound ==
    ASSUME NEW c, Sound(c), c.preset.stage # "idle"
    PROVE  LET d == NextStage(c) IN Sound(d) /\ Recalls(c, d) /\ OnItsWay(c, d)
  <1> DEFINE h == Stage(c, "headrest")
             e == Request(h, h.preset.drive)
             d == NextStage(c)
  <1>1. Whole(c) /\ Latchable(c.motion) /\ Covered(c) /\ ~c.flatten /\ ~c.preset.armed
    BY DEF Sound, Single
  <1>2. /\ Sound(h) /\ Recalls(c, h) /\ h.heat = c.heat
        /\ Sound(e) /\ Recalls(c, e) /\ e.heat = c.heat
    BY <1>1, StageSound
  <1> HIDE DEF h, e
  <1>3. Sound(Arrive(c)) /\ OnItsWay(c, Arrive(c)) /\ Recalls(c, Arrive(c))
    BY <1>1, ArriveSound
  <1>4. Sound(Arrive(h)) /\ OnItsWay(c, Arrive(h)) /\ Recalls(c, Arrive(h))
    <2>1. Sound(Arrive(h)) /\ OnItsWay(h, Arrive(h)) /\ Recalls(h, Arrive(h))
      BY <1>2, ArriveSound DEF Sound
    <2> QED
      BY <1>2, <2>1, RecallThen DEF OnItsWay
  <1>5. d \in {e, Arrive(h), Arrive(c)}
    BY DEF NextStage, e, h
  <1> QED
    BY <1>2, <1>3, <1>4, <1>5 DEF OnItsWay

LEMMA RecallSound ==
    ASSUME NEW c, Sound(c), ~c.flatten, NEW slot
    PROVE  LET d == preset_recall(c, slot) IN Sound(d) /\ Recalls(c, d) /\ OnItsWay(c, d)
  <1> DEFINE n == [c EXCEPT !.preset.slot = slot]
             r == Stage(n, "recline")
             h == Stage(r, "headrest")
             d == preset_recall(c, slot)
  <1>0. Whole(c) /\ Latchable(c.motion) /\ Covered(c)
    BY DEF Sound
  <1>1. CASE c.preset.armed \/ c.preset.stage # "idle" \/ ~c.store.presets[slot].used
    <2>1. d = c
      BY <1>1 DEF preset_recall
    <2> QED
      BY <1>0, <2>1 DEF Recalls, Remembers, Clocked, OnItsWay
  <1>2. CASE ~(c.preset.armed \/ c.preset.stage # "idle" \/ ~c.store.presets[slot].used)
    <2>1. /\ Whole(n) /\ n.motion = c.motion /\ n.flatten = c.flatten /\ n.heat = c.heat
          /\ n.pneu = c.pneu /\ n.power = c.power /\ n.preset.armed = c.preset.armed
          /\ Recalls(c, n)
      BY <1>0 DEF Whole, Shape, PresetFields, Recalls, Remembers, Clocked
    <2> HIDE DEF n
    <2>2. Whole(n) /\ Latchable(n.motion) /\ Covered(n) /\ ~n.flatten /\ ~n.preset.armed
      BY <1>0, <1>2, <2>1 DEF Covered, Asleep
    <2> DEFINE er == Request(r, r.preset.drive)
               eh == Request(h, h.preset.drive)
    <2>3. /\ Sound(r) /\ Recalls(n, r) /\ r.heat = n.heat /\ r.motion = n.motion
          /\ r.pneu = n.pneu /\ r.power = n.power /\ ~r.flatten /\ ~r.preset.armed
          /\ Sound(er) /\ Recalls(n, er) /\ er.heat = n.heat
      BY <2>2, StageSound
    <2> HIDE DEF r, er
    <2>4. Whole(r) /\ Latchable(r.motion) /\ Covered(r) /\ ~r.flatten /\ ~r.preset.armed
      BY <2>3 DEF Sound
    <2>5. /\ Sound(h) /\ Recalls(r, h) /\ h.heat = r.heat
          /\ Sound(eh) /\ Recalls(r, eh) /\ eh.heat = r.heat
      BY <2>4, StageSound
    <2> HIDE DEF h, eh
    <2>6. Sound(Arrive(h)) /\ OnItsWay(h, Arrive(h)) /\ Recalls(h, Arrive(h))
      BY <2>5, ArriveSound DEF Sound
    <2>7. Recalls(c, r) /\ Recalls(c, er)
      BY <2>1, <2>3, RecallThen
    <2>8. Recalls(c, h) /\ Recalls(c, eh)
      BY <2>5, <2>7, RecallThen
    <2>9. Recalls(c, Arrive(h))
      BY <2>1, <2>3, <2>5, <2>6, <2>8, RecallThen
    <2>10. d = IF r.preset.drive # "none" THEN er
               ELSE IF h.preset.drive # "none" THEN eh ELSE Arrive(h)
      BY <1>2 DEF preset_recall, n, r, h, er, eh
    <2> HIDE DEF d
    <2> QED
      BY <2>1, <2>3, <2>5, <2>6, <2>7, <2>8, <2>9, <2>10 DEF OnItsWay, d
  <1> QED
    BY <1>1, <1>2

\* A pass of a macro that is not under way, and of one that a button ends.
Idles(c, d) ==
    /\ d.preset.stage = "idle" /\ d.motion = c.motion /\ d.heat = c.heat
    /\ d.pneu = c.pneu /\ d.power = c.power

LEMMA RecallUpdate ==
    ASSUME NEW c, Sound(c), NEW key
    PROVE  LET d == preset_update(c, key) IN
           /\ Sound(d) /\ Recalls(c, d) /\ OnItsWay(c, d)
           /\ c.preset.stage = "idle" \/ key # "none" => Idles(c, d)
  <1> DEFINE now == Expire(c)
             d   == preset_update(c, key)
  <1>0. Whole(c)
    BY DEF Sound
  <1>1. /\ Sound(now) /\ Recalls(c, now) /\ now.heat = c.heat /\ now.pneu = c.pneu
        /\ now.power = c.power /\ now.motion = c.motion /\ now.preset.stage = c.preset.stage
        /\ now.flatten = c.flatten
    <2> DEFINE e == preset_cancel(c)
    <2>1. /\ Recalls(c, e) /\ e.heat = c.heat /\ e.pneu = c.pneu
          /\ e.power = c.power /\ e.motion = c.motion /\ e.preset.stage = c.preset.stage
          /\ e.flatten = c.flatten /\ e.preset.drive = c.preset.drive /\ ~e.preset.armed
      BY <1>0 DEF preset_cancel, Recalls, Remembers, Clocked, Whole, Shape, PresetFields
    <2> HIDE DEF e
    <2>2. Sound(e)
      BY <2>1 DEF Sound, Recalls, Covered, Asleep, Single
    <2>3. Recalls(c, c)
      BY <1>0 DEF Recalls, Remembers, Clocked
    <2> QED
      BY <2>1, <2>2, <2>3 DEF Expire, e
  <1> HIDE DEF now
  <1>2. /\ Sound(Cancel(now)) /\ Recalls(now, Cancel(now)) /\ Idles(now, Cancel(now))
        /\ Cancel(now).heat = now.heat
    <2> DEFINE e == Cancel(now)
    <2>1. Whole(now)
      BY <1>1 DEF Sound
    <2>2. /\ Recalls(now, e) /\ Idles(now, e) /\ e.heat = now.heat /\ e.preset.drive = "none"
          /\ e.pneu = now.pneu
      BY <2>1 DEF Cancel, Recalls, Remembers, Clocked, Whole, Shape, PresetFields, Idles
    <2> HIDE DEF e
    <2>3. Sound(e)
      BY <1>1, <2>2 DEF Sound, Recalls, Covered, Asleep, Single, Idles
    <2> QED
      BY <2>2, <2>3 DEF e
  <1>3. now.preset.stage # "idle" =>
          Sound(Advance(now)) /\ Recalls(now, Advance(now)) /\ OnItsWay(now, Advance(now))
    <2> SUFFICES ASSUME now.preset.stage # "idle"
                 PROVE  Sound(Advance(now)) /\ Recalls(now, Advance(now)) /\ OnItsWay(now, Advance(now))
      OBVIOUS
    <2> DEFINE there == ~Still(now) /\ seek(now, now.preset.stage, now.preset.target) = "none"
               end   == IF there THEN Request(now, "none") ELSE now
    <2>1. /\ Sound(end) /\ Recalls(now, end) /\ end.heat = now.heat
          /\ end.preset = now.preset
      <3> DEFINE r == Request(now, "none")
      <3>1. /\ Whole(now) /\ Whole(r)
            /\ r.button = now.button /\ r.flatten = now.flatten /\ r.consumed = now.consumed
            /\ r.preset = now.preset /\ r.heat = now.heat /\ r.store = now.store
        BY <1>1, RequestChair DEF Sound
      <3>2. Sound(r)
        BY <1>1, RequestSound
      <3> HIDE DEF r
      <3>3. Recalls(now, r) /\ Recalls(now, now)
        BY <3>1 DEF Recalls, Remembers, Clocked
      <3> QED
        BY <1>1, <3>1, <3>2, <3>3 DEF r
    <2>2. Advance(now) = IF Still(end) THEN NextStage(end) ELSE end
      BY DEF Advance
    <2> HIDE DEF end
    <2>3. LET e == NextStage(end) IN Sound(e) /\ Recalls(end, e) /\ OnItsWay(end, e)
      BY <2>1, NextStageSound
    <2>4. LET e == NextStage(end) IN Recalls(now, e) /\ OnItsWay(now, e)
      BY <2>1, <2>3, RecallThen DEF OnItsWay
    <2> QED
      BY <2>1, <2>2, <2>3, <2>4 DEF OnItsWay
  <1>4. /\ now.preset.stage = "idle" => d = now
        /\ now.preset.stage # "idle" /\ key # "none" => d = Cancel(now)
        /\ now.preset.stage # "idle" /\ key = "none" => d = Advance(now)
    BY DEF preset_update, now
  <1> HIDE DEF d
  <1>5. CASE now.preset.stage = "idle"
    BY <1>1, <1>4, <1>5 DEF OnItsWay, Idles, d
  <1>6. CASE now.preset.stage # "idle" /\ key # "none"
    <2>1. Recalls(c, d) /\ Sound(d) /\ Idles(c, d)
      BY <1>1, <1>2, <1>4, <1>6, RecallThen DEF Idles
    <2> QED
      BY <2>1 DEF OnItsWay, Idles, d
  <1>7. CASE now.preset.stage # "idle" /\ key = "none"
    <2>1. Sound(d) /\ Recalls(now, d) /\ OnItsWay(now, d)
      BY <1>3, <1>4, <1>7
    <2>2. Recalls(c, d) /\ OnItsWay(c, d)
      BY <1>1, <2>1, RecallThen DEF OnItsWay
    <2> QED
      BY <1>1, <1>7, <2>1, <2>2 DEF d
  <1> QED
    BY <1>5, <1>6, <1>7

-----------------------------------------------------------------------------

LEMMA ComfortOff ==
    ASSUME NEW c, Whole(c)
    PROVE  Hushes(c, power_comfort_off(c)) /\ Asleep(power_comfort_off(c))
  <1> DEFINE s == pneumatics_shutdown(c)
             d == heat_off(s)
  <1>1. Hushes(c, s) /\ Whole(s) /\ ~s.pneu.massage_on /\ ~Lit(s.pneu)
    BY LumbarServes DEF Hushes, Apart
  <1> HIDE DEF s
  <1>2. Hushes(s, d) /\ ~d.heat.on /\ d.pneu = s.pneu
    BY <1>1, HeatServes
  <1> HIDE DEF d
  <1>3. Hushes(c, d) /\ Asleep(d)
    BY <1>1, <1>2, ServeThen DEF Asleep
  <1> QED
    BY <1>3 DEF power_comfort_off, d, s

\* The gate, whichever way it goes, and what is on behind it.
LEMMA PowerSound ==
    ASSUME NEW c, Sound(c)
    PROVE  /\ LET d == power_short_press(c) IN
              /\ Sound(d) /\ Recalls(c, d) /\ d.motion = c.motion /\ d.preset = c.preset
           /\ LET d == finish(c) IN
              /\ Sound(d) /\ Recalls(c, d) /\ d.motion = c.motion /\ d.preset = c.preset
              /\ Asleep(d) /\ ~d.power
  <1>0. Whole(c)
    BY DEF Sound
  <1>1. ASSUME NEW d, Whole(d)
        PROVE  LET e == power_toggle(d) IN
               /\ Whole(e) /\ e.button = d.button /\ e.flatten = d.flatten
               /\ e.consumed = d.consumed /\ e.store = d.store /\ e.heat = d.heat
               /\ e.preset = d.preset /\ e.motion = d.motion /\ e.pneu = d.pneu
               /\ (e.power <=> ~d.power)
    BY <1>1 DEF power_toggle, Whole, Shape
  <1>2. LET d == power_short_press(c) IN
        /\ Sound(d) /\ Recalls(c, d) /\ d.motion = c.motion /\ d.preset = c.preset
    <2> DEFINE now == power_toggle(c)
               off == power_comfort_off(now)
    <2>1. /\ Whole(now) /\ now.button = c.button /\ now.flatten = c.flatten
          /\ now.consumed = c.consumed /\ now.store = c.store /\ now.heat = c.heat
          /\ now.preset = c.preset /\ now.motion = c.motion /\ now.pneu = c.pneu
      BY <1>0, <1>1
    <2> HIDE DEF now
    <2>2. Hushes(now, off) /\ Asleep(off)
      BY <2>1, ComfortOff
    <2> HIDE DEF off
    <2>3. Sound(off) /\ Recalls(c, off) /\ off.motion = c.motion /\ off.preset = c.preset
      BY <2>1, <2>2 DEF Sound, Recalls, Hushes, Apart, Quiets, Remembers, Clocked, Covered, Single
    <2>4. now.power => Sound(now) /\ Recalls(c, now)
      BY <2>1 DEF Sound, Recalls, Remembers, Clocked, Covered, Single
    <2> QED
      BY <2>1, <2>3, <2>4 DEF power_short_press, now, off
  <1>3. LET d == finish(c) IN
        /\ Sound(d) /\ Recalls(c, d) /\ d.motion = c.motion /\ d.preset = c.preset
        /\ Asleep(d) /\ ~d.power
    <2> DEFINE off == power_comfort_off(c)
               e   == power_toggle(off)
    <2>1. Hushes(c, off) /\ Asleep(off) /\ Whole(off)
      BY <1>0, ComfortOff DEF Hushes, Apart
    <2> HIDE DEF off
    <2>2. /\ Whole(e) /\ e.button = off.button /\ e.flatten = off.flatten
          /\ e.consumed = off.consumed /\ e.store = off.store /\ e.heat = off.heat
          /\ e.preset = off.preset /\ e.motion = off.motion /\ e.pneu = off.pneu
          /\ (e.power <=> ~off.power)
      BY <2>1, <1>1
    <2> HIDE DEF e
    <2>3. /\ Recalls(c, off) /\ Recalls(c, e) /\ Asleep(e)
          /\ off.motion = c.motion /\ off.preset = c.preset
      BY <2>1, <2>2 DEF Recalls, Hushes, Apart, Quiets, Remembers, Clocked, Asleep
    <2>4. Sound(off) /\ Sound(e)
      BY <2>1, <2>2, <2>3 DEF Sound, Recalls, Covered, Single
    <2> QED
      BY <2>1, <2>2, <2>3, <2>4 DEF finish, off, e
  <1> QED
    BY <1>2, <1>3

LEMMA FlattenSound ==
    ASSUME NEW c, Sound(c), NEW key
    PROVE  LET d == flatten_update(c, key) IN
           /\ Sound(d) /\ d.button = c.button /\ d.consumed = c.consumed
           /\ d.store.presets = c.store.presets /\ Remembers(c, d) /\ Clocked(c, d)
           /\ d.motion = c.motion /\ d.preset = c.preset
           /\ d.flatten => c.flatten /\ key = "none"
           /\ ~c.flatten \/ key # "none" => d.heat = c.heat /\ d.power = c.power
           /\ d.heat = c.heat \/ ~d.heat.on
           /\ c.flatten /\ ~d.flatten /\ key = "none" => Asleep(d) /\ ~d.power /\ Still(c)
  <1> DEFINE f == [c EXCEPT !.flatten = FALSE]
             d == flatten_update(c, key)
  <1>1. /\ Whole(f) /\ f.button = c.button /\ ~f.flatten
        /\ f.consumed = c.consumed /\ f.store = c.store /\ f.heat = c.heat
        /\ f.preset = c.preset /\ f.motion = c.motion /\ f.pneu = c.pneu /\ f.power = c.power
    BY DEF Sound, Whole, Shape
  <1> HIDE DEF f
  <1>2. Sound(f)
    BY <1>1 DEF Sound, Covered, Asleep, Single
  <1> DEFINE e == finish(f)
  <1>3. /\ Sound(e) /\ Recalls(f, e) /\ e.motion = f.motion /\ e.preset = f.preset
        /\ Asleep(e) /\ ~e.power
    BY <1>2, PowerSound
  <1> HIDE DEF e
  <1>4. /\ c.flatten /\ key # "none" => d = f
        /\ c.flatten /\ key = "none" /\ Still(c) => d = e
        /\ ~c.flatten \/ (key = "none" /\ ~Still(c)) => d = c
    BY DEF flatten_update, f, e
  <1> HIDE DEF d
  <1>5. CASE d = f /\ key # "none"
    BY <1>1, <1>2, <1>5 DEF Remembers, Clocked, d
  <1>6. CASE d = e /\ c.flatten /\ key = "none" /\ Still(c)
    BY <1>1, <1>3, <1>6 DEF Recalls, Remembers, Clocked, Asleep, d
  <1>7. CASE d = c /\ (~c.flatten \/ (key = "none" /\ ~Still(c)))
    BY <1>7 DEF Remembers, Clocked, d
  <1> QED
    BY <1>4, <1>5, <1>6, <1>7

-----------------------------------------------------------------------------
(* The events.                                                              *)

\* The motion buttons are none of the others, and no macro.
LEMMA Routes == {"none", "power", "heat", "massage", "lumbar", "flatten"} \cap Drives = {}
  <1>1. Drives \subseteq Relay!Recline \cup Relay!Headrest
    BY ControlConstants DEF Drives
  <1> QED
    BY <1>1 DEF Relay!Recline, Relay!Headrest

LEMMA Delivered ==
    ASSUME NEW c, Sound(c), NEW want
    PROVE  LET d == deliver_level(c, want) IN
           /\ Apart(c, d) /\ Quiets(c, d) /\ Sound(d)
           /\ d.store.heat # c.store.heat => c.adjust.owner = "heat"
           /\ d.store.massage # c.store.massage => c.adjust.owner = "massage"
  <1> DEFINE set == IF c.adjust.owner = "heat" THEN heat_set_level(c, want)
                    ELSE pneumatics_massage_set_level(c, want)
             x   == adjust_pick(set.adjust, want)
             e   == [set EXCEPT !.adjust = x]
             d   == deliver_level(c, want)
  <1>0. Whole(c) /\ c.adjust.owner \in {"heat", "massage", NOBODY}
    BY DEF Sound, Whole, Bar, Owners
  <1>1. /\ Apart(c, set) /\ Quiets(c, set)
        /\ set.store.heat # c.store.heat => c.adjust.owner = "heat"
        /\ set.store.massage # c.store.massage => c.adjust.owner # "heat"
    BY <1>0, HeatServes, MassageServes
  <1> HIDE DEF set
  <1>2. Bar(x) /\ Whole(set)
    <2>1. Whole(set) /\ Bar(set.adjust) /\ "heat" \in Owners
      BY <1>1 DEF Apart, Whole, Owners
    <2> QED
      BY <2>1, Bars
  <1> HIDE DEF x
  <1>3. Hushes(set, e)
    BY <1>2, SetFields
  <1> HIDE DEF e
  <1>4. /\ Apart(c, e) /\ Quiets(c, e)
        /\ e.store.heat = set.store.heat /\ e.store.massage = set.store.massage
    BY <1>1, <1>3 DEF Hushes, Apart, Quiets, Remembers
  <1>5. d = IF c.adjust.owner = NOBODY THEN c ELSE e
    BY DEF deliver_level, e, x, set
  <1>6. Apart(c, c) /\ Quiets(c, c)
    BY <1>0, ServeThen DEF Hushes
  <1> HIDE DEF d
  <1>7. /\ Apart(c, d) /\ Quiets(c, d)
        /\ d.store.heat # c.store.heat => c.adjust.owner = "heat"
        /\ d.store.massage # c.store.massage => c.adjust.owner = "massage"
    BY <1>0, <1>1, <1>4, <1>5, <1>6
  <1> QED
    BY <1>7, CallsSound DEF d

LEMMA ComfortPress ==
    ASSUME NEW c, Sound(c), NEW b
    PROVE  LET d == comfort_button(c, b) IN
           Sound(d) /\ Serves(c, d)
  <1>1. Whole(c) /\ Serves(c, c)
    BY ServeThen DEF Sound
  <1>2. Serves(c, heat_press(c)) /\ Serves(c, MassageButton(c)) /\ Serves(c, LumbarButton(c))
    BY <1>1, HeatServes, MassageServes, LumbarServes
  <1>3. \A d : Serves(c, d) /\ c.power => Sound(d)
    BY CallsSound DEF Serves
  <1> QED
    BY <1>1, <1>2, <1>3 DEF comfort_button

LEMMA BarTouched ==
    ASSUME NEW c, Sound(c), NEW b
    PROVE  /\ Sound(TouchBar(c, b)) /\ Hushes(c, TouchBar(c, b))
           /\ TouchBar(c, b).heat = c.heat
  <1> DEFINE x == IF c.adjust.owner = b THEN adjust_defer(c.adjust, SHORT)
                  ELSE adjust_dismiss(c.adjust)
  <1>1. TouchBar(c, b) = [c EXCEPT !.adjust = x]
    BY DEF TouchBar
  <1>2. Bar(x)
    <2>1. Bar(c.adjust) /\ "heat" \in Owners
      BY DEF Sound, Whole, Owners
    <2> QED
      BY <2>1, Bars
  <1> HIDE DEF x
  <1>3. Hushes(c, TouchBar(c, b))
    BY <1>1, <1>2, SetFields DEF Sound
  <1>4. TouchBar(c, b).heat = c.heat
    BY <1>1 DEF Sound, Whole, Shape
  <1> QED
    BY <1>3, <1>4, CallsSound

\* A press that is claimed is kept off its motor; only one claimed for a level
\* changes one that is remembered.
LEMMA PressSound ==
    ASSUME NEW c, Sound(c), NEW b
    PROVE  LET d == OnPress(c, b) IN
           /\ Sound(d) /\ d.button = c.button /\ d.power = c.power /\ d.flatten = c.flatten
           /\ d.motion = c.motion /\ d.preset = c.preset
           /\ d.store.presets = c.store.presets /\ Clocked(c, d)
           /\ Claimed(c, b) # "none" => d.consumed = b
           /\ d.store.heat # c.store.heat => Claimed(c, b) = "level" /\ c.adjust.owner = "heat"
           /\ d.store.massage # c.store.massage =>
                 Claimed(c, b) = "level" /\ c.adjust.owner = "massage"
  <1> DEFINE d == OnPress(c, b)
  <1>1. ASSUME NEW e, Sound(e)
        PROVE  LET f == consume_motion(e, b) IN
               /\ Sound(f) /\ f.button = e.button /\ f.power = e.power /\ f.flatten = e.flatten
               /\ f.motion = e.motion /\ f.preset = e.preset /\ f.store = e.store
               /\ f.heat = e.heat /\ f.consumed = b
    <2> DEFINE f == consume_motion(e, b)
    <2>1. /\ Whole(f) /\ f.button = e.button /\ f.power = e.power /\ f.flatten = e.flatten
          /\ f.motion = e.motion /\ f.preset = e.preset /\ f.store = e.store
          /\ f.heat = e.heat /\ f.pneu = e.pneu /\ f.consumed = b
      BY <1>1 DEF consume_motion, Sound, Whole, Shape
    <2> HIDE DEF f
    <2>2. Sound(f)
      BY <1>1, <2>1 DEF Sound, Covered, Asleep, Single
    <2> QED
      BY <2>1, <2>2 DEF f
  <1>2. CASE c.preset.stage # "idle" \/ (c.preset.armed /\ b \in Drives)
    <2>1. d = consume_motion(c, b)
      BY <1>2 DEF OnPress
    <2>2. Claimed(c, b) \in {"stop", "slot"}
      BY <1>2 DEF Claimed
    <2> HIDE DEF d
    <2> QED
      BY <1>1, <2>1, <2>2 DEF Clocked, d
  <1>3. CASE c.preset.stage = "idle" /\ ~c.preset.armed /\ b \in Drives /\ c.adjust.armed
    <2> DEFINE e == deliver_level(c, Level(b))
    <2>1. d = consume_motion(e, b)
      BY <1>3 DEF OnPress
    <2>2. Claimed(c, b) = "level"
      BY <1>3 DEF Claimed
    <2>3. /\ Apart(c, e) /\ Quiets(c, e) /\ Sound(e)
          /\ e.store.heat # c.store.heat => c.adjust.owner = "heat"
          /\ e.store.massage # c.store.massage => c.adjust.owner = "massage"
      BY Delivered
    <2> HIDE DEF d, e
    <2>4. /\ Sound(d) /\ d.button = e.button /\ d.power = e.power /\ d.flatten = e.flatten
          /\ d.motion = e.motion /\ d.preset = e.preset /\ d.store = e.store
          /\ d.heat = e.heat /\ d.consumed = b
      BY <1>1, <2>1, <2>3
    <2>5. Clocked(c, d) /\ d.store.presets = c.store.presets
      BY <2>3, <2>4 DEF Apart, Quiets, Clocked
    <2>6. /\ d.button = c.button /\ d.power = c.power /\ d.flatten = c.flatten
          /\ d.motion = c.motion /\ d.preset = c.preset
      BY <2>3, <2>4 DEF Apart
    <2>7. /\ Sound(d) /\ d.consumed = b
          /\ d.store.heat # c.store.heat => c.adjust.owner = "heat"
          /\ d.store.massage # c.store.massage => c.adjust.owner = "massage"
      BY <2>3, <2>4
    <2> QED
      BY <2>2, <2>5, <2>6, <2>7 DEF d
  <1>4. CASE ~(c.preset.stage # "idle" \/ (c.preset.armed /\ b \in Drives))
             /\ ~(c.preset.stage = "idle" /\ ~c.preset.armed /\ b \in Drives /\ c.adjust.armed)
    <2> DEFINE t == TouchBar(c, b)
    <2>1. d = t \/ d = comfort_button(t, b)
      BY <1>4 DEF OnPress
    <2>2. Claimed(c, b) = "none"
      BY <1>4 DEF Claimed
    <2>3. Sound(t) /\ Hushes(c, t) /\ t.heat = c.heat
      BY BarTouched
    <2> HIDE DEF t
    <2>4. Sound(comfort_button(t, b)) /\ Serves(t, comfort_button(t, b))
      BY <2>3, ComfortPress
    <2> HIDE DEF d
    <2>5. Sound(d) /\ (Hushes(t, d) \/ Serves(t, d))
      BY <2>1, <2>3, <2>4, ServeThen DEF Sound
    <2>6. Serves(t, d)
      BY <2>5, ServeThen
    <2>7. Apart(t, d) /\ Remembers(t, d) /\ Clocked(t, d)
      BY <2>6 DEF Serves
    <2>8. Apart(c, d) /\ Remembers(c, d) /\ Clocked(c, d)
      BY <2>3, <2>7 DEF Hushes, Apart, Remembers, Quiets, Clocked
    <2>9. /\ d.button = c.button /\ d.power = c.power /\ d.flatten = c.flatten
          /\ d.motion = c.motion /\ d.preset = c.preset
          /\ d.store.presets = c.store.presets
          /\ d.store.heat = c.store.heat /\ d.store.massage = c.store.massage
      BY <2>8 DEF Apart, Remembers
    <2> QED
      BY <2>2, <2>5, <2>8, <2>9 DEF d
  <1> QED
    BY <1>2, <1>3, <1>4

\* Hold opens a window or clears a slot.
LEMMA HoldSound ==
    ASSUME NEW c, Sound(c), c.preset.stage = "idle", NEW b
    PROVE  LET d == OnHold(c, b) IN
           /\ Sound(d) /\ d.button = c.button /\ d.power = c.power /\ d.flatten = c.flatten
           /\ d.motion = c.motion /\ d.consumed = c.consumed
           /\ d.preset.stage = "idle" /\ Remembers(c, d) /\ Clocked(c, d)
           /\ d.preset.armed => c.preset.armed \/ b = "power"
           /\ d.store.presets # c.store.presets => b \in Drives /\ c.preset.armed
  <1> DEFINE d == OnHold(c, b)
  <1>0. Whole(c)
    BY DEF Sound
  <1>1. ASSUME NEW e, Hushes(c, e)
        PROVE  /\ Sound(e) /\ e.button = c.button /\ e.power = c.power /\ e.flatten = c.flatten
               /\ e.motion = c.motion /\ e.consumed = c.consumed /\ e.preset = c.preset
               /\ Remembers(c, e) /\ Clocked(c, e) /\ e.store.presets = c.store.presets
    BY <1>1, CallsSound DEF Hushes, Apart, Quiets, Clocked
  <1>2. CASE b \in Drives /\ c.preset.armed
    <2> DEFINE x == [c.store.presets EXCEPT ![Level(b)] = Unused]
               e == [c EXCEPT !.store.presets = x, !.preset.armed_age = 0]
    <2>1. d = e
      <3>1. d = preset_clear(c, Level(b))
        BY <1>2, Routes DEF OnHold
      <3>2. preset_clear(c, Level(b)) = e
        BY <1>0, <1>2 DEF preset_clear, Whole, Shape
      <3> QED
        BY <3>1, <3>2
    <2> HIDE DEF x, d
    <2>2. /\ Whole(e) /\ e.button = c.button /\ e.power = c.power /\ e.flatten = c.flatten
          /\ e.motion = c.motion /\ e.consumed = c.consumed /\ e.heat = c.heat /\ e.pneu = c.pneu
          /\ e.preset.stage = c.preset.stage /\ e.preset.drive = c.preset.drive
          /\ e.preset.armed = c.preset.armed /\ Remembers(c, e)
      BY <1>0 DEF Whole, Shape, StoreFields, PresetFields, Remembers
    <2> HIDE DEF e
    <2>3. Sound(e)
      BY <2>2 DEF Sound, Covered, Asleep, Single
    <2> QED
      BY <1>2, <2>1, <2>2, <2>3 DEF Clocked, d
  <1>3. CASE b = "power" /\ d = preset_arm(c)
    <2> DEFINE e == preset_arm(c)
    <2>1. /\ Whole(e) /\ e.button = c.button /\ e.power = c.power /\ e.flatten = c.flatten
          /\ e.motion = c.motion /\ e.consumed = c.consumed /\ e.heat = c.heat /\ e.pneu = c.pneu
          /\ e.preset.stage = c.preset.stage /\ e.preset.drive = c.preset.drive
          /\ e.store = c.store
      BY <1>0 DEF preset_arm, Whole, Shape, PresetFields
    <2> HIDE DEF e
    <2>2. Sound(e)
      BY <2>1 DEF Sound, Covered, Asleep, Single
    <2>3. d = e
      BY <1>3 DEF e
    <2> HIDE DEF d
    <2> QED
      BY <1>3, <2>1, <2>2, <2>3 DEF Clocked, Remembers, d
  <1>4. CASE Hushes(c, d)
    BY <1>1, <1>4
  <1>5. Hushes(c, c) /\ Hushes(c, heat_arm(c)) /\ Hushes(c, pneumatics_massage_arm(c))
    BY <1>0, ServeThen, HeatServes, MassageServes
  <1>6. (b \in Drives /\ c.preset.armed) \/ (b = "power" /\ d = preset_arm(c)) \/ Hushes(c, d)
    BY <1>5 DEF OnHold
  <1> QED
    BY <1>2, <1>3, <1>4, <1>6

\* A release answers the press: here the macros begin.
LEMMA TapSound ==
    ASSUME NEW c, Sound(c), c.preset.stage = "idle", ~c.flatten, NEW b, NEW double \in BOOLEAN
    PROVE  LET d == OnTap(c, b, double) IN
           /\ Sound(d) /\ d.button = c.button /\ d.consumed = c.consumed
           /\ Remembers(c, d) /\ Clocked(c, d) /\ OnItsWay(c, d)
           /\ d.preset.stage # "idle" => double
           /\ d.preset.armed => c.preset.armed
           /\ d.store.presets # c.store.presets => b \in Drives /\ c.preset.armed
  <1> DEFINE d == OnTap(c, b, double)
             Fine(e) == /\ Sound(e) /\ e.button = c.button /\ e.consumed = c.consumed
                        /\ Remembers(c, e) /\ Clocked(c, e) /\ OnItsWay(c, e)
                        /\ e.preset.stage # "idle" => double
                        /\ e.preset.armed => c.preset.armed
                        /\ e.store.presets # c.store.presets => b \in Drives /\ c.preset.armed
  <1>0. Whole(c)
    BY DEF Sound
  <1>1. Fine(c)
    BY DEF Remembers, Clocked, OnItsWay
  <1>2. ASSUME NEW e, Sound(e), Serves(c, e) PROVE Fine(e)
    BY <1>2 DEF Serves, Apart, OnItsWay
  <1>3. Fine(Release(c))
    <2>1. Hushes(c, pneumatics_lumbar_release(c))
      BY <1>0, LumbarServes
    <2>2. Fine(pneumatics_lumbar_release(c))
      BY <1>2, <2>1, CallsSound, ServeThen
    <2> HIDE DEF Fine
    <2> QED
      BY <1>1, <2>2 DEF Release
  <1>4. Fine(comfort_button(c, b))
    BY <1>2, ComfortPress
  <1>5. c.preset.armed /\ b \in Drives => Fine(preset_save(c, Level(b)))
    <2> SUFFICES ASSUME c.preset.armed, b \in Drives PROVE Fine(preset_save(c, Level(b)))
      OBVIOUS
    <2> DEFINE snap == Snapshot(c)
               x == [c.store.presets EXCEPT ![Level(b)] = snap]
               e == [c EXCEPT !.store.presets = x, !.preset.armed = FALSE]
    <2>1. preset_save(c, Level(b)) = e
      BY <1>0 DEF preset_save, Whole, Shape
    <2> HIDE DEF x
    <2>2. /\ Whole(e) /\ e.button = c.button /\ e.power = c.power /\ e.flatten = c.flatten
          /\ e.motion = c.motion /\ e.consumed = c.consumed /\ e.heat = c.heat /\ e.pneu = c.pneu
          /\ e.preset.stage = c.preset.stage /\ e.preset.drive = c.preset.drive
          /\ ~e.preset.armed /\ Remembers(c, e)
      BY <1>0 DEF Whole, Shape, StoreFields, PresetFields, Remembers
    <2> HIDE DEF e
    <2>3. Sound(e)
      BY <2>2 DEF Sound, Covered, Asleep, Single
    <2>4. Fine(e)
      BY <2>2, <2>3 DEF Clocked, OnItsWay
    <2> HIDE DEF Fine
    <2> QED
      BY <2>1, <2>4
  <1>6. double => Fine(preset_recall(c, Level(b)))
    <2> DEFINE e == preset_recall(c, Level(b))
    <2>1. Sound(e) /\ Recalls(c, e) /\ OnItsWay(c, e)
      BY RecallSound
    <2> HIDE DEF e
    <2>2. double => Fine(e)
      BY <2>1 DEF Recalls
    <2> HIDE DEF Fine
    <2> QED
      BY <2>2 DEF e
  <1>7. Fine(preset_cancel(c))
    <2> DEFINE e == preset_cancel(c)
    <2>1. /\ Whole(e) /\ e.button = c.button /\ e.power = c.power /\ e.flatten = c.flatten
          /\ e.motion = c.motion /\ e.consumed = c.consumed /\ e.heat = c.heat /\ e.pneu = c.pneu
          /\ e.preset.stage = c.preset.stage /\ e.preset.drive = c.preset.drive
          /\ ~e.preset.armed /\ e.store = c.store
      BY <1>0 DEF preset_cancel, Whole, Shape, PresetFields
    <2> HIDE DEF e
    <2>2. Sound(e)
      BY <2>1 DEF Sound, Covered, Asleep, Single
    <2>3. Fine(e)
      BY <2>1, <2>2 DEF Clocked, OnItsWay, Remembers
    <2> HIDE DEF Fine
    <2> QED
      BY <2>3 DEF e
  <1>8. Fine(flatten_tap_start(c))
    <2> DEFINE f == [c EXCEPT !.flatten = TRUE]
               e == Request(f, "flatten")
    <2>1. /\ Whole(f) /\ f.button = c.button /\ f.power = c.power
          /\ f.motion = c.motion /\ f.consumed = c.consumed /\ f.heat = c.heat /\ f.pneu = c.pneu
          /\ f.preset = c.preset /\ f.store = c.store
      BY <1>0 DEF Whole, Shape
    <2> HIDE DEF f
    <2>2. Sound(f)
      BY <2>1 DEF Sound, Covered, Asleep, Single
    <2>3. /\ Sound(e) /\ e.button = f.button /\ e.consumed = f.consumed /\ e.heat = f.heat
          /\ e.preset = f.preset /\ e.store = f.store
      BY <2>1, <2>2, RequestSound, RequestChair
    <2> HIDE DEF e
    <2>4. Fine(e)
      BY <2>1, <2>3 DEF Clocked, OnItsWay, Remembers
    <2> HIDE DEF Fine
    <2> QED
      BY <2>4 DEF flatten_tap_start, e, f
  <1>9. Fine(power_short_press(c))
    <2> DEFINE e == power_short_press(c)
    <2>1. Sound(e) /\ Recalls(c, e) /\ e.preset = c.preset
      BY PowerSound
    <2> HIDE DEF e
    <2>2. Fine(e)
      BY <2>1 DEF Recalls, OnItsWay
    <2> HIDE DEF Fine
    <2> QED
      BY <2>2 DEF e
  <1> HIDE DEF Fine
  <1>10. Fine(OnPowerTap(c, double))
    BY <1>7, <1>8, <1>9 DEF OnPowerTap
  <1>11. b \in Drives => Fine(OnMotionTap(c, b, double))
    BY <1>1, <1>5, <1>6 DEF OnMotionTap
  <1>12. Fine(d)
    BY <1>1, <1>3, <1>4, <1>10, <1>11 DEF OnTap
  <1> QED
    BY <1>12 DEF Fine

LEMMA AirUpdateHeat ==
    ASSUME NEW c, Whole(c)
    PROVE  pneumatics_update(c).heat = c.heat
  <1>1. ASSUME NEW d, "pneu" \in DOMAIN d, "heat" \in DOMAIN d, NEW q
        PROVE  /\ [d EXCEPT !.pneu = q].heat = d.heat
               /\ DOMAIN [d EXCEPT !.pneu = q] = DOMAIN d
    BY <1>1
  <1> DEFINE Ok(d) == DOMAIN d = DOMAIN c /\ d.heat = c.heat
  <1>2. \A d, q : Ok(d) => Ok([d EXCEPT !.pneu = q])
    BY DEF Whole, Shape
  <1>3. \A d : Ok(d) => Ok(massage_off(d))
    BY DEF massage_off, Whole, Shape
  <1>4. \A d, e : Ok(d) => Ok(lumbar_keep(d, e)) /\ Ok(lumbar_stop_at(d, e, FALSE))
    BY DEF lumbar_keep, lumbar_stop_at, Whole, Shape
  <1> HIDE DEF Ok
  <1>5. \A d : Ok(d) => Ok(EndMassage(d))
    BY <1>2, <1>3 DEF EndMassage
  <1>6. \A d : Ok(d) => Ok(InflateTick(d))
    BY <1>4 DEF InflateTick
  <1>7. \A d : Ok(d) => Ok(lumbar_tick(d))
    BY <1>2, <1>6 DEF lumbar_tick
  <1>8. \A d : Ok(d) => Ok(WhilePaused(d)) /\ Ok(Running(d))
    BY <1>2, <1>5, <1>7 DEF WhilePaused, Running
  <1>9. Ok(c) /\ Ok([c EXCEPT !.pneu.paused = TRUE, !.pneu.pause_age = 0])
    BY DEF Ok, Whole, Shape
  <1>10. Ok(pneumatics_update(c))
    BY <1>2, <1>8, <1>9 DEF pneumatics_update
  <1> QED
    BY <1>10 DEF Ok

-----------------------------------------------------------------------------

LEMMA Events ==
    ASSUME NEW b, NEW key
    PROVE  LET ev == Press!Reported(b, key) IN
           /\ key # b.prev /\ key # "none" => ev.kind = "press" /\ ev.button = key
           /\ key = b.prev => ev.button = key /\ (ev.kind = "none" \/ (ev.kind = "hold" /\ key # "none"))
           /\ key # b.prev /\ key = "none" =>
                 ev.button = b.prev /\ ev.kind \in {"hold_release", "tap", "double_tap"}
  BY DEF Press!Reported, Press!Event, Press!HoldEarned, Press!NONE

\* The button record follows the code heard.
LEMMA ButtonFollows ==
    ASSUME NEW b, DOMAIN b = ButtonFields, NEW key
    PROVE  LET e == Press!Updated(b, key) IN DOMAIN e = ButtonFields /\ e.prev = key
  <1>1. DOMAIN Press!Released(b) = ButtonFields /\ Press!Released(b).prev = "none"
    BY DEF Press!Released, Press!NONE, ButtonFields
  <1>2. DOMAIN Press!Pressed(b, key) = ButtonFields /\ Press!Pressed(b, key).prev = key
    BY DEF Press!Pressed, ButtonFields
  <1>3. LET e == [b EXCEPT !.hold_done = TRUE, !.down_age = 0] IN
        DOMAIN e = ButtonFields /\ e.prev = b.prev
    BY DEF ButtonFields
  <1> QED
    BY <1>1, <1>2, <1>3 DEF Press!Updated, Press!NONE

\* What the pass before left: a button ends a macro.
Ready(now, k) ==
    /\ Sound(now) /\ now.button.prev = k
    /\ k # "none" => ~now.flatten /\ now.preset.stage = "idle"

\* The chair once its event has been heard.
Routed(now, c, k, key, kind) ==
    /\ Sound(c) /\ c.button.prev = key /\ Clocked(now, c)
    /\ key # "none" =>
          IF key = k THEN c.consumed = now.consumed
          ELSE Claimed(now, key) # "none" => c.consumed = key
    /\ c.preset.armed => now.preset.armed \/ (key = k /\ key = "power")
    /\ c.store.presets # now.store.presets => k \in Drives /\ now.preset.armed
    /\ c.store.heat # now.store.heat =>
          key # k /\ key # "none" /\ Claimed(now, key) = "level" /\ now.adjust.owner = "heat"
    /\ c.store.massage # now.store.massage =>
          key # k /\ key # "none" /\ Claimed(now, key) = "level" /\ now.adjust.owner = "massage"
    /\ key = "none" /\ c.preset.stage # "idle" =>
          c.heat = now.heat /\ (now.preset.stage # "idle" \/ kind = "double_tap")
    /\ now.flatten /\ key = "none" => c.flatten

LEMMA EventRouted ==
    ASSUME NEW now, NEW k, Ready(now, k), NEW key
    PROVE  LET ev    == Press!Reported(now.button, key)
               heard == [now EXCEPT !.button = Press!Updated(now.button, key)]
           IN  Routed(now, route_event(heard, ev), k, key, ev.kind)
  <1> DEFINE ev    == Press!Reported(now.button, key)
             b     == Press!Updated(now.button, key)
             heard == [now EXCEPT !.button = b]
             c     == route_event(heard, ev)
             kind  == ev.kind
  <1> SUFFICES Routed(now, c, k, key, kind)
    OBVIOUS
  <1>1. /\ heard.power = now.power /\ heard.flatten = now.flatten /\ heard.preset = now.preset
        /\ heard.consumed = now.consumed /\ heard.adjust = now.adjust /\ heard.heat = now.heat
        /\ heard.pneu = now.pneu /\ heard.motion = now.motion /\ heard.store = now.store
        /\ heard.button.prev = key /\ Whole(heard)
    <2>1. DOMAIN now.button = ButtonFields
      BY DEF Ready, Sound, Whole
    <2>2. DOMAIN b = ButtonFields /\ b.prev = key
      BY <2>1, ButtonFollows
    <2> HIDE DEF b
    <2> QED
      BY <2>2 DEF Ready, Sound, Whole, Shape
  <1> HIDE DEF b, heard
  <1>2. /\ key # k /\ key # "none" => kind = "press" /\ ev.button = key
        /\ key = k => ev.button = key /\ (kind = "none" \/ (kind = "hold" /\ key # "none"))
        /\ key # k /\ key = "none" =>
              ev.button = k /\ kind \in {"hold_release", "tap", "double_tap"}
    BY Events DEF Ready
  <1> HIDE DEF ev
  <1>0. /\ kind = "press" => c = OnPress(heard, ev.button)
        /\ kind = "tap" => c = OnTap(heard, ev.button, FALSE)
        /\ kind = "double_tap" => c = OnTap(heard, ev.button, TRUE)
        /\ kind = "hold" => c = OnHold(heard, ev.button)
        /\ kind = "hold_release" => c = heard \/ c = Release(heard)
        /\ kind = "none" => c = heard
    BY DEF route_event
  <1> HIDE DEF c, kind
  <1>3. Sound(heard) /\ Claimed(heard, key) = Claimed(now, key)
    BY <1>1 DEF Ready, Sound, Covered, Asleep, Single, Claimed
  <1>4. CASE key # k /\ key # "none"
    <2>1. c = OnPress(heard, key)
      BY <1>0, <1>2, <1>4
    <2>2. /\ Sound(c) /\ c.button = heard.button
          /\ c.preset = heard.preset
          /\ c.store.presets = heard.store.presets /\ Clocked(heard, c)
          /\ Claimed(heard, key) # "none" => c.consumed = key
          /\ c.store.heat # heard.store.heat => Claimed(heard, key) = "level" /\ heard.adjust.owner = "heat"
          /\ c.store.massage # heard.store.massage =>
                Claimed(heard, key) = "level" /\ heard.adjust.owner = "massage"
      BY <1>3, <2>1, PressSound
    <2> QED
      BY <1>1, <1>3, <1>4, <2>2 DEF Routed, Clocked
  <1>5. CASE key = k
    <2>1. c = heard \/ (c = OnHold(heard, key) /\ key # "none")
      BY <1>0, <1>2, <1>5
    <2>2. CASE c = heard
      BY <1>1, <1>3, <1>5, <2>2 DEF Routed, Clocked
    <2>3. CASE c = OnHold(heard, key) /\ key # "none"
      <3>1. heard.preset.stage = "idle"
        BY <1>1, <1>5, <2>3 DEF Ready
      <3>2. /\ Sound(c) /\ c.button = heard.button
            /\ c.consumed = heard.consumed
            /\ c.preset.stage = "idle" /\ Remembers(heard, c) /\ Clocked(heard, c)
            /\ c.preset.armed => heard.preset.armed \/ key = "power"
            /\ c.store.presets # heard.store.presets => key \in Drives /\ heard.preset.armed
        BY <1>3, <2>3, <3>1, HoldSound
      <3> QED
        BY <1>1, <1>5, <2>3, <3>2 DEF Routed, Clocked, Remembers
    <2> QED
      BY <2>1, <2>2, <2>3
  <1>6. CASE key # k /\ key = "none"
    <2>1. ~heard.flatten /\ heard.preset.stage = "idle" /\ ~now.flatten
      BY <1>1, <1>6 DEF Ready
    <2>2. CASE kind = "hold_release"
      <3>1. c = heard \/ c = Release(heard)
        BY <1>0, <2>2
      <3>2. c = heard \/ Hushes(heard, c)
        BY <1>3, <3>1, LumbarServes DEF Release, Sound
      <3>3. Hushes(heard, c)
        BY <1>3, <3>2, ServeThen DEF Sound
      <3>4. Sound(c)
        BY <1>3, <3>3, CallsSound
      <3> QED
        BY <1>1, <1>6, <2>1, <3>3, <3>4 DEF Routed, Hushes, Apart, Remembers, Quiets, Clocked
    <2>3. CASE kind \in {"tap", "double_tap"}
      <3>1. \/ c = OnTap(heard, k, TRUE) /\ kind = "double_tap"
            \/ c = OnTap(heard, k, FALSE)
        BY <1>0, <1>2, <1>6, <2>3
      <3>2. \A t \in BOOLEAN : LET d == OnTap(heard, k, t) IN
               /\ Sound(d) /\ d.button = heard.button /\ d.consumed = heard.consumed
               /\ Remembers(heard, d) /\ Clocked(heard, d) /\ OnItsWay(heard, d)
               /\ d.preset.stage # "idle" => t
               /\ d.preset.armed => heard.preset.armed
               /\ d.store.presets # heard.store.presets => k \in Drives /\ heard.preset.armed
        BY <1>3, <2>1, TapSound
      <3>3. /\ Sound(c) /\ c.button = heard.button /\ c.consumed = heard.consumed
            /\ Remembers(heard, c) /\ Clocked(heard, c) /\ OnItsWay(heard, c)
            /\ c.preset.stage # "idle" => kind = "double_tap"
            /\ c.preset.armed => heard.preset.armed
            /\ c.store.presets # heard.store.presets => k \in Drives /\ heard.preset.armed
        <4>1. CASE c = OnTap(heard, k, TRUE) /\ kind = "double_tap"
          BY <3>2, <4>1
        <4>2. CASE c = OnTap(heard, k, FALSE)
          BY <3>2, <4>2
        <4> QED
          BY <3>1, <4>1, <4>2
      <3> QED
        BY <1>1, <1>6, <2>1, <3>3 DEF Routed, Clocked, Remembers, OnItsWay
    <2> QED
      BY <1>2, <1>6, <2>2, <2>3
  <1> QED
    BY <1>4, <1>5, <1>6

-----------------------------------------------------------------------------
(* A pass of a sound chair.                                                 *)

\* A pass, from the chair with its ages on and the button of the last one.
Passed(now, after, k, key, kind) ==
    /\ Sound(after) /\ after.button.prev = key
    /\ key # "none" =>
          /\ ~after.flatten /\ after.preset.stage = "idle"
          /\ after.motion.requested \in {"none", key}
          /\ (IF key = k THEN now.consumed = key ELSE Claimed(now, key) # "none") =>
                after.consumed = key /\ after.motion.requested = "none"
    /\ after.preset.armed => now.preset.armed \/ (key = k /\ key = "power")
    /\ after.store.presets # now.store.presets => k \in Drives /\ now.preset.armed
    /\ after.store.heat # now.store.heat =>
          key # k /\ key # "none" /\ Claimed(now, key) = "level" /\ now.adjust.owner = "heat"
    /\ after.store.massage # now.store.massage =>
          key # k /\ key # "none" /\ Claimed(now, key) = "level" /\ now.adjust.owner = "massage"
    /\ after.heat.on =>
          \/ now.heat.on /\ after.heat.age = now.heat.age /\ ~(now.heat.age >= HEAT_TIMEOUT)
          \/ ~now.heat.on /\ after.heat.age = 0
          \/ /\ now.heat.on /\ after.heat.age = 0 /\ now.heat.age >= HEAT_TIMEOUT
             /\ after.preset.stage = "idle"
             /\ now.preset.stage # "idle" \/ kind = "double_tap"
    /\ now.flatten /\ ~after.flatten /\ key = "none" =>
          Asleep(after) /\ ~after.power /\ after.motion.requested = "none"

LEMMA PassSound ==
    ASSUME NEW now, NEW k, Ready(now, k), NEW key \in Buttons \cup {"none"}, NEW current
    PROVE  Passed(now, control_update(now, key, current), k, key,
                  Press!Reported(now.button, key).kind)
  <1> DEFINE ev      == Press!Reported(now.button, key)
             kind    == ev.kind
             heard   == [now EXCEPT !.button = Press!Updated(now.button, key)]
             routed  == route_event(heard, ev)
             air     == pneumatics_update(routed)
             comfort == heat_update(air)
             x       == adjust_update(comfort.adjust)
             bar     == [comfort EXCEPT !.adjust = x]
             kept    == IF key = bar.consumed THEN bar.consumed ELSE "none"
             borrow  == [bar EXCEPT !.consumed = kept]
             flat    == flatten_update(borrow, key)
             macros  == preset_update(flat, key)
             want    == Wanted(macros, key)
             asked   == Request(macros, want)
             relays  == Relay!motion_update(asked.motion, current)
             after   == [asked EXCEPT !.motion = relays]
  <1>0. control_update(now, key, current) = after
    BY DEF control_update
  <1> SUFFICES Passed(now, after, k, key, kind)
    BY <1>0
  <1>1. Routed(now, routed, k, key, kind)
    BY EventRouted
  <1> HIDE DEF routed, kind
  <1>2. Hushes(routed, air) /\ air.heat = routed.heat /\ Whole(air)
    <2>1. Whole(routed)
      BY <1>1 DEF Routed, Sound
    <2> QED
      BY <2>1, AirHushes, AirUpdateHeat DEF Hushes, Apart
  <1> HIDE DEF air
  <1>3. /\ Hushes(air, comfort) /\ Whole(comfort)
        /\ comfort.heat.on => ~(air.heat.age >= HEAT_TIMEOUT)
        /\ air.heat.on /\ ~(air.heat.age >= HEAT_TIMEOUT) => comfort.heat.on
    BY <1>2, HeatHushes DEF Hushes, Apart
  <1> HIDE DEF comfort
  <1>4. Hushes(comfort, bar) /\ bar.heat = comfort.heat
    <2>1. Bar(x)
      <3>1. Bar(comfort.adjust) /\ "heat" \in Owners
        BY <1>3 DEF Whole, Owners
      <3> QED
        BY <3>1, Bars
    <2> HIDE DEF x
    <2>2. bar.heat = comfort.heat
      BY <1>3 DEF Whole, Shape
    <2> QED
      BY <1>3, <2>1, <2>2, SetFields
  <1> HIDE DEF bar
  <1>5. Hushes(routed, bar) /\ Sound(bar)
    <2>1. Hushes(routed, bar)
      BY <1>2, <1>3, <1>4, ServeThen
    <2> QED
      BY <1>1, <2>1, CallsSound DEF Routed
  <1>6. /\ bar.heat.on => routed.heat.on /\ bar.heat.age = routed.heat.age
                          /\ ~(routed.heat.age >= HEAT_TIMEOUT)
        /\ routed.heat.on /\ ~(routed.heat.age >= HEAT_TIMEOUT) => bar.heat.on
    BY <1>2, <1>3, <1>4, <1>5 DEF Hushes, Quiets
  <1>7. /\ Sound(borrow)
        /\ borrow.button = bar.button /\ borrow.flatten = bar.flatten /\ borrow.preset = bar.preset
        /\ borrow.store = bar.store /\ borrow.heat = bar.heat /\ borrow.consumed = kept
    <2> HIDE DEF kept
    <2>1. /\ Whole(borrow) /\ borrow.button = bar.button /\ borrow.flatten = bar.flatten
          /\ borrow.preset = bar.preset /\ borrow.store = bar.store /\ borrow.heat = bar.heat
          /\ borrow.consumed = kept /\ borrow.power = bar.power /\ borrow.motion = bar.motion
          /\ borrow.pneu = bar.pneu
      BY <1>5 DEF Sound, Whole, Shape
    <2> HIDE DEF borrow
    <2> QED
      BY <1>5, <2>1 DEF Sound, Covered, Asleep, Single
  <1>8. borrow.consumed = IF key = routed.consumed THEN key ELSE "none"
    BY <1>5, <1>7 DEF Hushes, Apart
  <1> HIDE DEF kept, borrow
  <1>9. /\ borrow.button = routed.button /\ borrow.flatten = routed.flatten
        /\ borrow.preset = routed.preset
        /\ borrow.store.presets = routed.store.presets /\ Remembers(routed, borrow)
    BY <1>5, <1>7 DEF Hushes, Apart, Remembers
  <1>10. /\ Sound(flat) /\ flat.button = borrow.button /\ flat.consumed = borrow.consumed
         /\ flat.store.presets = borrow.store.presets /\ Remembers(borrow, flat)
         /\ flat.motion = borrow.motion /\ flat.preset = borrow.preset
         /\ flat.flatten => borrow.flatten /\ key = "none"
         /\ ~borrow.flatten \/ key # "none" => flat.heat = borrow.heat
         /\ flat.heat = borrow.heat \/ ~flat.heat.on
         /\ borrow.flatten /\ ~flat.flatten /\ key = "none" => Asleep(flat) /\ ~flat.power
    BY <1>7, FlattenSound
  <1> HIDE DEF flat
  <1>11. /\ Sound(macros) /\ Recalls(flat, macros) /\ OnItsWay(flat, macros)
         /\ flat.preset.stage = "idle" \/ key # "none" => Idles(flat, macros)
    BY <1>10, RecallUpdate
  <1> HIDE DEF macros
  <1>12. Sound(asked) /\ asked.motion.requested \in {"none", want}
    BY <1>11, RequestSound
  <1>13. /\ asked.button = macros.button /\ asked.power = macros.power
         /\ asked.flatten = macros.flatten /\ asked.preset = macros.preset
         /\ asked.consumed = macros.consumed /\ asked.heat = macros.heat
         /\ asked.pneu = macros.pneu /\ asked.store = macros.store
    BY <1>11, RequestChair DEF Sound
  <1>14. want = IF macros.preset.drive # "none" THEN macros.preset.drive
                ELSE IF macros.flatten THEN "flatten"
                ELSE IF macros.consumed = key THEN "none" ELSE motion_for(key)
    BY DEF Wanted
  <1> HIDE DEF want, asked
  <1>15. Latchable(relays) /\ relays.requested \in {"none", asked.motion.requested}
    BY <1>12, UpdateLatch DEF Sound
  <1> HIDE DEF relays
  <1>16. /\ after.motion = relays /\ Whole(after)
         /\ after.button = macros.button /\ after.power = macros.power
         /\ after.flatten = macros.flatten /\ after.preset = macros.preset
         /\ after.consumed = macros.consumed /\ after.heat = macros.heat
         /\ after.pneu = macros.pneu /\ after.store = macros.store
    BY <1>12, <1>13, <1>15 DEF Sound, Whole, Shape, Latchable
  <1> HIDE DEF after
  <1>17. Sound(after)
    BY <1>11, <1>15, <1>16 DEF Sound, Covered, Asleep, Single
  <1>18. after.motion.requested \in {"none", want}
    BY <1>12, <1>15, <1>16
  <1>19. after.button.prev = key /\ after.consumed = borrow.consumed /\ after.flatten = flat.flatten
    BY <1>1, <1>9, <1>10, <1>11, <1>16 DEF Routed, Recalls
  <1>20. key # "none" =>
          /\ ~after.flatten /\ after.preset.stage = "idle"
          /\ after.motion.requested \in {"none", key}
          /\ (IF key = k THEN now.consumed = key ELSE Claimed(now, key) # "none") =>
                after.consumed = key /\ after.motion.requested = "none"
    <2> SUFFICES ASSUME key # "none"
                 PROVE  /\ ~after.flatten /\ after.preset.stage = "idle"
                        /\ after.motion.requested \in {"none", key}
                        /\ (IF key = k THEN now.consumed = key ELSE Claimed(now, key) # "none") =>
                              after.consumed = key /\ after.motion.requested = "none"
      OBVIOUS
    <2>1. ~after.flatten /\ after.preset.stage = "idle"
      BY <1>10, <1>11, <1>16, <1>19 DEF Idles
    <2>2. macros.preset.drive = "none" /\ ~macros.flatten
      BY <1>16, <1>17, <2>1 DEF Sound, Single
    <2>3. want = IF macros.consumed = key THEN "none" ELSE motion_for(key)
      BY <1>14, <2>2
    <2>4. want \in {"none", key}
      BY <2>3 DEF motion_for
    <2>5. ASSUME IF key = k THEN now.consumed = key ELSE Claimed(now, key) # "none"
          PROVE  after.consumed = key /\ want = "none"
      <3>1. routed.consumed = key
        BY <1>1, <2>5 DEF Routed
      <3> QED
        BY <1>8, <1>16, <1>19, <2>3, <3>1
    <2> QED
      BY <1>18, <2>1, <2>4, <2>5
  <1>21. after.preset.armed => now.preset.armed \/ (key = k /\ key = "power")
    BY <1>1, <1>9, <1>10, <1>11, <1>16 DEF Routed, Recalls
  <1>22. /\ after.store.presets = routed.store.presets /\ after.store.heat = routed.store.heat
         /\ after.store.massage = routed.store.massage
    BY <1>9, <1>10, <1>11, <1>16 DEF Recalls, Remembers
  <1>23. after.heat.on =>
          \/ now.heat.on /\ after.heat.age = now.heat.age /\ ~(now.heat.age >= HEAT_TIMEOUT)
          \/ ~now.heat.on /\ after.heat.age = 0
          \/ /\ now.heat.on /\ after.heat.age = 0 /\ now.heat.age >= HEAT_TIMEOUT
             /\ after.preset.stage = "idle"
             /\ now.preset.stage # "idle" \/ kind = "double_tap"
    <2> SUFFICES ASSUME after.heat.on
                 PROVE \/ now.heat.on /\ after.heat.age = now.heat.age /\ ~(now.heat.age >= HEAT_TIMEOUT)
                       \/ ~now.heat.on /\ after.heat.age = 0
                       \/ /\ now.heat.on /\ after.heat.age = 0 /\ now.heat.age >= HEAT_TIMEOUT
                          /\ after.preset.stage = "idle"
                          /\ now.preset.stage # "idle" \/ kind = "double_tap"
      OBVIOUS
    <2>1. routed.heat.on => routed.heat.age = IF now.heat.on THEN now.heat.age ELSE 0
      BY <1>1 DEF Routed, Clocked
    <2>2. Clocked(flat, macros) /\ after.heat = macros.heat
      BY <1>11, <1>16 DEF Recalls
    <2>3. CASE flat.heat.on
      <3>1. flat.heat = bar.heat /\ after.heat.age = flat.heat.age
        BY <1>7, <1>10, <2>2, <2>3 DEF Clocked
      <3>2. /\ routed.heat.on /\ bar.heat.age = routed.heat.age
            /\ ~(routed.heat.age >= HEAT_TIMEOUT)
        BY <1>6, <2>3, <3>1
      <3> QED
        BY <2>1, <3>1, <3>2
    <2>4. CASE ~flat.heat.on
      <3>1. after.heat.age = 0 /\ macros.heat # flat.heat
        BY <2>2, <2>4 DEF Clocked
      <3>2. ~(flat.preset.stage = "idle" \/ key # "none") /\ macros.preset.stage = "idle"
        BY <1>11, <3>1 DEF Idles, OnItsWay
      <3>3. key = "none" /\ routed.preset.stage # "idle" /\ ~borrow.flatten
        BY <1>7, <1>9, <1>10, <3>2 DEF Sound, Single
      <3>4. routed.heat = now.heat /\ (now.preset.stage # "idle" \/ kind = "double_tap")
        BY <1>1, <3>3 DEF Routed
      <3>5. ~bar.heat.on
        BY <1>7, <1>10, <2>4, <3>3
      <3> QED
        BY <1>6, <1>16, <3>1, <3>2, <3>4, <3>5
    <2> QED
      BY <2>3, <2>4
  <1>24. now.flatten /\ ~after.flatten /\ key = "none" =>
          Asleep(after) /\ ~after.power /\ after.motion.requested = "none"
    <2> SUFFICES ASSUME now.flatten, ~after.flatten, key = "none"
                 PROVE  Asleep(after) /\ ~after.power /\ after.motion.requested = "none"
      OBVIOUS
    <2>1. borrow.flatten
      BY <1>1, <1>9 DEF Routed
    <2>2. Asleep(flat) /\ ~flat.power /\ flat.preset.stage = "idle"
      BY <1>7, <1>10, <1>19, <2>1 DEF Sound, Single
    <2>3. Idles(flat, macros)
      BY <1>11, <2>2
    <2>4. Asleep(after) /\ ~after.power
      BY <1>16, <2>2, <2>3 DEF Idles, Asleep
    <2>5. macros.preset.drive = "none" /\ ~macros.flatten
      BY <1>11, <1>16, <2>3 DEF Idles, Sound, Single
    <2>6. want = "none"
      BY <1>14, <2>5, Routes DEF motion_for
    <2> QED
      BY <1>18, <2>4, <2>6
  <1> QED
    BY <1>1, <1>17, <1>19, <1>20, <1>21, <1>22, <1>23, <1>24 DEF Passed, Routed

-----------------------------------------------------------------------------

LEMMA Elapsed ==
    ASSUME NEW c, Sound(c), NEW d
    PROVE  LET e == ElapseChair(c, d) IN
           /\ Sound(e) /\ e.button.prev = c.button.prev
           /\ e.button = ElapseButton(c.button, d)
           /\ e.flatten = c.flatten /\ e.power = c.power /\ e.consumed = c.consumed
           /\ e.store = c.store /\ e.preset.stage = c.preset.stage
           /\ e.preset.armed = c.preset.armed
           /\ e.adjust.owner = c.adjust.owner
           /\ e.heat.on = c.heat.on
           /\ c.heat.on => e.heat.age = UpTo(HEAT_TIMEOUT, c.heat.age + d)
  <1> DEFINE p == ElapsePneumatics(c.pneu, d)
             m == Relay!Elapse(c.motion, d)
             h == ElapseHeat(c.heat, d)
             b == ElapseButton(c.button, d)
             a == ElapseAdjust(c.adjust, d)
             r == ElapsePreset(c.preset, d)
             e == [c EXCEPT !.button = b, !.adjust = a, !.heat = h, !.pneu = p,
                            !.preset = r, !.motion = m]
  <1>1. DOMAIN p = PneuFields /\ p.massage_on = c.pneu.massage_on /\ (Lit(p) => Lit(c.pneu))
    <2>1. LET q == Forget(c.pneu) IN
          DOMAIN q = PneuFields /\ q.massage_on = c.pneu.massage_on /\ q.lumbar_state = c.pneu.lumbar_state
      BY DEF Forget, Sound, Whole, Shape, PneuFields
    <2> QED
      BY <2>1 DEF ElapsePneumatics, Lit, PneuFields
  <1>2. /\ DOMAIN m = MotionFields /\ m.requested = c.motion.requested
        /\ m.fault_latched = c.motion.fault_latched /\ m.arrived_latched = c.motion.arrived_latched
    BY DEF Relay!Elapse, Sound, Whole, Shape, MotionFields
  <1>3. /\ DOMAIN h = {"on", "age", "level", "pin"} /\ h.on = c.heat.on
        /\ c.heat.on => h.age = UpTo(HEAT_TIMEOUT, c.heat.age + d)
    BY DEF ElapseHeat, Sound, Whole, Shape
  <1>4. DOMAIN b = ButtonFields /\ b.prev = c.button.prev
    <2>1. DOMAIN Press!Elapse(c.button, d) = ButtonFields
          /\ Press!Elapse(c.button, d).prev = c.button.prev
      BY DEF Press!Elapse, Sound, Whole, ButtonFields
    <2> QED
      BY <2>1 DEF ElapseButton, ButtonFields
  <1>5. Bar(a) /\ a.owner = c.adjust.owner
    BY DEF ElapseAdjust, AdjustOff, Sound, Whole, Bar, AdjustFields
  <1>6. /\ DOMAIN r = PresetFields /\ r.stage = c.preset.stage /\ r.armed = c.preset.armed
        /\ r.drive = c.preset.drive
    BY DEF ElapsePreset, Sound, Whole, PresetFields
  <1>7. ElapseChair(c, d) = e
    BY DEF ElapseChair
  <1>8. b = ElapseButton(c.button, d)
    OBVIOUS
  <1> HIDE DEF p, m, h, b, a, r
  <1>9. /\ Whole(e) /\ e.button = b /\ e.adjust = a /\ e.heat = h /\ e.pneu = p /\ e.preset = r
        /\ e.motion = m /\ e.flatten = c.flatten /\ e.power = c.power /\ e.consumed = c.consumed
        /\ e.store = c.store
    BY <1>1, <1>2, <1>3, <1>4, <1>5, <1>6 DEF Sound, Whole, Shape
  <1> HIDE DEF e
  <1>10. Latchable(e.motion)
    BY <1>2, <1>9 DEF Sound, Latchable, Relay!Latched
  <1>11. Sound(e)
    BY <1>1, <1>2, <1>3, <1>6, <1>9, <1>10 DEF Sound, Covered, Asleep, Single
  <1> QED
    BY <1>3, <1>4, <1>5, <1>6, <1>7, <1>8, <1>9, <1>11

-----------------------------------------------------------------------------
(* What holds between passes, and the theorems that follow from it.         *)

\* What holds between two passes: of the macros and the buttons, of the press
\* that is under way, and of the clock of heat.
ButtonDown ==
    /\ chair.button.prev = code
    /\ code # "none" =>
          /\ chair.motion.requested \in {"none", code}
          /\ ~chair.flatten /\ chair.preset.stage = "idle"

ClaimHeld ==
    /\ claim # "none" =>
          code # "none" /\ chair.consumed = code /\ chair.motion.requested = "none"
    /\ chair.preset.armed /\ code \in Drives => claim = "slot"

HeatClock ==
    IF chair.heat.on THEN heated \in Nat /\ heated = chair.heat.age /\ heated <= HEAT_TIMEOUT
    ELSE heated = 0

ChairInv == Sound(chair) /\ ButtonDown /\ ClaimHeld /\ HeatClock

\* What a pass changes, remembers and leaves on.
ByHand ==
    /\ chair'.store.heat # chair.store.heat
         => code' # code /\ claim' = "level" /\ chair.adjust.owner = "heat"
    /\ chair'.store.massage # chair.store.massage
         => code' # code /\ claim' = "level" /\ chair.adjust.owner = "massage"
    /\ chair'.store.presets # chair.store.presets
         => claim = "slot" /\ chair.preset.armed

AllOff ==
    chair.flatten /\ ~chair'.flatten /\ code' = "none"
      => /\ ~chair'.power /\ ~chair'.heat.on /\ ~chair'.pneu.massage_on
         /\ ~Lit(chair'.pneu) /\ chair'.motion.requested = "none"

LEMMA Begins == Init => ChairInv
  <1> SUFFICES ASSUME Init PROVE ChairInv
    OBVIOUS
  <1>1. PICK store \in Stores :
          chair = [button |-> Press!PowerOn, power |-> FALSE, flatten |-> FALSE,
                   preset |-> PresetOff, consumed |-> "none",
                   adjust |-> AdjustOff, heat |-> HeatOff, pneu |-> PneumaticsOff,
                   motion |-> Relay!PowerOn, store |-> store]
    BY DEF Init
  <1>2. DOMAIN store = StoreFields
    BY StoresLoaded DEF StoreFields
  <1>3. Whole(chair)
    <2>1. Bar(AdjustOff) /\ DOMAIN PresetOff = PresetFields
          /\ DOMAIN Press!PowerOn = ButtonFields
      BY DEF Bar, AdjustOff, AdjustFields, PresetOff, PresetFields, Press!PowerOn, ButtonFields
    <2>2. DOMAIN HeatOff = {"on", "age", "level", "pin"} /\ DOMAIN PneumaticsOff = PneuFields
          /\ DOMAIN Relay!PowerOn = MotionFields
      BY DEF HeatOff, PneumaticsOff, PneuFields, Relay!PowerOn, MotionFields
    <2> QED
      BY <1>1, <1>2, <2>1, <2>2 DEF Whole, Shape
  <1>4. Sound(chair)
    BY <1>1, <1>3 DEF Sound, Latchable, Relay!Latched, Relay!PowerOn, Relay!NONE, MotionFields,
       Covered, Asleep, Single, HeatOff, PneumaticsOff, PresetOff, Lit
  <1>5. ButtonDown /\ ClaimHeld /\ HeatClock
    BY <1>1 DEF Init, ButtonDown, ClaimHeld, HeatClock, Press!PowerOn, Press!NONE, PresetOff, HeatOff
  <1> QED
    BY <1>4, <1>5 DEF ChairInv

LEMMA Steps ==
    ASSUME ChairInv, NEW d \in Durations, NEW b \in Buttons \cup {"none"},
           NEW current \in Sampled, Pass(d, b, current)
    PROVE  ChairInv' /\ ByHand /\ AllOff
  <1> DEFINE now   == ElapseChair(chair, d)
             after == control_update(now, b, current)
             kind  == Press!Reported(now.button, b).kind
  <1>1. /\ chair' = after /\ code' = b
        /\ claim' = IF Pressed(b) THEN Claimed(now, b) ELSE IF b = code THEN claim ELSE "none"
        /\ heated' = IF chair.heat.on /\ after.heat.on /\ ~Relit(d, b, after)
                     THEN heated + d ELSE 0
    BY DEF Pass
  <1>2. /\ Sound(now) /\ now.button.prev = code
        /\ now.button = ElapseButton(chair.button, d)
        /\ now.flatten = chair.flatten /\ now.consumed = chair.consumed
        /\ now.store = chair.store /\ now.preset.stage = chair.preset.stage
        /\ now.preset.armed = chair.preset.armed
        /\ now.adjust.owner = chair.adjust.owner
        /\ now.heat.on = chair.heat.on
        /\ chair.heat.on => now.heat.age = UpTo(HEAT_TIMEOUT, chair.heat.age + d)
    BY Elapsed DEF ChairInv, ButtonDown
  <1>3. kind = Press!Reported(ElapseButton(chair.button, d), b).kind
    BY <1>2
  <1> HIDE DEF now, kind
  <1>4. Ready(now, code)
    BY <1>2 DEF Ready, ChairInv, ButtonDown
  <1>5. Passed(now, after, code, b, kind)
    BY <1>4, PassSound DEF kind
  <1> HIDE DEF after
  <1>6. Sound(chair)'
    BY <1>1, <1>5 DEF Passed
  <1>7. ButtonDown'
    BY <1>1, <1>5 DEF Passed, ButtonDown
  <1>8. ClaimHeld'
    <2>1. b # "none" =>
            ((IF b = code THEN now.consumed = b ELSE Claimed(now, b) # "none") =>
                 after.consumed = b /\ after.motion.requested = "none")
      BY <1>5 DEF Passed
    <2>2. ASSUME claim' # "none"
          PROVE  code' # "none" /\ chair'.consumed = code' /\ chair'.motion.requested = "none"
      <3>1. CASE Pressed(b)
        BY <1>1, <2>1, <2>2, <3>1 DEF Pressed
      <3>2. CASE ~Pressed(b)
        <4>1. b = code /\ claim # "none"
          BY <1>1, <2>2, <3>2
        <4>2. code # "none" /\ now.consumed = b
          BY <1>2, <4>1 DEF ChairInv, ClaimHeld
        <4> QED
          BY <1>1, <2>1, <4>1, <4>2
      <3> QED
        BY <3>1, <3>2
    <2>3. ASSUME chair'.preset.armed, code' \in Drives PROVE claim' = "slot"
      <3>1. b \in Drives /\ b # "none" /\ b # "power"
        BY <1>1, <2>3, Routes
      <3>2. now.preset.armed /\ chair.preset.armed /\ now.preset.stage = "idle"
        BY <1>1, <1>2, <1>5, <2>3, <3>1 DEF Passed, Sound, Single
      <3>3. CASE b = code
        BY <1>1, <3>1, <3>2, <3>3 DEF ChairInv, ClaimHeld, Pressed
      <3>4. CASE b # code
        BY <1>1, <3>1, <3>2, <3>4 DEF Pressed, Claimed
      <3> QED
        BY <3>3, <3>4
    <2> QED
      BY <2>2, <2>3 DEF ClaimHeld
  <1>9. HeatClock'
    <2>1. d \in Nat /\ HEAT_TIMEOUT \in Nat
      BY AdjustConstants, HeatConstants
    <2>2. CASE ~after.heat.on
      BY <1>1, <2>2 DEF HeatClock
    <2>3. CASE after.heat.on /\ ~chair.heat.on
      BY <1>1, <1>2, <1>5, <2>1, <2>3 DEF HeatClock, Passed
    <2>4. CASE after.heat.on /\ chair.heat.on
      <3>1. /\ heated \in Nat /\ heated = chair.heat.age /\ heated <= HEAT_TIMEOUT
            /\ now.heat.on /\ now.heat.age = UpTo(HEAT_TIMEOUT, heated + d)
        BY <1>2, <2>4 DEF ChairInv, HeatClock
      <3>2. CASE after.heat.age = now.heat.age /\ ~(now.heat.age >= HEAT_TIMEOUT)
        <4>1. heated + d < HEAT_TIMEOUT /\ now.heat.age = heated + d
          BY <2>1, <3>1, <3>2 DEF UpTo
        <4>2. ~Relit(d, b, after)
          BY <2>1, <3>1, <4>1 DEF Relit
        <4> QED
          BY <1>1, <2>1, <2>4, <3>1, <3>2, <4>1, <4>2 DEF HeatClock
      <3>3. CASE /\ after.heat.age = 0 /\ now.heat.age >= HEAT_TIMEOUT
                 /\ after.preset.stage = "idle"
                 /\ now.preset.stage # "idle" \/ kind = "double_tap"
        <4>1. heated + d >= HEAT_TIMEOUT
          BY <2>1, <3>1, <3>3 DEF UpTo
        <4>2. Relit(d, b, after)
          BY <1>2, <1>3, <3>3, <4>1 DEF Relit
        <4> QED
          BY <1>1, <2>1, <2>4, <3>3, <4>2 DEF HeatClock
      <3> QED
        BY <1>5, <2>4, <3>1, <3>2, <3>3 DEF Passed
    <2> QED
      BY <2>2, <2>3, <2>4
  <1>10. ByHand
    <2>1. after.store.heat # now.store.heat =>
            b # code /\ b # "none" /\ Claimed(now, b) = "level" /\ now.adjust.owner = "heat"
      BY <1>5 DEF Passed
    <2>2. after.store.massage # now.store.massage =>
            b # code /\ b # "none" /\ Claimed(now, b) = "level" /\ now.adjust.owner = "massage"
      BY <1>5 DEF Passed
    <2>3. after.store.presets # now.store.presets => code \in Drives /\ now.preset.armed
      BY <1>5 DEF Passed
    <2>4. chair.preset.armed /\ code \in Drives => claim = "slot"
      BY DEF ChairInv, ClaimHeld
    <2> QED
      BY <1>1, <1>2, <2>1, <2>2, <2>3, <2>4 DEF ByHand, Pressed
  <1>11. AllOff
    <2>1. now.flatten /\ ~after.flatten /\ b = "none" =>
            Asleep(after) /\ ~after.power /\ after.motion.requested = "none"
      BY <1>5 DEF Passed
    <2> QED
      BY <1>1, <1>2, <2>1 DEF AllOff, Asleep
  <1> QED
    BY <1>6, <1>7, <1>8, <1>9, <1>10, <1>11 DEF ChairInv

\* ChairInv is kept by every pass of control_update, whatever is heard and read.
THEOREM ChairInvariant == Spec => []ChairInv
  <1>1. ChairInv /\ [Next]_vars => ChairInv'
    <2>1. ASSUME ChairInv, Next PROVE ChairInv'
      BY <2>1, Steps DEF Next
    <2>2. ASSUME ChairInv, UNCHANGED vars PROVE ChairInv'
      BY <2>2 DEF vars, ChairInv, ButtonDown, ClaimHeld, HeatClock
    <2> QED
      BY <2>1, <2>2
  <1> QED
    BY <1>1, Begins, PTL DEF Spec

\* Nothing that heats or inflates is on behind a closed gate (power.c): whatever
\* switched it on asked for the gate first, and what closes the gate reaches all
\* of it, for every store and every sequence of presses, recalls and flattens.
THEOREM GateHolds == Spec => []GateCovers
  <1>1. ChairInv => GateCovers
    BY DEF ChairInv, Sound, Covered, Asleep, GateCovers
  <1> QED
    BY <1>1, ChairInvariant, PTL

\* Any button that is down has ended every unattended move (flatten_update,
\* preset_update), and nothing moves but what that button itself asks for.
THEOREM PressEndsMoves == Spec => []PressEndsMacro
  <1>1. ChairInv => PressEndsMacro
    BY DEF ChairInv, ButtonDown, PressEndsMacro
  <1> QED
    BY <1>1, ChairInvariant, PTL

\* A press that stopped a recall, named a slot or picked a level never drives
\* the motor of its button (consume_motion and the latch in control_update), for
\* as long as it stays down, whatever closes in the meantime.
THEOREM ClaimIsHeld == Spec => []ClaimedNeverDrives
  <1>1. ChairInv => ClaimedNeverDrives
    BY DEF ChairInv, ClaimHeld, ClaimedNeverDrives
  <1> QED
    BY <1>1, ChairInvariant, PTL

\* Heat is never on for longer than its time (heat_update): no press, pick or
\* recall touches the stamp it is measured from.
THEOREM HeatRunsOut == Spec => []HeaterBound
  <1>1. ChairInv => HeaterBound
    BY HeatConstants DEF ChairInv, HeatClock, HeaterBound
  <1> QED
    BY <1>1, ChairInvariant, PTL

\* What is remembered changes under a finger's own press only: a level in the
\* window of its owner (deliver_level), a slot in the store window, with the
\* button that named it claimed (preset_save, preset_clear).
THEOREM MemoryIsByHand == Spec => MemoryByHand
  <1>1. ChairInv /\ [Next]_vars => [ByHand]_vars
    <2>1. ASSUME ChairInv, Next PROVE ByHand
      BY <2>1, Steps DEF Next
    <2> QED
      BY <2>1
  <1>2. ByHand <=> /\ chair'.store.heat # chair.store.heat
                        => code' # code /\ claim' = "level" /\ chair.adjust.owner = "heat"
                   /\ chair'.store.massage # chair.store.massage
                        => code' # code /\ claim' = "level" /\ chair.adjust.owner = "massage"
                   /\ chair'.store.presets # chair.store.presets
                        => claim = "slot" /\ chair.preset.armed
    BY DEF ByHand
  <1> QED
    BY <1>1, <1>2, ChairInvariant, PTL DEF Spec, MemoryByHand

\* A flatten that ends by itself (finish) leaves the gate closed, nothing on and
\* no motion, whatever was on before.
THEOREM FlattenEndsOff == Spec => FlattenLeavesAllOff
  <1>1. ChairInv /\ [Next]_vars => [AllOff]_vars
    <2>1. ASSUME ChairInv, Next PROVE AllOff
      BY <2>1, Steps DEF Next
    <2> QED
      BY <2>1
  <1> QED
    BY <1>1, ChairInvariant, PTL DEF Spec, FlattenLeavesAllOff, AllOff

-----------------------------------------------------------------------------
(* The recall stops at its slot.  How far the estimate can move in a pass.  *)

\* Between a pass's clock and its motors, the travel not yet counted is the pass's.
Paced(m) ==
    /\ DOMAIN m = MotionFields
    /\ m.pos_recline \in 0 .. TRAVEL_RECLINE /\ m.pos_headrest \in 0 .. TRAVEL_HEADREST
    /\ m.track_age \in Nat
    /\ m.requested # "none" /\ m.seq # "settling" => m.track_age <= Longest

\* After it, none is left to count.
Counted(m) ==
    /\ DOMAIN m = MotionFields
    /\ m.pos_recline \in 0 .. TRAVEL_RECLINE /\ m.pos_headrest \in 0 .. TRAVEL_HEADREST
    /\ m.track_age \in Nat
    /\ m.requested # "none" /\ m.seq # "settling" => m.track_age = 0

SamePos(m, n) == n.pos_recline = m.pos_recline /\ n.pos_headrest = m.pos_headrest

LEMMA PaceElapse ==
    ASSUME NEW m, Counted(m), NEW d \in Durations
    PROVE  LET n == Relay!Elapse(m, d) IN
           Paced(n) /\ SamePos(m, n) /\ n.requested = m.requested
  <1> DEFINE n == Relay!Elapse(m, d)
  <1>0. d \in Nat /\ d <= Longest /\ Longest \in Nat
    BY PassesShort, AdjustConstants
  <1>1. /\ DOMAIN n = MotionFields /\ SamePos(m, n) /\ n.requested = m.requested
        /\ n.seq = m.seq
        /\ n.track_age = IF m.requested # "none" THEN m.track_age + d ELSE 0
    BY DEF Relay!Elapse, Relay!NONE, Counted, MotionFields, SamePos
  <1> HIDE DEF n
  <1> QED
    BY <1>0, <1>1 DEF Counted, Paced, SamePos, n

LEMMA PaceRequest ==
    ASSUME NEW m, Paced(m), NEW want
    PROVE  LET n == Relay!motion_request(m, want) IN
           Paced(n) /\ SamePos(m, n)
  <1> DEFINE Fine(n) == Paced(n) /\ SamePos(m, n)
  <1>1. ASSUME NEW k, DOMAIN k = MotionFields, SamePos(m, k), k.track_age = m.track_age
        PROVE  LET s == Relay!motion_stop(k) IN
               DOMAIN s = MotionFields /\ SamePos(m, s) /\ s.track_age = m.track_age
               /\ s.requested = "none"
    BY <1>1 DEF Relay!motion_stop, Relay!NONE, MotionFields, SamePos
  <1>2. ASSUME NEW k, DOMAIN k = MotionFields, SamePos(m, k), k.track_age = m.track_age,
               k.requested = "none"
        PROVE  Fine(k)
    BY <1>2 DEF Paced, SamePos
  <1>3. LET u == Relay!Unlatch(m) IN
        /\ DOMAIN u = MotionFields /\ SamePos(m, u) /\ u.track_age = m.track_age
        /\ u.requested = m.requested
    BY DEF Relay!Unlatch, Paced, MotionFields, SamePos
  <1>4. Fine(Relay!Begin(m, want))
    <2> DEFINE stop == Relay!motion_stop(m)
               turn == Relay!select_direction(stop, want)
    <2>1. DOMAIN stop = MotionFields /\ SamePos(m, stop)
      BY <1>1 DEF Paced, SamePos
    <2> HIDE DEF stop
    <2>2. DOMAIN turn = MotionFields /\ SamePos(m, turn)
      BY <2>1 DEF Relay!select_direction, MotionFields, SamePos
    <2> HIDE DEF turn
    <2>3. Relay!Begin(m, want) =
             [turn EXCEPT !.requested = want, !.requested_age = 0, !.seq = "settling",
                          !.zero = FALSE, !.running_age = 0, !.track_age = 0]
      BY DEF Relay!Begin, turn, stop
    <2> DEFINE k == Relay!Begin(m, want)
    <2>4. DOMAIN k = MotionFields /\ SamePos(m, k) /\ k.seq = "settling" /\ k.track_age = 0
      BY <2>2, <2>3 DEF MotionFields, SamePos
    <2> HIDE DEF k
    <2>5. Fine(k)
      BY <2>4 DEF Paced, SamePos
    <2> QED
      BY <2>5 DEF k
  <1>5. Fine(m)
    BY DEF SamePos
  <1>6. m.requested = "none" => Fine(Relay!Unlatch(m))
    BY <1>2, <1>3
  <1>7. Fine(Relay!motion_stop(Relay!Unlatch(m)))
    BY <1>1, <1>2, <1>3
  <1> HIDE DEF Fine
  <1>8. Fine(Relay!motion_request(m, want))
    BY <1>4, <1>5, <1>6, <1>7 DEF Relay!motion_request, Relay!NONE
  <1> QED
    BY <1>8 DEF Fine

\* A pass drives no axis further than it lasts.
Near(a, b) == a <= b + Longest /\ b <= a + Longest

LEMMA PaceUpdate ==
    ASSUME NEW m, Paced(m), NEW current
    PROVE  LET n == Relay!motion_update(m, current) IN
           /\ Counted(n)
           /\ n.requested # "none" =>
                 Near(n.pos_recline, m.pos_recline) /\ Near(n.pos_headrest, m.pos_headrest)
  <1> DEFINE seq == Relay!Sequence(m)
             pos == Relay!track(seq)
             Goes(k) == /\ DOMAIN k = MotionFields /\ k.track_age = 0
                        /\ k.pos_recline \in 0 .. TRAVEL_RECLINE
                        /\ k.pos_headrest \in 0 .. TRAVEL_HEADREST
                        /\ Near(k.pos_recline, m.pos_recline)
                        /\ Near(k.pos_headrest, m.pos_headrest)
             Fine(n) == /\ Counted(n)
                        /\ n.requested # "none" =>
                              Near(n.pos_recline, m.pos_recline) /\ Near(n.pos_headrest, m.pos_headrest)
  <1>0. Longest \in Nat /\ TRAVEL_RECLINE \in Nat /\ TRAVEL_HEADREST \in Nat
    BY PassesShort, AdjustConstants, MacroConstants
  <1>1. CASE m.requested = "none" \/ seq.seq = "settling"
    <2>1. Relay!motion_update(m, current) = m
      BY <1>1 DEF Relay!motion_update, Relay!NONE
    <2>2. seq.seq = "settling" => m.seq = "settling"
      BY DEF Relay!Sequence, Relay!CloseFirst, Relay!CloseSecond, Paced, MotionFields
    <2>3. Fine(m)
      BY <1>0, <1>1, <2>2 DEF Paced, Counted, Near
    <2> HIDE DEF Fine
    <2>4. Fine(Relay!motion_update(m, current))
      BY <2>1, <2>3
    <2> QED
      BY <2>4 DEF Fine
  <1>2. CASE ~(m.requested = "none" \/ seq.seq = "settling")
    <2>1. /\ DOMAIN seq = MotionFields /\ SamePos(m, seq) /\ seq.requested = m.requested
          /\ seq.track_age \in Nat /\ seq.track_age <= Longest
      <3>1. CASE seq = m
        BY <1>2, <3>1 DEF Paced, SamePos
      <3>2. CASE seq = Relay!CloseFirst(m)
        BY <1>0, <3>2 DEF Relay!CloseFirst, Paced, SamePos, MotionFields
      <3>3. CASE seq = Relay!CloseSecond(m) /\ m.seq = "first"
        BY <1>2, <3>3 DEF Relay!CloseSecond, Paced, SamePos, MotionFields
      <3> QED
        BY <3>1, <3>2, <3>3 DEF Relay!Sequence
    <2> HIDE DEF seq
    <2> DEFINE pr == IF seq.requested = "recline_up"
                     THEN Relay!Raise(seq.pos_recline, TRAVEL_RECLINE, seq.track_age)
                     ELSE IF seq.requested \in {"recline_down", "flatten"}
                     THEN Relay!Lower(seq.pos_recline, seq.track_age) ELSE seq.pos_recline
               ph == IF seq.requested = "headrest_up"
                     THEN Relay!Raise(seq.pos_headrest, TRAVEL_HEADREST, seq.track_age)
                     ELSE IF seq.requested \in {"headrest_down", "flatten"}
                     THEN Relay!Lower(seq.pos_headrest, seq.track_age) ELSE seq.pos_headrest
    <2>2. pos = [seq EXCEPT !.track_age = 0, !.pos_recline = pr, !.pos_headrest = ph]
      BY <2>1 DEF Relay!track, MotionFields
    <2>3. /\ pr \in 0 .. TRAVEL_RECLINE /\ Near(pr, m.pos_recline)
          /\ ph \in 0 .. TRAVEL_HEADREST /\ Near(ph, m.pos_headrest)
      <3>1. ASSUME NEW p, NEW travel \in Nat, p \in 0 .. travel, NEW d \in Nat, d <= Longest
            PROVE  /\ Relay!Raise(p, travel, d) \in 0 .. travel /\ Near(Relay!Raise(p, travel, d), p)
                   /\ Relay!Lower(p, d) \in 0 .. travel /\ Near(Relay!Lower(p, d), p)
                   /\ Near(p, p)
        BY <1>0, <3>1 DEF Relay!Raise, Relay!Lower, Near
      <3>2. seq.pos_recline = m.pos_recline /\ seq.pos_recline \in 0 .. TRAVEL_RECLINE
            /\ seq.pos_headrest = m.pos_headrest /\ seq.pos_headrest \in 0 .. TRAVEL_HEADREST
        BY <2>1 DEF SamePos, Paced
      <3>3. LET p == seq.pos_recline
                d == seq.track_age IN
            /\ Relay!Raise(p, TRAVEL_RECLINE, d) \in 0 .. TRAVEL_RECLINE
            /\ Near(Relay!Raise(p, TRAVEL_RECLINE, d), p)
            /\ Relay!Lower(p, d) \in 0 .. TRAVEL_RECLINE /\ Near(Relay!Lower(p, d), p)
            /\ Near(p, p)
        BY <1>0, <2>1, <3>1, <3>2
      <3>4. LET p == seq.pos_headrest
                d == seq.track_age IN
            /\ Relay!Raise(p, TRAVEL_HEADREST, d) \in 0 .. TRAVEL_HEADREST
            /\ Near(Relay!Raise(p, TRAVEL_HEADREST, d), p)
            /\ Relay!Lower(p, d) \in 0 .. TRAVEL_HEADREST /\ Near(Relay!Lower(p, d), p)
            /\ Near(p, p)
        BY <1>0, <2>1, <3>1, <3>2
      <3> QED
        BY <3>2, <3>3, <3>4
    <2> HIDE DEF pr, ph
    <2>4. Goes(pos)
      BY <2>1, <2>2, <2>3 DEF MotionFields
    <2> HIDE DEF pos
    <2>5. ASSUME NEW k, Goes(k)
          PROVE  /\ Goes(Relay!Undercurrent(k, current)) /\ Goes(Relay!Overcurrent(k, current))
                 /\ Fine(k) /\ Fine(Relay!Fault(k)) /\ Fine(Relay!Arrive(k))
      <3>1. Goes(Relay!Undercurrent(k, current)) /\ Goes(Relay!Overcurrent(k, current))
        BY <2>5 DEF Relay!Undercurrent, Relay!Overcurrent, MotionFields
      <3>2. Fine(k)
        BY <2>5 DEF Counted
      <3>3. LET s == Relay!motion_stop(k) IN
            /\ DOMAIN s = MotionFields /\ s.requested = "none" /\ s.track_age = 0
            /\ s.pos_recline \in 0 .. TRAVEL_RECLINE /\ s.pos_headrest \in 0 .. TRAVEL_HEADREST
        BY <2>5 DEF Relay!motion_stop, Relay!NONE, MotionFields
      <3>4. Fine(Relay!Fault(k))
        BY <3>3 DEF Relay!Fault, Counted, MotionFields
      <3>5. Fine(Relay!Arrive(k))
        BY <1>0, <3>3 DEF Relay!Arrive, Relay!AtStop, Counted, MotionFields
      <3> QED
        BY <3>1, <3>2, <3>4, <3>5
    <2>6. Relay!motion_update(m, current) = Relay!EndStall(pos, current)
      BY <1>2 DEF Relay!motion_update, Relay!NONE, pos, seq
    <2> HIDE DEF Goes, Fine
    <2>7. Fine(Relay!EndStall(pos, current))
      BY <2>4, <2>5 DEF Relay!EndStall, Relay!EndArrival, Relay!EndTimeout
    <2> QED
      BY <2>6, <2>7 DEF Fine
  <1> QED
    BY <1>1, <1>2

\* The slots hold positions, where they are used.
Slotted(presets) ==
    /\ DOMAIN presets = Slots
    /\ \A s \in Slots : presets[s].used =>
          presets[s].recline \in Nat /\ presets[s].headrest \in Nat

Up(stage)   == IF stage = "recline" THEN "recline_up" ELSE "headrest_up"
Down(stage) == IF stage = "recline" THEN "recline_down" ELSE "headrest_down"

\* The chair is still short of the recall's target, but for the slack.
Short(p, pos, slack) ==
    \/ p.drive = Up(p.stage) /\ pos + SEEK < p.target + slack
    \/ p.drive = Down(p.stage) /\ p.target + SEEK < pos + slack

\* A recall under way drives its own axis towards its slot, or nothing.
Recalling(c) ==
    /\ c.preset.stage \in {"recline", "headrest"}
    /\ c.preset.slot \in Slots /\ c.store.presets[c.preset.slot].used
    /\ c.preset.target \in Nat
    /\ c.preset.drive \in {Up(c.preset.stage), Down(c.preset.stage)}
    /\ c.motion.requested \in {"none", c.preset.drive}

\* Between the passes it may have driven on for the length of one; once the
\* position has been looked at it is short of its slot.
Steers(c) ==
    /\ Paced(c.motion) /\ Slotted(c.store.presets)
    /\ c.preset.stage # "idle" =>
          /\ Recalling(c)
          /\ c.motion.requested # "none" =>
                Short(c.preset, pos_for(c, c.preset.stage), Longest)

Heads(c) ==
    /\ Paced(c.motion) /\ Slotted(c.store.presets)
    /\ c.preset.stage # "idle" =>
          Recalling(c) /\ Short(c.preset, pos_for(c, c.preset.stage), 0)

LEMMA SteersSame ==
    ASSUME NEW c, NEW d,
           d.motion = c.motion, d.preset = c.preset, d.store.presets = c.store.presets
    PROVE  (Steers(c) => Steers(d)) /\ (Heads(c) => Heads(d))
  <1>1. Recalling(c) => Recalling(d)
    BY DEF Recalling
  <1>2. pos_for(d, d.preset.stage) = pos_for(c, c.preset.stage)
    BY DEF pos_for
  <1> QED
    BY <1>1, <1>2 DEF Steers, Heads

LEMMA SteersIdle ==
    ASSUME NEW c, Paced(c.motion), Slotted(c.store.presets), c.preset.stage = "idle"
    PROVE  Steers(c) /\ Heads(c)
  BY DEF Steers, Heads

LEMMA PosIsNat ==
    ASSUME NEW c, Paced(c.motion), NEW stage
    PROVE  pos_for(c, stage) \in Nat
  BY MacroConstants DEF pos_for, Paced

LEMMA HeadsSteers ==
    ASSUME NEW c, Heads(c)
    PROVE  Steers(c)
  <1>1. Longest \in Nat /\ SEEK \in Nat
    BY PassesShort, AdjustConstants, MacroConstants
  <1>2. pos_for(c, c.preset.stage) \in Nat
    BY PosIsNat DEF Heads
  <1> QED
    BY <1>1, <1>2 DEF Heads, Steers, Recalling, Short

\* A request moves nothing by itself.
LEMMA RequestPaced ==
    ASSUME NEW c, Whole(c), Paced(c.motion), NEW want
    PROVE  LET d == Request(c, want) IN
           /\ Paced(d.motion) /\ SamePos(c.motion, d.motion) /\ Whole(d)
           /\ d.preset = c.preset /\ d.store = c.store
  BY RequestChair, PaceRequest

LEMMA StageAims ==
    ASSUME NEW c, Sound(c), ~c.flatten, ~c.preset.armed, Paced(c.motion),
           Slotted(c.store.presets), c.preset.slot \in Slots,
           c.store.presets[c.preset.slot].used, NEW stage \in {"recline", "headrest"}
    PROVE  LET d == Stage(c, stage)
               e == Request(d, d.preset.drive)
           IN  /\ d.preset.slot = c.preset.slot /\ d.store = c.store /\ d.motion = c.motion
               /\ d.preset.drive # "none" => Heads(e)
  <1> DEFINE target == c.store.presets[c.preset.slot][stage] * PRESET_STEP
             drive  == seek(c, stage, target)
             d      == [c EXCEPT !.preset.stage = stage, !.preset.target = target,
                                 !.preset.drive = drive]
             e      == Request(d, d.preset.drive)
             pos    == pos_for(c, stage)
  <1>1. Stage(c, stage) = d
    BY DEF Stage
  <1>2. target \in Nat
    <2>1. PRESET_STEP \in Nat
      BY MacroConstants
    <2>2. c.store.presets[c.preset.slot][stage] \in Nat
      BY DEF Slotted
    <2> QED
      BY <2>1, <2>2
  <1> HIDE DEF target
  <1>3. drive # "none" =>
          \/ drive = Up(stage) /\ pos + SEEK < target
          \/ drive = Down(stage) /\ target + SEEK < pos
    BY DEF seek, Up, Down
  <1> HIDE DEF drive
  <1>4. /\ Whole(d) /\ d.motion = c.motion /\ d.store = c.store
        /\ d.preset.stage = stage /\ d.preset.target = target /\ d.preset.drive = drive
        /\ d.preset.slot = c.preset.slot
    BY DEF Sound, Whole, Shape, PresetFields
  <1> HIDE DEF d
  <1>5. /\ Paced(e.motion) /\ SamePos(c.motion, e.motion) /\ e.preset = d.preset
        /\ e.store = c.store
    BY <1>4, RequestPaced
  <1>6. e.motion.requested \in {"none", drive}
    <2>1. Latchable(d.motion)
      BY <1>4 DEF Sound
    <2>2. e.motion = Relay!motion_request(d.motion, d.preset.drive)
      BY <1>4, RequestChair
    <2> QED
      BY <1>4, <2>1, <2>2, RequestLatch
  <1> HIDE DEF e
  <1>7. pos_for(e, stage) = pos /\ pos \in Nat /\ SEEK \in Nat
    BY <1>5, PosIsNat, MacroConstants DEF pos_for, SamePos
  <1> HIDE DEF pos
  <1>8. drive # "none" => Heads(e)
    <2> SUFFICES ASSUME drive # "none" PROVE Heads(e)
      OBVIOUS
    <2>1. Short(e.preset, pos_for(e, stage), 0)
      BY <1>2, <1>3, <1>4, <1>5, <1>7 DEF Short
    <2> QED
      BY <1>2, <1>3, <1>4, <1>5, <1>6, <2>1 DEF Steers, Heads, Recalling
  <1> QED
    BY <1>1, <1>4, <1>8 DEF e

LEMMA ArriveAims ==
    ASSUME NEW c, Whole(c), Paced(c.motion), Slotted(c.store.presets)
    PROVE  Heads(Arrive(c))
  <1>1. LET d == Arrive(c) IN
        Recalls(c, d) /\ d.motion = c.motion /\ d.preset.stage = "idle"
    BY ArriveServes
  <1> QED
    BY <1>1, SteersIdle DEF Recalls

LEMMA NextStageAims ==
    ASSUME NEW c, Sound(c), c.preset.stage # "idle", Steers(c)
    PROVE  Heads(NextStage(c))
  <1> DEFINE h == Stage(c, "headrest")
             e == Request(h, h.preset.drive)
             d == NextStage(c)
  <1>1. /\ Whole(c) /\ Latchable(c.motion) /\ Covered(c) /\ ~c.flatten /\ ~c.preset.armed
        /\ Paced(c.motion) /\ Slotted(c.store.presets) /\ c.preset.slot \in Slots
        /\ c.store.presets[c.preset.slot].used
    BY DEF Sound, Single, Steers, Recalling
  <1>2. /\ h.store = c.store /\ h.motion = c.motion /\ Whole(h)
        /\ h.preset.drive # "none" => Heads(e)
    BY <1>1, StageAims, StageSets DEF Recalls
  <1> HIDE DEF h, e
  <1>3. Heads(Arrive(c)) /\ Heads(Arrive(h))
    BY <1>1, <1>2, ArriveAims
  <1>4. d \in {Arrive(h), Arrive(c)} \/ (h.preset.drive # "none" /\ d = e)
    BY DEF NextStage, h, e
  <1> HIDE DEF d
  <1> QED
    BY <1>2, <1>3, <1>4 DEF d

LEMMA RecallAims ==
    ASSUME NEW c, Sound(c), ~c.flatten, c.preset.stage = "idle", Paced(c.motion),
           Slotted(c.store.presets), NEW slot \in Slots
    PROVE  Heads(preset_recall(c, slot))
  <1> DEFINE n == [c EXCEPT !.preset.slot = slot]
             r == Stage(n, "recline")
             h == Stage(r, "headrest")
             d == preset_recall(c, slot)
  <1>1. CASE c.preset.armed \/ ~c.store.presets[slot].used
    <2>1. d = c
      BY <1>1 DEF preset_recall
    <2> QED
      BY <2>1, SteersIdle
  <1>2. CASE ~(c.preset.armed \/ ~c.store.presets[slot].used)
    <2>1. /\ Whole(n) /\ n.motion = c.motion /\ n.flatten = c.flatten /\ n.heat = c.heat
          /\ n.pneu = c.pneu /\ n.power = c.power /\ n.preset.armed = c.preset.armed
          /\ n.store = c.store /\ n.preset.slot = slot /\ n.preset.stage = c.preset.stage
          /\ n.preset.drive = c.preset.drive
      BY DEF Sound, Whole, Shape, PresetFields
    <2> HIDE DEF n
    <2>2. Sound(n)
      BY <2>1 DEF Sound, Covered, Asleep, Single
    <2> DEFINE er == Request(r, r.preset.drive)
               eh == Request(h, h.preset.drive)
    <2>3. /\ Sound(r) /\ ~r.flatten /\ ~r.preset.armed
      BY <1>2, <2>1, <2>2, StageSound DEF Sound
    <2>4. /\ r.store = c.store /\ r.motion = c.motion /\ r.preset.slot = slot
          /\ r.preset.drive # "none" => Heads(er)
      BY <1>2, <2>1, <2>2, StageAims
    <2> HIDE DEF r, er
    <2>5. /\ h.store = c.store /\ h.motion = c.motion /\ Whole(h)
          /\ h.preset.drive # "none" => Heads(eh)
      BY <1>2, <2>3, <2>4, StageAims, StageSets DEF Recalls, Sound
    <2> HIDE DEF h, eh
    <2>6. Heads(Arrive(h))
      BY <2>5, ArriveAims
    <2>7. d = IF r.preset.drive # "none" THEN er
              ELSE IF h.preset.drive # "none" THEN eh ELSE Arrive(h)
      BY <1>2 DEF preset_recall, n, r, h, er, eh
    <2> HIDE DEF d
    <2> QED
      BY <2>4, <2>5, <2>6, <2>7 DEF d
  <1> QED
    BY <1>1, <1>2

\* The position is looked at in every pass, and no pass is long enough to
\* step over the window in which it is close enough.
LEMMA AdvanceAims ==
    ASSUME NEW c, Sound(c), c.preset.stage # "idle", Steers(c)
    PROVE  Heads(Advance(c))
  <1> DEFINE p     == c.preset
             pos   == pos_for(c, p.stage)
             there == ~Still(c) /\ seek(c, p.stage, p.target) = "none"
             end   == IF there THEN Request(c, "none") ELSE c
  <1>0. Whole(c) /\ Paced(c.motion)
    BY DEF Sound, Steers
  <1>1. Sound(end) /\ end.preset.stage # "idle" /\ Steers(end) /\ (there => Still(end))
    <2>1. CASE there
      <3> DEFINE r == Request(c, "none")
      <3>1. /\ Sound(r) /\ r.motion.requested = "none" /\ Paced(r.motion)
            /\ r.preset = c.preset /\ r.store = c.store
        BY <1>0, RequestSound, RequestPaced
      <3> HIDE DEF r
      <3>2. Steers(r)
        BY <3>1 DEF Steers, Heads, Recalling
      <3>3. end = r
        BY <2>1 DEF r
      <3> QED
        BY <3>1, <3>2, <3>3 DEF Still
    <2>2. CASE ~there
      BY <2>2
    <2> QED
      BY <2>1, <2>2
  <1>2. Heads(NextStage(end))
    BY <1>1, NextStageAims
  <1>3. Advance(c) = IF Still(end) THEN NextStage(end) ELSE end
    BY DEF Advance
  <1>4. ~Still(end) => end = c
    BY <1>1
  <1>5. ~Still(end) => Heads(c)
    <2> SUFFICES ASSUME ~Still(end) PROVE Heads(c)
      OBVIOUS
    <2>1. ~Still(c) /\ seek(c, p.stage, p.target) # "none"
      BY <1>1, <1>4
    <2>2. c.motion.requested # "none" /\ Short(p, pos, Longest)
      BY <2>1 DEF Still, Steers, Recalling
    <2>3. pos + SEEK < p.target \/ p.target + SEEK < pos
      BY <2>1 DEF seek
    <2>4. pos \in Nat /\ p.target \in Nat /\ SEEK \in Nat /\ Longest \in Nat
          /\ Longest <= 2 * SEEK + 1
      BY <1>0, PosIsNat, MacroConstants, PassesShort, AdjustConstants DEF Steers, Heads, Recalling
    <2> HIDE DEF pos
    <2>5. Short(p, pos, 0)
      BY <2>2, <2>3, <2>4 DEF Short
    <2> QED
      BY <2>5 DEF Steers, Heads, Recalling, pos
  <1> HIDE DEF end
  <1> QED
    BY <1>2, <1>3, <1>4, <1>5

LEMMA LevelIsSlot ==
    ASSUME NEW b \in Drives
    PROVE  Level(b) \in Slots
  <1>1. DOMAIN MotionButtons = Slots
    BY ControlConstants DEF Slots, Levels
  <1>2. \E i \in DOMAIN MotionButtons : MotionButtons[i] = b
    BY DEF Drives
  <1> QED
    BY <1>1, <1>2 DEF Level

LEMMA ExpireSteers ==
    ASSUME NEW c, Sound(c), Steers(c)
    PROVE  Sound(Expire(c)) /\ Steers(Expire(c)) /\ Expire(c).preset.stage = c.preset.stage
  <1> DEFINE e == preset_cancel(c)
  <1>1. /\ Whole(e) /\ e.heat = c.heat /\ e.pneu = c.pneu /\ e.power = c.power
        /\ e.motion = c.motion /\ e.flatten = c.flatten /\ e.store = c.store
        /\ e.preset.stage = c.preset.stage /\ e.preset.drive = c.preset.drive
        /\ e.preset.slot = c.preset.slot /\ e.preset.target = c.preset.target
        /\ ~e.preset.armed
    BY DEF preset_cancel, Sound, Whole, Shape, PresetFields
  <1> HIDE DEF e
  <1>2. Sound(e)
    BY <1>1 DEF Sound, Covered, Asleep, Single
  <1>3. Steers(e)
    BY <1>1 DEF Steers, Recalling, Short, pos_for
  <1> QED
    BY <1>1, <1>2, <1>3 DEF Expire, e

LEMMA UpdateAims ==
    ASSUME NEW c, Sound(c), Steers(c), NEW key
    PROVE  Heads(preset_update(c, key))
  <1> DEFINE now == Expire(c)
             e   == Cancel(now)
  <1>1. Sound(now) /\ Steers(now)
    BY ExpireSteers
  <1> HIDE DEF now
  <1>2. Heads(e)
    <2>1. e.motion = now.motion /\ e.store = now.store /\ e.preset.stage = "idle"
      BY <1>1 DEF Cancel, Sound, Whole, Shape, PresetFields
    <2> QED
      BY <1>1, <2>1, SteersIdle DEF Steers
  <1> HIDE DEF e
  <1>3. now.preset.stage # "idle" => Heads(Advance(now))
    BY <1>1, AdvanceAims
  <1>4. now.preset.stage = "idle" => Heads(now)
    BY <1>1 DEF Steers, Heads
  <1> QED
    BY <1>2, <1>3, <1>4 DEF preset_update, now, e

\* A hold moves nothing; it may clear a slot.
LEMMA HoldSteers ==
    ASSUME NEW c, Sound(c), Steers(c), c.preset.stage = "idle", NEW b
    PROVE  Steers(OnHold(c, b))
  <1> DEFINE d == OnHold(c, b)
  <1>0. Whole(c)
    BY DEF Sound
  <1>1. d.motion = c.motion /\ d.preset.stage = "idle"
    BY HoldSound
  <1>2. Slotted(d.store.presets)
    <2>1. Slotted(c.store.presets)
      BY DEF Steers
    <2>2. \A e : Hushes(c, e) => e.store.presets = c.store.presets
      BY DEF Hushes, Apart
    <2>3. Hushes(c, c) /\ Hushes(c, heat_arm(c)) /\ Hushes(c, pneumatics_massage_arm(c))
      BY <1>0, ServeThen, HeatServes, MassageServes
    <2>4. preset_arm(c).store = c.store
      BY <1>0 DEF preset_arm, Whole, Shape
    <2>5. Slotted(preset_clear(c, Level(b)).store.presets)
      <3> DEFINE x == [c.store.presets EXCEPT ![Level(b)] = Unused]
      <3>1. Slotted(x)
        BY <2>1 DEF Slotted, Unused
      <3>2. preset_clear(c, Level(b)).store.presets \in {x, c.store.presets}
        BY <1>0 DEF preset_clear, Whole, Shape, StoreFields
      <3> HIDE DEF x
      <3> QED
        BY <2>1, <3>1, <3>2
    <2>6. d \in {c, heat_arm(c), pneumatics_massage_arm(c), preset_arm(c), preset_clear(c, Level(b))}
      BY DEF OnHold
    <2> HIDE DEF d
    <2> QED
      BY <2>1, <2>2, <2>3, <2>4, <2>5, <2>6
  <1> HIDE DEF d
  <1> QED
    BY <1>1, <1>2, SteersIdle DEF Steers, d

\* A tap may begin a macro, and so a motion.
LEMMA TapSteers ==
    ASSUME NEW c, Sound(c), Steers(c), c.preset.stage = "idle", ~c.flatten, NEW b,
           NEW double \in BOOLEAN
    PROVE  Steers(OnTap(c, b, double))
  <1>0. Whole(c) /\ Paced(c.motion) /\ Slotted(c.store.presets)
    BY DEF Sound, Steers
  <1>1. Steers(comfort_button(c, b))
    <2>1. Serves(c, comfort_button(c, b))
      BY ComfortPress
    <2> QED
      BY <2>1, SteersSame DEF Serves, Apart
  <1>2. Steers(Release(c))
    <2>1. Hushes(c, pneumatics_lumbar_release(c))
      BY <1>0, LumbarServes
    <2>2. Steers(pneumatics_lumbar_release(c))
      BY <2>1, SteersSame DEF Hushes, Apart
    <2> QED
      BY <2>2 DEF Release
  <1>3. ASSUME b \in Drives PROVE Steers(preset_save(c, Level(b)))
    <2> DEFINE snap == Snapshot(c)
               x    == [c.store.presets EXCEPT ![Level(b)] = snap]
               e    == [c EXCEPT !.store.presets = x, !.preset.armed = FALSE]
    <2>1. preset_save(c, Level(b)) = e
      BY <1>0 DEF preset_save, Whole, Shape
    <2>2. snap.recline \in Nat /\ snap.headrest \in Nat
      <3>1. PRESET_STEP \in Nat \ {0}
        BY MacroConstants
      <3>2. c.motion.pos_recline \in Nat /\ c.motion.pos_headrest \in Nat
        BY <1>0, MacroConstants DEF Paced
      <3>3. c.motion.pos_recline \div PRESET_STEP \in Nat
            /\ c.motion.pos_headrest \div PRESET_STEP \in Nat
        BY <3>1, <3>2
      <3> QED
        BY <3>3 DEF Snapshot
    <2> HIDE DEF snap
    <2>3. Slotted(x)
      BY <1>0, <2>2 DEF Slotted
    <2> HIDE DEF x
    <2>4. e.motion = c.motion /\ e.store.presets = x /\ e.preset.stage = c.preset.stage
      BY <1>0 DEF Whole, Shape, StoreFields, PresetFields
    <2> HIDE DEF e
    <2> QED
      BY <1>0, <2>1, <2>3, <2>4, SteersIdle
  <1>4. ASSUME b \in Drives PROVE Steers(preset_recall(c, Level(b)))
    BY <1>0, <1>4, LevelIsSlot, RecallAims, HeadsSteers
  <1>5. Steers(preset_cancel(c))
    <2>1. LET e == preset_cancel(c) IN
          e.motion = c.motion /\ e.store = c.store /\ e.preset.stage = c.preset.stage
      BY <1>0 DEF preset_cancel, Whole, Shape, PresetFields
    <2> QED
      BY <1>0, <2>1, SteersIdle
  <1>6. Steers(flatten_tap_start(c))
    <2> DEFINE f == [c EXCEPT !.flatten = TRUE]
               e == Request(f, "flatten")
    <2>1. /\ Whole(f) /\ f.motion = c.motion /\ f.preset = c.preset /\ f.store = c.store
      BY <1>0 DEF Whole, Shape
    <2> HIDE DEF f
    <2>2. Paced(e.motion) /\ e.preset = f.preset /\ e.store = f.store
      BY <1>0, <2>1, RequestPaced
    <2> HIDE DEF e
    <2>3. Steers(e)
      BY <1>0, <2>1, <2>2, SteersIdle
    <2> QED
      BY <2>3 DEF flatten_tap_start, e, f
  <1>7. Steers(power_short_press(c))
    <2>1. LET e == power_short_press(c) IN
          Recalls(c, e) /\ e.motion = c.motion /\ e.preset = c.preset
      BY PowerSound
    <2> QED
      BY <2>1, SteersSame DEF Recalls
  <1>8. Steers(OnPowerTap(c, double))
    BY <1>5, <1>6, <1>7 DEF OnPowerTap
  <1>9. b \in Drives => Steers(OnMotionTap(c, b, double))
    BY <1>3, <1>4 DEF OnMotionTap
  <1> QED
    BY <1>1, <1>2, <1>8, <1>9 DEF OnTap

LEMMA EventSteers ==
    ASSUME NEW now, NEW k, Ready(now, k), Steers(now), NEW key
    PROVE  LET ev    == Press!Reported(now.button, key)
               heard == [now EXCEPT !.button = Press!Updated(now.button, key)]
           IN  Steers(route_event(heard, ev))
  <1> DEFINE ev    == Press!Reported(now.button, key)
             b     == Press!Updated(now.button, key)
             heard == [now EXCEPT !.button = b]
             c     == route_event(heard, ev)
             kind  == ev.kind
  <1>1. Sound(heard) /\ heard.motion = now.motion /\ heard.preset = now.preset
        /\ heard.store = now.store /\ heard.flatten = now.flatten
    <2>1. DOMAIN now.button = ButtonFields
      BY DEF Ready, Sound, Whole
    <2>2. DOMAIN b = ButtonFields
      BY <2>1, ButtonFollows
    <2> HIDE DEF b
    <2>3. /\ heard.power = now.power /\ heard.flatten = now.flatten /\ heard.preset = now.preset
          /\ heard.heat = now.heat /\ heard.pneu = now.pneu /\ heard.motion = now.motion
          /\ heard.store = now.store /\ Whole(heard)
      BY <2>2 DEF Ready, Sound, Whole, Shape
    <2> HIDE DEF heard
    <2> QED
      BY <2>3 DEF Ready, Sound, Covered, Asleep, Single
  <1>2. Steers(heard)
    BY <1>1, SteersSame
  <1> HIDE DEF b, heard
  <1>3. /\ key # k /\ key # "none" => kind = "press"
        /\ key = k => kind = "none" \/ (kind = "hold" /\ key # "none")
        /\ key # k /\ key = "none" => kind \in {"hold_release", "tap", "double_tap"}
    BY Events DEF Ready
  <1> DEFINE button == ev.button
  <1>4. /\ kind = "press" => c = OnPress(heard, button)
        /\ kind = "tap" => c = OnTap(heard, button, FALSE)
        /\ kind = "double_tap" => c = OnTap(heard, button, TRUE)
        /\ kind = "hold" => c = OnHold(heard, button)
        /\ kind = "hold_release" => c = heard \/ c = Release(heard)
        /\ kind = "none" => c = heard
    BY DEF route_event
  <1>5. Steers(OnPress(heard, button))
    <2>1. LET d == OnPress(heard, button) IN
          d.motion = heard.motion /\ d.preset = heard.preset
          /\ d.store.presets = heard.store.presets
      BY <1>1, PressSound
    <2> QED
      BY <1>2, <2>1, SteersSame
  <1>6. k # "none" => /\ Steers(OnHold(heard, button)) /\ Steers(OnTap(heard, button, FALSE))
                      /\ Steers(OnTap(heard, button, TRUE))
    <2> SUFFICES ASSUME k # "none"
                 PROVE  /\ Steers(OnHold(heard, button)) /\ Steers(OnTap(heard, button, FALSE))
                        /\ Steers(OnTap(heard, button, TRUE))
      OBVIOUS
    <2>1. heard.preset.stage = "idle" /\ ~heard.flatten
      BY <1>1 DEF Ready
    <2>2. Steers(OnHold(heard, button))
      BY <1>1, <1>2, <2>1, HoldSteers
    <2>3. \A t \in BOOLEAN : Steers(OnTap(heard, button, t))
      BY <1>1, <1>2, <2>1, TapSteers
    <2> QED
      BY <2>2, <2>3
  <1>7. Steers(Release(heard))
    <2>1. Hushes(heard, pneumatics_lumbar_release(heard))
      BY <1>1, LumbarServes DEF Sound
    <2>2. Steers(pneumatics_lumbar_release(heard))
      BY <1>2, <2>1, SteersSame DEF Hushes, Apart
    <2> QED
      BY <1>2, <2>2 DEF Release
  <1> HIDE DEF c, kind, button
  <1>8. Steers(c)
    BY <1>2, <1>3, <1>4, <1>5, <1>6, <1>7
  <1> QED
    BY <1>8 DEF c, heard, b

\* The chair of a pass once flatten has been updated, which a recall goes on from.
Flattened(now, key) ==
    LET heard   == [now EXCEPT !.button = Press!Updated(now.button, key)]
        routed  == route_event(heard, Press!Reported(now.button, key))
        comfort == heat_update(pneumatics_update(routed))
        bar     == [comfort EXCEPT !.adjust = adjust_update(comfort.adjust)]
        kept    == IF key = bar.consumed THEN bar.consumed ELSE "none"
    IN  flatten_update([bar EXCEPT !.consumed = kept], key)

LEMMA MidPass ==
    ASSUME NEW now, NEW k, Ready(now, k), Steers(now), NEW key \in Buttons \cup {"none"}
    PROVE  Sound(Flattened(now, key)) /\ Steers(Flattened(now, key))
  <1> DEFINE ev      == Press!Reported(now.button, key)
             kind    == ev.kind
             heard   == [now EXCEPT !.button = Press!Updated(now.button, key)]
             routed  == route_event(heard, ev)
             air     == pneumatics_update(routed)
             comfort == heat_update(air)
             x       == adjust_update(comfort.adjust)
             bar     == [comfort EXCEPT !.adjust = x]
             kept    == IF key = bar.consumed THEN bar.consumed ELSE "none"
             borrow  == [bar EXCEPT !.consumed = kept]
             flat    == flatten_update(borrow, key)
  <1>0. Flattened(now, key) = flat
    BY DEF Flattened
  <1>1. Routed(now, routed, k, key, kind) /\ Steers(routed)
    BY EventRouted, EventSteers
  <1> HIDE DEF routed, kind
  <1>2. Hushes(routed, air) /\ Whole(air)
    BY <1>1, AirHushes DEF Hushes, Apart, Routed, Sound
  <1> HIDE DEF air
  <1>3. Hushes(air, comfort) /\ Whole(comfort)
    BY <1>2, HeatHushes DEF Hushes, Apart
  <1> HIDE DEF comfort
  <1>4. Hushes(comfort, bar)
    <2>1. Bar(comfort.adjust) /\ "heat" \in Owners
      BY <1>3 DEF Whole, Owners
    <2>2. Bar(x)
      BY <2>1, Bars
    <2> HIDE DEF x
    <2> QED
      BY <1>3, <2>2, SetFields
  <1> HIDE DEF bar
  <1>5. Hushes(routed, bar) /\ Sound(bar)
    <2>1. Hushes(routed, bar)
      BY <1>2, <1>3, <1>4, ServeThen
    <2> QED
      BY <1>1, <2>1, CallsSound DEF Routed
  <1>6. Steers(bar)
    BY <1>1, <1>5, SteersSame DEF Hushes, Apart
  <1> HIDE DEF kept
  <1>7. Sound(borrow) /\ Steers(borrow)
    <2>1. /\ Whole(borrow) /\ borrow.flatten = bar.flatten /\ borrow.preset = bar.preset
          /\ borrow.store = bar.store /\ borrow.heat = bar.heat
          /\ borrow.power = bar.power /\ borrow.motion = bar.motion
          /\ borrow.pneu = bar.pneu
      BY <1>5 DEF Sound, Whole, Shape
    <2> HIDE DEF borrow
    <2>2. Sound(borrow)
      BY <1>5, <2>1 DEF Sound, Covered, Asleep, Single
    <2> QED
      BY <1>6, <2>1, <2>2, SteersSame
  <1> HIDE DEF borrow
  <1>8. Sound(flat) /\ Steers(flat)
    <2>1. Sound(flat) /\ flat.motion = borrow.motion /\ flat.preset = borrow.preset
          /\ flat.store.presets = borrow.store.presets
      BY <1>7, FlattenSound
    <2> HIDE DEF flat
    <2> QED
      BY <1>7, <2>1, SteersSame
  <1> HIDE DEF flat
  <1> QED
    BY <1>0, <1>8

LEMMA PassSteers ==
    ASSUME NEW now, NEW k, Ready(now, k), Steers(now), NEW key \in Buttons \cup {"none"}, NEW current
    PROVE  LET after == control_update(now, key, current) IN
           Steers(after) /\ Counted(after.motion)
  <1> DEFINE ev      == Press!Reported(now.button, key)
             heard   == [now EXCEPT !.button = Press!Updated(now.button, key)]
             routed  == route_event(heard, ev)
             air     == pneumatics_update(routed)
             comfort == heat_update(air)
             x       == adjust_update(comfort.adjust)
             bar     == [comfort EXCEPT !.adjust = x]
             kept    == IF key = bar.consumed THEN bar.consumed ELSE "none"
             borrow  == [bar EXCEPT !.consumed = kept]
             flat    == flatten_update(borrow, key)
             macros  == preset_update(flat, key)
             want    == Wanted(macros, key)
             asked   == Request(macros, want)
             relays  == Relay!motion_update(asked.motion, current)
             after   == [asked EXCEPT !.motion = relays]
  <1>0. control_update(now, key, current) = after
    BY DEF control_update
  <1>1. Sound(flat) /\ Steers(flat)
    <2>1. Flattened(now, key) = flat
      BY DEF Flattened
    <2> QED
      BY <2>1, MidPass
  <1> HIDE DEF routed, air, comfort, bar, kept, borrow, flat
  <1>2. Sound(macros) /\ Heads(macros)
    BY <1>1, RecallUpdate, UpdateAims
  <1> HIDE DEF macros
  <1>3. Paced(asked.motion) /\ SamePos(macros.motion, asked.motion) /\ Whole(asked)
        /\ asked.preset = macros.preset /\ asked.store = macros.store
    BY <1>2, RequestPaced DEF Sound, Heads
  <1>4. Latchable(asked.motion) /\ asked.motion.requested \in {"none", want}
    BY <1>2, RequestSound DEF Sound
  <1>5. macros.preset.stage # "idle" => want = macros.preset.drive
    <2>1. macros.preset.stage # "idle" => macros.preset.drive # "none"
      BY <1>2 DEF Heads, Recalling, Up, Down
    <2> QED
      BY <2>1 DEF Wanted
  <1> HIDE DEF want, asked
  <1>6. /\ Counted(relays) /\ relays.requested \in {"none", asked.motion.requested}
        /\ relays.requested # "none" =>
              /\ Near(relays.pos_recline, asked.motion.pos_recline)
              /\ Near(relays.pos_headrest, asked.motion.pos_headrest)
    BY <1>3, <1>4, PaceUpdate, UpdateLatch
  <1> HIDE DEF relays
  <1>7. after.motion = relays /\ after.preset = macros.preset /\ after.store = macros.store
    BY <1>3 DEF Whole, Shape
  <1> HIDE DEF after
  <1>8. Paced(after.motion) /\ Slotted(after.store.presets)
    <2>1. Longest \in Nat
      BY PassesShort, AdjustConstants
    <2> QED
      BY <1>2, <1>6, <1>7, <2>1 DEF Counted, Paced, Heads
  <1>9. ASSUME after.preset.stage # "idle"
        PROVE  /\ Recalling(after)
               /\ after.motion.requested # "none" =>
                    Short(after.preset, pos_for(after, after.preset.stage), Longest)
    <2>1. Recalling(macros) /\ Short(macros.preset, pos_for(macros, macros.preset.stage), 0)
      BY <1>2, <1>7, <1>9 DEF Heads
    <2>2. Recalling(after)
      BY <1>4, <1>5, <1>6, <1>7, <1>9, <2>1 DEF Recalling
    <2> DEFINE pos == pos_for(macros, macros.preset.stage)
               end == pos_for(after, after.preset.stage)
    <2>3. after.motion.requested # "none" => Near(end, pos)
      BY <1>3, <1>6, <1>7 DEF pos_for, SamePos
    <2>4. /\ pos \in Nat /\ end \in Nat /\ macros.preset.target \in Nat
          /\ SEEK \in Nat /\ Longest \in Nat
      BY <1>2, <1>8, <2>1, PosIsNat, MacroConstants, PassesShort, AdjustConstants
         DEF Heads, Recalling
    <2> HIDE DEF pos, end
    <2>5. after.motion.requested # "none" => Short(after.preset, end, Longest)
      BY <1>7, <2>1, <2>3, <2>4 DEF Short, Near, pos
    <2> QED
      BY <2>2, <2>5 DEF end
  <1>10. Steers(after)
    BY <1>8, <1>9 DEF Steers
  <1> QED
    BY <1>0, <1>6, <1>7, <1>10

LEMMA SteersElapsed ==
    ASSUME NEW c, Sound(c), Steers(c), Counted(c.motion), NEW d \in Durations
    PROVE  Steers(ElapseChair(c, d))
  <1> DEFINE m == Relay!Elapse(c.motion, d)
             r == ElapsePreset(c.preset, d)
             e == ElapseChair(c, d)
  <1>1. Paced(m) /\ SamePos(c.motion, m) /\ m.requested = c.motion.requested
    BY PaceElapse
  <1> HIDE DEF m
  <1>2. r.stage = c.preset.stage
        /\ (c.preset.stage # "idle" => r.slot = c.preset.slot /\ r.target = c.preset.target)
        /\ r.drive = c.preset.drive
    BY DEF ElapsePreset, Sound, Whole, PresetFields
  <1> HIDE DEF r
  <1>3. e.motion = m /\ e.preset = r /\ e.store = c.store
    BY DEF ElapseChair, Sound, Whole, Shape, m, r
  <1> HIDE DEF e
  <1>4. pos_for(e, e.preset.stage) = pos_for(c, c.preset.stage)
    BY <1>1, <1>2, <1>3 DEF pos_for, SamePos
  <1>5. Steers(e)
    BY <1>1, <1>2, <1>3, <1>4 DEF Steers, Recalling, Short
  <1> QED
    BY <1>5 DEF e

SeekInv == ChairInv /\ Steers(chair) /\ Counted(chair.motion)

LEMMA SeekBegins == Init => SeekInv
  <1> SUFFICES ASSUME Init PROVE SeekInv
    OBVIOUS
  <1>1. PICK store \in Stores :
          /\ chair.preset = PresetOff /\ chair.motion = Relay!PowerOn
          /\ chair.store = store
    BY DEF Init
  <1>2. Slotted(store.presets)
    <2>1. store.presets \in [Slots -> Preset \cup {Unused}]
      BY StoresLoaded
    <2> HIDE DEF Slots
    <2>2. \A p \in Preset \cup {Unused} : p.used => p.recline \in Nat /\ p.headrest \in Nat
      <3>1. ASSUME NEW p \in Preset PROVE p.recline \in Nat /\ p.headrest \in Nat
        BY <3>1 DEF Preset
      <3>2. ~Unused.used
        BY DEF Unused
      <3> QED
        BY <3>1, <3>2
    <2> QED
      BY <2>1, <2>2 DEF Slotted
  <1>3. Counted(chair.motion) /\ Paced(chair.motion)
    BY <1>1, MacroConstants DEF Relay!PowerOn, Relay!NONE, Counted, Paced, MotionFields
  <1>4. Steers(chair)
    BY <1>1, <1>2, <1>3, SteersIdle DEF PresetOff
  <1> QED
    BY <1>3, <1>4, Begins DEF SeekInv

LEMMA SeekSteps ==
    ASSUME SeekInv, NEW d \in Durations, NEW b \in Buttons \cup {"none"},
           NEW current \in Sampled, Pass(d, b, current)
    PROVE  SeekInv'
  <1> DEFINE now == ElapseChair(chair, d)
  <1>1. ChairInv'
    BY Steps DEF SeekInv
  <1>2. Steers(now)
    BY SteersElapsed DEF SeekInv, ChairInv
  <1>3. Sound(now) /\ now.button.prev = chair.button.prev
        /\ now.flatten = chair.flatten /\ now.preset.stage = chair.preset.stage
    BY Elapsed DEF SeekInv, ChairInv
  <1>4. chair' = control_update(now, b, current)
    BY DEF Pass
  <1> HIDE DEF now
  <1>5. Ready(now, code)
    BY <1>3 DEF Ready, SeekInv, ChairInv, ButtonDown
  <1>6. Steers(chair)' /\ Counted(chair.motion)'
    BY <1>2, <1>4, <1>5, PassSteers
  <1> QED
    BY <1>1, <1>6 DEF SeekInv

\* A recall drives an axis no further than its slot (Advance: the position is
\* looked at before the motors are asked for more): the estimate passes it by less
\* than a pass, provided that no pass is long enough to step over the window of
\* MOTION_SEEK_MS to either side, because nothing reverses a drive.
THEOREM SeeksEnd == Spec => []SeekStops
  <1>1. SeekInv /\ [Next]_vars => SeekInv'
    <2>1. ASSUME SeekInv, Next PROVE SeekInv'
      BY <2>1, SeekSteps DEF Next
    <2>2. ASSUME SeekInv, UNCHANGED vars PROVE SeekInv'
      <3>1. ChairInv'
        BY <2>2 DEF SeekInv, vars, ChairInv, ButtonDown, ClaimHeld, HeatClock
      <3> QED
        BY <2>2, <3>1 DEF SeekInv, vars
    <2> QED
      BY <2>1, <2>2
  <1>2. SeekInv => SeekStops
    <2> SUFFICES ASSUME SeekInv, chair.preset.drive # "none",
                        chair.motion.requested = chair.preset.drive
                 PROVE  LET p == chair.preset
                            pos == pos_for(chair, p.stage)
                        IN  IF p.drive \in {"recline_up", "headrest_up"}
                            THEN pos <= p.target + Longest ELSE p.target <= pos + Longest
      BY DEF SeekStops
    <2>1. chair.preset.stage # "idle"
      BY DEF SeekInv, ChairInv, Sound, Single
    <2>2. Recalling(chair)
          /\ Short(chair.preset, pos_for(chair, chair.preset.stage), Longest)
      BY <2>1 DEF SeekInv, Steers
    <2>3. /\ pos_for(chair, chair.preset.stage) \in Nat /\ chair.preset.target \in Nat
          /\ SEEK \in Nat /\ Longest \in Nat
      BY <2>2, PosIsNat, MacroConstants, PassesShort, AdjustConstants
         DEF SeekInv, Steers, Recalling
    <2> QED
      BY <2>2, <2>3 DEF Short, Up, Down
  <1> QED
    BY <1>1, <1>2, SeekBegins, PTL DEF Spec

-----------------------------------------------------------------------------
(* The types.  A bar, with how far each phase has come.                      *)

\* AdjustState, with a bound on the step of each phase that counts them.
BarState ==
    {a \in AdjustState :
        /\ a.phase = "in"      => a.step \in 1 .. LEVEL_MAX
        /\ a.phase = "confirm" => a.step <= 2 * FLASHES - 1
        /\ a.phase = "out"     => a.step <= LEVEL_MAX}

LEMMA BarFields ==
    ASSUME NEW a \in BarState
    PROVE  /\ a \in AdjustState
           /\ a.phase \in {"off", "in", "hold", "confirm", "out"}
           /\ a.step \in 0 .. 2 * FLASHES + LEVEL_MAX
           /\ a.step_age \in Nat /\ a.hold_age \in Nat
           /\ a.hold_span \in {0} \cup Spans
           /\ a.owner \in Owners \cup {NOBODY}
           /\ a.level \in {0} \cup Levels
           /\ a.armed \in BOOLEAN
           /\ a.phase = "in"      => a.step \in 1 .. LEVEL_MAX
           /\ a.phase = "confirm" => a.step <= 2 * FLASHES - 1
           /\ a.phase = "out"     => a.step <= LEVEL_MAX
  BY DEF BarState, AdjustState

LEMMA BarTimes ==
    /\ LEVEL_MAX \in Nat \ {0} /\ FLASHES \in Nat \ {0} /\ LongestStep \in Nat
    /\ Spans \subseteq Nat /\ {READOUT, ADJUST_ARM, SHORT} \subseteq Spans
    /\ BAR_STEP \in Nat /\ BAR_EXIT \in Nat /\ CONFIRM \in Nat
    /\ LEVEL_MAX \in Levels
  <1> DEFINE S == {BAR_STEP, BAR_EXIT, CONFIRM}
  <1>1. BAR_STEP \in Nat /\ BAR_EXIT \in Nat /\ CONFIRM \in Nat
    BY AdjustConstants
  <1>2. \E n \in S : \A k \in S : k <= n
    <2>1. CASE BAR_STEP >= BAR_EXIT /\ BAR_STEP >= CONFIRM
      BY <1>1, <2>1
    <2>2. CASE BAR_EXIT >= BAR_STEP /\ BAR_EXIT >= CONFIRM
      BY <1>1, <2>2
    <2>3. CASE CONFIRM >= BAR_STEP /\ CONFIRM >= BAR_EXIT
      BY <1>1, <2>3
    <2> QED
      BY <1>1, <2>1, <2>2, <2>3
  <1>3. LongestStep \in Nat
    BY <1>1, <1>2 DEF LongestStep
  <1> QED
    BY <1>1, <1>3, AdjustConstants DEF Spans, Levels

\* A bar of typed fields, whose step fits its phase.
LEMMA BarBuilt ==
    ASSUME NEW a \in AdjustState,
           a.phase = "in"      => a.step \in 1 .. LEVEL_MAX,
           a.phase = "confirm" => a.step <= 2 * FLASHES - 1,
           a.phase = "out"     => a.step <= LEVEL_MAX
    PROVE  a \in BarState
  BY DEF BarState

LEMMA SlideType ==
    ASSUME NEW a \in BarState
    PROVE  slide_out(a) \in BarState
  <1>1. [a EXCEPT !.armed = FALSE] \in BarState
    BY DEF BarState, AdjustState
  <1> DEFINE b == [a EXCEPT !.armed = FALSE, !.phase = "out", !.step = 1, !.step_age = 0]
  <1>2. b \in AdjustState /\ b.phase = "out" /\ b.step = 1
    <2>1. 1 \in 0 .. 2 * FLASHES + LEVEL_MAX /\ 0 \in Nat
      BY BarTimes
    <2> QED
      BY <2>1, BarFields, Zenon DEF AdjustState
  <1>3. 1 <= LEVEL_MAX
    BY BarTimes
  <1> HIDE DEF b
  <1>4. b \in BarState
    BY <1>2, <1>3, BarBuilt
  <1> QED
    BY <1>1, <1>4 DEF slide_out, b

LEMMA StartType ==
    ASSUME NEW a \in BarState, NEW who \in Owners, NEW want \in {0} \cup Levels,
           NEW span \in Spans, NEW arm \in BOOLEAN
    PROVE  [StartBar(a, who, want, span) EXCEPT !.armed = arm] \in BarState
  <1> DEFINE s == [a EXCEPT !.owner = who, !.level = want, !.hold_age = 0, !.hold_span = span]
             b == [a EXCEPT !.owner = who, !.level = want, !.hold_span = span,
                            !.phase = "in", !.step = 1, !.step_age = 0]
  <1>0. 1 \in 0 .. 2 * FLASHES + LEVEL_MAX /\ 0 \in Nat /\ 1 \in 1 .. LEVEL_MAX
    BY BarTimes
  <1>1. s \in AdjustState /\ s.phase = a.phase /\ s.step = a.step
    BY <1>0, BarFields, Zenon DEF AdjustState
  <1>2. b \in AdjustState /\ b.phase = "in" /\ b.step = 1
    BY <1>0, BarFields, Zenon DEF AdjustState
  <1>3. s \in BarState
    BY <1>1, BarFields, BarBuilt
  <1>4. b \in BarState
    BY <1>0, <1>2, BarBuilt
  <1>5. StartBar(a, who, want, span) \in {s, b}
    BY DEF StartBar
  <1>6. \A e \in BarState : [e EXCEPT !.armed = arm] \in BarState
    BY DEF BarState, AdjustState
  <1> HIDE DEF s, b
  <1> QED
    BY <1>3, <1>4, <1>5, <1>6

LEMMA BarCalls ==
    ASSUME NEW a \in BarState, NEW who \in Owners, NEW want \in {0} \cup Levels
    PROVE  /\ adjust_show(a, who, want) \in BarState
           /\ adjust_open(a, who, want) \in BarState
           /\ adjust_pick(a, want) \in BarState
           /\ adjust_accept(a) \in BarState /\ adjust_dismiss(a) \in BarState
           /\ adjust_close(a, who) \in BarState
           /\ adjust_defer(a, SHORT) \in BarState
  <1>1. adjust_show(a, who, want) \in BarState
    <2>1. READOUT \in Spans
      BY BarTimes
    <2> QED
      BY <2>1, StartType DEF adjust_show
  <1>2. adjust_open(a, who, want) \in BarState
    <2>1. ADJUST_ARM \in Spans
      BY BarTimes
    <2> QED
      BY <2>1, StartType DEF adjust_open
  <1>3. adjust_pick(a, want) \in BarState
    <2> DEFINE b == [a EXCEPT !.level = want, !.armed = FALSE,
                              !.phase = "confirm", !.step = 0, !.step_age = 0]
    <2>1. 0 \in 0 .. 2 * FLASHES + LEVEL_MAX /\ 0 \in Nat /\ 0 <= 2 * FLASHES - 1
      BY BarTimes
    <2>2. b \in AdjustState /\ b.phase = "confirm" /\ b.step = 0
      BY <2>1, BarFields, Zenon DEF AdjustState
    <2>3. b \in BarState
      BY <2>1, <2>2, BarBuilt
    <2> QED
      BY <2>3 DEF adjust_pick
  <1>4. adjust_accept(a) \in BarState /\ adjust_dismiss(a) \in BarState
    BY SlideType DEF adjust_accept, adjust_dismiss
  <1>5. adjust_close(a, who) \in BarState
    <2> DEFINE b == [a EXCEPT !.phase = "off", !.armed = FALSE, !.owner = NOBODY]
    <2>1. b \in AdjustState /\ b.phase = "off"
      BY BarFields, Zenon DEF AdjustState
    <2>2. b \in BarState
      BY <2>1, BarBuilt
    <2> QED
      BY <2>2 DEF adjust_close
  <1>6. adjust_defer(a, SHORT) \in BarState
    <2> DEFINE b == [a EXCEPT !.hold_span = SHORT]
               e == [a EXCEPT !.hold_age = 0, !.hold_span = SHORT]
    <2>1. SHORT \in Spans /\ 0 \in Nat
      BY BarTimes
    <2>2. /\ b \in AdjustState /\ b.phase = a.phase /\ b.step = a.step
          /\ e \in AdjustState /\ e.phase = a.phase /\ e.step = a.step
      BY <2>1, BarFields, Zenon DEF AdjustState
    <2>3. b \in BarState /\ e \in BarState
      BY <2>2, BarFields, BarBuilt
    <2>4. adjust_defer(a, SHORT) \in {a, b, e}
      BY DEF adjust_defer
    <2> QED
      BY <2>3, <2>4
  <1> QED
    BY <1>1, <1>2, <1>3, <1>4, <1>5, <1>6

LEMMA BarElapse ==
    ASSUME NEW a \in BarState, NEW d \in Durations
    PROVE  ElapseAdjust(a, d) \in BarState
  <1>1. d \in Nat
    BY AdjustConstants
  <1>2. CASE a.phase = "off"
    <2> DEFINE b == [AdjustOff EXCEPT !.owner = a.owner, !.armed = a.armed]
    <2>1. 0 \in 0 .. 2 * FLASHES + LEVEL_MAX /\ 0 \in Nat
      BY BarTimes
    <2>2. AdjustOff \in AdjustState /\ AdjustOff.phase = "off"
      BY <2>1 DEF AdjustState, AdjustOff
    <2>3. b \in AdjustState /\ b.phase = "off"
      BY <2>2, BarFields, Zenon DEF AdjustState
    <2>4. b \in BarState
      BY <2>3, BarBuilt
    <2> QED
      BY <1>2, <2>4 DEF ElapseAdjust
  <1>3. CASE a.phase # "off"
    <2> DEFINE s == IF a.phase = "hold" THEN 0 ELSE UpTo(LongestStep, a.step_age + d)
               h == IF a.phase = "hold" THEN UpTo(a.hold_span, a.hold_age + d) ELSE 0
               b == [a EXCEPT !.step_age = s, !.hold_age = h]
    <2>1. s \in Nat /\ h \in Nat
      <3>1. a.step_age \in Nat /\ a.hold_age \in Nat /\ LongestStep \in Nat
        BY BarFields, BarTimes
      <3>2. a.hold_span \in Nat
        <4>1. a.hold_span \in {0} \cup Spans
          BY BarFields
        <4>2. Spans \subseteq Nat /\ 0 \in Nat
          BY BarTimes
        <4> QED
          BY <4>1, <4>2
      <3> QED
        BY <1>1, <3>1, <3>2 DEF UpTo
    <2>2. ElapseAdjust(a, d) = b
      BY <1>3 DEF ElapseAdjust
    <2> HIDE DEF s, h
    <2>3. b \in AdjustState /\ b.phase = a.phase /\ b.step = a.step
      BY <2>1, BarFields, Zenon DEF AdjustState
    <2>4. b \in BarState
      BY <2>3, BarFields, BarBuilt
    <2> QED
      BY <2>2, <2>4
  <1> QED
    BY <1>2, <1>3

\* A phase counts its steps, and ends before they run out.
LEMMA BarUpdate ==
    ASSUME NEW a \in BarState
    PROVE  adjust_update(a) \in BarState
  <1>0. a.step \in Nat /\ a.level \in Nat /\ a.level <= LEVEL_MAX /\ LEVEL_MAX \in Nat
        /\ FLASHES \in Nat /\ LEVEL_MAX > 0 /\ FLASHES > 0
    BY BarFields, BarTimes DEF Levels
  <1> DEFINE next == Stepped(a)
  <1>1. ASSUME a.step + 1 <= 2 * FLASHES + LEVEL_MAX
        PROVE  next \in AdjustState /\ next.step = a.step + 1 /\ next.phase = a.phase
               /\ next.level = a.level
    <2>1. a.step + 1 \in 0 .. 2 * FLASHES + LEVEL_MAX /\ 0 \in Nat
      BY <1>0, <1>1
    <2> QED
      BY <2>1, BarFields, Zenon DEF AdjustState, Stepped
  <1>2. ASSUME next \in AdjustState PROVE Gone(next) \in BarState
    <2>1. Gone(next) \in AdjustState /\ Gone(next).phase = "off"
      BY <1>2, Zenon DEF AdjustState, Gone
    <2> QED
      BY <2>1, BarBuilt
  <1> HIDE DEF next
  <1>3. ASSUME a.phase = "in" PROVE FillIn(a) \in BarState
    <2>1. a.step \in 1 .. LEVEL_MAX
      BY <1>3, BarFields
    <2>2. next \in AdjustState /\ next.step = a.step + 1 /\ next.phase = "in"
          /\ next.level = a.level
      BY <1>0, <1>1, <1>3, <2>1
    <2> DEFINE h == [next EXCEPT !.phase = "hold", !.hold_age = 0]
    <2>3. h \in AdjustState /\ h.phase = "hold"
      BY <2>2, Zenon DEF AdjustState
    <2>4. h \in BarState
      BY <2>3, BarBuilt
    <2> HIDE DEF h
    <2>5. ~(next.step >= a.level) => next \in BarState
      <3> SUFFICES ASSUME ~(next.step >= a.level) PROVE next \in BarState
        OBVIOUS
      <3>1. next.step \in 1 .. LEVEL_MAX
        BY <1>0, <2>1, <2>2
      <3> QED
        BY <2>2, <3>1, BarBuilt
    <2>6. FillIn(a) = a \/ FillIn(a) = h \/ (~(next.step >= a.level) /\ FillIn(a) = next)
      BY DEF FillIn, next, h
    <2> QED
      BY <2>4, <2>5, <2>6
  <1>4. ASSUME a.phase = "confirm" PROVE Flash(a) \in BarState
    <2>1. a.step <= 2 * FLASHES - 1
      BY <1>4, BarFields
    <2>2. next \in AdjustState /\ next.step = a.step + 1 /\ next.phase = "confirm"
      BY <1>0, <1>1, <1>4, <2>1
    <2>3. ~(a.step + 1 >= 2 * FLASHES) => next.step <= 2 * FLASHES - 1
      BY <1>0, <2>2
    <2>4. ~(a.step + 1 >= 2 * FLASHES) => next \in BarState
      BY <2>2, <2>3, BarBuilt
    <2>5. Flash(a) = a \/ Flash(a) = Gone(next) \/ (~(a.step + 1 >= 2 * FLASHES) /\ Flash(a) = next)
      BY DEF Flash, next
    <2> QED
      BY <1>2, <2>2, <2>4, <2>5
  <1>5. ASSUME a.phase = "out" PROVE Slide(a) \in BarState
    <2>1. a.step <= LEVEL_MAX
      BY <1>5, BarFields
    <2>2. next \in AdjustState /\ next.step = a.step + 1 /\ next.phase = "out"
      BY <1>0, <1>1, <1>5, <2>1
    <2>3. ~(a.step + 1 >= LEVEL_MAX) => next.step <= LEVEL_MAX
      BY <1>0, <2>2
    <2>4. ~(a.step + 1 >= LEVEL_MAX) => next \in BarState
      BY <2>2, <2>3, BarBuilt
    <2>5. Slide(a) = a \/ Slide(a) = Gone(next) \/ (~(a.step + 1 >= LEVEL_MAX) /\ Slide(a) = next)
      BY DEF Slide, next
    <2> QED
      BY <1>2, <2>2, <2>4, <2>5
  <1> QED
    BY <1>3, <1>4, <1>5, SlideType DEF adjust_update

-----------------------------------------------------------------------------
(* The whole chair, typed, and a field of it at a time.                      *)

StoreState ==
    [heat : Nat, massage : Nat, lumbar : Nat, presets : [Slots -> Preset \cup {Unused}]]

\* The valves have one owner at a time, and an inflation that no finger chooses
\* stops within the ceiling: what is pumped onto is never more than it.
Owned(p) ==
    /\ p.massage_on => p.lumbar_state = "off"
    /\ p.lumbar_state = "inflate" => p.lumbar_choosing \/ p.lumbar_base_ms <= INFLATE_MAX

AirState == {p \in PneumaticsState : Owned(p)}

ChairState ==
    [button : Press!ButtonState, power : BOOLEAN, flatten : BOOLEAN,
     preset : PresetState, consumed : Buttons \cup {"none"}, adjust : BarState,
     heat : HeatState, pneu : AirState, motion : Relay!MotionState, store : StoreState]

LEMMA ChairParts ==
    ASSUME NEW c \in ChairState
    PROVE  /\ c.button \in Press!ButtonState
           /\ c.power \in BOOLEAN
           /\ c.flatten \in BOOLEAN
           /\ c.preset \in PresetState
           /\ c.consumed \in Buttons \cup {"none"}
           /\ c.adjust \in BarState
           /\ c.heat \in HeatState
           /\ c.pneu \in AirState
           /\ c.motion \in Relay!MotionState
           /\ c.store \in StoreState
  BY Zenon DEF ChairState

LEMMA ChairSet ==
    ASSUME NEW c \in ChairState
    PROVE  /\ \A x \in Press!ButtonState : [c EXCEPT !.button = x] \in ChairState
           /\ \A x \in BOOLEAN : [c EXCEPT !.power = x] \in ChairState
           /\ \A x \in BOOLEAN : [c EXCEPT !.flatten = x] \in ChairState
           /\ \A x \in PresetState : [c EXCEPT !.preset = x] \in ChairState
           /\ \A x \in Buttons \cup {"none"} : [c EXCEPT !.consumed = x] \in ChairState
           /\ \A x \in BarState : [c EXCEPT !.adjust = x] \in ChairState
           /\ \A x \in HeatState : [c EXCEPT !.heat = x] \in ChairState
           /\ \A x \in AirState : [c EXCEPT !.pneu = x] \in ChairState
           /\ \A x \in Relay!MotionState : [c EXCEPT !.motion = x] \in ChairState
           /\ \A x \in StoreState : [c EXCEPT !.store = x] \in ChairState
  <1>1. \A x \in Press!ButtonState : [c EXCEPT !.button = x] \in ChairState
    BY Zenon DEF ChairState
  <1>2. \A x \in BOOLEAN : [c EXCEPT !.power = x] \in ChairState
    BY Zenon DEF ChairState
  <1>3. \A x \in BOOLEAN : [c EXCEPT !.flatten = x] \in ChairState
    BY Zenon DEF ChairState
  <1>4. \A x \in PresetState : [c EXCEPT !.preset = x] \in ChairState
    BY Zenon DEF ChairState
  <1>5. \A x \in Buttons \cup {"none"} : [c EXCEPT !.consumed = x] \in ChairState
    BY Zenon DEF ChairState
  <1>6. \A x \in BarState : [c EXCEPT !.adjust = x] \in ChairState
    BY Zenon DEF ChairState
  <1>7. \A x \in HeatState : [c EXCEPT !.heat = x] \in ChairState
    BY Zenon DEF ChairState
  <1>8. \A x \in AirState : [c EXCEPT !.pneu = x] \in ChairState
    BY Zenon DEF ChairState
  <1>9. \A x \in Relay!MotionState : [c EXCEPT !.motion = x] \in ChairState
    BY Zenon DEF ChairState
  <1>10. \A x \in StoreState : [c EXCEPT !.store = x] \in ChairState
    BY Zenon DEF ChairState
  <1> QED
    BY <1>1, <1>2, <1>3, <1>4, <1>5, <1>6, <1>7, <1>8, <1>9, <1>10, Zenon

LEMMA StoreSet ==
    ASSUME NEW c \in ChairState, NEW n \in Nat
    PROVE  /\ [c EXCEPT !.store.heat = n] \in ChairState
           /\ [c EXCEPT !.store.massage = n] \in ChairState
           /\ [c EXCEPT !.store.lumbar = n] \in ChairState
           /\ \A s \in Slots, x \in Preset \cup {Unused} :
                 [c EXCEPT !.store.presets[s] = x] \in ChairState
           /\ c.store.heat \in Nat /\ c.store.massage \in Nat /\ c.store.lumbar \in Nat
           /\ c.store.presets \in [Slots -> Preset \cup {Unused}]
  <1>1. c.store \in StoreState
    BY ChairParts
  <1>2. /\ [c.store EXCEPT !.heat = n] \in StoreState
        /\ [c.store EXCEPT !.massage = n] \in StoreState
        /\ [c.store EXCEPT !.lumbar = n] \in StoreState
        /\ c.store.heat \in Nat /\ c.store.massage \in Nat /\ c.store.lumbar \in Nat
        /\ c.store.presets \in [Slots -> Preset \cup {Unused}]
    BY <1>1, Zenon DEF StoreState
  <1>3. ASSUME NEW s \in Slots, NEW x \in Preset \cup {Unused}
        PROVE  [c.store EXCEPT !.presets[s] = x] \in StoreState
    <2> DEFINE q == [c.store.presets EXCEPT ![s] = x]
    <2>1. q \in [Slots -> Preset \cup {Unused}]
      BY <1>2, Zenon
    <2> HIDE DEF q
    <2>2. [c.store EXCEPT !.presets = q] \in StoreState
      BY <1>1, <2>1, Zenon DEF StoreState
    <2> QED
      BY <2>2 DEF q
  <1>4. \A x \in StoreState : [c EXCEPT !.store = x] \in ChairState
    BY ChairSet
  <1> QED
    BY <1>2, <1>3, <1>4

-----------------------------------------------------------------------------
(* Heat.                                                                    *)

LEMMA RememberedLevel ==
    ASSUME NEW x
    PROVE  Remembered(x) \in Levels /\ Remembered(x) \in {0} \cup Levels
  BY BarTimes DEF Remembered

LEMMA HeatParts ==
    ASSUME NEW h \in HeatState
    PROVE  /\ h.on \in BOOLEAN /\ h.age \in 0 .. HEAT_TIMEOUT
           /\ h.level \in {0} \cup Levels /\ h.pin \in BOOLEAN
           /\ \A l \in {0} \cup Levels : [h EXCEPT !.level = l] \in HeatState
           /\ \A x \in BOOLEAN : [h EXCEPT !.pin = x] \in HeatState
           /\ \A l \in {0} \cup Levels :
                 [h EXCEPT !.on = TRUE, !.age = 0, !.level = l] \in HeatState
  <1>1. 0 \in 0 .. HEAT_TIMEOUT
    BY HeatConstants
  <1> QED
    BY <1>1, Zenon DEF HeatState

LEMMA HeatOffType == HeatOff \in HeatState
  BY HeatConstants DEF HeatOff, HeatState

\* What every call keeps: the types, and that an inflation began within the ceiling.
Fits(p) == p.lumbar_state = "inflate" => p.lumbar_base_ms <= INFLATE_MAX

Types(c, d) == d \in ChairState /\ (Fits(c.pneu) => Fits(d.pneu))

LEMMA TypesThen ==
    ASSUME NEW c, NEW d, NEW e, Types(c, d), Types(d, e)
    PROVE  Types(c, e)
  BY DEF Types

LEMMA SetTypes ==
    ASSUME NEW c \in ChairState
    PROVE  /\ Types(c, c)
           /\ \A x \in BarState : Types(c, [c EXCEPT !.adjust = x])
           /\ \A x \in HeatState : Types(c, [c EXCEPT !.heat = x])
           /\ \A x \in BOOLEAN : Types(c, [c EXCEPT !.power = x])
           /\ \A x \in BOOLEAN : Types(c, [c EXCEPT !.flatten = x])
           /\ \A x \in PresetState : Types(c, [c EXCEPT !.preset = x])
           /\ \A x \in Buttons \cup {"none"} : Types(c, [c EXCEPT !.consumed = x])
           /\ \A x \in Press!ButtonState : Types(c, [c EXCEPT !.button = x])
           /\ \A x \in Relay!MotionState : Types(c, [c EXCEPT !.motion = x])
           /\ \A x \in StoreState : Types(c, [c EXCEPT !.store = x])
  <1>1. /\ \A x : [c EXCEPT !.adjust = x].pneu = c.pneu
        /\ \A x : [c EXCEPT !.heat = x].pneu = c.pneu
        /\ \A x : [c EXCEPT !.power = x].pneu = c.pneu
        /\ \A x : [c EXCEPT !.flatten = x].pneu = c.pneu
        /\ \A x : [c EXCEPT !.preset = x].pneu = c.pneu
        /\ \A x : [c EXCEPT !.consumed = x].pneu = c.pneu
        /\ \A x : [c EXCEPT !.button = x].pneu = c.pneu
        /\ \A x : [c EXCEPT !.motion = x].pneu = c.pneu
        /\ \A x : [c EXCEPT !.store = x].pneu = c.pneu
    BY DEF ChairState
  <1>2. \A d \in ChairState : d.pneu = c.pneu => Types(c, d)
    BY DEF Types
  <1> QED
    BY <1>1, <1>2, ChairSet

LEMMA HeatTypes ==
    ASSUME NEW c \in ChairState, NEW on \in BOOLEAN, NEW want \in {0} \cup Levels
    PROVE  /\ Types(c, switch_on(c)) /\ Types(c, heat_arm(c))
           /\ Types(c, heat_use_level(c, want)) /\ Types(c, heat_set_level(c, want))
           /\ Types(c, heat_off(c)) /\ Types(c, heat_set(c, on))
           /\ Types(c, heat_press(c)) /\ Types(c, heat_update(c))
  <1>1. c.heat \in HeatState /\ c.adjust \in BarState /\ "heat" \in Owners
    BY ChairParts DEF Owners
  <1>2. \A h \in HeatState, a \in BarState :
           Types(c, [c EXCEPT !.heat = h]) /\ Types(c, [c EXCEPT !.heat = h, !.adjust = a])
    <2> SUFFICES ASSUME NEW h \in HeatState, NEW a \in BarState
                 PROVE  Types(c, [c EXCEPT !.heat = h]) /\ Types(c, [c EXCEPT !.heat = h, !.adjust = a])
      OBVIOUS
    <2> DEFINE d == [c EXCEPT !.heat = h]
    <2>1. Types(c, d) /\ d \in ChairState
      BY SetTypes, ChairSet
    <2>2. [c EXCEPT !.heat = h, !.adjust = a] = [d EXCEPT !.adjust = a]
      OBVIOUS
    <2> HIDE DEF d
    <2>3. Types(d, [d EXCEPT !.adjust = a])
      BY <2>1, SetTypes
    <2>4. Types(c, [d EXCEPT !.adjust = a])
      BY <2>1, <2>3, TypesThen
    <2> QED
      BY <2>1, <2>2, <2>4 DEF d
  <1>3. Types(c, c) /\ \A a \in BarState : Types(c, [c EXCEPT !.adjust = a])
    BY SetTypes
  <1>4. Types(c, switch_on(c))
    <2> DEFINE h == [c.heat EXCEPT !.on = TRUE, !.age = 0, !.level = Remembered(c.store.heat)]
    <2>1. h \in HeatState
      BY <1>1, HeatParts, RememberedLevel
    <2>2. switch_on(c) = c \/ switch_on(c) = [c EXCEPT !.heat = h]
      BY DEF switch_on
    <2> HIDE DEF h
    <2>3. Types(c, [c EXCEPT !.heat = h])
      BY <1>1, <1>2, <2>1
    <2> QED
      BY <1>3, <2>2, <2>3
  <1>5. Types(c, heat_arm(c))
    <2> DEFINE level == IF c.heat.on THEN c.heat.level ELSE Remembered(c.store.heat)
    <2>1. level \in {0} \cup Levels
      BY <1>1, HeatParts, RememberedLevel
    <2> HIDE DEF level
    <2>2. [c.heat EXCEPT !.level = level] \in HeatState /\ adjust_open(c.adjust, "heat", level) \in BarState
      BY <1>1, <2>1, HeatParts, BarCalls
    <2> QED
      BY <1>2, <2>2 DEF heat_arm, level
  <1>6. Types(c, heat_use_level(c, want))
    BY <1>1, <1>2, <1>3, HeatParts DEF heat_use_level
  <1>7. Types(c, heat_set_level(c, want))
    <2>1. CASE want \in Levels
      <3> DEFINE d == heat_use_level(c, want)
      <3>1. want \in Nat
        BY <2>1, BarTimes DEF Levels
      <3>2. d \in ChairState
        BY <1>6 DEF Types
      <3> HIDE DEF d
      <3>3. [d EXCEPT !.store.heat = want] \in ChairState /\ [d EXCEPT !.store.heat = want].pneu = d.pneu
        BY <3>1, <3>2, StoreSet DEF ChairState
      <3>4. Types(d, [d EXCEPT !.store.heat = want])
        BY <3>3 DEF Types
      <3>5. Types(c, [d EXCEPT !.store.heat = want])
        BY <1>6, <3>4, TypesThen DEF d
      <3> QED
        BY <2>1, <3>5 DEF heat_set_level, d
    <2> QED
      BY <1>3, <2>1 DEF heat_set_level
  <1>8. Types(c, heat_off(c))
    BY <1>1, <1>2, HeatOffType, BarCalls DEF heat_off
  <1>9. Types(c, heat_set(c, on))
    BY <1>3, <1>4, <1>8 DEF heat_set
  <1>10. Types(c, heat_press(c))
    <2> DEFINE lit  == switch_on(c)
               show == [lit EXCEPT !.adjust = adjust_show(lit.adjust, "heat", lit.heat.level)]
    <2>1. adjust_accept(c.adjust) \in BarState
      BY <1>1, BarCalls
    <2>2. lit \in ChairState
      BY <1>4 DEF Types
    <2> HIDE DEF lit
    <2>3. lit.adjust \in BarState /\ lit.heat.level \in {0} \cup Levels
      BY <2>2, ChairParts, HeatParts
    <2>4. Types(lit, show)
      BY <1>1, <2>2, <2>3, BarCalls, SetTypes
    <2>5. Types(c, show)
      BY <1>4, <2>4, TypesThen DEF lit
    <2>6. heat_press(c) \in {[c EXCEPT !.adjust = adjust_accept(c.adjust)], c, heat_off(c), show}
      BY DEF heat_press, lit
    <2> HIDE DEF show
    <2> QED
      BY <1>3, <1>8, <2>1, <2>5, <2>6
  <1>11. Types(c, heat_update(c))
    <2>1. \A x \in BOOLEAN : Types(c, [c EXCEPT !.heat.pin = x])
      BY <1>1, <1>2, HeatParts
    <2>2. (Still(c) /\ c.heat.age % HEAT_PERIOD < Span(c.heat.level)) \in BOOLEAN
      OBVIOUS
    <2> QED
      BY <1>8, <2>1, <2>2, Zenon DEF heat_update
  <1> QED
    BY <1>4, <1>5, <1>6, <1>7, <1>8, <1>9, <1>10, <1>11

LEMMA HeatElapse ==
    ASSUME NEW h \in HeatState, NEW d \in Durations
    PROVE  ElapseHeat(h, d) \in HeatState
  <1> DEFINE age == IF h.on THEN UpTo(HEAT_TIMEOUT, h.age + d) ELSE 0
  <1>1. age \in 0 .. HEAT_TIMEOUT
    <2>1. d \in Nat /\ HEAT_TIMEOUT \in Nat
      BY HeatConstants, AdjustConstants
    <2>2. h.age \in 0 .. HEAT_TIMEOUT
      BY HeatParts
    <2> QED
      BY <2>1, <2>2 DEF UpTo
  <1> HIDE DEF age
  <1>2. [h EXCEPT !.age = age] \in HeatState
    BY <1>1, Zenon DEF HeatState
  <1> QED
    BY <1>2 DEF ElapseHeat, age

-----------------------------------------------------------------------------
(* The motors, and the button.                                              *)

LEMMA MotionParts ==
    ASSUME NEW m \in Relay!MotionState
    PROVE  /\ m.requested \in Relay!Motions \cup {Relay!NONE}
           /\ m.seq \in {"idle", "settling", "first", "running"}
           /\ m.closed \in SUBSET Relay!Contacts
           /\ m.headrest_dir \in {"up", "down"}
           /\ m.fault_latched \in BOOLEAN
           /\ m.arrived_latched \in BOOLEAN
           /\ m.over \in BOOLEAN
           /\ m.zero \in BOOLEAN
           /\ m.requested_age \in 0 .. SETTLE + STAGGER
           /\ m.running_age \in Nat
           /\ m.over_age \in 0 .. STALL
           /\ m.zero_age \in 0 .. ARRIVED
           /\ m.track_age \in Nat
           /\ m.pos_recline \in 0 .. TRAVEL_RECLINE
           /\ m.pos_headrest \in 0 .. TRAVEL_HEADREST
  BY DEF Relay!MotionState

LEMMA MotionZeros ==
    /\ 0 \in Nat
    /\ 0 \in 0 .. SETTLE + STAGGER
    /\ 0 \in 0 .. STALL
    /\ 0 \in 0 .. ARRIVED
    /\ 0 \in 0 .. TRAVEL_RECLINE /\ TRAVEL_RECLINE \in 0 .. TRAVEL_RECLINE
    /\ 0 \in 0 .. TRAVEL_HEADREST /\ TRAVEL_HEADREST \in 0 .. TRAVEL_HEADREST
  BY MacroConstants

LEMMA MotionElapse ==
    ASSUME NEW m \in Relay!MotionState, NEW d \in Durations
    PROVE  Relay!Elapse(m, d) \in Relay!MotionState
  <1> DEFINE live == m.requested # Relay!NONE
  <1>1. /\ (IF live THEN Relay!AtMost(SETTLE + STAGGER, m.requested_age + d) ELSE 0)
              \in 0 .. SETTLE + STAGGER
        /\ (IF live THEN m.running_age + d ELSE 0) \in Nat
        /\ (IF live THEN m.track_age + d ELSE 0) \in Nat
        /\ (IF m.over THEN Relay!AtMost(STALL, m.over_age + d) ELSE 0) \in 0 .. STALL
        /\ (IF m.zero THEN Relay!AtMost(ARRIVED, m.zero_age + d) ELSE 0) \in 0 .. ARRIVED
    BY MotionParts, MacroConstants, AdjustConstants DEF Relay!AtMost
  <1> QED
    BY <1>1, Zenon DEF Relay!MotionState, Relay!Elapse

LEMMA MotionStop ==
    ASSUME NEW m \in Relay!MotionState
    PROVE  Relay!motion_stop(m) \in Relay!MotionState
  BY Zenon DEF Relay!MotionState, Relay!motion_stop

LEMMA MotionTurn ==
    ASSUME NEW m \in Relay!MotionState, NEW want
    PROVE  Relay!select_direction(m, want) \in Relay!MotionState
  BY DEF Relay!MotionState, Relay!select_direction

LEMMA MotionBegin ==
    ASSUME NEW m \in Relay!MotionState, NEW want \in Relay!Motions
    PROVE  Relay!Begin(m, want) \in Relay!MotionState
  <1> DEFINE s == Relay!select_direction(Relay!motion_stop(m), want)
  <1>1. s \in Relay!MotionState
    BY MotionStop, MotionTurn
  <1> HIDE DEF s
  <1>2. [s EXCEPT !.requested = want, !.requested_age = 0, !.seq = "settling",
                  !.zero = FALSE, !.running_age = 0, !.track_age = 0]
            \in Relay!MotionState
    BY <1>1, MotionZeros, Zenon DEF Relay!MotionState
  <1> QED
    BY <1>2 DEF s, Relay!Begin

LEMMA MotionUnlatch ==
    ASSUME NEW m \in Relay!MotionState
    PROVE  Relay!Unlatch(m) \in Relay!MotionState
  BY Zenon DEF Relay!MotionState, Relay!Unlatch

LEMMA MotionRequest ==
    ASSUME NEW m \in Relay!MotionState, NEW want \in Relay!Motions \cup {Relay!NONE}
    PROVE  Relay!motion_request(m, want) \in Relay!MotionState
  BY MotionUnlatch, MotionStop, MotionBegin DEF Relay!motion_request

LEMMA MotionFirst ==
    ASSUME NEW m \in Relay!MotionState
    PROVE  Relay!CloseFirst(m) \in Relay!MotionState
  <1>1. m.closed \cup Relay!engage_first(m.requested) \in SUBSET Relay!Contacts
    BY MotionParts DEF Relay!engage_first
  <1> QED
    BY <1>1, MotionZeros, Zenon DEF Relay!MotionState, Relay!CloseFirst

LEMMA MotionSecond ==
    ASSUME NEW m \in Relay!MotionState
    PROVE  Relay!CloseSecond(m) \in Relay!MotionState
  <1>1. m.closed \cup Relay!engage_second(m.requested) \in SUBSET Relay!Contacts
    BY MotionParts DEF Relay!engage_second
  <1> QED
    BY <1>1, Zenon DEF Relay!MotionState, Relay!CloseSecond

LEMMA MotionSequence ==
    ASSUME NEW m \in Relay!MotionState
    PROVE  Relay!Sequence(m) \in Relay!MotionState
  BY MotionFirst, MotionSecond DEF Relay!Sequence

LEMMA MotionAdvance ==
    ASSUME NEW travel \in Nat, NEW pos \in 0 .. travel, NEW d \in Nat
    PROVE  Relay!Raise(pos, travel, d) \in 0 .. travel /\ Relay!Lower(pos, d) \in 0 .. travel
  BY DEF Relay!Raise, Relay!Lower

LEMMA MotionTrack ==
    ASSUME NEW m \in Relay!MotionState
    PROVE  Relay!track(m) \in Relay!MotionState
  <1> DEFINE d == m.track_age
             r == IF m.requested = "recline_up"
                  THEN Relay!Raise(m.pos_recline, TRAVEL_RECLINE, d)
                  ELSE IF m.requested \in {"recline_down", "flatten"}
                  THEN Relay!Lower(m.pos_recline, d) ELSE m.pos_recline
             h == IF m.requested = "headrest_up"
                  THEN Relay!Raise(m.pos_headrest, TRAVEL_HEADREST, d)
                  ELSE IF m.requested \in {"headrest_down", "flatten"}
                  THEN Relay!Lower(m.pos_headrest, d) ELSE m.pos_headrest
  <1>1. r \in 0 .. TRAVEL_RECLINE /\ h \in 0 .. TRAVEL_HEADREST
    BY MotionParts, MotionAdvance, MacroConstants
  <1> QED
    BY <1>1, MotionZeros, Zenon DEF Relay!MotionState, Relay!track

LEMMA MotionOver ==
    ASSUME NEW m \in Relay!MotionState, NEW current
    PROVE  Relay!Overcurrent(m, current) \in Relay!MotionState
  <1>1. /\ [m EXCEPT !.over = FALSE] \in Relay!MotionState
        /\ [m EXCEPT !.over = TRUE, !.over_age = 0] \in Relay!MotionState
    BY MotionZeros, Zenon DEF Relay!MotionState
  <1> QED
    BY <1>1 DEF Relay!Overcurrent

LEMMA MotionUnder ==
    ASSUME NEW m \in Relay!MotionState, NEW current
    PROVE  Relay!Undercurrent(m, current) \in Relay!MotionState
  <1>1. /\ [m EXCEPT !.zero = FALSE] \in Relay!MotionState
        /\ [m EXCEPT !.zero = TRUE, !.zero_age = 0] \in Relay!MotionState
    BY MotionZeros, Zenon DEF Relay!MotionState
  <1> QED
    BY <1>1 DEF Relay!Undercurrent

LEMMA MotionFault ==
    ASSUME NEW m \in Relay!MotionState
    PROVE  Relay!Fault(m) \in Relay!MotionState
  BY MotionStop, Zenon DEF Relay!MotionState, Relay!Fault, Relay!motion_stop

LEMMA MotionAtStop ==
    ASSUME NEW m \in Relay!MotionState
    PROVE  Relay!AtStop(m) \in Relay!MotionState
  <1> DEFINE r == IF m.requested = "recline_up" THEN TRAVEL_RECLINE
                  ELSE IF m.requested \in {"recline_down", "flatten"} THEN 0
                  ELSE m.pos_recline
             h == IF m.requested = "headrest_up" THEN TRAVEL_HEADREST
                  ELSE IF m.requested \in {"headrest_down", "flatten"} THEN 0
                  ELSE m.pos_headrest
  <1>1. r \in 0 .. TRAVEL_RECLINE /\ h \in 0 .. TRAVEL_HEADREST
    BY MotionParts, MotionZeros
  <1> QED
    BY <1>1, Zenon DEF Relay!MotionState, Relay!AtStop

LEMMA MotionArrive ==
    ASSUME NEW m \in Relay!MotionState
    PROVE  Relay!Arrive(m) \in Relay!MotionState
  <1>1. [Relay!motion_stop(m) EXCEPT !.arrived_latched = TRUE] \in Relay!MotionState
    BY Zenon DEF Relay!MotionState, Relay!motion_stop
  <1> QED
    BY <1>1, MotionAtStop DEF Relay!Arrive

LEMMA MotionUpdate ==
    ASSUME NEW m \in Relay!MotionState, NEW current
    PROVE  Relay!motion_update(m, current) \in Relay!MotionState
  BY MotionSequence, MotionTrack, MotionOver, MotionUnder, MotionFault, MotionArrive
     DEF Relay!motion_update, Relay!EndStall, Relay!EndArrival, Relay!EndTimeout

LEMMA ButtonParts ==
    ASSUME NEW b \in Press!ButtonState
    PROVE  /\ b.prev \in Buttons \cup {"none"} /\ b.down_age \in 0 .. WORD - 1
           /\ b.hold_done \in BOOLEAN /\ b.tapped \in BOOLEAN
           /\ b.tap_button \in Buttons \cup {"none"} /\ b.tap_age \in 0 .. WORD - 1
  BY DEF Press!ButtonState, Press!Codes, Press!NONE, Press!Tick

LEMMA ButtonZeros == WORD \in Nat \ {0} /\ HOLD \in Nat /\ 0 \in Press!Tick /\ "none" \in Press!Codes
  BY ControlConstants DEF Press!Tick, Press!Codes, Press!NONE

\* Ages wrap with the word; one that is kept no further than a hold stays in it.
LEMMA ButtonElapse ==
    ASSUME NEW b \in Press!ButtonState, NEW d \in Durations
    PROVE  ElapseButton(b, d) \in Press!ButtonState
  <1>1. d \in Nat
    BY AdjustConstants
  <1> DEFINE down == IF b.prev # Press!NONE /\ ~b.hold_done THEN (b.down_age + d) % WORD ELSE 0
             tap  == IF b.tapped THEN (b.tap_age + d) % WORD ELSE 0
             e    == Press!Elapse(b, d)
  <1>2. \A x \in Nat : x % WORD \in Press!Tick /\ UpTo(HOLD, x % WORD) \in Press!Tick
    <2>1. \A x \in Nat : x % WORD \in 0 .. WORD - 1
      BY ButtonZeros
    <2>2. \A y \in 0 .. WORD - 1 : UpTo(HOLD, y) \in 0 .. WORD - 1
      BY ButtonZeros DEF UpTo
    <2> QED
      BY <2>1, <2>2 DEF Press!Tick
  <1>3. down \in Press!Tick /\ tap \in Press!Tick /\ UpTo(HOLD, down) \in Press!Tick
    <2>1. b.down_age + d \in Nat /\ b.tap_age + d \in Nat
      BY <1>1, ButtonParts
    <2>2. UpTo(HOLD, 0) = 0
      BY ButtonZeros DEF UpTo
    <2> QED
      BY <1>2, <2>1, <2>2, ButtonZeros
  <1>4. e = [b EXCEPT !.down_age = down, !.tap_age = tap]
    BY DEF Press!Elapse
  <1> HIDE DEF down, tap, e
  <1>5. e \in Press!ButtonState /\ e.down_age = down
    BY <1>3, <1>4, Zenon DEF Press!ButtonState
  <1>6. e.tap_age \in Press!Tick /\ e.tap_button \in Press!Codes
    BY <1>5, Zenon DEF Press!ButtonState
  <1> DEFINE fresh == e.tapped /\ e.tap_age <= DOUBLE
             a     == IF fresh THEN e.tap_age ELSE 0
             t     == IF fresh THEN e.tap_button ELSE "none"
  <1>7. fresh \in BOOLEAN /\ a \in Press!Tick /\ t \in Press!Codes
    BY <1>6, ButtonZeros
  <1>8. ElapseButton(b, d) =
           [e EXCEPT !.down_age = UpTo(HOLD, down), !.tapped = fresh, !.tap_age = a, !.tap_button = t]
    BY <1>5 DEF ElapseButton, e
  <1> HIDE DEF fresh, a, t
  <1>9. [e EXCEPT !.down_age = UpTo(HOLD, down), !.tapped = fresh, !.tap_age = a, !.tap_button = t]
            \in Press!ButtonState
    BY <1>3, <1>5, <1>7, Zenon DEF Press!ButtonState
  <1> QED
    BY <1>8, <1>9

LEMMA ButtonUpdate ==
    ASSUME NEW b \in Press!ButtonState, NEW key \in Buttons \cup {"none"}
    PROVE  Press!Updated(b, key) \in Press!ButtonState
  <1>1. key \in Press!Codes /\ b.prev \in Press!Codes /\ Press!NONE \in Press!Codes
    BY ButtonParts DEF Press!Codes, Press!NONE
  <1>2. Press!Pressed(b, key) \in Press!ButtonState
    BY <1>1, ButtonZeros, Zenon DEF Press!Pressed, Press!ButtonState
  <1>3. /\ [b EXCEPT !.prev = Press!NONE] \in Press!ButtonState
        /\ [b EXCEPT !.prev = Press!NONE, !.tapped = FALSE, !.tap_age = 0] \in Press!ButtonState
        /\ [b EXCEPT !.prev = Press!NONE, !.tapped = TRUE, !.tap_age = 0, !.tap_button = b.prev]
               \in Press!ButtonState
        /\ [b EXCEPT !.hold_done = TRUE, !.down_age = 0] \in Press!ButtonState
    BY <1>1, ButtonZeros, Zenon DEF Press!ButtonState
  <1>4. Press!Released(b) \in Press!ButtonState
    BY <1>3 DEF Press!Released
  <1> QED
    BY <1>2, <1>3, <1>4 DEF Press!Updated

-----------------------------------------------------------------------------
(* The air cells: what the times stop at.                                    *)

\* One of the values of a finite sequence is the largest: there is no first place
\* up to which none is.
LEMMA LongestOf ==
    ASSUME NEW N \in Nat \ {0}, NEW f \in [1 .. N -> Nat]
    PROVE  \E i \in 1 .. N : \A j \in 1 .. N : f[j] <= f[i]
  <1> DEFINE Best(n) == \E i \in 1 .. n : \A j \in 1 .. n : f[j] <= f[i]
             T == {n \in 1 .. N : ~Best(n)}
             R == OpToRel(<, Nat)
  <1>1. CASE T = {}
    <2>1. N \in 1 .. N
      OBVIOUS
    <2> QED
      BY <1>1, <2>1
  <1>2. CASE T # {}
    <2>1. \E x \in T : \A y \in T : ~(<<y, x>> \in R)
      <3>1. T \subseteq Nat
        OBVIOUS
      <3> HIDE DEF T
      <3> QED
        BY <1>2, <3>1, NatLessThanWellFounded, WFMin
    <2>2. PICK x \in T : \A y \in T : ~(<<y, x>> \in R)
      BY <2>1
    <2>3. \A y \in Nat : y < x => <<y, x>> \in R
      BY DEF OpToRel
    <2>4. x \in 1 .. N /\ ~Best(x)
      OBVIOUS
    <2>5. x # 1
      <3>1. Best(1)
        BY SMT
      <3> QED
        BY <2>4, <3>1
    <2>6. Best(x - 1)
      <3>1. x - 1 \in 1 .. N /\ x - 1 < x /\ x - 1 \in Nat
        BY <2>4, <2>5
      <3>2. ~(x - 1 \in T)
        BY <2>2, <2>3, <3>1
      <3> QED
        BY <3>1, <3>2
    <2>7. PICK i \in 1 .. x - 1 : \A j \in 1 .. x - 1 : f[j] <= f[i]
      BY <2>6
    <2>8. f[x] \in Nat /\ f[i] \in Nat /\ i \in 1 .. N /\ i \in 1 .. x /\ x \in 1 .. x
          /\ \A j \in 1 .. x : f[j] \in Nat /\ (j = x \/ j \in 1 .. x - 1)
      BY <2>4, <2>5
    <2>9. CASE f[x] <= f[i]
      <3>1. \A j \in 1 .. x : f[j] <= f[i]
        BY <2>7, <2>8, <2>9
      <3> QED
        BY <2>4, <2>8, <3>1
    <2>10. CASE f[i] <= f[x]
      <3>1. \A j \in 1 .. x : f[j] <= f[x]
        BY <2>7, <2>8, <2>10
      <3> QED
        BY <2>4, <2>8, <3>1
    <2> QED
      BY <2>8, <2>9, <2>10
  <1> QED
    BY <1>1, <1>2

\* The same of a table.
LEMMA LongestOfAll ==
    ASSUME NEW M \in Nat \ {0}, NEW N \in Nat \ {0}, NEW g \in [1 .. M -> [1 .. N -> Nat]]
    PROVE  \E i \in 1 .. M, k \in 1 .. N : \A j \in 1 .. M, l \in 1 .. N : g[j][l] <= g[i][k]
  <1>1. \A i \in 1 .. M : g[i] \in [1 .. N -> Nat]
    OBVIOUS
  <1>2. \A i \in 1 .. M : \E k \in 1 .. N : \A l \in 1 .. N : g[i][l] <= g[i][k]
    BY <1>1, LongestOf
  <1> DEFINE Best(i) == CHOOSE k \in 1 .. N : \A l \in 1 .. N : g[i][l] <= g[i][k]
             f == [i \in 1 .. M |-> g[i][Best(i)]]
  <1>3. \A i \in 1 .. M : Best(i) \in 1 .. N /\ \A l \in 1 .. N : g[i][l] <= g[i][Best(i)]
    BY <1>2
  <1> HIDE DEF Best
  <1>4. f \in [1 .. M -> Nat]
    BY <1>1, <1>3
  <1>5. PICK i \in 1 .. M : \A j \in 1 .. M : f[j] <= f[i]
    <2> HIDE DEF f
    <2> QED
      BY <1>4, LongestOf
  <1>6. \A j \in 1 .. M, l \in 1 .. N :
           /\ g[j][l] \in Nat /\ g[j][Best(j)] \in Nat /\ g[i][Best(i)] \in Nat
           /\ g[j][l] <= g[j][Best(j)] /\ g[j][Best(j)] <= g[i][Best(i)]
    BY <1>1, <1>3, <1>5
  <1>7. ASSUME NEW j \in 1 .. M, NEW l \in 1 .. N PROVE g[j][l] <= g[i][Best(i)]
    <2>1. \A x, y, z \in Nat : x <= y /\ y <= z => x <= z
      OBVIOUS
    <2>2. /\ g[j][l] \in Nat /\ g[j][Best(j)] \in Nat /\ g[i][Best(i)] \in Nat
          /\ g[j][l] <= g[j][Best(j)] /\ g[j][Best(j)] <= g[i][Best(i)]
      BY <1>6
    <2> HIDE DEF f
    <2> QED
      BY <2>1, <2>2, Zenon
  <1> QED
    BY <1>3, <1>7

LEMMA Ceiling ==
    /\ INFLATE_MAX \in Nat /\ TENTH \in Nat \ {0}
    /\ \E n \in Nat : INFLATE_MAX = n * TENTH
  <1>1. TENTH \in Nat \ {0} /\ INFLATE_MAX \in {n * TENTH : n \in 0 .. 255}
    BY PneumaticsConstants
  <1>2. PICK n \in 0 .. 255 : INFLATE_MAX = n * TENTH
    BY <1>1
  <1>3. n * TENTH \in Nat
    BY <1>1
  <1> QED
    BY <1>1, <1>2, <1>3

LEMMA Division ==
    ASSUME NEW x \in Nat, NEW k \in Nat \ {0}
    PROVE  /\ x \div k \in Nat /\ (x \div k) * k \in Nat
           /\ (x \div k) * k <= x /\ x < (x \div k) * k + k
  OBVIOUS

LEMMA Products ==
    ASSUME NEW m \in Nat, NEW n \in Nat, NEW k \in Nat \ {0}
    PROVE  /\ m * k \in Nat
           /\ m * k < n * k + k => m <= n
           /\ m <= n => m * k <= n * k
  <1>1. m * k \in Nat /\ n * k \in Nat
    OBVIOUS
  <1>2. m <= n => m * k <= n * k
    OBVIOUS
  <1>3. m >= n + 1 => m * k >= n * k + k
    <2>1. (n + 1) * k = n * k + k
      OBVIOUS
    <2>2. m >= n + 1 => m * k >= (n + 1) * k
      OBVIOUS
    <2> QED
      BY <2>1, <2>2
  <1> QED
    BY <1>1, <1>2, <1>3

\* What a level is stored as is within the ceiling.
LEMMA Rounding ==
    ASSUME NEW x \in Nat
    PROVE  LET tenths == (UpTo(INFLATE_MAX, x) + TENTH \div 2) \div TENTH IN
           tenths \in Nat /\ tenths * TENTH \in 0 .. INFLATE_MAX
  <1> DEFINE y == UpTo(INFLATE_MAX, x)
             h == TENTH \div 2
             m == (y + h) \div TENTH
  <1>1. PICK n \in Nat : INFLATE_MAX = n * TENTH
    BY Ceiling
  <1>2. y \in Nat /\ y <= INFLATE_MAX
    BY Ceiling DEF UpTo
  <1>3. h \in Nat /\ h < TENTH /\ TENTH \in Nat \ {0}
    BY Ceiling
  <1> HIDE DEF y, h
  <1>4. m \in Nat /\ m * TENTH \in Nat /\ m * TENTH <= y + h
    BY <1>2, <1>3, Division
  <1> HIDE DEF m
  <1>5. m <= n
    <2>1. m * TENTH < n * TENTH + TENTH
      BY <1>1, <1>2, <1>3, <1>4, Ceiling
    <2> QED
      BY <2>1, <1>3, <1>4, Products
  <1>6. m * TENTH <= INFLATE_MAX
    BY <1>1, <1>3, <1>4, <1>5, Products
  <1> QED
    BY <1>4, <1>6, Ceiling DEF m, y, h

LEMMA Targets ==
    ASSUME NEW n \in Nat
    PROVE  Target(n) \in Nat
  <1>1. LUMBAR_DEFAULT \in Nat
    BY Ceiling DEF LUMBAR_DEFAULT
  <1>2. n * TENTH \in Nat
    BY Ceiling, Products
  <1> QED
    BY <1>1, <1>2 DEF Target

\* The pattern is one of steps, each with a length for every level.
LEMMA Patterned ==
    /\ Len(Pattern) \in Nat \ {0} /\ DOMAIN Pattern = 1 .. Len(Pattern)
    /\ \A s \in 1 .. Len(Pattern) : Pattern[s].bits \in SUBSET Valves
    /\ \A s \in 1 .. Len(Pattern), l \in Levels : Pattern[s].len[l] \in Nat
  <1> DEFINE R == [bits : SUBSET Valves, len : [Levels -> Nat]]
  <1>1. Pattern \in Seq(R) /\ Pattern # <<>>
    BY PneumaticsConstants
  <1>2. \A r \in R : r.bits \in SUBSET Valves /\ \A l \in Levels : r.len[l] \in Nat
    OBVIOUS
  <1> HIDE DEF R
  <1>3. DOMAIN Pattern = 1 .. Len(Pattern) /\ Len(Pattern) \in Nat \ {0}
        /\ \A s \in 1 .. Len(Pattern) : Pattern[s] \in R
    BY <1>1
  <1> QED
    BY <1>2, <1>3

LEMMA AirTimes ==
    /\ MASSAGE_TIMEOUT \in Nat /\ VENT \in Nat /\ PUMP_DELAY \in Nat /\ LONGEST_PAUSE \in Nat
    /\ StepCap \in Nat /\ StartCap \in Nat /\ LumbarCap \in Nat /\ INFLATE_MAX \in Nat
  <1>1. MASSAGE_TIMEOUT \in Nat /\ VENT \in Nat /\ PUMP_DELAY \in Nat /\ LONGEST_PAUSE \in Nat
        /\ INFLATE_MAX \in Nat
    BY PneumaticsConstants, Ceiling
  <1> DEFINE M == Len(Pattern)
             g == [s \in 1 .. M |-> [l \in 1 .. LEVEL_MAX |-> Pattern[s].len[l]]]
             S == {Pattern[s].len[l] : s \in DOMAIN Pattern, l \in Levels}
             Above(n) == \A s \in DOMAIN Pattern, l \in Levels : Pattern[s].len[l] <= n
             longest == CHOOSE n \in S : Above(n)
  <1>2. M \in Nat \ {0} /\ LEVEL_MAX \in Nat \ {0} /\ Levels = 1 .. LEVEL_MAX
        /\ DOMAIN Pattern = 1 .. M
    BY Patterned, BarTimes DEF Levels
  <1>3. g \in [1 .. M -> [1 .. LEVEL_MAX -> Nat]]
    BY <1>2, Patterned
  <1>4. PICK i \in 1 .. M, k \in 1 .. LEVEL_MAX :
           \A j \in 1 .. M, l \in 1 .. LEVEL_MAX : g[j][l] <= g[i][k]
    <2> HIDE DEF g, M
    <2> QED
      BY <1>2, <1>3, LongestOfAll
  <1>5. \A s \in 1 .. M, l \in 1 .. LEVEL_MAX : g[s][l] = Pattern[s].len[l]
    OBVIOUS
  <1> HIDE DEF g
  <1>6. Pattern[i].len[k] \in S /\ Above(Pattern[i].len[k])
    <2>1. Above(Pattern[i].len[k])
      BY <1>2, <1>4, <1>5
    <2>2. Pattern[i].len[k] \in S
      BY <1>2, <1>4
    <2> QED
      BY <2>1, <2>2
  <1>7. S \subseteq Nat
    BY <1>2, Patterned
  <1>8. StepCap = LONGEST_PAUSE + longest
    BY DEF StepCap
  <1> HIDE DEF S, Above, M
  <1>9. longest \in Nat
    BY <1>6, <1>7
  <1> HIDE DEF longest
  <1> QED
    BY <1>1, <1>8, <1>9 DEF StartCap, LumbarCap

-----------------------------------------------------------------------------
(* The air cells: the calls on their record.                                 *)

LEMMA AirParts ==
    ASSUME NEW p \in PneumaticsState
    PROVE  /\ p.massage_on \in BOOLEAN /\ p.massage_level \in Levels
           /\ p.massage_step \in 1 .. Len(Pattern) /\ p.step_started \in BOOLEAN
           /\ p.step_age \in 0 .. StepCap /\ p.start_age \in 0 .. StartCap
           /\ p.lumbar_state \in {"off", "inflate", "hold", "deflate"}
           /\ p.lumbar_age \in 0 .. LumbarCap /\ p.lumbar_target_ms \in Nat
           /\ p.lumbar_choosing \in BOOLEAN
           /\ p.lumbar_base_ms \in 0 .. INFLATE_MAX + LumbarCap
           /\ p.lumbar_level_ms \in 0 .. INFLATE_MAX
           /\ p.paused \in BOOLEAN /\ p.pause_age \in 0 .. LONGEST_PAUSE
           /\ p.venting \in BOOLEAN /\ p.vent_age \in 0 .. VENT
           /\ p.valves_now \in SUBSET Valves /\ p.closed_age \in 0 .. PUMP_DELAY
           /\ p.pump \in BOOLEAN
  BY Zenon DEF PneumaticsState

LEMMA AirZeros ==
    /\ 0 \in Nat /\ 0 \in 0 .. StepCap /\ 0 \in 0 .. StartCap /\ 0 \in 0 .. LumbarCap
    /\ 0 \in 0 .. INFLATE_MAX + LumbarCap /\ 0 \in 0 .. INFLATE_MAX /\ 0 \in 0 .. LONGEST_PAUSE
    /\ 0 \in 0 .. VENT /\ 0 \in 0 .. PUMP_DELAY /\ 1 \in 1 .. Len(Pattern)
    /\ {} \in SUBSET Valves /\ {"vent"} \in SUBSET Valves /\ {"bottom"} \in SUBSET Valves
    /\ LEVEL_MAX \in Levels /\ INFLATE_MAX \in Nat
  <1>1. 1 \in 1 .. Len(Pattern)
    BY Patterned
  <1> QED
    BY <1>1, AirTimes, BarTimes DEF Valves, CellValves

\* What Owned and Fits are about is as it was.
Shared(p, q) ==
    /\ q.massage_on = p.massage_on /\ q.lumbar_state = p.lumbar_state
    /\ q.lumbar_choosing = p.lumbar_choosing /\ q.lumbar_base_ms = p.lumbar_base_ms

Alike(p, q) == q \in PneumaticsState /\ Shared(p, q)

LEMMA AlikeThen ==
    ASSUME NEW p, NEW q, NEW r, Alike(p, q), Alike(q, r)
    PROVE  Alike(p, r)
  BY DEF Alike, Shared

LEMMA AlikeAir ==
    ASSUME NEW p \in AirState, NEW q, Alike(p, q)
    PROVE  q \in AirState /\ (Fits(p) => Fits(q))
  BY DEF Alike, Shared, AirState, Owned, Fits

LEMMA PumpType ==
    ASSUME NEW p \in PneumaticsState
    PROVE  Alike(p, pump_update(p))
  <1> DEFINE q == [p EXCEPT !.closed_age = 0, !.pump = FALSE]
             r == [p EXCEPT !.pump = p.closed_age >= PUMP_DELAY]
  <1>1. q \in PneumaticsState /\ Shared(p, q)
    BY AirZeros, Zenon DEF PneumaticsState, Shared
  <1>2. (p.closed_age >= PUMP_DELAY) \in BOOLEAN
    <2>1. p.closed_age \in Nat /\ PUMP_DELAY \in Nat
      BY AirParts, AirTimes
    <2> QED
      BY <2>1
  <1>3. r \in PneumaticsState /\ Shared(p, r)
    BY <1>2, Zenon DEF PneumaticsState, Shared
  <1> HIDE DEF q, r
  <1> QED
    BY <1>1, <1>3 DEF pump_update, Alike, q, r

LEMMA ValvesType ==
    ASSUME NEW p \in PneumaticsState, NEW bits \in SUBSET Valves
    PROVE  Alike(p, valves_set(p, bits))
  <1> DEFINE q == [p EXCEPT !.valves_now = bits]
  <1>1. Alike(p, q) /\ q \in PneumaticsState
    BY Zenon DEF PneumaticsState, Shared, Alike
  <1> HIDE DEF q
  <1>2. Alike(q, pump_update(q))
    BY <1>1, PumpType
  <1>3. Alike(p, pump_update(q))
    BY <1>1, <1>2, AlikeThen
  <1> QED
    BY <1>3 DEF valves_set, q

LEMMA VentType ==
    ASSUME NEW p \in PneumaticsState
    PROVE  Alike(p, start_vent(p)) /\ Alike(p, vent_tick(p))
  <1> DEFINE v == valves_set(p, {"vent"})
             q == [v EXCEPT !.vent_age = 0, !.venting = TRUE]
             r == [p EXCEPT !.venting = FALSE, !.vent_age = 0]
  <1>1. Alike(p, v) /\ v \in PneumaticsState
    BY AirZeros, ValvesType DEF Alike
  <1>2. Alike(p, r) /\ r \in PneumaticsState
    BY AirZeros, Zenon DEF PneumaticsState, Shared, Alike
  <1> HIDE DEF v
  <1>3. Alike(v, q)
    BY <1>1, AirZeros, Zenon DEF PneumaticsState, Shared, Alike
  <1> HIDE DEF q, r
  <1>4. Alike(r, valves_set(r, {}))
    BY <1>2, AirZeros, ValvesType
  <1>5. Alike(p, q) /\ Alike(p, valves_set(r, {}))
    BY <1>1, <1>2, <1>3, <1>4, AlikeThen
  <1> QED
    BY <1>1, <1>5 DEF start_vent, vent_tick, v, q, r

LEMMA LumbarSetType ==
    ASSUME NEW p \in PneumaticsState, NEW state \in {"off", "inflate", "hold", "deflate"}
    PROVE  LET q == set_lumbar(p, state) IN
           /\ q \in PneumaticsState /\ q.massage_on = p.massage_on /\ q.lumbar_state = state
           /\ q.lumbar_choosing = p.lumbar_choosing /\ q.lumbar_base_ms = p.lumbar_base_ms
  <1> DEFINE q == [p EXCEPT !.lumbar_state = state, !.lumbar_age = 0,
                            !.venting = FALSE, !.vent_age = 0]
  <1>1. /\ q \in PneumaticsState /\ q.massage_on = p.massage_on /\ q.lumbar_state = state
        /\ q.lumbar_choosing = p.lumbar_choosing /\ q.lumbar_base_ms = p.lumbar_base_ms
    BY AirZeros, Zenon DEF PneumaticsState
  <1> HIDE DEF q
  <1> QED
    BY <1>1 DEF set_lumbar, q

LEMMA MassageTickType ==
    ASSUME NEW p \in PneumaticsState
    PROVE  Alike(p, massage_tick(p))
  <1> DEFINE len  == Pattern[p.massage_step].len[p.massage_level]
             step == (p.massage_step % Len(Pattern)) + 1
             next == IF ~p.step_started
                     THEN [p EXCEPT !.step_started = TRUE, !.step_age = 0]
                     ELSE IF p.step_age < len THEN p
                     ELSE [p EXCEPT !.massage_step = (@ % Len(Pattern)) + 1, !.step_age = 0]
  <1>1. massage_tick(p) = valves_set(next, Pattern[next.massage_step].bits)
    BY DEF massage_tick
  <1>2. step \in 1 .. Len(Pattern)
    <2>1. ASSUME NEW s \in Nat, NEW n \in Nat \ {0} PROVE (s % n) + 1 \in 1 .. n
      OBVIOUS
    <2>2. p.massage_step \in Nat /\ Len(Pattern) \in Nat \ {0}
      BY AirParts, Patterned
    <2> QED
      BY <2>1, <2>2
  <1> HIDE DEF step
  <1>3. /\ Alike(p, [p EXCEPT !.step_started = TRUE, !.step_age = 0])
        /\ Alike(p, [p EXCEPT !.massage_step = step, !.step_age = 0])
        /\ Alike(p, p)
    BY <1>2, AirZeros, Zenon DEF PneumaticsState, Shared, Alike
  <1>4. \/ next = [p EXCEPT !.step_started = TRUE, !.step_age = 0]
        \/ next = p
        \/ next = [p EXCEPT !.massage_step = step, !.step_age = 0]
    BY DEF step
  <1> HIDE DEF next
  <1>5. Alike(p, next)
    BY <1>3, <1>4
  <1>6. next \in PneumaticsState /\ Pattern[next.massage_step].bits \in SUBSET Valves
    BY <1>5, AirParts, Patterned DEF Alike
  <1> QED
    BY <1>1, <1>5, <1>6, ValvesType, AlikeThen

LEMMA DeflateType ==
    ASSUME NEW p \in AirState, p.lumbar_state = "deflate"
    PROVE  DeflateTick(p) \in AirState /\ Fits(DeflateTick(p))
  <1> DEFINE open == valves_set(p, {"vent"})
             shut == [open EXCEPT !.lumbar_state = "off"]
  <1>1. p \in PneumaticsState
    BY DEF AirState
  <1>2. Alike(p, open)
    BY <1>1, AirZeros, ValvesType
  <1> HIDE DEF open
  <1>3. open \in AirState /\ open.lumbar_state = "deflate"
    BY <1>2, AlikeAir DEF Alike, Shared
  <1>4. shut \in PneumaticsState /\ shut.lumbar_state = "off"
    BY <1>2, Zenon DEF PneumaticsState, Alike
  <1> HIDE DEF shut
  <1>5. shut \in AirState
    BY <1>4 DEF AirState, Owned
  <1>6. Alike(shut, valves_set(shut, {}))
    BY <1>4, AirZeros, ValvesType
  <1>7. valves_set(shut, {}) \in AirState /\ valves_set(shut, {}).lumbar_state = "off"
    BY <1>4, <1>5, <1>6, AlikeAir DEF Alike, Shared
  <1> QED
    BY <1>3, <1>7 DEF DeflateTick, Fits, open, shut

LEMMA UnpauseType ==
    ASSUME NEW p \in AirState
    PROVE  Unpause(p) \in AirState /\ (Fits(p) => Fits(Unpause(p)))
  <1> DEFINE Credit(age) == IF started_before_pause(p, age) THEN age - p.pause_age ELSE age
             step  == IF p.step_started THEN Credit(p.step_age) ELSE p.step_age
             start == Credit(p.start_age)
             lumb  == IF p.lumbar_state = "deflate" THEN p.lumbar_age ELSE Credit(p.lumbar_age)
             q     == [p EXCEPT !.paused = FALSE, !.pause_age = 0, !.step_age = step,
                                !.start_age = start, !.lumbar_age = lumb]
  <1>1. p \in PneumaticsState
    BY DEF AirState
  <1>2. Unpause(p) = q
    BY DEF Unpause
  <1>3. ASSUME NEW cap \in Nat, NEW age \in 0 .. cap PROVE Credit(age) \in 0 .. cap
    <2>1. p.pause_age \in Nat
      BY <1>1, AirParts, AirTimes
    <2> QED
      BY <2>1 DEF started_before_pause
  <1> HIDE DEF Credit
  <1>4. step \in 0 .. StepCap /\ start \in 0 .. StartCap /\ lumb \in 0 .. LumbarCap
    BY <1>1, <1>3, AirParts, AirTimes
  <1> HIDE DEF step, start, lumb
  <1>5. Alike(p, q)
    BY <1>1, <1>4, AirZeros, Zenon DEF PneumaticsState, Shared, Alike
  <1> HIDE DEF q
  <1> QED
    BY <1>2, <1>5, AlikeAir

LEMMA CapTo ==
    ASSUME NEW cap \in Nat, NEW n \in Nat
    PROVE  UpTo(cap, n) \in 0 .. cap
  BY DEF UpTo

\* Forgetting sets back what means nothing, of which Owned says nothing.
LEMMA ForgetType ==
    ASSUME NEW p \in AirState
    PROVE  Forget(p) \in AirState /\ (Fits(p) => Fits(Forget(p)))
  <1> DEFINE level  == IF p.massage_on THEN p.massage_level ELSE LEVEL_MAX
             step   == IF p.massage_on THEN p.massage_step ELSE 1
             begun  == p.massage_on /\ p.step_started
             target == IF p.lumbar_state = "inflate" THEN p.lumbar_target_ms ELSE 0
             choose == p.lumbar_state = "inflate" /\ p.lumbar_choosing
             base   == IF p.lumbar_state = "inflate" THEN p.lumbar_base_ms ELSE 0
             q      == [p EXCEPT !.massage_level = level, !.massage_step = step,
                                 !.step_started = begun, !.lumbar_target_ms = target,
                                 !.lumbar_choosing = choose, !.lumbar_base_ms = base]
  <1>1. p \in PneumaticsState
    BY DEF AirState
  <1>2. Forget(p) = q
    BY DEF Forget
  <1>3. /\ level \in Levels /\ step \in 1 .. Len(Pattern) /\ begun \in BOOLEAN
        /\ target \in Nat /\ choose \in BOOLEAN /\ base \in 0 .. INFLATE_MAX + LumbarCap
    BY <1>1, AirParts, AirZeros
  <1>4. p.lumbar_state = "inflate" => (choose <=> p.lumbar_choosing) /\ base = p.lumbar_base_ms
    OBVIOUS
  <1> HIDE DEF level, step, begun, target, choose, base
  <1>5. /\ q \in PneumaticsState /\ q.massage_on = p.massage_on
        /\ q.lumbar_state = p.lumbar_state /\ q.lumbar_choosing = choose
        /\ q.lumbar_base_ms = base
    BY <1>1, <1>3, Zenon DEF PneumaticsState
  <1> HIDE DEF q
  <1> QED
    BY <1>2, <1>4, <1>5 DEF AirState, Owned, Fits

LEMMA AirElapse ==
    ASSUME NEW p \in AirState, NEW d \in Durations
    PROVE  ElapsePneumatics(p, d) \in AirState /\ (Fits(p) => Fits(ElapsePneumatics(p, d)))
  <1> DEFINE f      == Forget(p)
             step   == IF p.massage_on /\ p.step_started THEN UpTo(StepCap, f.step_age + d) ELSE 0
             start  == IF p.massage_on THEN UpTo(StartCap, f.start_age + d) ELSE 0
             lumb   == IF p.lumbar_state \in {"inflate", "deflate"}
                       THEN UpTo(LumbarCap, f.lumbar_age + d) ELSE 0
             pause  == IF p.paused THEN UpTo(PauseCap(p), f.pause_age + d) ELSE 0
             vent   == IF p.venting THEN UpTo(VENT, f.vent_age + d) ELSE 0
             closed == UpTo(PUMP_DELAY, f.closed_age + d)
             q      == [f EXCEPT !.step_age = step, !.start_age = start, !.lumbar_age = lumb,
                                 !.pause_age = pause, !.vent_age = vent, !.closed_age = closed]
  <1>1. f \in AirState /\ f \in PneumaticsState /\ (Fits(p) => Fits(f))
    BY ForgetType DEF AirState
  <1>2. ElapsePneumatics(p, d) = q
    BY DEF ElapsePneumatics
  <1> HIDE DEF f
  <1>3. /\ f.step_age + d \in Nat /\ f.start_age + d \in Nat /\ f.lumbar_age + d \in Nat
        /\ f.pause_age + d \in Nat /\ f.vent_age + d \in Nat /\ f.closed_age + d \in Nat
    <2>1. d \in Nat
      BY AdjustConstants
    <2>2. /\ f.step_age \in Nat /\ f.start_age \in Nat /\ f.lumbar_age \in Nat
          /\ f.pause_age \in Nat /\ f.vent_age \in Nat /\ f.closed_age \in Nat
      <3>1. \A cap \in Nat : \A x \in 0 .. cap : x \in Nat
        OBVIOUS
      <3> QED
        BY <1>1, <3>1, AirParts, AirTimes
    <2> QED
      BY <2>1, <2>2
  <1>4. PauseCap(p) \in Nat /\ \A x \in 0 .. PauseCap(p) : x \in 0 .. LONGEST_PAUSE
    BY AirTimes DEF PauseCap
  <1>5. /\ step \in 0 .. StepCap /\ start \in 0 .. StartCap /\ lumb \in 0 .. LumbarCap
        /\ pause \in 0 .. LONGEST_PAUSE /\ vent \in 0 .. VENT /\ closed \in 0 .. PUMP_DELAY
    BY <1>3, <1>4, CapTo, AirTimes, AirZeros
  <1> HIDE DEF step, start, lumb, pause, vent, closed
  <1>6. Alike(f, q)
    BY <1>1, <1>5, Zenon DEF PneumaticsState, Shared, Alike
  <1> HIDE DEF q
  <1> QED
    BY <1>1, <1>2, <1>6, AlikeAir

-----------------------------------------------------------------------------
(* The air cells: the calls on the chair.                                    *)

LEMMA AirSet ==
    ASSUME NEW c \in ChairState, NEW q \in AirState, Fits(c.pneu) => Fits(q)
    PROVE  /\ Types(c, [c EXCEPT !.pneu = q])
           /\ \A a \in BarState : Types(c, [c EXCEPT !.pneu = q, !.adjust = a])
           /\ \A n \in Nat : Types(c, [c EXCEPT !.pneu = q, !.store.lumbar = n])
           /\ \A n \in Nat : Types(c, [c EXCEPT !.pneu = q, !.store.massage = n])
  <1> DEFINE d == [c EXCEPT !.pneu = q]
  <1>1. d \in ChairState /\ d.pneu = q /\ Types(c, d)
    <2>1. d \in ChairState
      BY ChairSet
    <2>2. d.pneu = q
      BY DEF ChairState
    <2> QED
      BY <2>1, <2>2 DEF Types
  <1>2. /\ \A a : [c EXCEPT !.pneu = q, !.adjust = a] = [d EXCEPT !.adjust = a]
        /\ \A n : [c EXCEPT !.pneu = q, !.store.lumbar = n] = [d EXCEPT !.store.lumbar = n]
        /\ \A n : [c EXCEPT !.pneu = q, !.store.massage = n] = [d EXCEPT !.store.massage = n]
    BY DEF ChairState
  <1> HIDE DEF d
  <1>3. \A a \in BarState : Types(c, [d EXCEPT !.adjust = a])
    BY <1>1, SetTypes, TypesThen
  <1>4. ASSUME NEW n \in Nat
        PROVE  Types(c, [d EXCEPT !.store.lumbar = n]) /\ Types(c, [d EXCEPT !.store.massage = n])
    <2>1. [d EXCEPT !.store.lumbar = n] \in ChairState /\ [d EXCEPT !.store.massage = n] \in ChairState
      BY <1>1, StoreSet
    <2>2. /\ [d EXCEPT !.store.lumbar = n].pneu = d.pneu
          /\ [d EXCEPT !.store.massage = n].pneu = d.pneu
      BY <1>1 DEF ChairState
    <2>3. Types(d, [d EXCEPT !.store.lumbar = n]) /\ Types(d, [d EXCEPT !.store.massage = n])
      BY <2>1, <2>2 DEF Types
    <2> QED
      BY <1>1, <2>3, TypesThen
  <1> QED
    BY <1>1, <1>2, <1>3, <1>4 DEF d

\* With the massage off the valves are lumbar's, whatever it does with them.
LEMMA MassageEnds ==
    ASSUME NEW p \in AirState
    PROVE  LET q == [p EXCEPT !.massage_on = FALSE] IN
           /\ q \in AirState /\ ~q.massage_on /\ (Fits(p) => Fits(q))
           /\ start_vent(q) \in AirState /\ (Fits(p) => Fits(start_vent(q)))
  <1> DEFINE q == [p EXCEPT !.massage_on = FALSE]
  <1>1. p \in PneumaticsState
    BY DEF AirState
  <1>2. /\ q \in PneumaticsState /\ q.massage_on = FALSE
        /\ q.lumbar_state = p.lumbar_state /\ q.lumbar_choosing = p.lumbar_choosing
        /\ q.lumbar_base_ms = p.lumbar_base_ms
    BY <1>1, Zenon DEF PneumaticsState
  <1> HIDE DEF q
  <1>3. q \in AirState /\ (Fits(p) => Fits(q))
    BY <1>2 DEF AirState, Owned, Fits
  <1>4. start_vent(q) \in AirState /\ (Fits(q) => Fits(start_vent(q)))
    BY <1>2, <1>3, VentType, AlikeAir
  <1> QED
    BY <1>2, <1>3, <1>4 DEF q

LEMMA MassageTypes ==
    ASSUME NEW c \in ChairState, NEW on \in BOOLEAN, NEW want \in {0} \cup Levels
    PROVE  /\ Types(c, massage_off(c)) /\ Types(c, massage_start(c))
           /\ Types(c, pneumatics_massage_arm(c))
           /\ Types(c, pneumatics_massage_use_level(c, want))
           /\ Types(c, pneumatics_massage_set_level(c, want))
           /\ Types(c, EndMassage(c)) /\ Types(c, pneumatics_massage_set(c, on))
           /\ Types(c, MassageButton(c))
  <1> DEFINE p   == c.pneu
             bar == adjust_close(c.adjust, "massage")
             q   == [p EXCEPT !.massage_on = FALSE]
  <1>1. /\ p \in AirState /\ p \in PneumaticsState /\ c.adjust \in BarState
        /\ "massage" \in Owners /\ 0 \in Nat /\ 0 \in {0} \cup Levels
    BY ChairParts DEF Owners, AirState
  <1>2. bar \in BarState
    BY <1>1, BarCalls
  <1>3. q \in AirState /\ (Fits(p) => Fits(q)) /\ start_vent(q) \in AirState
        /\ (Fits(p) => Fits(start_vent(q)))
    BY <1>1, MassageEnds
  <1>4. Types(c, massage_off(c))
    <2>1. massage_off(c) = [c EXCEPT !.pneu = q, !.adjust = bar]
      BY DEF massage_off
    <2> HIDE DEF q, bar
    <2>2. Fits(c.pneu) => Fits(q)
      BY <1>3
    <2>3. \A a \in BarState : Types(c, [c EXCEPT !.pneu = q, !.adjust = a])
      BY <1>3, <2>2, AirSet
    <2>4. Types(c, [c EXCEPT !.pneu = q, !.adjust = bar])
      BY <1>2, <2>3, Zenon
    <2> QED
      BY <2>1, <2>4, Zenon
  <1>5. Types(c, EndMassage(c))
    <2>1. EndMassage(c) = [c EXCEPT !.pneu = start_vent(q), !.adjust = bar]
      BY DEF EndMassage, massage_off, ChairState
    <2> HIDE DEF q, bar
    <2>2. Fits(c.pneu) => Fits(start_vent(q))
      BY <1>3
    <2>3. \A a \in BarState : Types(c, [c EXCEPT !.pneu = start_vent(q), !.adjust = a])
      BY <1>3, <2>2, AirSet
    <2>4. Types(c, [c EXCEPT !.pneu = start_vent(q), !.adjust = bar])
      BY <1>2, <2>3, Zenon
    <2> QED
      BY <2>1, <2>4, Zenon
  <1>6. Types(c, c)
    BY SetTypes
  <1>7. Types(c, massage_start(c))
    <2> DEFINE level == Remembered(c.store.massage)
               r == [p EXCEPT !.massage_on = TRUE, !.venting = FALSE, !.vent_age = 0,
                              !.lumbar_state = "off", !.massage_step = 1,
                              !.step_started = FALSE, !.step_age = 0,
                              !.start_age = 0, !.massage_level = level]
    <2>1. level \in Levels
      BY RememberedLevel
    <2>2. massage_start(c) = c \/ massage_start(c) = [c EXCEPT !.pneu = r]
      BY DEF massage_start
    <2> HIDE DEF level
    <2>3. r \in PneumaticsState /\ r.lumbar_state = "off"
      BY <1>1, <2>1, AirZeros, Zenon DEF PneumaticsState
    <2> HIDE DEF r
    <2>4. r \in AirState /\ Fits(r)
      BY <2>3 DEF AirState, Owned, Fits
    <2>5. Types(c, [c EXCEPT !.pneu = r])
      BY <1>1, <2>4, AirSet
    <2> QED
      BY <1>6, <2>2, <2>5
  <1>8. ASSUME NEW l \in Levels
        PROVE  LET r == [p EXCEPT !.massage_level = l] IN
               r \in AirState /\ (Fits(p) => Fits(r))
    <2> DEFINE r == [p EXCEPT !.massage_level = l]
    <2>1. Alike(p, r)
      BY <1>1, Zenon DEF PneumaticsState, Shared, Alike
    <2> HIDE DEF r
    <2> QED
      BY <1>1, <2>1, AlikeAir DEF r
  <1>9. Types(c, pneumatics_massage_arm(c))
    <2> DEFINE level == IF p.massage_on THEN p.massage_level ELSE Remembered(c.store.massage)
               r == [p EXCEPT !.massage_level = level]
               a == adjust_open(c.adjust, "massage", level)
    <2>1. level \in Levels
      BY <1>1, AirParts, RememberedLevel
    <2>2. pneumatics_massage_arm(c) = [c EXCEPT !.pneu = r, !.adjust = a]
      BY DEF pneumatics_massage_arm
    <2> HIDE DEF level
    <2>3. r \in AirState /\ (Fits(p) => Fits(r)) /\ a \in BarState
      BY <1>1, <1>8, <2>1, BarCalls
    <2> HIDE DEF r, a
    <2>4. \A x \in BarState : Types(c, [c EXCEPT !.pneu = r, !.adjust = x])
      BY <2>3, AirSet
    <2>5. Types(c, [c EXCEPT !.pneu = r, !.adjust = a])
      BY <2>3, <2>4, Zenon
    <2> QED
      BY <2>2, <2>5, Zenon
  <1>10. Types(c, pneumatics_massage_use_level(c, want))
         /\ Types(c, pneumatics_massage_set_level(c, want))
    <2>1. CASE want \in Levels
      <3> DEFINE r == [p EXCEPT !.massage_level = want]
      <3>1. pneumatics_massage_use_level(c, want) = [c EXCEPT !.pneu = r]
        BY <2>1 DEF pneumatics_massage_use_level
      <3>2. pneumatics_massage_set_level(c, want) = [c EXCEPT !.pneu = r, !.store.massage = want]
        BY <2>1, <3>1 DEF pneumatics_massage_set_level
      <3>3. r \in AirState /\ (Fits(p) => Fits(r)) /\ want \in Nat
        BY <1>8, <2>1, BarTimes DEF Levels
      <3> HIDE DEF r
      <3>4. /\ Types(c, [c EXCEPT !.pneu = r])
            /\ \A n \in Nat : Types(c, [c EXCEPT !.pneu = r, !.store.massage = n])
        BY <3>3, AirSet
      <3>5. Types(c, [c EXCEPT !.pneu = r, !.store.massage = want])
        BY <3>3, <3>4, Zenon
      <3> QED
        BY <3>1, <3>2, <3>4, <3>5, Zenon
    <2>2. CASE want \notin Levels
      BY <1>6, <2>2 DEF pneumatics_massage_use_level, pneumatics_massage_set_level
    <2> QED
      BY <2>1, <2>2
  <1>11. Types(c, pneumatics_massage_set(c, on))
    BY <1>5, <1>6, <1>7 DEF pneumatics_massage_set
  <1>12. Types(c, MassageButton(c))
    <2> DEFINE begun == massage_start(c)
               show  == [begun EXCEPT !.adjust =
                            adjust_show(begun.adjust, "massage", begun.pneu.massage_level)]
    <2>1. adjust_accept(c.adjust) \in BarState
      BY <1>1, BarCalls
    <2>2. begun \in ChairState
      BY <1>7 DEF Types
    <2>3. MassageButton(c) \in {[c EXCEPT !.adjust = adjust_accept(c.adjust)], EndMassage(c), show}
      BY DEF MassageButton
    <2> HIDE DEF begun
    <2>4. begun.adjust \in BarState /\ begun.pneu.massage_level \in {0} \cup Levels
      BY <2>2, ChairParts, AirParts DEF AirState
    <2>5. Types(begun, show)
      BY <1>1, <2>2, <2>4, BarCalls, SetTypes
    <2>6. Types(c, show)
      BY <1>7, <2>5, TypesThen DEF begun
    <2> HIDE DEF show
    <2>7. Types(c, [c EXCEPT !.adjust = adjust_accept(c.adjust)])
      BY <2>1, SetTypes
    <2> QED
      BY <1>5, <2>3, <2>6, <2>7
  <1> QED
    BY <1>4, <1>5, <1>7, <1>9, <1>10, <1>11, <1>12

\* Where a hold begins the cell has what it was measured to have.
LEMMA LumbarHolds ==
    ASSUME NEW p \in PneumaticsState, ~p.massage_on, NEW m \in 0 .. INFLATE_MAX
    PROVE  LET q == set_lumbar([p EXCEPT !.lumbar_level_ms = m], "hold") IN
           q \in AirState /\ Fits(q)
  <1> DEFINE r == [p EXCEPT !.lumbar_level_ms = m]
             q == set_lumbar(r, "hold")
  <1>1. r \in PneumaticsState /\ r.massage_on = p.massage_on
    BY Zenon DEF PneumaticsState
  <1> HIDE DEF r
  <1>2. q \in PneumaticsState /\ q.massage_on = p.massage_on /\ q.lumbar_state = "hold"
    BY <1>1, LumbarSetType
  <1> HIDE DEF q
  <1>3. q \in AirState /\ Fits(q)
    BY <1>2 DEF AirState, Owned, Fits
  <1> QED
    BY <1>3 DEF q, r

\* What lumbar_stop_at makes of the cells, however it was asked.
LEMMA StopTypes ==
    ASSUME NEW c \in ChairState, NEW p \in PneumaticsState, ~p.massage_on, NEW elapsed \in Nat,
           NEW remember \in BOOLEAN
    PROVE  LET d == lumbar_stop_at([c EXCEPT !.pneu = p], elapsed, remember) IN
           Types(c, d) /\ Fits(d.pneu)
  <1> DEFINE tenths == (UpTo(INFLATE_MAX, elapsed) + TENTH \div 2) \div TENTH
             m == tenths * TENTH
             n == IF remember THEN tenths ELSE c.store.lumbar
             r == [p EXCEPT !.lumbar_level_ms = m]
             q == set_lumbar(r, "hold")
             d == [c EXCEPT !.pneu = q, !.store.lumbar = n]
  <1>1. tenths \in Nat /\ m \in 0 .. INFLATE_MAX
    BY Rounding
  <1>2. lumbar_stop_at([c EXCEPT !.pneu = p], elapsed, remember) = d
    <2> HIDE DEF q
    <2>1. [c EXCEPT !.pneu = p].pneu = p /\ [c EXCEPT !.pneu = p].store = c.store
      BY DEF ChairState
    <2> QED
      BY <2>1 DEF lumbar_stop_at, q, ChairState
  <1>3. n \in Nat
    BY <1>1, StoreSet
  <1> HIDE DEF tenths, n
  <1>4. q \in AirState /\ Fits(q)
    BY <1>1, LumbarHolds
  <1> HIDE DEF m, r, q
  <1>5. \A k \in Nat : Types(c, [c EXCEPT !.pneu = q, !.store.lumbar = k])
    BY <1>4, AirSet
  <1>6. Types(c, d)
    BY <1>3, <1>5, Zenon
  <1>7. d.pneu = q
    BY DEF ChairState
  <1> HIDE DEF d
  <1> QED
    BY <1>2, <1>4, <1>6, <1>7

LEMMA SamePneu ==
    ASSUME NEW c \in ChairState
    PROVE  [c EXCEPT !.pneu = c.pneu] = c
  BY DEF ChairState

LEMMA ReleaseTypes ==
    ASSUME NEW c \in ChairState
    PROVE  Types(c, pneumatics_lumbar_release(c))
  <1> DEFINE p        == c.pneu
             none     == [p EXCEPT !.lumbar_choosing = FALSE]
             t        == Target(c.store.lumbar)
             aimed    == [none EXCEPT !.lumbar_target_ms = t]
             done     == [c EXCEPT !.pneu = none]
             toStored == [c EXCEPT !.pneu = aimed]
             sum      == p.lumbar_base_ms + p.lumbar_age
  <1>1. p \in AirState /\ p \in PneumaticsState /\ c.store.lumbar \in Nat
    BY ChairParts, StoreSet DEF AirState
  <1>2. t \in Nat /\ sum \in Nat /\ p.lumbar_age \in Nat /\ p.lumbar_base_ms \in Nat
    <2>1. \A cap \in Nat : \A x \in 0 .. cap : x \in Nat
      OBVIOUS
    <2>2. INFLATE_MAX + LumbarCap \in Nat /\ LumbarCap \in Nat
      BY AirTimes
    <2>3. p.lumbar_age \in Nat /\ p.lumbar_base_ms \in Nat
      BY <1>1, <2>1, <2>2, AirParts
    <2> QED
      BY <1>1, <2>3, Targets
  <1>3. /\ done = [c EXCEPT !.pneu.lumbar_choosing = FALSE]
        /\ [done EXCEPT !.pneu.lumbar_target_ms = t] = toStored
        /\ [done EXCEPT !.pneu = set_lumbar(done.pneu, "deflate")]
              = [c EXCEPT !.pneu = set_lumbar(none, "deflate")]
    <2>1. done = [c EXCEPT !.pneu.lumbar_choosing = FALSE]
      OBVIOUS
    <2> HIDE DEF none, t
    <2>2. done.pneu = none
      BY DEF ChairState
    <2>3. [done EXCEPT !.pneu.lumbar_target_ms = t] = toStored
      BY <2>2 DEF ChairState
    <2>4. \A x : [done EXCEPT !.pneu = x] = [c EXCEPT !.pneu = x]
      BY DEF ChairState
    <2>5. [done EXCEPT !.pneu = set_lumbar(done.pneu, "deflate")]
            = [c EXCEPT !.pneu = set_lumbar(none, "deflate")]
      BY <2>2, <2>4
    <2> HIDE DEF done, toStored
    <2> QED
      BY <2>1, <2>3, <2>5
  <1>4. /\ none \in PneumaticsState /\ none.massage_on = p.massage_on
        /\ none.lumbar_state = p.lumbar_state /\ none.lumbar_base_ms = p.lumbar_base_ms
        /\ ~none.lumbar_choosing
    BY <1>1, Zenon DEF PneumaticsState
  <1> HIDE DEF none, t
  <1>5. /\ aimed \in PneumaticsState /\ aimed.massage_on = p.massage_on
        /\ aimed.lumbar_state = p.lumbar_state /\ aimed.lumbar_base_ms = p.lumbar_base_ms
        /\ ~aimed.lumbar_choosing
    BY <1>2, <1>4, Zenon DEF PneumaticsState
  <1> HIDE DEF aimed
  <1>6. CASE ~p.lumbar_choosing \/ p.lumbar_state # "inflate"
    <2>1. none \in AirState /\ (Fits(p) => Fits(none))
      BY <1>1, <1>4, <1>6 DEF AirState, Owned, Fits
    <2>2. Types(c, done)
      BY <2>1, AirSet
    <2>3. pneumatics_lumbar_release(c) = done
      BY <1>3, <1>6 DEF pneumatics_lumbar_release
    <2> HIDE DEF done
    <2> QED
      BY <2>2, <2>3
  <1>7. CASE p.lumbar_choosing /\ p.lumbar_state = "inflate"
    <2>1. ~p.massage_on
      BY <1>1, <1>7 DEF AirState, Owned
    <2>2. Types(c, lumbar_keep(done, sum)) /\ Types(c, lumbar_keep(toStored, p.lumbar_age))
      BY <1>2, <1>4, <1>5, <2>1, StopTypes DEF lumbar_keep
    <2>3. Types(c, [c EXCEPT !.pneu = set_lumbar(none, "deflate")])
      <3> DEFINE q == set_lumbar(none, "deflate")
      <3>1. q \in PneumaticsState /\ q.massage_on = none.massage_on /\ q.lumbar_state = "deflate"
        BY <1>4, LumbarSetType
      <3> HIDE DEF q
      <3>2. q \in AirState /\ Fits(q)
        BY <1>4, <2>1, <3>1 DEF AirState, Owned, Fits
      <3>3. Types(c, [c EXCEPT !.pneu = q])
        BY <3>2, AirSet
      <3> QED
        BY <3>3 DEF q
    <2>4. p.lumbar_base_ms = 0 => Types(c, toStored)
      <3> SUFFICES ASSUME p.lumbar_base_ms = 0 PROVE Types(c, toStored)
        OBVIOUS
      <3>1. aimed \in AirState /\ Fits(aimed)
        BY <1>5, <2>1, AirZeros, AirTimes DEF AirState, Owned, Fits
      <3> QED
        BY <3>1, AirSet
    <2>5. ~(p.lumbar_base_ms > 0) => p.lumbar_base_ms = 0
      BY <1>2
    <2>6. \/ pneumatics_lumbar_release(c) = lumbar_keep(done, sum)
          \/ pneumatics_lumbar_release(c) = [done EXCEPT !.pneu = set_lumbar(done.pneu, "deflate")]
          \/ /\ ~(p.lumbar_base_ms > 0)
             /\ \/ pneumatics_lumbar_release(c) = lumbar_keep(toStored, p.lumbar_age)
                \/ pneumatics_lumbar_release(c) = toStored
      <3> HIDE DEF done, toStored
      <3>1. /\ done = [c EXCEPT !.pneu.lumbar_choosing = FALSE]
            /\ [done EXCEPT !.pneu.lumbar_target_ms = t] = toStored
        BY <1>3
      <3> HIDE DEF sum
      <3>2. sum = p.lumbar_base_ms + p.lumbar_age
        BY DEF sum
      <3> QED
        BY <1>7, <3>1, <3>2 DEF pneumatics_lumbar_release, t
    <2> HIDE DEF done, toStored, sum
    <2> QED
      BY <1>3, <2>2, <2>3, <2>4, <2>5, <2>6
  <1> QED
    BY <1>6, <1>7

LEMMA OffThen ==
    ASSUME NEW c \in ChairState, NEW x \in AirState, Fits(c.pneu) => Fits(x)
    PROVE  /\ Types(c, [massage_off(c) EXCEPT !.pneu = x])
           /\ massage_off(c).pneu = [c.pneu EXCEPT !.massage_on = FALSE]
           /\ massage_off(c).store = c.store
  <1> DEFINE bar == adjust_close(c.adjust, "massage")
             q   == [c.pneu EXCEPT !.massage_on = FALSE]
  <1>1. bar \in BarState
    BY ChairParts, BarCalls DEF Owners
  <1>2. massage_off(c) = [c EXCEPT !.pneu = q, !.adjust = bar]
    BY DEF massage_off
  <1> HIDE DEF bar, q
  <1>3. /\ massage_off(c).pneu = q /\ massage_off(c).store = c.store
        /\ [massage_off(c) EXCEPT !.pneu = x] = [c EXCEPT !.pneu = x, !.adjust = bar]
    BY <1>2 DEF ChairState
  <1>4. \A a \in BarState : Types(c, [c EXCEPT !.pneu = x, !.adjust = a])
    BY AirSet
  <1>5. Types(c, [c EXCEPT !.pneu = x, !.adjust = bar])
    BY <1>1, <1>4, Zenon
  <1>6. Types(c, [massage_off(c) EXCEPT !.pneu = x])
    BY <1>3, <1>5, Zenon
  <1> QED
    BY <1>3, <1>6 DEF q

LEMMA ShutdownTypes ==
    ASSUME NEW c \in ChairState
    PROVE  Types(c, pneumatics_shutdown(c))
  <1> DEFINE p == c.pneu
             q == [p EXCEPT !.massage_on = FALSE]
             r == [q EXCEPT !.lumbar_state = "off", !.lumbar_choosing = FALSE,
                            !.lumbar_base_ms = 0]
             v == start_vent(r)
  <1>1. p \in AirState /\ p \in PneumaticsState
    BY ChairParts DEF AirState
  <1>2. q \in PneumaticsState
    BY <1>1, Zenon DEF PneumaticsState
  <1> HIDE DEF q
  <1>3. r \in PneumaticsState /\ r.lumbar_state = "off"
    BY <1>2, AirZeros, Zenon DEF PneumaticsState
  <1> HIDE DEF r
  <1>4. r \in AirState /\ Fits(r)
    BY <1>3 DEF AirState, Owned, Fits
  <1>5. v \in AirState /\ Fits(v)
    BY <1>3, <1>4, VentType, AlikeAir
  <1>6. pneumatics_shutdown(c) = [massage_off(c) EXCEPT !.pneu = v]
    <2>1. massage_off(c).pneu = q
      BY <1>5, OffThen DEF q
    <2> QED
      BY <2>1 DEF pneumatics_shutdown, r
  <1> HIDE DEF v
  <1>7. Types(c, [massage_off(c) EXCEPT !.pneu = v])
    BY <1>5, OffThen
  <1> QED
    BY <1>6, <1>7, Zenon

\* A recall inflates from empty.
LEMMA LumbarSetTypes ==
    ASSUME NEW c \in ChairState, NEW on \in BOOLEAN, NEW tenths \in Nat
    PROVE  Types(c, pneumatics_lumbar_set(c, on, tenths))
  <1> DEFINE p    == c.pneu
             want == IF tenths = 0 THEN c.store.lumbar ELSE tenths
             t    == Target(want)
             q    == [p EXCEPT !.massage_on = FALSE]
             r    == [q EXCEPT !.lumbar_base_ms = 0, !.lumbar_choosing = FALSE,
                               !.lumbar_target_ms = t]
             v    == set_lumbar(r, "inflate")
             w    == set_lumbar(p, "deflate")
  <1>1. p \in AirState /\ p \in PneumaticsState /\ want \in Nat
    BY ChairParts, StoreSet DEF AirState
  <1>2. t \in Nat
    BY <1>1, Targets
  <1> HIDE DEF want, t
  <1>3. q \in PneumaticsState /\ q.massage_on = FALSE
    BY <1>1, Zenon DEF PneumaticsState
  <1> HIDE DEF q
  <1>4. r \in PneumaticsState /\ r.massage_on = FALSE /\ r.lumbar_base_ms = 0
    BY <1>2, <1>3, AirZeros, Zenon DEF PneumaticsState
  <1> HIDE DEF r
  <1>5. v \in PneumaticsState /\ v.massage_on = FALSE /\ v.lumbar_base_ms = 0
    BY <1>4, LumbarSetType
  <1> HIDE DEF v
  <1>6. v \in AirState /\ Fits(v)
    <2>1. 0 <= INFLATE_MAX
      BY AirTimes
    <2> QED
      BY <1>5, <2>1 DEF AirState, Owned, Fits
  <1>7. /\ w \in PneumaticsState /\ w.massage_on = p.massage_on /\ w.lumbar_state = "deflate"
    BY <1>1, LumbarSetType
  <1>8. Lit(p) => ~p.massage_on
    BY <1>1 DEF AirState, Owned, Lit
  <1> HIDE DEF w
  <1>9. Lit(p) => w \in AirState /\ Fits(w)
    BY <1>7, <1>8 DEF AirState, Owned, Fits
  <1>10. Types(c, [massage_off(c) EXCEPT !.pneu = v])
    BY <1>6, OffThen
  <1>11. Lit(p) => Types(c, [c EXCEPT !.pneu = w])
    BY <1>9, AirSet
  <1>12. \/ pneumatics_lumbar_set(c, on, tenths) = c
         \/ Lit(p) /\ pneumatics_lumbar_set(c, on, tenths) = [c EXCEPT !.pneu = w]
         \/ pneumatics_lumbar_set(c, on, tenths) = [massage_off(c) EXCEPT !.pneu = v]
    <2>1. massage_off(c).pneu = q
      BY <1>6, OffThen DEF q
    <2>2. Lit(p) \in BOOLEAN
      BY DEF Lit
    <2>3. v = set_lumbar([massage_off(c).pneu EXCEPT !.lumbar_base_ms = 0, !.lumbar_choosing = FALSE,
                               !.lumbar_target_ms = Target(want)], "inflate")
      BY <2>1 DEF v, r, t
    <2> HIDE DEF p
    <2>4. p = c.pneu /\ w = set_lumbar(c.pneu, "deflate")
      BY DEF p, w
    <2> QED
      BY <2>2, <2>3, <2>4 DEF pneumatics_lumbar_set, want
  <1>13. Types(c, c)
    BY SetTypes
  <1> QED
    BY <1>10, <1>11, <1>12, <1>13, Zenon

\* The press inflates onto what is in the cell, which has to be known to fit.
LEMMA LumbarPressType ==
    ASSUME NEW c \in ChairState, Fits(c.pneu)
    PROVE  LumbarButton(c) \in ChairState
  <1> DEFINE p    == c.pneu
             bank == lumbar_banked(p)
             q    == [p EXCEPT !.massage_on = FALSE]
             r    == [q EXCEPT !.lumbar_base_ms = bank, !.lumbar_choosing = TRUE,
                               !.lumbar_target_ms = INFLATE_MAX]
             v    == set_lumbar(r, "inflate")
             bar  == adjust_close(c.adjust, "massage")
  <1>1. p \in AirState /\ p \in PneumaticsState /\ bar \in BarState
    BY ChairParts, BarCalls DEF AirState, Owners
  <1>2. bank \in 0 .. INFLATE_MAX + LumbarCap
    <2>1. /\ p.lumbar_base_ms \in 0 .. INFLATE_MAX + LumbarCap /\ p.lumbar_age \in 0 .. LumbarCap
          /\ p.lumbar_level_ms \in 0 .. INFLATE_MAX
          /\ p.lumbar_state \in {"off", "inflate", "hold", "deflate"}
      BY <1>1, AirParts
    <2>2. INFLATE_MAX \in Nat /\ LumbarCap \in Nat
      BY AirTimes
    <2>3. p.lumbar_state = "inflate" => p.lumbar_base_ms <= INFLATE_MAX
      BY DEF Fits
    <2>4. \/ bank \in {0, p.lumbar_level_ms}
          \/ p.lumbar_state = "inflate" /\ bank = p.lumbar_base_ms + p.lumbar_age
      BY <2>1 DEF lumbar_banked
    <2> HIDE DEF bank, p
    <2> QED
      BY <2>1, <2>2, <2>3, <2>4
  <1> HIDE DEF bank
  <1>3. q \in PneumaticsState /\ q.massage_on = FALSE
    BY <1>1, Zenon DEF PneumaticsState
  <1>4. massage_off(c) = [c EXCEPT !.pneu = q, !.adjust = bar]
    BY DEF massage_off
  <1> HIDE DEF q, bar
  <1>5. r \in PneumaticsState /\ r.massage_on = FALSE /\ r.lumbar_choosing = TRUE
    BY <1>2, <1>3, AirZeros, Zenon DEF PneumaticsState
  <1> HIDE DEF r
  <1>6. v \in PneumaticsState /\ v.massage_on = FALSE /\ v.lumbar_choosing = TRUE
    BY <1>5, LumbarSetType
  <1>7. LumbarButton(c) = [[c EXCEPT !.adjust = bar] EXCEPT !.pneu = v]
    <2>1. massage_off(c).pneu = q
      BY <1>4 DEF ChairState
    <2>2. LumbarButton(c) = [massage_off(c) EXCEPT !.pneu = v]
      BY <2>1 DEF LumbarButton, v, r, bank
    <2> HIDE DEF v
    <2>3. [massage_off(c) EXCEPT !.pneu = v] = [[c EXCEPT !.adjust = bar] EXCEPT !.pneu = v]
      BY <1>4 DEF ChairState
    <2> QED
      BY <2>2, <2>3
  <1> HIDE DEF v
  <1>8. v \in AirState
    BY <1>6 DEF AirState, Owned
  <1>9. [c EXCEPT !.adjust = bar] \in ChairState
    BY <1>1, ChairSet
  <1> DEFINE d == [c EXCEPT !.adjust = bar]
  <1> HIDE DEF d
  <1>10. [d EXCEPT !.pneu = v] \in ChairState
    BY <1>8, <1>9, ChairSet DEF d
  <1> QED
    BY <1>7, <1>10 DEF d

LEMMA InflateTypes ==
    ASSUME NEW c \in ChairState, c.pneu.lumbar_state = "inflate"
    PROVE  Types(c, InflateTick(c)) /\ Fits(InflateTick(c).pneu)
  <1> DEFINE p == c.pneu
  <1>1. p \in AirState /\ p \in PneumaticsState /\ ~p.massage_on
    BY ChairParts DEF AirState, Owned
  <1>2. /\ INFLATE_MAX \in Nat /\ p.lumbar_base_ms \in Nat /\ p.lumbar_age \in Nat
        /\ p.lumbar_target_ms \in Nat
    <2>1. \A cap \in Nat : \A x \in 0 .. cap : x \in Nat
      OBVIOUS
    <2>2. INFLATE_MAX + LumbarCap \in Nat /\ LumbarCap \in Nat /\ INFLATE_MAX \in Nat
      BY AirTimes
    <2> QED
      BY <1>1, <2>1, <2>2, AirParts
  <1>3. [c EXCEPT !.pneu = p] = c
    BY SamePneu
  <1> DEFINE full   == lumbar_keep(c, INFLATE_MAX)
             target == lumbar_stop_at(c, p.lumbar_base_ms + p.lumbar_target_ms, FALSE)
  <1>4. Types(c, full) /\ Fits(full.pneu)
    BY <1>1, <1>2, <1>3, StopTypes DEF lumbar_keep
  <1>5. Types(c, target) /\ Fits(target.pneu)
    <2>1. p.lumbar_base_ms + p.lumbar_target_ms \in Nat
      BY <1>2
    <2> QED
      BY <1>1, <1>3, <2>1, StopTypes
  <1>6. Types(c, c)
    BY SetTypes
  <1>7. \/ InflateTick(c) = full
        \/ InflateTick(c) = target
        \/ /\ InflateTick(c) = c
           /\ ~p.lumbar_choosing \/ ~(p.lumbar_base_ms + p.lumbar_age >= INFLATE_MAX)
    <2>1. p = c.pneu
      OBVIOUS
    <2> HIDE DEF full, target, p
    <2> QED
      BY <2>1 DEF InflateTick, full, target
  <1>8. ~p.lumbar_choosing \/ ~(p.lumbar_base_ms + p.lumbar_age >= INFLATE_MAX) => Fits(p)
    <2>1. ~(p.lumbar_base_ms + p.lumbar_age >= INFLATE_MAX) => p.lumbar_base_ms <= INFLATE_MAX
      BY <1>2
    <2> QED
      BY <1>1, <2>1 DEF AirState, Owned, Fits
  <1> HIDE DEF full, target
  <1> QED
    BY <1>4, <1>5, <1>6, <1>7, <1>8

LEMMA PneuSet ==
    ASSUME NEW c \in ChairState, NEW q \in AirState, Fits(c.pneu) => Fits(q)
    PROVE  Types(c, [c EXCEPT !.pneu = q]) /\ [c EXCEPT !.pneu = q].pneu = q
  <1>1. [c EXCEPT !.pneu = q].pneu = q
    BY DEF ChairState
  <1> QED
    BY <1>1, AirSet

LEMMA ValvesTypes ==
    ASSUME NEW c \in ChairState, NEW bits \in SUBSET Valves
    PROVE  /\ Types(c, [c EXCEPT !.pneu = valves_set(c.pneu, bits)])
           /\ Shared(c.pneu, [c EXCEPT !.pneu = valves_set(c.pneu, bits)].pneu)
  <1> DEFINE q == valves_set(c.pneu, bits)
  <1>1. Alike(c.pneu, q) /\ q \in AirState /\ (Fits(c.pneu) => Fits(q))
    BY ChairParts, ValvesType, AlikeAir DEF AirState
  <1> HIDE DEF q
  <1>2. Types(c, [c EXCEPT !.pneu = q]) /\ [c EXCEPT !.pneu = q].pneu = q
    BY <1>1, PneuSet
  <1> QED
    BY <1>1, <1>2 DEF q, Alike

LEMMA LumbarTickTypes ==
    ASSUME NEW c \in ChairState
    PROVE  /\ Types(c, lumbar_tick(c)) /\ Fits(lumbar_tick(c).pneu)
           /\ c.pneu.lumbar_state = "deflate" => ~c.pneu.massage_on
  <1>1. c.pneu \in AirState /\ c.pneu \in PneumaticsState
    BY ChairParts DEF AirState
  <1>2. c.pneu.lumbar_state = "deflate" => ~c.pneu.massage_on
    BY <1>1 DEF AirState, Owned
  <1>3. CASE c.pneu.lumbar_state = "inflate"
    <2> DEFINE d == [c EXCEPT !.pneu = valves_set(c.pneu, {"bottom"})]
    <2>1. Types(c, d) /\ d \in ChairState /\ d.pneu.lumbar_state = "inflate"
      BY <1>3, AirZeros, ValvesTypes DEF Types, Shared
    <2>2. lumbar_tick(c) = InflateTick(d)
      BY <1>3 DEF lumbar_tick
    <2> HIDE DEF d
    <2>3. Types(d, InflateTick(d)) /\ Fits(InflateTick(d).pneu)
      BY <2>1, InflateTypes
    <2> QED
      BY <1>2, <2>1, <2>2, <2>3, TypesThen
  <1>4. CASE c.pneu.lumbar_state = "hold"
    <2> DEFINE d == [c EXCEPT !.pneu = valves_set(c.pneu, {})]
    <2>1. Types(c, d) /\ d.pneu.lumbar_state = "hold"
      BY <1>4, AirZeros, ValvesTypes DEF Types, Shared
    <2>2. lumbar_tick(c) = d
      BY <1>4 DEF lumbar_tick
    <2> HIDE DEF d
    <2> QED
      BY <1>2, <2>1, <2>2 DEF Fits
  <1>5. CASE c.pneu.lumbar_state = "deflate"
    <2> DEFINE q == DeflateTick(c.pneu)
               d == [c EXCEPT !.pneu = q]
    <2>1. q \in AirState /\ Fits(q)
      BY <1>1, <1>5, DeflateType
    <2>2. lumbar_tick(c) = d
      BY <1>5 DEF lumbar_tick
    <2> HIDE DEF q
    <2>3. Types(c, d) /\ d.pneu = q
      BY <2>1, PneuSet
    <2> HIDE DEF d
    <2> QED
      BY <1>2, <2>1, <2>2, <2>3
  <1>6. CASE c.pneu.lumbar_state = "off"
    <2>1. lumbar_tick(c) = c
      BY <1>6 DEF lumbar_tick
    <2> QED
      BY <1>2, <1>6, <2>1, SetTypes DEF Fits
  <1>7. c.pneu.lumbar_state \in {"off", "inflate", "hold", "deflate"}
    BY <1>1, AirParts
  <1> QED
    BY <1>3, <1>4, <1>5, <1>6, <1>7

LEMMA VentTypes ==
    ASSUME NEW c \in ChairState
    PROVE  /\ Types(c, [c EXCEPT !.pneu = vent_tick(c.pneu)])
           /\ Shared(c.pneu, [c EXCEPT !.pneu = vent_tick(c.pneu)].pneu)
  <1> DEFINE q == vent_tick(c.pneu)
  <1>1. Alike(c.pneu, q) /\ q \in AirState /\ (Fits(c.pneu) => Fits(q))
    BY ChairParts, VentType, AlikeAir DEF AirState
  <1> HIDE DEF q
  <1>2. Types(c, [c EXCEPT !.pneu = q]) /\ [c EXCEPT !.pneu = q].pneu = q
    BY <1>1, PneuSet
  <1> QED
    BY <1>1, <1>2 DEF q, Alike

LEMMA WhilePausedTypes ==
    ASSUME NEW c \in ChairState
    PROVE  Types(c, WhilePaused(c))
  <1> DEFINE shut == [c EXCEPT !.pneu = valves_set(c.pneu, {})]
             vent == [c EXCEPT !.pneu = vent_tick(c.pneu)]
  <1>1. Types(c, shut) /\ Types(c, vent) /\ Types(c, lumbar_tick(c))
    BY AirZeros, ValvesTypes, VentTypes, LumbarTickTypes
  <1>2. WhilePaused(c) \in {shut, vent, lumbar_tick(c)}
    <2> DEFINE a == c.pneu.massage_on
               b == c.pneu.lumbar_state = "deflate"
               e == Lit(c.pneu)
    <2>1. WhilePaused(c) =
            CASE a -> shut
              [] ~a /\ b -> lumbar_tick(c)
              [] ~a /\ e -> shut
              [] OTHER -> IF c.pneu.venting THEN vent ELSE shut
      BY DEF WhilePaused
    <2>2. ~(b /\ e) /\ a \in BOOLEAN
      BY ChairParts, AirParts DEF Lit, AirState
    <2> HIDE DEF a, b, e, shut, vent
    <2> QED
      BY <2>1, <2>2
  <1> HIDE DEF shut, vent
  <1> QED
    BY <1>1, <1>2

LEMMA RunningTypes ==
    ASSUME NEW c \in ChairState
    PROVE  Types(c, Running(c)) /\ Fits(Running(c).pneu)
  <1> DEFINE p    == c.pneu
             shut == [c EXCEPT !.pneu = valves_set(p, {})]
             vent == [c EXCEPT !.pneu = vent_tick(p)]
             rub  == [c EXCEPT !.pneu = massage_tick(p)]
  <1>1. p \in AirState /\ p \in PneumaticsState /\ p.massage_on \in BOOLEAN
    BY ChairParts, AirParts DEF AirState
  <1>2. CASE p.massage_on
    <2>1. p.lumbar_state = "off"
      BY <1>1, <1>2 DEF AirState, Owned
    <2>2. Alike(p, massage_tick(p)) /\ massage_tick(p) \in AirState /\ Fits(massage_tick(p))
      <3>1. Alike(p, massage_tick(p))
        BY <1>1, MassageTickType
      <3>2. massage_tick(p) \in AirState /\ (Fits(p) => Fits(massage_tick(p)))
        BY <1>1, <3>1, AlikeAir
      <3> QED
        BY <2>1, <3>1, <3>2 DEF Fits
    <2>3. Types(c, rub) /\ Fits(rub.pneu)
      <3> DEFINE q == massage_tick(p)
      <3> HIDE DEF q
      <3>1. Types(c, [c EXCEPT !.pneu = q]) /\ [c EXCEPT !.pneu = q].pneu = q
        BY <2>2, PneuSet DEF q
      <3> QED
        BY <2>2, <3>1 DEF q
    <2>4. Types(c, EndMassage(c)) /\ Fits(EndMassage(c).pneu)
      <3>1. Types(c, EndMassage(c))
        BY MassageTypes
      <3>2. Fits(p)
        BY <2>1 DEF Fits
      <3> QED
        BY <3>1, <3>2 DEF Types
    <2>5. Running(c) \in {EndMassage(c), rub}
      BY <1>2 DEF Running
    <2> HIDE DEF rub
    <2> QED
      BY <2>3, <2>4, <2>5
  <1>3. CASE ~p.massage_on /\ p.lumbar_state # "off"
    BY <1>3, LumbarTickTypes DEF Running
  <1>4. CASE ~p.massage_on /\ p.lumbar_state = "off"
    <2>1. Types(c, shut) /\ Types(c, vent)
      BY AirZeros, ValvesTypes, VentTypes
    <2>2. Fits(p)
      BY <1>4 DEF Fits
    <2>3. Running(c) \in {shut, vent}
      BY <1>4 DEF Running
    <2> HIDE DEF shut, vent
    <2> QED
      BY <2>1, <2>2, <2>3 DEF Types
  <1> QED
    BY <1>1, <1>2, <1>3, <1>4

LEMMA AirUpdateTypes ==
    ASSUME NEW c \in ChairState
    PROVE  /\ Types(c, pneumatics_update(c))
           /\ Still(c) => Fits(pneumatics_update(c).pneu)
  <1> DEFINE p  == c.pneu
             q  == [p EXCEPT !.paused = TRUE, !.pause_age = 0]
             at == [c EXCEPT !.pneu = q]
             go == [c EXCEPT !.pneu = Unpause(p)]
  <1>1. p \in AirState /\ p \in PneumaticsState
    BY ChairParts DEF AirState
  <1>2. Types(c, c) /\ c \in ChairState
    BY SetTypes
  <1>3. Types(c, at) /\ at \in ChairState
    <2>1. Alike(p, q)
      BY <1>1, AirZeros, Zenon DEF PneumaticsState, Shared, Alike
    <2> HIDE DEF q
    <2>2. q \in AirState /\ (Fits(p) => Fits(q))
      BY <1>1, <2>1, AlikeAir
    <2> QED
      BY <2>2, PneuSet DEF Types
  <1>4. Types(c, go) /\ go \in ChairState
    <2> DEFINE r == Unpause(p)
    <2>1. r \in AirState /\ (Fits(p) => Fits(r))
      BY <1>1, UnpauseType
    <2> HIDE DEF r
    <2>2. Types(c, [c EXCEPT !.pneu = r])
      BY <2>1, PneuSet
    <2> QED
      BY <2>2 DEF Types, r
  <1>5. \/ ~Still(c) /\ pneumatics_update(c) \in {WhilePaused(c), WhilePaused(at)}
        \/ pneumatics_update(c) \in {Running(c), Running(go)}
    <2>1. at = [c EXCEPT !.pneu.paused = TRUE, !.pneu.pause_age = 0]
      OBVIOUS
    <2> HIDE DEF at
    <2>2. go = [c EXCEPT !.pneu = Unpause(c.pneu)]
      OBVIOUS
    <2> HIDE DEF go
    <2> QED
      BY <2>1, <2>2 DEF pneumatics_update
  <1> HIDE DEF at, go
  <1>6. Types(c, WhilePaused(c)) /\ Types(c, WhilePaused(at))
    BY <1>2, <1>3, WhilePausedTypes, TypesThen
  <1>7. /\ Types(c, Running(c)) /\ Types(c, Running(go))
        /\ Fits(Running(c).pneu) /\ Fits(Running(go).pneu)
    BY <1>2, <1>4, RunningTypes, TypesThen
  <1> QED
    BY <1>5, <1>6, <1>7

-----------------------------------------------------------------------------
(* The gate and the macros, typed.                                           *)

\* The slots are what settings_init left of them, and only a press changes one.
Kept(c, d) == d.preset.slot = c.preset.slot /\ d.store.presets = c.store.presets

LEMMA RequestTypes ==
    ASSUME NEW c \in ChairState, NEW want \in Relay!Motions \cup {"none"}
    PROVE  LET d == Request(c, want) IN
           Types(c, d) /\ d.preset = c.preset /\ d.store = c.store
  <1> DEFINE m == Relay!motion_request(c.motion, want)
  <1>1. m \in Relay!MotionState
    BY ChairParts, MotionRequest DEF Relay!NONE
  <1>2. Request(c, want) = [c EXCEPT !.motion = m]
    BY DEF Request
  <1> HIDE DEF m
  <1>3. Types(c, [c EXCEPT !.motion = m])
    BY <1>1, SetTypes
  <1>4. [c EXCEPT !.motion = m].preset = c.preset /\ [c EXCEPT !.motion = m].store = c.store
    BY DEF ChairState
  <1> QED
    BY <1>2, <1>3, <1>4

LEMMA PowerTypes ==
    ASSUME NEW c \in ChairState
    PROVE  /\ Types(c, power_toggle(c)) /\ Types(c, power_comfort_off(c))
           /\ Types(c, finish(c))
  <1>1. \A d \in ChairState : Types(d, power_toggle(d))
    BY ChairParts, SetTypes DEF power_toggle
  <1>2. Types(c, power_comfort_off(c))
    <2> DEFINE d == pneumatics_shutdown(c)
    <2>1. Types(c, d) /\ d \in ChairState
      BY ShutdownTypes DEF Types
    <2> HIDE DEF d
    <2>2. TRUE \in BOOLEAN /\ 0 \in {0} \cup Levels
      OBVIOUS
    <2>3. Types(d, heat_off(d))
      BY <2>1, <2>2, HeatTypes
    <2> QED
      BY <2>1, <2>3, TypesThen DEF power_comfort_off, d
  <1>3. Types(c, finish(c))
    <2> DEFINE off == power_comfort_off(c)
    <2> HIDE DEF off
    <2>1. off \in ChairState /\ Types(c, off)
      BY <1>2 DEF Types, off
    <2>2. Types(c, power_toggle(off))
      BY <1>1, <2>1, TypesThen
    <2> QED
      BY <2>1, <2>2 DEF finish, off
  <1> QED
    BY <1>1, <1>2, <1>3

LEMMA FlattenTypes ==
    ASSUME NEW c \in ChairState, NEW key
    PROVE  Types(c, flatten_tap_start(c)) /\ Types(c, flatten_update(c, key))
  <1> DEFINE on  == [c EXCEPT !.flatten = TRUE]
             off == [c EXCEPT !.flatten = FALSE]
  <1>1. Types(c, c) /\ Types(c, on) /\ Types(c, off) /\ on \in ChairState /\ off \in ChairState
    BY SetTypes DEF Types
  <1> HIDE DEF on, off
  <1>2. "flatten" \in Relay!Motions \cup {"none"}
    BY DEF Relay!Motions
  <1>3. Types(on, Request(on, "flatten")) /\ Types(off, finish(off))
    BY <1>1, <1>2, RequestTypes, PowerTypes
  <1>4. Types(c, Request(on, "flatten")) /\ Types(c, finish(off))
    BY <1>1, <1>3, TypesThen
  <1>5. flatten_tap_start(c) = Request(on, "flatten")
    BY DEF flatten_tap_start, on
  <1>6. flatten_update(c, key) \in {c, off, finish(off)}
    <2> DEFINE f == c.flatten
               s == Still(c)
               n == key # "none"
    <2>1. flatten_update(c, key) =
             CASE f /\ n -> off [] f /\ ~n /\ s -> finish(off) [] OTHER -> c
      BY DEF flatten_update, off
    <2>2. f \in BOOLEAN /\ n \in BOOLEAN /\ s \in BOOLEAN
      BY ChairParts DEF Still
    <2> HIDE DEF f, n, s
    <2> QED
      BY <2>1, <2>2
  <1> QED
    BY <1>1, <1>4, <1>5, <1>6

-----------------------------------------------------------------------------

LEMMA PresetParts ==
    ASSUME NEW p \in PresetState
    PROVE  /\ p.stage \in {"idle", "recline", "headrest"} /\ p.slot \in {0} \cup Slots
           /\ p.target \in Nat /\ p.drive \in Relay!Motions \cup {"none"}
           /\ p.armed \in BOOLEAN /\ p.armed_age \in 0 .. PRESET_ARM
           /\ \A x \in BOOLEAN : [p EXCEPT !.armed = x] \in PresetState
           /\ \A x \in {0} \cup Slots : [p EXCEPT !.slot = x] \in PresetState
           /\ [p EXCEPT !.armed = TRUE, !.armed_age = 0] \in PresetState
           /\ [p EXCEPT !.armed_age = 0] \in PresetState
           /\ [p EXCEPT !.stage = "idle", !.drive = "none"] \in PresetState
           /\ \A s \in {"recline", "headrest"}, t \in Nat, d \in Relay!Motions \cup {"none"} :
                 [p EXCEPT !.stage = s, !.target = t, !.drive = d] \in PresetState
  <1>1. 0 \in 0 .. PRESET_ARM
    BY MacroConstants
  <1> QED
    BY <1>1, Zenon DEF PresetState

LEMMA PresetElapse ==
    ASSUME NEW p \in PresetState, NEW d \in Durations
    PROVE  ElapsePreset(p, d) \in PresetState
  <1> DEFINE age    == IF p.armed THEN UpTo(PRESET_ARM, p.armed_age + d) ELSE 0
             slot   == IF p.stage = "idle" THEN 0 ELSE p.slot
             target == IF p.stage = "idle" THEN 0 ELSE p.target
  <1>1. age \in 0 .. PRESET_ARM
    <2>1. d \in Nat /\ PRESET_ARM \in Nat /\ p.armed_age \in 0 .. PRESET_ARM
      BY AdjustConstants, MacroConstants, PresetParts
    <2> QED
      BY <2>1 DEF UpTo
  <1>2. slot \in {0} \cup Slots /\ target \in Nat
    BY PresetParts
  <1> HIDE DEF age, slot, target
  <1>3. [p EXCEPT !.armed_age = age, !.slot = slot, !.target = target] \in PresetState
    BY <1>1, <1>2, Zenon DEF PresetState
  <1> QED
    BY <1>3 DEF ElapsePreset, age, slot, target

LEMMA WindowTypes ==
    ASSUME NEW c \in ChairState
    PROVE  /\ Types(c, preset_arm(c)) /\ Types(c, preset_cancel(c))
           /\ Types(c, Expire(c)) /\ Kept(c, Expire(c))
           /\ Types(c, Cancel(c))
  <1> DEFINE p == c.preset
  <1>1. p \in PresetState
    BY ChairParts
  <1>2. Types(c, c)
    BY SetTypes
  <1>3. Types(c, preset_arm(c))
    <2> DEFINE q == [p EXCEPT !.armed = TRUE, !.armed_age = 0]
    <2>1. q \in PresetState
      BY <1>1, PresetParts
    <2>2. preset_arm(c) = [c EXCEPT !.preset = q]
      BY DEF preset_arm
    <2> HIDE DEF q
    <2> QED
      BY <2>1, <2>2, SetTypes
  <1>4. Types(c, preset_cancel(c)) /\ Kept(c, preset_cancel(c))
    <2> DEFINE q == [p EXCEPT !.armed = FALSE]
    <2>1. q \in PresetState /\ q.slot = p.slot
      <3>1. q \in PresetState
        BY <1>1, PresetParts
      <3>2. q.slot = p.slot
        BY <1>1 DEF PresetState
      <3> QED
        BY <3>1, <3>2
    <2>2. preset_cancel(c) = [c EXCEPT !.preset = q]
      BY DEF preset_cancel
    <2> HIDE DEF q
    <2>3. Kept(c, [c EXCEPT !.preset = q])
      BY <2>1 DEF Kept, ChairState
    <2> QED
      BY <2>1, <2>2, <2>3, SetTypes
  <1>5. Types(c, Expire(c)) /\ Kept(c, Expire(c))
    BY <1>2, <1>4 DEF Expire, Kept
  <1>6. Types(c, Cancel(c))
    <2> DEFINE q == [p EXCEPT !.stage = "idle", !.drive = "none"]
    <2>1. q \in PresetState
      BY <1>1, PresetParts
    <2>2. Cancel(c) = [c EXCEPT !.preset = q]
      BY DEF Cancel
    <2> HIDE DEF q
    <2> QED
      BY <2>1, <2>2, SetTypes
  <1> QED
    BY <1>3, <1>4, <1>5, <1>6

\* What is stored of a chair is a slot's worth.
LEMMA SnapshotType ==
    ASSUME NEW c \in ChairState
    PROVE  Snapshot(c) \in Preset
  <1> DEFINE F       == {"heat", "massage", "lumbar"}
             running == {f \in F :
                       \/ f = "heat"    /\ c.heat.on
                       \/ f = "massage" /\ c.pneu.massage_on
                       \/ f = "lumbar"  /\ Lit(c.pneu)}
             recline  == c.motion.pos_recline \div PRESET_STEP
             headrest == c.motion.pos_headrest \div PRESET_STEP
             heat     == IF "heat" \in running THEN c.heat.level ELSE 0
             massage  == IF "massage" \in running THEN c.pneu.massage_level ELSE 0
             lumbar   == IF "lumbar" \in running
                         THEN pneumatics_lumbar_current(c.pneu) ELSE 0
  <1>1. running \in SUBSET F
    OBVIOUS
  <1>2. Snapshot(c) = [used |-> TRUE, recline |-> recline, headrest |-> headrest,
                       flags |-> running, heat |-> heat, massage |-> massage, lumbar |-> lumbar]
    BY DEF Snapshot
  <1> HIDE DEF running
  <1>3. recline \in Nat /\ headrest \in Nat
    <2>1. PRESET_STEP \in Nat \ {0}
      BY MacroConstants
    <2>2. c.motion.pos_recline \in Nat /\ c.motion.pos_headrest \in Nat
      <3>1. \A cap \in Nat : \A x \in 0 .. cap : x \in Nat
        OBVIOUS
      <3>2. TRAVEL_RECLINE \in Nat /\ TRAVEL_HEADREST \in Nat
        BY MacroConstants
      <3> QED
        BY <3>1, <3>2, ChairParts, MotionParts
    <2> QED
      BY <2>1, <2>2, Division
  <1>4. heat \in {0} \cup Levels /\ massage \in {0} \cup Levels
    BY ChairParts, HeatParts, AirParts DEF AirState
  <1>5. lumbar \in Nat
    <2>1. c.pneu.lumbar_level_ms \in Nat
      <3>1. \A cap \in Nat : \A x \in 0 .. cap : x \in Nat
        OBVIOUS
      <3> QED
        BY <3>1, ChairParts, AirParts, AirTimes DEF AirState
    <2> QED
      BY <2>1, Ceiling, Division DEF pneumatics_lumbar_current
  <1> HIDE DEF recline, headrest, heat, massage, lumbar
  <1> QED
    <2>1. TRUE \in {TRUE}
      OBVIOUS
    <2> QED
      BY <1>1, <1>2, <1>3, <1>4, <1>5, <2>1 DEF Preset

LEMMA SlotTypes ==
    ASSUME NEW c \in ChairState, NEW s \in Slots
    PROVE  Types(c, preset_save(c, s)) /\ Types(c, preset_clear(c, s))
  <1>1. ASSUME NEW x \in Preset \cup {Unused}, NEW q \in PresetState
        PROVE  Types(c, [c EXCEPT !.store.presets[s] = x, !.preset = q])
    <2> DEFINE d == [c EXCEPT !.store.presets[s] = x]
    <2>1. d \in ChairState /\ d.pneu = c.pneu
      <3>1. \A y \in Preset \cup {Unused} : [c EXCEPT !.store.presets[s] = y] \in ChairState
        BY StoreSet
      <3>2. d \in ChairState
        BY <3>1, Zenon
      <3> QED
        BY <3>2 DEF ChairState
    <2>2. Types(c, d)
      BY <2>1 DEF Types
    <2>3. [c EXCEPT !.store.presets[s] = x, !.preset = q] = [d EXCEPT !.preset = q]
      OBVIOUS
    <2> HIDE DEF d
    <2>4. Types(d, [d EXCEPT !.preset = q])
      BY <2>1, SetTypes
    <2> QED
      BY <2>2, <2>3, <2>4, TypesThen
  <1>2. c.preset \in PresetState
    BY ChairParts
  <1>3. Types(c, preset_save(c, s))
    <2> DEFINE x == Snapshot(c)
               q == [c.preset EXCEPT !.armed = FALSE]
    <2>1. x \in Preset \cup {Unused} /\ q \in PresetState
      BY <1>2, SnapshotType, PresetParts
    <2>2. preset_save(c, s) = [c EXCEPT !.store.presets[s] = x, !.preset = q]
      BY DEF preset_save
    <2> HIDE DEF x, q
    <2> QED
      BY <1>1, <2>1, <2>2, Zenon
  <1>4. Types(c, preset_clear(c, s))
    <2> DEFINE q == [c.preset EXCEPT !.armed_age = 0]
    <2>1. Unused \in Preset \cup {Unused} /\ q \in PresetState
      BY <1>2, PresetParts
    <2>2. \/ preset_clear(c, s) = c
          \/ preset_clear(c, s) = [c EXCEPT !.store.presets[s] = Unused, !.preset = q]
      BY DEF preset_clear
    <2> HIDE DEF q
    <2>3. Types(c, c)
      BY SetTypes
    <2>4. Types(c, [c EXCEPT !.store.presets[s] = Unused, !.preset = q])
      BY <1>1, <2>1, Zenon
    <2> QED
      BY <2>2, <2>3, <2>4
  <1> QED
    BY <1>3, <1>4

-----------------------------------------------------------------------------

\* A recall has the slot it is of, and that is one in use.
Aimed(c) == c.preset.slot \in Slots /\ c.store.presets[c.preset.slot].used

LEMMA AimedSlot ==
    ASSUME NEW c \in ChairState, NEW s \in Slots, c.store.presets[s].used
    PROVE  LET p == c.store.presets[s] IN
           /\ p \in Preset /\ p.flags \in SUBSET {"heat", "massage", "lumbar"}
           /\ p.heat \in {0} \cup Levels /\ p.massage \in {0} \cup Levels /\ p.lumbar \in Nat
           /\ p["recline"] \in Nat /\ p["headrest"] \in Nat
  <1> DEFINE p == c.store.presets[s]
  <1>1. p \in Preset \cup {Unused} /\ p.used
    <2>1. c.store.presets \in [Slots -> Preset \cup {Unused}]
      BY StoreSet
    <2> QED
      BY <2>1, Zenon
  <1> HIDE DEF p
  <1>2. p \in Preset
    BY <1>1 DEF Unused
  <1> QED
    BY <1>2 DEF Preset, p

LEMMA SeekType ==
    ASSUME NEW c, NEW stage, NEW target
    PROVE  seek(c, stage, target) \in Relay!Motions \cup {"none"}
  <1> DEFINE pos == pos_for(c, stage)
             a == pos + SEEK < target
             b == target + SEEK < pos
  <1>1. seek(c, stage, target) =
           CASE a -> IF stage = "recline" THEN "recline_up" ELSE "headrest_up"
             [] b -> IF stage = "recline" THEN "recline_down" ELSE "headrest_down"
             [] OTHER -> "none"
    BY DEF seek
  <1>2. seek(c, stage, target) \in
           {"recline_up", "headrest_up", "recline_down", "headrest_down", "none"}
    <2> HIDE DEF a, b
    <2> QED
      BY <1>1
  <1> QED
    BY <1>2 DEF Relay!Motions, Relay!Recline, Relay!Headrest

LEMMA StageTypes ==
    ASSUME NEW c \in ChairState, Aimed(c), NEW stage \in {"recline", "headrest"}
    PROVE  LET d == Stage(c, stage) IN
           /\ Types(c, d) /\ Kept(c, d) /\ Aimed(d) /\ d.preset.drive \in Relay!Motions \cup {"none"}
           /\ LET e == Request(d, d.preset.drive) IN Types(c, e)
  <1> DEFINE target == c.store.presets[c.preset.slot][stage] * PRESET_STEP
             drive  == seek(c, stage, target)
             q      == [c.preset EXCEPT !.stage = stage, !.target = target, !.drive = drive]
             d      == [c EXCEPT !.preset = q]
  <1>1. target \in Nat
    <2>1. c.store.presets[c.preset.slot][stage] \in Nat
      BY AimedSlot DEF Aimed
    <2>2. PRESET_STEP \in Nat \ {0}
      BY MacroConstants
    <2> QED
      BY <2>1, <2>2, Products
  <1>2. drive \in Relay!Motions \cup {"none"}
    BY SeekType
  <1>3. Stage(c, stage) = d
    BY DEF Stage
  <1> HIDE DEF target, drive
  <1>4. c.preset \in PresetState
    BY ChairParts
  <1>5. q \in PresetState /\ q.slot = c.preset.slot /\ q.drive = drive
    <2>1. q \in PresetState
      BY <1>1, <1>2, <1>4, PresetParts
    <2>2. q.slot = c.preset.slot /\ q.drive = drive
      BY <1>4 DEF PresetState
    <2> QED
      BY <2>1, <2>2
  <1> HIDE DEF q
  <1>6. d.preset = q /\ d.store = c.store
    BY DEF ChairState
  <1>7. Types(c, d) /\ d \in ChairState
    BY <1>5, SetTypes DEF Types
  <1>8. Kept(c, d) /\ Aimed(d)
    BY <1>5, <1>6 DEF Kept, Aimed
  <1> HIDE DEF d
  <1>9. Types(c, Request(d, d.preset.drive))
    <2>1. Types(d, Request(d, d.preset.drive))
      BY <1>2, <1>5, <1>6, <1>7, RequestTypes
    <2> QED
      BY <1>7, <2>1, TypesThen
  <1> QED
    BY <1>2, <1>3, <1>5, <1>6, <1>7, <1>8, <1>9

LEMMA RestoreTypes ==
    ASSUME NEW c \in ChairState, Aimed(c)
    PROVE  Types(c, restore_comfort(c))
  <1> DEFINE p    == c.store.presets[c.preset.slot]
             on   == IF c.power THEN c ELSE power_toggle(c)
             warm == heat_set(on, "heat" \in p.flags)
             heat == IF "heat" \in p.flags THEN heat_use_level(warm, p.heat) ELSE warm
             mass == pneumatics_massage_set(heat, "massage" \in p.flags)
             use  == IF "massage" \in p.flags
                     THEN pneumatics_massage_use_level(mass, p.massage) ELSE mass
             last == pneumatics_lumbar_set(use, "lumbar" \in p.flags, p.lumbar)
  <1>0. restore_comfort(c) = last
    BY DEF restore_comfort
  <1>1. p.heat \in {0} \cup Levels /\ p.massage \in {0} \cup Levels /\ p.lumbar \in Nat
    BY AimedSlot DEF Aimed
  <1> HIDE DEF p
  <1>2. /\ ("heat" \in p.flags) \in BOOLEAN /\ ("massage" \in p.flags) \in BOOLEAN
        /\ ("lumbar" \in p.flags) \in BOOLEAN
    OBVIOUS
  <1>3. Types(c, on) /\ on \in ChairState
    BY PowerTypes, SetTypes DEF Types
  <1> HIDE DEF on
  <1>4. Types(on, warm) /\ warm \in ChairState
    BY <1>1, <1>2, <1>3, HeatTypes DEF Types
  <1> HIDE DEF warm
  <1>5. Types(warm, heat) /\ heat \in ChairState
    BY <1>1, <1>4, HeatTypes, SetTypes DEF Types
  <1> HIDE DEF heat
  <1>6. Types(heat, mass) /\ mass \in ChairState
    BY <1>1, <1>2, <1>5, MassageTypes DEF Types
  <1> HIDE DEF mass
  <1>7. Types(mass, use) /\ use \in ChairState
    BY <1>1, <1>6, MassageTypes, SetTypes DEF Types
  <1> HIDE DEF use
  <1>8. Types(use, last)
    BY <1>1, <1>2, <1>7, LumbarSetTypes
  <1> HIDE DEF last
  <1>9. Types(c, last)
    BY <1>3, <1>4, <1>5, <1>6, <1>7, <1>8, TypesThen
  <1> QED
    BY <1>0, <1>9

LEMMA ArriveTypes ==
    ASSUME NEW c \in ChairState, Aimed(c)
    PROVE  Types(c, Arrive(c))
  <1> DEFINE q == [c.preset EXCEPT !.stage = "idle", !.drive = "none"]
             d == [c EXCEPT !.preset = q]
  <1>1. c.preset \in PresetState
    BY ChairParts
  <1>2. q \in PresetState
    BY <1>1, PresetParts
  <1>3. q.slot = c.preset.slot
    BY <1>1 DEF PresetState
  <1>4. Arrive(c) = restore_comfort(d)
    BY DEF Arrive
  <1> HIDE DEF q
  <1>5. Types(c, d) /\ d \in ChairState
    BY <1>2, SetTypes DEF Types
  <1>6. Aimed(d)
    BY <1>3 DEF Aimed, ChairState
  <1> HIDE DEF d
  <1>7. Types(d, restore_comfort(d))
    BY <1>5, <1>6, RestoreTypes
  <1> QED
    BY <1>4, <1>5, <1>7, TypesThen

LEMMA RecallTypes ==
    ASSUME NEW c \in ChairState, NEW slot \in Slots
    PROVE  Types(c, preset_recall(c, slot))
  <1> DEFINE q        == [c.preset EXCEPT !.slot = slot]
             n        == [c EXCEPT !.preset = q]
             recline  == Stage(n, "recline")
             headrest == Stage(recline, "headrest")
             used     == c.store.presets[slot].used
  <1>1. Types(c, c)
    BY SetTypes
  <1>2. CASE ~used
    <2>1. preset_recall(c, slot) = c
      BY <1>2 DEF preset_recall
    <2> QED
      BY <1>1, <2>1
  <1>3. CASE used
    <2>1. c.preset \in PresetState /\ slot \in {0} \cup Slots
      BY ChairParts
    <2>2. q \in PresetState
      BY <2>1, PresetParts
    <2>3. q.slot = slot
      BY <2>1 DEF PresetState
    <2>4. n = [c EXCEPT !.preset.slot = slot]
      OBVIOUS
    <2> HIDE DEF q
    <2>5. Types(c, n) /\ n \in ChairState
      BY <2>2, SetTypes DEF Types
    <2>6. Aimed(n)
      BY <1>3, <2>3 DEF Aimed, ChairState
    <2> DEFINE er == Request(recline, recline.preset.drive)
               eh == Request(headrest, headrest.preset.drive)
               ar == Arrive(headrest)
    <2>7. preset_recall(c, slot) \in {c, er, eh, ar}
      <3> HIDE DEF n
      <3>1. recline = Stage([c EXCEPT !.preset.slot = slot], "recline")
        BY <2>4
      <3> HIDE DEF recline
      <3>2. headrest = Stage(recline, "headrest")
        OBVIOUS
      <3> HIDE DEF headrest, er, eh, ar
      <3>3. er = Request(recline, recline.preset.drive)
            /\ eh = Request(headrest, headrest.preset.drive) /\ ar = Arrive(headrest)
        BY DEF er, eh, ar
      <3> DEFINE busy == c.preset.armed \/ c.preset.stage # "idle" \/ ~used
      <3>4. preset_recall(c, slot) =
              CASE busy -> c
                [] OTHER ->
                     IF recline.preset.drive # "none" THEN er
                     ELSE IF headrest.preset.drive # "none" THEN eh ELSE ar
        BY <3>1, <3>2, <3>3 DEF preset_recall
      <3> HIDE DEF busy
      <3> QED
        BY <3>4
    <2> HIDE DEF n
    <2>8. Types(n, recline) /\ recline \in ChairState /\ Aimed(recline) /\ Types(n, er)
      BY <2>5, <2>6, StageTypes DEF Types
    <2> HIDE DEF recline, er
    <2>9. Types(recline, headrest) /\ headrest \in ChairState /\ Aimed(headrest) /\ Types(recline, eh)
      BY <2>8, StageTypes DEF Types
    <2> HIDE DEF headrest, eh
    <2>10. Types(headrest, ar)
      BY <2>9, ArriveTypes
    <2> HIDE DEF ar
    <2>11. Types(c, recline) /\ Types(c, headrest)
      BY <2>5, <2>8, <2>9, TypesThen
    <2>12. Types(c, er) /\ Types(c, eh) /\ Types(c, ar)
      BY <2>5, <2>8, <2>9, <2>10, <2>11, TypesThen
    <2> QED
      BY <1>1, <2>7, <2>12
  <1> QED
    BY <1>2, <1>3

LEMMA NextStageTypes ==
    ASSUME NEW c \in ChairState, Aimed(c)
    PROVE  Types(c, NextStage(c))
  <1> DEFINE headrest == Stage(c, "headrest")
             e        == Request(headrest, headrest.preset.drive)
  <1>1. Types(c, headrest) /\ headrest \in ChairState /\ Aimed(headrest) /\ Types(c, e)
    BY StageTypes DEF Types
  <1>2. NextStage(c) \in {e, Arrive(headrest), Arrive(c)}
    BY DEF NextStage
  <1> HIDE DEF headrest, e
  <1>3. Types(c, Arrive(c)) /\ Types(headrest, Arrive(headrest))
    BY <1>1, ArriveTypes
  <1>4. Types(c, Arrive(headrest))
    BY <1>1, <1>3, TypesThen
  <1> QED
    BY <1>1, <1>2, <1>3, <1>4

LEMMA AdvanceTypes ==
    ASSUME NEW c \in ChairState, Aimed(c)
    PROVE  Types(c, Advance(c))
  <1> DEFINE r == Request(c, "none")
  <1>1. Types(c, r) /\ r \in ChairState /\ r.preset = c.preset /\ r.store = c.store
    BY RequestTypes DEF Types
  <1>2. Advance(c) \in {c, r, NextStage(c), NextStage(r)}
    BY DEF Advance
  <1> HIDE DEF r
  <1>3. Aimed(r)
    BY <1>1 DEF Aimed
  <1>4. Types(c, c) /\ Types(c, NextStage(c)) /\ Types(r, NextStage(r))
    BY <1>1, <1>3, SetTypes, NextStageTypes
  <1>5. Types(c, NextStage(r))
    BY <1>1, <1>4, TypesThen
  <1> QED
    BY <1>1, <1>2, <1>4, <1>5

LEMMA UpdateTypes ==
    ASSUME NEW c \in ChairState, c.preset.stage # "idle" => Aimed(c), NEW key
    PROVE  Types(c, preset_update(c, key))
  <1> DEFINE now == Expire(c)
  <1>1. Types(c, now) /\ now \in ChairState /\ Kept(c, now)
    BY WindowTypes DEF Types
  <1>2. now.preset.stage = c.preset.stage
    BY DEF Expire, preset_cancel, ChairState, PresetState
  <1>3. \/ preset_update(c, key) \in {now, Cancel(now)}
        \/ now.preset.stage # "idle" /\ preset_update(c, key) = Advance(now)
    <2> HIDE DEF now
    <2> DEFINE a == now.preset.stage = "idle"
               k == key # "none"
    <2>1. preset_update(c, key) =
            CASE a -> now [] ~a /\ k -> Cancel(now) [] ~a /\ ~k -> Advance(now)
      BY DEF preset_update, now
    <2>2. a <=> now.preset.stage = "idle"
      OBVIOUS
    <2> HIDE DEF a, k
    <2> QED
      BY <2>1, <2>2
  <1> HIDE DEF now
  <1>4. Types(now, now) /\ Types(now, Cancel(now))
    BY <1>1, SetTypes, WindowTypes
  <1>5. now.preset.stage # "idle" => Types(now, Advance(now))
    BY <1>1, <1>2, AdvanceTypes DEF Kept, Aimed
  <1>6. \A d : Types(now, d) => Types(c, d)
    BY <1>1, TypesThen
  <1> QED
    BY <1>3, <1>4, <1>5, <1>6

-----------------------------------------------------------------------------
(* The events, typed.                                                        *)

LEMMA ComfortTypes ==
    ASSUME NEW c \in ChairState, NEW b, b = "lumbar" => Fits(c.pneu)
    PROVE  /\ comfort_button(c, b) \in ChairState
           /\ b # "lumbar" => Types(c, comfort_button(c, b))
  <1>1. Types(c, c) /\ Types(c, heat_press(c)) /\ Types(c, MassageButton(c))
    <2>1. TRUE \in BOOLEAN /\ 0 \in {0} \cup Levels
      OBVIOUS
    <2> QED
      BY <2>1, SetTypes, HeatTypes, MassageTypes
  <1>2. b = "lumbar" => LumbarButton(c) \in ChairState
    BY LumbarPressType
  <1>3. \/ comfort_button(c, b) \in {c, heat_press(c), MassageButton(c)}
        \/ b = "lumbar" /\ comfort_button(c, b) = LumbarButton(c)
    <2> DEFINE p == c.power
               h == b = "heat"
               m == b = "massage"
               l == b = "lumbar"
    <2>1. comfort_button(c, b) =
            CASE ~p -> c [] p /\ h -> heat_press(c) [] p /\ m -> MassageButton(c)
              [] p /\ l -> LumbarButton(c) [] OTHER -> c
      BY DEF comfort_button
    <2>2. p \in BOOLEAN
      BY ChairParts
    <2>3. l <=> b = "lumbar"
      OBVIOUS
    <2>4. ~(h /\ m) /\ ~(h /\ l) /\ ~(m /\ l)
      OBVIOUS
    <2> HIDE DEF p, h, m, l
    <2> QED
      BY <2>1, <2>2, <2>3, <2>4
  <1> QED
    BY <1>1, <1>2, <1>3 DEF Types

LEMMA DeliverTypes ==
    ASSUME NEW c \in ChairState, NEW want \in {0} \cup Levels
    PROVE  Types(c, deliver_level(c, want))
  <1> DEFINE set == IF c.adjust.owner = "heat" THEN heat_set_level(c, want)
                    ELSE pneumatics_massage_set_level(c, want)
             a   == adjust_pick(set.adjust, want)
             e   == [set EXCEPT !.adjust = a]
  <1>1. TRUE \in BOOLEAN /\ "heat" \in Owners
    BY DEF Owners
  <1>2. Types(c, set) /\ set \in ChairState
    BY <1>1, HeatTypes, MassageTypes DEF Types
  <1> HIDE DEF set
  <1>3. a \in BarState
    BY <1>1, <1>2, ChairParts, BarCalls
  <1> HIDE DEF a
  <1>4. Types(set, e)
    BY <1>2, <1>3, SetTypes
  <1>5. deliver_level(c, want) \in {c, e}
    BY DEF deliver_level, e, a, set
  <1> HIDE DEF e
  <1>6. Types(c, e) /\ Types(c, c)
    BY <1>2, <1>4, SetTypes, TypesThen
  <1> QED
    BY <1>5, <1>6

LEMMA TouchTypes ==
    ASSUME NEW c \in ChairState, NEW b
    PROVE  Types(c, TouchBar(c, b)) /\ TouchBar(c, b).pneu = c.pneu
  <1> DEFINE a == IF c.adjust.owner = b THEN adjust_defer(c.adjust, SHORT) ELSE adjust_dismiss(c.adjust)
  <1>1. "heat" \in Owners /\ 0 \in {0} \cup Levels /\ c.adjust \in BarState
    BY ChairParts DEF Owners
  <1>2. a \in BarState
    BY <1>1, BarCalls
  <1>3. TouchBar(c, b) = [c EXCEPT !.adjust = a]
    BY DEF TouchBar
  <1> HIDE DEF a
  <1>4. [c EXCEPT !.adjust = a].pneu = c.pneu
    BY DEF ChairState
  <1>5. Types(c, [c EXCEPT !.adjust = a])
    BY <1>2, SetTypes
  <1> QED
    BY <1>3, <1>4, <1>5

LEMMA PressTypes ==
    ASSUME NEW c \in ChairState, NEW b \in Buttons, b = "lumbar" => Fits(c.pneu)
    PROVE  /\ OnPress(c, b) \in ChairState
           /\ b # "lumbar" => Types(c, OnPress(c, b))
  <1> DEFINE touch == TouchBar(c, b)
             level == deliver_level(c, Level(b))
  <1>1. \A d \in ChairState : Types(d, consume_motion(d, b))
    BY SetTypes DEF consume_motion
  <1>2. Types(c, touch) /\ touch \in ChairState /\ touch.pneu = c.pneu
    BY TouchTypes DEF Types
  <1>3. b \in Drives => Types(c, consume_motion(level, b))
    <2> SUFFICES ASSUME b \in Drives PROVE Types(c, consume_motion(level, b))
      OBVIOUS
    <2>1. Level(b) \in {0} \cup Levels
      BY LevelIsSlot DEF Slots
    <2>2. Types(c, level) /\ level \in ChairState
      BY <2>1, DeliverTypes DEF Types
    <2> HIDE DEF level
    <2> QED
      BY <1>1, <2>2, TypesThen
  <1>4. /\ comfort_button(touch, b) \in ChairState
        /\ b # "lumbar" => Types(c, comfort_button(touch, b))
    <2> HIDE DEF touch
    <2>1. /\ comfort_button(touch, b) \in ChairState
          /\ b # "lumbar" => Types(touch, comfort_button(touch, b))
      BY <1>2, ComfortTypes
    <2> QED
      BY <1>2, <2>1, TypesThen
  <1>5. \/ OnPress(c, b) \in {consume_motion(c, b), touch, comfort_button(touch, b)}
        \/ b \in Drives /\ OnPress(c, b) = consume_motion(level, b)
    <2> DEFINE s == c.preset.stage # "idle"
               w == c.preset.armed
               v == b \in Drives
               a == c.adjust.armed
               last == IF b \in Owners \cup {"power"} THEN touch ELSE comfort_button(touch, b)
    <2>1. OnPress(c, b) =
            CASE s -> consume_motion(c, b)
              [] ~s /\ w /\ v -> consume_motion(c, b)
              [] ~s /\ ~w /\ v /\ a -> consume_motion(level, b)
              [] OTHER -> last
      BY DEF OnPress
    <2>2. s \in BOOLEAN /\ w \in BOOLEAN /\ v \in BOOLEAN /\ a \in BOOLEAN
      <3>1. c.preset \in PresetState /\ c.adjust \in BarState
        BY ChairParts
      <3>2. w \in BOOLEAN
        BY <3>1, PresetParts
      <3>3. a \in BOOLEAN
        BY <3>1, BarFields
      <3> QED
        BY <3>2, <3>3
    <2>3. last \in {touch, comfort_button(touch, b)}
      OBVIOUS
    <2>4. v <=> b \in Drives
      OBVIOUS
    <2> HIDE DEF s, w, v, a, last, touch, level
    <2> QED
      BY <2>1, <2>2, <2>3, <2>4
  <1> HIDE DEF touch, level
  <1>6. Types(c, consume_motion(c, b))
    BY <1>1
  <1> QED
    BY <1>2, <1>3, <1>4, <1>5, <1>6 DEF Types

LEMMA TapTypes ==
    ASSUME NEW c \in ChairState, NEW b \in Buttons, NEW double \in BOOLEAN
    PROVE  Types(c, OnTap(c, b, double))
  <1>1. Types(c, c) /\ Types(c, preset_cancel(c)) /\ Types(c, flatten_tap_start(c))
    BY SetTypes, WindowTypes, FlattenTypes
  <1>2. Types(c, power_short_press(c))
    <2> DEFINE now == power_toggle(c)
    <2>1. Types(c, now) /\ now \in ChairState
      BY PowerTypes DEF Types
    <2> HIDE DEF now
    <2>2. Types(c, power_comfort_off(now))
      BY <2>1, PowerTypes, TypesThen
    <2> QED
      BY <2>1, <2>2 DEF power_short_press, now
  <1>3. Types(c, OnPowerTap(c, double))
    <2> DEFINE w == c.preset.armed
    <2>1. OnPowerTap(c, double) =
            CASE w -> preset_cancel(c) [] ~w /\ double -> flatten_tap_start(c)
              [] ~w /\ ~double -> power_short_press(c)
      BY DEF OnPowerTap
    <2>2. w \in BOOLEAN
      BY ChairParts, PresetParts
    <2> HIDE DEF w
    <2>3. OnPowerTap(c, double) \in {preset_cancel(c), flatten_tap_start(c), power_short_press(c)}
      BY <2>1, <2>2
    <2> QED
      BY <1>1, <1>2, <2>3
  <1>4. b \in Drives => Types(c, OnMotionTap(c, b, double))
    <2> SUFFICES ASSUME b \in Drives PROVE Types(c, OnMotionTap(c, b, double))
      OBVIOUS
    <2>1. Types(c, preset_save(c, Level(b))) /\ Types(c, preset_recall(c, Level(b)))
      BY LevelIsSlot, SlotTypes, RecallTypes
    <2> DEFINE w == c.preset.armed
               x == preset_save(c, Level(b))
               y == preset_recall(c, Level(b))
    <2>2. OnMotionTap(c, b, double) = CASE w -> x [] ~w /\ double -> y [] OTHER -> c
      BY DEF OnMotionTap
    <2> HIDE DEF w, x, y
    <2>3. OnMotionTap(c, b, double) \in {x, y, c}
      BY <2>2
    <2> QED
      BY <1>1, <2>1, <2>3 DEF x, y
  <1>5. b \in Owners => Types(c, comfort_button(c, b))
    BY ComfortTypes DEF Owners
  <1>6. Types(c, Release(c))
    BY <1>1, ReleaseTypes DEF Release
  <1>7. \/ OnTap(c, b, double) \in {OnPowerTap(c, double), Release(c), c}
        \/ b \in Drives /\ OnTap(c, b, double) = OnMotionTap(c, b, double)
        \/ b \in Owners /\ OnTap(c, b, double) = comfort_button(c, b)
    <2> DEFINE o == b \in Owners
               v == b \in Drives
    <2>1. OnTap(c, b, double) =
            CASE b = "power"  -> OnPowerTap(c, double)
              [] v -> OnMotionTap(c, b, double)
              [] o -> comfort_button(c, b)
              [] b = "lumbar" -> Release(c)
              [] OTHER        -> c
      BY DEF OnTap
    <2>2. (o <=> b \in Owners) /\ (v <=> b \in Drives)
      OBVIOUS
    <2> HIDE DEF o, v
    <2> QED
      BY <2>1, <2>2
  <1> QED
    BY <1>1, <1>3, <1>4, <1>5, <1>6, <1>7

LEMMA HoldTypes ==
    ASSUME NEW c \in ChairState, NEW b \in Buttons
    PROVE  Types(c, OnHold(c, b))
  <1>0. TRUE \in BOOLEAN /\ 0 \in {0} \cup Levels
    OBVIOUS
  <1>1. /\ Types(c, c) /\ Types(c, preset_arm(c)) /\ Types(c, heat_arm(c))
        /\ Types(c, pneumatics_massage_arm(c))
    BY <1>0, SetTypes, WindowTypes, HeatTypes, MassageTypes
  <1>2. b \in Drives => Types(c, preset_clear(c, Level(b)))
    BY LevelIsSlot, SlotTypes
  <1>3. \/ OnHold(c, b) \in {c, preset_arm(c), heat_arm(c), pneumatics_massage_arm(c)}
        \/ b \in Drives /\ OnHold(c, b) = preset_clear(c, Level(b))
    <2> DEFINE v == b \in Drives
               x == preset_clear(c, Level(b))
               y == IF c.preset.armed THEN x ELSE c
    <2>1. OnHold(c, b) =
            CASE v -> y
              [] b = "power"                 -> preset_arm(c)
              [] b = "heat" /\ c.power       -> heat_arm(c)
              [] b = "massage" /\ c.power    -> pneumatics_massage_arm(c)
              [] OTHER                       -> c
      BY DEF OnHold
    <2>2. y \in {x, c} /\ (v <=> b \in Drives)
      OBVIOUS
    <2> HIDE DEF v, y
    <2> QED
      BY <2>1, <2>2
  <1> QED
    BY <1>1, <1>2, <1>3

\* Only a press of lumbar's own button may inflate onto what is there.
LEMMA EventTypes ==
    ASSUME NEW c \in ChairState, NEW b \in Press!ButtonState, b.prev \in Buttons \cup {"none"},
           NEW key \in Buttons \cup {"none"},
           key = "lumbar" /\ b.prev # "lumbar" => Fits(c.pneu)
    PROVE  LET d == route_event(c, Press!Reported(b, key)) IN
           /\ d \in ChairState
           /\ key # "lumbar" => Types(c, d)
  <1> DEFINE ev == Press!Reported(b, key)
             d  == route_event(c, ev)
  <1>1. /\ key # b.prev /\ key # "none" => ev.kind = "press" /\ ev.button = key
        /\ key = b.prev => ev.button = key /\ (ev.kind = "none" \/ (ev.kind = "hold" /\ key # "none"))
        /\ key # b.prev /\ key = "none" =>
              ev.button = b.prev /\ ev.kind \in {"hold_release", "tap", "double_tap"}
    BY Events
  <1> HIDE DEF ev
  <1>2. Types(c, c) /\ Types(c, Release(c))
    BY SetTypes, ReleaseTypes DEF Release
  <1>3. CASE key # b.prev /\ key # "none"
    <2>1. d = OnPress(c, key) /\ key \in Buttons
      BY <1>1, <1>3 DEF route_event
    <2>2. key = "lumbar" => Fits(c.pneu)
      BY <1>3
    <2> HIDE DEF d
    <2> QED
      BY <2>1, <2>2, PressTypes DEF d, ev
  <1>4. CASE key = b.prev
    <2>1. ev.kind = "hold" => Types(c, OnHold(c, key))
      BY <1>1, <1>4, HoldTypes
    <2>2. \/ d = c
          \/ ev.kind = "hold" /\ d = OnHold(c, key)
      BY <1>1, <1>4 DEF route_event
    <2>3. Types(c, d)
      BY <1>2, <2>1, <2>2
    <2> HIDE DEF d
    <2> QED
      BY <2>3 DEF Types, d, ev
  <1>5. CASE key # b.prev /\ key = "none"
    <2>1. b.prev \in Buttons
      BY <1>5
    <2>2. Types(c, OnTap(c, b.prev, FALSE)) /\ Types(c, OnTap(c, b.prev, TRUE))
      BY <2>1, TapTypes
    <2>3. d \in {OnTap(c, b.prev, FALSE), OnTap(c, b.prev, TRUE), Release(c), c}
      BY <1>1, <1>5 DEF route_event
    <2>4. Types(c, d)
      BY <1>2, <2>2, <2>3
    <2> HIDE DEF d
    <2> QED
      BY <2>4 DEF Types, d, ev
  <1> QED
    BY <1>3, <1>4, <1>5

\* With lumbar's button up again, or another in its place, nothing has moved.
LEMMA EventStill ==
    ASSUME NEW c, Sound(c), NEW b, b.prev = "lumbar", NEW key, key # "lumbar"
    PROVE  route_event(c, Press!Reported(b, key)).motion = c.motion
  <1> DEFINE ev == Press!Reported(b, key)
             d  == route_event(c, ev)
  <1>1. /\ key # "none" => ev.kind = "press" /\ ev.button = key
        /\ key = "none" =>
              ev.button = "lumbar" /\ ev.kind \in {"hold_release", "tap", "double_tap"}
    BY Events
  <1> HIDE DEF ev
  <1>2. Release(c).motion = c.motion
    <2>1. Hushes(c, pneumatics_lumbar_release(c))
      BY LumbarServes DEF Sound
    <2> QED
      BY <2>1 DEF Release, Hushes, Apart
  <1>3. \A double : OnTap(c, "lumbar", double) = Release(c)
    <2>1. "lumbar" \notin Drives /\ "lumbar" \notin Owners
      BY Routes DEF Owners
    <2> QED
      BY <2>1 DEF OnTap
  <1>4. OnPress(c, key).motion = c.motion
    BY PressSound
  <1>5. d \in {OnPress(c, key), Release(c)}
    BY <1>1, <1>3 DEF route_event
  <1> HIDE DEF d
  <1> QED
    BY <1>2, <1>4, <1>5 DEF d, ev

-----------------------------------------------------------------------------
(* A pass, typed.                                                            *)

LEMMA ElapsedTypes ==
    ASSUME NEW c \in ChairState, NEW d \in Durations
    PROVE  Types(c, ElapseChair(c, d)) /\ ElapseChair(c, d).motion.requested = c.motion.requested
  <1> DEFINE b == ElapseButton(c.button, d)
             a == ElapseAdjust(c.adjust, d)
             h == ElapseHeat(c.heat, d)
             p == ElapsePneumatics(c.pneu, d)
             r == ElapsePreset(c.preset, d)
             m == Relay!Elapse(c.motion, d)
             e == [c EXCEPT !.button = b, !.adjust = a, !.heat = h, !.pneu = p,
                            !.preset = r, !.motion = m]
  <1>1. /\ b \in Press!ButtonState /\ a \in BarState /\ h \in HeatState /\ r \in PresetState
        /\ m \in Relay!MotionState /\ p \in AirState /\ (Fits(c.pneu) => Fits(p))
    BY ChairParts, ButtonElapse, BarElapse, HeatElapse, AirElapse, PresetElapse, MotionElapse
  <1>2. m.requested = c.motion.requested
    <2>1. c.motion \in Relay!MotionState
      BY ChairParts
    <2> QED
      BY <2>1 DEF Relay!Elapse, Relay!MotionState
  <1>3. ElapseChair(c, d) = e
    BY DEF ElapseChair
  <1> HIDE DEF b, a, h, p, r, m
  <1>4. e \in ChairState
    BY <1>1, Zenon DEF ChairState
  <1>5. e.pneu = p /\ e.motion = m
    BY DEF ChairState
  <1> HIDE DEF e
  <1> QED
    BY <1>1, <1>2, <1>3, <1>4, <1>5 DEF Types

\* What is asked of the motors is a motion of theirs.
LEMMA WantedType ==
    ASSUME NEW c \in ChairState, NEW key
    PROVE  Wanted(c, key) \in Relay!Motions \cup {"none"}
  <1>1. c.preset.drive \in Relay!Motions \cup {"none"}
    BY ChairParts, PresetParts
  <1>2. Drives \subseteq Relay!Motions
    <2>1. Drives \subseteq Relay!Recline \cup Relay!Headrest
      BY ControlConstants DEF Drives
    <2> QED
      BY <2>1 DEF Relay!Motions
  <1>3. motion_for(key) \in Relay!Motions \cup {"none"} /\ "flatten" \in Relay!Motions
    BY <1>2 DEF motion_for, Relay!Motions
  <1>4. Wanted(c, key) \in {c.preset.drive, "flatten", "none", motion_for(key)}
    BY DEF Wanted
  <1> QED
    BY <1>1, <1>3, <1>4

LEMMA PassTypes ==
    ASSUME NEW now \in ChairState, NEW k, Ready(now, k), Steers(now),
           Fits(now.pneu) \/ (k = "lumbar" /\ Still(now)),
           NEW key \in Buttons \cup {"none"}, NEW current
    PROVE  LET after == control_update(now, key, current) IN
           after \in ChairState /\ (Fits(after.pneu) \/ key = "lumbar")
  <1> DEFINE ev      == Press!Reported(now.button, key)
             b       == Press!Updated(now.button, key)
             heard   == [now EXCEPT !.button = b]
             routed  == route_event(heard, ev)
             air     == pneumatics_update(routed)
             comfort == heat_update(air)
             x       == adjust_update(comfort.adjust)
             bar     == [comfort EXCEPT !.adjust = x]
             kept    == IF key = bar.consumed THEN bar.consumed ELSE "none"
             borrow  == [bar EXCEPT !.consumed = kept]
             flat    == flatten_update(borrow, key)
             macros  == preset_update(flat, key)
             want    == Wanted(macros, key)
             asked   == Request(macros, want)
             relays  == Relay!motion_update(asked.motion, current)
             after   == [asked EXCEPT !.motion = relays]
  <1>0. control_update(now, key, current) = after
    BY DEF control_update
  <1>1. Sound(flat) /\ Steers(flat)
    <2>1. Flattened(now, key) = flat
      BY DEF Flattened
    <2> QED
      BY <2>1, MidPass
  <1>2. /\ now.button \in Press!ButtonState /\ now.button.prev = k
        /\ k \in Buttons \cup {"none"}
    BY ChairParts, ButtonParts DEF Ready
  <1>3. b \in Press!ButtonState /\ DOMAIN b = ButtonFields
    <2>1. b \in Press!ButtonState
      BY <1>2, ButtonUpdate
    <2>2. DOMAIN now.button = ButtonFields
      BY DEF Ready, Sound, Whole
    <2>3. DOMAIN b = ButtonFields
      BY <2>2, ButtonFollows
    <2> QED
      BY <2>1, <2>3
  <1> HIDE DEF b
  <1>4. Types(now, heard) /\ heard \in ChairState /\ heard.pneu = now.pneu
    <2>1. heard.pneu = now.pneu
      BY DEF ChairState
    <2> QED
      BY <1>3, <2>1, SetTypes DEF Types
  <1>5. Sound(heard) /\ heard.motion = now.motion
    <2>1. /\ heard.power = now.power /\ heard.flatten = now.flatten /\ heard.preset = now.preset
          /\ heard.heat = now.heat /\ heard.pneu = now.pneu /\ heard.motion = now.motion
          /\ heard.store = now.store /\ Whole(heard)
      BY <1>3 DEF Ready, Sound, Whole, Shape
    <2> HIDE DEF heard
    <2> QED
      BY <2>1 DEF Ready, Sound, Covered, Asleep, Single
  <1> HIDE DEF heard
  <1>6. /\ routed \in ChairState
        /\ key # "lumbar" => Types(heard, routed)
    <2>1. key = "lumbar" /\ now.button.prev # "lumbar" => Fits(heard.pneu)
      BY <1>2, <1>4
    <2> QED
      BY <1>2, <1>4, <2>1, EventTypes
  <1>7. k = "lumbar" /\ key # "lumbar" => routed.motion = heard.motion
    BY <1>2, <1>5, EventStill
  <1> HIDE DEF routed
  <1>8. /\ Types(routed, air) /\ air \in ChairState
        /\ Still(routed) => Fits(air.pneu)
    BY <1>6, AirUpdateTypes DEF Types
  <1>9. key # "lumbar" => Fits(air.pneu)
    <2> SUFFICES ASSUME key # "lumbar" PROVE Fits(air.pneu)
      OBVIOUS
    <2>1. CASE Fits(now.pneu)
      BY <1>4, <1>6, <1>8, <2>1 DEF Types
    <2>2. CASE k = "lumbar" /\ Still(now)
      BY <1>5, <1>7, <1>8, <2>2 DEF Still
    <2> QED
      BY <2>1, <2>2
  <1> HIDE DEF air
  <1>10. Types(air, comfort) /\ comfort \in ChairState
    <2>1. TRUE \in BOOLEAN /\ 0 \in {0} \cup Levels
      OBVIOUS
    <2> QED
      BY <1>8, <2>1, HeatTypes DEF Types
  <1> HIDE DEF comfort
  <1>11. Types(comfort, bar) /\ bar \in ChairState
    <2>1. x \in BarState
      BY <1>10, ChairParts, BarUpdate
    <2> HIDE DEF x
    <2> QED
      BY <1>10, <2>1, SetTypes DEF Types
  <1> HIDE DEF bar
  <1>12. Types(bar, borrow) /\ borrow \in ChairState
    <2>1. kept \in Buttons \cup {"none"}
      OBVIOUS
    <2> HIDE DEF kept
    <2> QED
      BY <1>11, <2>1, SetTypes DEF Types
  <1> HIDE DEF borrow
  <1>13. Types(borrow, flat) /\ flat \in ChairState
    BY <1>12, FlattenTypes DEF Types
  <1> HIDE DEF flat
  <1>14. Types(flat, macros) /\ macros \in ChairState
    <2>1. flat.preset.stage # "idle" => Aimed(flat)
      BY <1>1 DEF Steers, Recalling, Aimed
    <2> QED
      BY <1>13, <2>1, UpdateTypes DEF Types
  <1> HIDE DEF macros
  <1>15. Types(macros, asked) /\ asked \in ChairState
    <2>1. want \in Relay!Motions \cup {"none"}
      BY <1>14, WantedType
    <2> HIDE DEF want
    <2> QED
      BY <1>14, <2>1, RequestTypes DEF Types
  <1> HIDE DEF asked
  <1>16. Types(asked, after) /\ after \in ChairState
    <2>1. relays \in Relay!MotionState
      BY <1>15, ChairParts, MotionUpdate
    <2> HIDE DEF relays
    <2> QED
      BY <1>15, <2>1, SetTypes DEF Types
  <1> HIDE DEF after
  <1>17. key # "lumbar" => Fits(after.pneu)
    BY <1>9, <1>10, <1>11, <1>12, <1>13, <1>14, <1>15, <1>16 DEF Types
  <1> QED
    BY <1>0, <1>16, <1>17

\* What is known of the chair between two passes, its types with it: the one press
\* that may have inflated onto more than the ceiling is lumbar's, and is down.
TypeInv ==
    /\ SeekInv
    /\ chair \in ChairState
    /\ Fits(chair.pneu) \/ code = "lumbar"

LEMMA TypeBegins == Init => TypeInv
  <1> SUFFICES ASSUME Init PROVE TypeInv
    OBVIOUS
  <1>1. PICK store \in Stores :
          chair = [button |-> Press!PowerOn, power |-> FALSE, flatten |-> FALSE,
                   preset |-> PresetOff, consumed |-> "none",
                   adjust |-> AdjustOff, heat |-> HeatOff, pneu |-> PneumaticsOff,
                   motion |-> Relay!PowerOn, store |-> store]
    BY DEF Init
  <1>2. Press!PowerOn \in Press!ButtonState
    BY ButtonZeros DEF Press!PowerOn, Press!ButtonState, Press!NONE
  <1>3. PresetOff \in PresetState
    BY MacroConstants DEF PresetOff, PresetState
  <1>4. AdjustOff \in BarState
    <2>1. AdjustOff \in AdjustState
      BY BarTimes DEF AdjustOff, AdjustState
    <2> QED
      BY <2>1 DEF AdjustOff, BarState
  <1>5. PneumaticsOff \in AirState /\ Fits(PneumaticsOff)
    <2>1. PneumaticsOff \in PneumaticsState
      BY AirZeros, Zenon DEF PneumaticsOff, PneumaticsState
    <2> QED
      BY <2>1 DEF PneumaticsOff, AirState, Owned, Fits
  <1>6. Relay!PowerOn \in Relay!MotionState
    BY MotionZeros DEF Relay!PowerOn, Relay!MotionState, Relay!NONE
  <1>7. store \in StoreState
    BY StoresLoaded DEF StoreState
  <1>8. chair \in ChairState
    BY <1>1, <1>2, <1>3, <1>4, <1>5, <1>6, <1>7, HeatOffType, Zenon DEF ChairState
  <1>9. chair.pneu = PneumaticsOff
    BY <1>1
  <1> QED
    BY <1>5, <1>8, <1>9, SeekBegins DEF TypeInv

LEMMA TypeSteps ==
    ASSUME TypeInv, NEW d \in Durations, NEW b \in Buttons \cup {"none"},
           NEW current \in Sampled, Pass(d, b, current)
    PROVE  TypeInv'
  <1> DEFINE now == ElapseChair(chair, d)
  <1>1. SeekInv'
    BY SeekSteps DEF TypeInv
  <1>2. Steers(now) /\ Sound(now) /\ now.button.prev = chair.button.prev
        /\ now.flatten = chair.flatten /\ now.preset.stage = chair.preset.stage
    BY Elapsed, SteersElapsed DEF TypeInv, SeekInv, ChairInv
  <1>3. now \in ChairState /\ (Fits(chair.pneu) => Fits(now.pneu))
        /\ now.motion.requested = chair.motion.requested
    BY ElapsedTypes DEF TypeInv, Types
  <1>4. chair' = control_update(now, b, current) /\ code' = b
    BY DEF Pass
  <1> HIDE DEF now
  <1>5. Ready(now, code)
    BY <1>2 DEF Ready, TypeInv, SeekInv, ChairInv, ButtonDown
  <1>6. code = "lumbar" => Still(now)
    <2>1. chair.motion.requested \in Relay!Motions \cup {"none"}
      BY ChairParts, MotionParts DEF TypeInv, Relay!NONE
    <2>2. "lumbar" \notin Relay!Motions
      BY DEF Relay!Motions, Relay!Recline, Relay!Headrest
    <2>3. code = "lumbar" => chair.motion.requested \in {"none", "lumbar"}
      BY DEF TypeInv, SeekInv, ChairInv, ButtonDown
    <2> QED
      BY <1>3, <2>1, <2>2, <2>3 DEF Still
  <1>7. Fits(now.pneu) \/ (code = "lumbar" /\ Still(now))
    BY <1>3, <1>6 DEF TypeInv
  <1>8. LET after == control_update(now, b, current) IN
        after \in ChairState /\ (Fits(after.pneu) \/ b = "lumbar")
    BY <1>2, <1>3, <1>5, <1>7, PassTypes
  <1>9. chair' \in ChairState /\ (Fits(chair'.pneu) \/ code' = "lumbar")
    BY <1>4, <1>8
  <1>10. Fits(chair'.pneu) <=> Fits(chair.pneu)'
    BY DEF Fits
  <1>11. (chair \in ChairState)'
    BY <1>9 DEF ChairState
  <1> QED
    BY <1>1, <1>9, <1>10, <1>11 DEF TypeInv

\* What the types rest on is kept: the valves have one owner, a bar is within its
\* phase, a recall has a slot in use, and lumbar's age and base are within the cell.
THEOREM TypeInvariant == Spec => []TypeInv
  <1>1. TypeInv /\ [Next]_vars => TypeInv'
    <2>1. ASSUME TypeInv, Next PROVE TypeInv'
      BY <2>1, TypeSteps DEF Next
    <2>2. ASSUME TypeInv, UNCHANGED vars PROVE TypeInv'
      <3>1. SeekInv'
        <4>1. ChairInv'
          BY <2>2 DEF TypeInv, SeekInv, vars, ChairInv, ButtonDown, ClaimHeld, HeatClock
        <4> QED
          BY <2>2, <4>1 DEF TypeInv, SeekInv, vars
      <3> QED
        BY <2>2, <3>1 DEF TypeInv, vars
    <2> QED
      BY <2>1, <2>2
  <1> QED
    BY <1>1, TypeBegins, PTL DEF Spec

\* Every field of the chair stays within its type (the widths and enumerations of
\* the statics in src/src), over any passes, buttons and readings: no level but the
\* five, no age past what reads it, nothing stored in a slot that a recall cannot use.
THEOREM ChairTyped == Spec => []TypeOK
  <1>1. TypeInv => TypeOK
    <2> SUFFICES ASSUME TypeInv PROVE TypeOK
      OBVIOUS
    <2>1. chair \in ChairState
      BY DEF TypeInv
    <2>2. chair.adjust \in AdjustState /\ chair.pneu \in PneumaticsState
      BY <2>1, ChairParts DEF BarState, AirState
    <2>3. chair.store.presets \in [Slots -> Preset \cup {Unused}]
      BY <2>1, StoreSet
    <2> QED
      BY <2>1, <2>2, <2>3, ChairParts DEF TypeOK
  <1> QED
    BY <1>1, TypeInvariant, PTL

OneOwner == chair.pneu.massage_on => chair.pneu.lumbar_state = "off"

\* The massage and the lumbar support are never both under way (massage_start puts
\* lumbar off, lumbar's press and its recall put the massage off): the cells and the
\* exhaust they share are driven by one of them, whoever asked for the other.
THEOREM ValvesOwned == Spec => []OneOwner
  <1>1. TypeInv => OneOwner
    BY ChairParts DEF TypeInv, AirState, Owned, OneOwner
  <1> QED
    BY <1>1, TypeInvariant, PTL

-----------------------------------------------------------------------------
(* An unattended move runs down, whatever the sense channel reads.           *)

\* How long a motion has left, at most: the settling and the ceiling.
MotionLeft(m) ==
    IF m.requested = "none" THEN 0
    ELSE IF m.seq = "settling" THEN (SETTLE - m.requested_age) + TIMEOUT + 1
    ELSE TIMEOUT + 1 - m.running_age

\* A recall that is at its recline may have a whole motion of the headrest to come.
Left == MotionLeft(chair.motion)
        + IF chair.preset.stage = "recline" THEN SETTLE + TIMEOUT + 2 ELSE 0

\* A pass that took no time.
Instant == \E b \in Buttons \cup {"none"}, current \in Sampled : Pass(0, b, current)

\* A motion is past its settling once it has been seen to be, and within its ceiling.
Timed(m) ==
    m.requested # "none" =>
        IF m.seq = "settling" THEN ~(m.requested_age >= SETTLE) ELSE ~(m.running_age > TIMEOUT)

\* What a pass of the motors does to the clocks of the motion it goes on with.
LEMMA UpdateTimes ==
    ASSUME NEW m, DOMAIN m = MotionFields, NEW current
    PROVE  LET n == Relay!motion_update(m, current) IN
           /\ Timed(n)
           /\ n.requested # "none" =>
                IF n.seq = "settling"
                THEN m.seq = "settling" /\ n.requested_age = m.requested_age
                ELSE n.running_age = IF m.seq = "settling" THEN 0 ELSE m.running_age
  <1> DEFINE seq == Relay!Sequence(m)
             pos == Relay!track(seq)
             n   == Relay!motion_update(m, current)
             Fine(x) ==
                /\ Timed(x)
                /\ x.requested # "none" =>
                      IF x.seq = "settling"
                      THEN m.seq = "settling" /\ x.requested_age = m.requested_age
                      ELSE x.running_age = IF m.seq = "settling" THEN 0 ELSE m.running_age
             Goes(x) ==
                /\ DOMAIN x = MotionFields /\ x.requested = m.requested /\ x.seq # "settling"
                /\ x.running_age = IF m.seq = "settling" THEN 0 ELSE m.running_age
  <1>1. CASE m.requested = "none"
    <2>1. n = m
      BY <1>1 DEF Relay!motion_update, Relay!NONE
    <2> QED
      BY <1>1, <2>1 DEF Timed
  <1>2. CASE seq.seq = "settling" /\ m.requested # "none"
    <2>1. n = m
      BY <1>2 DEF Relay!motion_update
    <2>2. m.seq = "settling" /\ ~(m.requested_age >= SETTLE)
      BY <1>2 DEF Relay!Sequence, Relay!CloseFirst, Relay!CloseSecond, MotionFields
    <2> QED
      BY <2>1, <2>2 DEF Timed
  <1>3. CASE m.requested # "none" /\ seq.seq # "settling"
    <2>1. Goes(seq)
      <3>1. CASE m.seq = "settling" /\ m.requested_age >= SETTLE
        BY <3>1 DEF Relay!Sequence, Relay!CloseFirst, MotionFields
      <3>2. CASE m.seq = "first" /\ m.requested_age >= SETTLE + STAGGER
        BY <3>2 DEF Relay!Sequence, Relay!CloseSecond, MotionFields
      <3>3. CASE ~(m.seq = "settling" /\ m.requested_age >= SETTLE)
                 /\ ~(m.seq = "first" /\ m.requested_age >= SETTLE + STAGGER)
        <4>1. seq = m
          BY <3>3 DEF Relay!Sequence
        <4> QED
          BY <1>3, <4>1
      <3> QED
        BY <3>1, <3>2, <3>3
    <2> HIDE DEF seq
    <2>2. Goes(pos)
      BY <2>1 DEF Relay!track, MotionFields
    <2> HIDE DEF pos
    <2>3. ASSUME NEW x, Goes(x)
          PROVE  /\ Goes(Relay!Undercurrent(x, current)) /\ Goes(Relay!Overcurrent(x, current))
                 /\ Fine(Relay!Fault(x)) /\ Fine(Relay!Arrive(x))
                 /\ ~(x.running_age > TIMEOUT) => Fine(x)
      <3>1. Goes(Relay!Undercurrent(x, current)) /\ Goes(Relay!Overcurrent(x, current))
        BY <2>3 DEF Relay!Undercurrent, Relay!Overcurrent, MotionFields
      <3>2. LET s == Relay!motion_stop(x) IN DOMAIN s = MotionFields /\ s.requested = "none"
        BY <2>3 DEF Relay!motion_stop, Relay!NONE, MotionFields
      <3>3. Relay!Fault(x).requested = "none"
        BY <3>2 DEF Relay!Fault, MotionFields
      <3>4. Relay!Arrive(x).requested = "none"
        BY <3>2 DEF Relay!Arrive, Relay!AtStop, MotionFields
      <3>5. ~(x.running_age > TIMEOUT) => Fine(x)
        BY <2>3 DEF Timed
      <3> QED
        BY <3>1, <3>3, <3>4, <3>5 DEF Timed
    <2>4. n = Relay!EndStall(pos, current)
      BY <1>3 DEF Relay!motion_update, Relay!NONE, pos, seq
    <2> HIDE DEF Goes, Fine
    <2>5. Fine(Relay!EndStall(pos, current))
      <3>1. ASSUME NEW x, Goes(x) PROVE Fine(Relay!EndTimeout(x))
        BY <2>3, <3>1 DEF Relay!EndTimeout
      <3> QED
        BY <2>2, <2>3, <3>1 DEF Relay!EndStall, Relay!EndArrival
    <2> QED
      BY <2>4, <2>5 DEF Fine
  <1> QED
    BY <1>1, <1>2, <1>3

\* The clocks of a motion are what it has left.
LEMMA LeftBounds ==
    ASSUME NEW m \in Relay!MotionState, Timed(m)
    PROVE  /\ MotionLeft(m) \in 0 .. SETTLE + TIMEOUT + 1
           /\ m.requested # "none" => MotionLeft(m) >= 1
  <1>1. SETTLE \in Nat /\ TIMEOUT \in Nat
    BY MacroConstants
  <1>2. m.requested_age \in Nat /\ m.running_age \in Nat
    BY <1>1, MotionParts, MacroConstants
  <1> QED
    BY <1>1, <1>2 DEF MotionLeft, Timed

LEMMA RunsDown ==
    ASSUME NEW m \in Relay!MotionState, Timed(m), m.requested # "none",
           NEW d \in Durations, NEW current
    PROVE  LET n == Relay!motion_update(Relay!Elapse(m, d), current) IN
           MotionLeft(n) < MotionLeft(m) \/ (d = 0 /\ MotionLeft(n) <= MotionLeft(m))
  <1> DEFINE e == Relay!Elapse(m, d)
             n == Relay!motion_update(e, current)
  <1>1. /\ SETTLE \in Nat /\ TIMEOUT \in Nat /\ STAGGER \in Nat /\ d \in Nat
        /\ m.requested_age \in Nat /\ m.running_age \in Nat
    BY MotionParts, MacroConstants, AdjustConstants
  <1>2. /\ DOMAIN e = MotionFields /\ e.seq = m.seq
        /\ e.requested_age = Relay!AtMost(SETTLE + STAGGER, m.requested_age + d)
        /\ e.running_age = m.running_age + d
    BY DEF Relay!Elapse, Relay!MotionState, Relay!NONE, MotionFields
  <1> HIDE DEF e
  <1>3. n \in Relay!MotionState
    <2>1. e \in Relay!MotionState
      BY MotionElapse DEF e
    <2> QED
      BY <2>1, MotionUpdate
  <1>4. /\ Timed(n)
        /\ n.requested # "none" =>
             IF n.seq = "settling"
             THEN e.seq = "settling" /\ n.requested_age = e.requested_age
             ELSE n.running_age = IF e.seq = "settling" THEN 0 ELSE e.running_age
    BY <1>2, UpdateTimes
  <1> HIDE DEF n
  <1>5. MotionLeft(n) \in Nat /\ MotionLeft(m) \in Nat /\ MotionLeft(m) >= 1
    BY <1>1, <1>3, <1>4, LeftBounds
  <1>6. CASE n.requested = "none"
    BY <1>1, <1>5, <1>6 DEF MotionLeft, n, e
  <1>7. CASE n.requested # "none" /\ n.seq = "settling"
    <2>1. MotionLeft(n) = (SETTLE - n.requested_age) + TIMEOUT + 1
      BY <1>7 DEF MotionLeft
    <2>2. MotionLeft(m) = (SETTLE - m.requested_age) + TIMEOUT + 1 /\ ~(m.requested_age >= SETTLE)
      BY <1>2, <1>4, <1>7 DEF MotionLeft, Timed
    <2>3. ~(n.requested_age >= SETTLE)
      BY <1>4, <1>7 DEF Timed
    <2>4. n.requested_age = m.requested_age + d
      BY <1>1, <1>2, <1>4, <1>7, <2>3 DEF Relay!AtMost
    <2> QED
      BY <1>1, <2>1, <2>2, <2>4 DEF n, e
  <1>8. CASE n.requested # "none" /\ n.seq # "settling"
    <2>1. MotionLeft(n) = TIMEOUT + 1 - n.running_age
      BY <1>8 DEF MotionLeft
    <2>2. CASE m.seq = "settling"
      <3>1. n.running_age = 0
        BY <1>2, <1>4, <1>8, <2>2
      <3>2. MotionLeft(m) = (SETTLE - m.requested_age) + TIMEOUT + 1 /\ ~(m.requested_age >= SETTLE)
        BY <2>2 DEF MotionLeft, Timed
      <3> QED
        BY <1>1, <2>1, <3>1, <3>2 DEF n, e
    <2>3. CASE m.seq # "settling"
      <3>1. n.running_age = m.running_age + d
        BY <1>2, <1>4, <1>8, <2>3
      <3>2. MotionLeft(m) = TIMEOUT + 1 - m.running_age
        BY <2>3 DEF MotionLeft
      <3> QED
        BY <1>1, <2>1, <3>1, <3>2 DEF n, e
    <2> QED
      BY <2>2, <2>3
  <1> QED
    BY <1>6, <1>7, <1>8

\* With no button down and none released, no event comes and no macro begins: the
\* one under way finds its motors as the clock left them.
LEMMA FlattenedAlone ==
    ASSUME NEW now, Ready(now, "none"), Steers(now)
    PROVE  LET c == Flattened(now, "none") IN
           /\ c.motion = now.motion /\ c.preset = now.preset
           /\ c.flatten => now.flatten /\ ~Still(now)
  <1> DEFINE ev      == Press!Reported(now.button, "none")
             b       == Press!Updated(now.button, "none")
             heard   == [now EXCEPT !.button = b]
             routed  == route_event(heard, ev)
             air     == pneumatics_update(routed)
             comfort == heat_update(air)
             x       == adjust_update(comfort.adjust)
             bar     == [comfort EXCEPT !.adjust = x]
             kept    == IF "none" = bar.consumed THEN bar.consumed ELSE "none"
             borrow  == [bar EXCEPT !.consumed = kept]
             c       == flatten_update(borrow, "none")
  <1>0. Flattened(now, "none") = c
    BY DEF Flattened
  <1>1. ev.kind = "none"
    BY Events DEF Ready
  <1>2. Sound(routed)
    BY EventRouted DEF Routed
  <1>3. routed.motion = now.motion /\ routed.preset = now.preset /\ routed.flatten = now.flatten
    <2>1. routed = heard
      BY <1>1 DEF route_event
    <2> HIDE DEF b
    <2>2. heard.motion = now.motion /\ heard.preset = now.preset /\ heard.flatten = now.flatten
      BY DEF Ready, Sound, Whole, Shape
    <2> QED
      BY <2>1, <2>2
  <1> HIDE DEF routed
  <1>4. Hushes(routed, air) /\ Whole(air)
    BY <1>2, AirHushes DEF Hushes, Apart, Sound
  <1> HIDE DEF air
  <1>5. Hushes(air, comfort) /\ Whole(comfort)
    BY <1>4, HeatHushes DEF Hushes, Apart
  <1> HIDE DEF comfort
  <1>6. Hushes(comfort, bar)
    <2>1. Bar(comfort.adjust) /\ "heat" \in Owners
      BY <1>5 DEF Whole, Owners
    <2>2. Bar(x)
      BY <2>1, Bars
    <2> HIDE DEF x
    <2> QED
      BY <1>5, <2>2, SetFields
  <1> HIDE DEF bar
  <1>7. Hushes(routed, bar) /\ Sound(bar)
    <2>1. Hushes(routed, bar)
      BY <1>4, <1>5, <1>6, ServeThen
    <2> QED
      BY <1>2, <2>1, CallsSound
  <1> HIDE DEF kept
  <1>8. /\ Sound(borrow) /\ borrow.motion = now.motion /\ borrow.preset = now.preset
        /\ borrow.flatten = now.flatten
    <2>1. /\ Whole(borrow) /\ borrow.flatten = bar.flatten /\ borrow.preset = bar.preset
          /\ borrow.store = bar.store /\ borrow.heat = bar.heat
          /\ borrow.power = bar.power /\ borrow.motion = bar.motion
          /\ borrow.pneu = bar.pneu
      BY <1>7 DEF Sound, Whole, Shape
    <2> HIDE DEF borrow
    <2>2. Sound(borrow)
      BY <1>7, <2>1 DEF Sound, Covered, Asleep, Single
    <2> QED
      BY <1>3, <1>7, <2>1, <2>2 DEF Hushes, Apart
  <1> HIDE DEF borrow
  <1>9. c.motion = borrow.motion /\ c.preset = borrow.preset /\ (c.flatten => borrow.flatten)
    BY <1>8, FlattenSound
  <1>10. c.flatten => ~Still(borrow)
    <2> DEFINE f == [borrow EXCEPT !.flatten = FALSE]
               e == finish(f)
    <2>1. Whole(f) /\ ~f.flatten /\ f.motion = borrow.motion /\ f.heat = borrow.heat
          /\ f.pneu = borrow.pneu /\ f.power = borrow.power /\ f.preset = borrow.preset
      BY <1>8 DEF Sound, Whole, Shape
    <2> HIDE DEF f
    <2>2. Sound(f)
      BY <1>8, <2>1 DEF Sound, Covered, Asleep, Single
    <2>3. Recalls(f, e)
      BY <2>2, PowerSound
    <2> HIDE DEF e
    <2>4. ~e.flatten
      BY <2>1, <2>3 DEF Recalls
    <2>5. borrow.flatten /\ Still(borrow) => c = e
      BY DEF flatten_update, e, f
    <2> QED
      BY <1>9, <2>4, <2>5
  <1> HIDE DEF c
  <1> QED
    BY <1>0, <1>8, <1>9, <1>10 DEF Still

\* A recall goes on driving as it did, or from its recline to its headrest, or ends.
LEMMA RecallGoesOn ==
    ASSUME NEW c, Sound(c), Steers(c)
    PROVE  LET d == preset_update(c, "none") IN
           d.preset.stage # "idle" =>
              \/ /\ d.motion = c.motion /\ d.preset.stage = c.preset.stage
                 /\ d.preset.drive = c.motion.requested /\ ~Still(c)
              \/ c.preset.stage = "recline" /\ d.preset.stage = "headrest"
  <1> DEFINE now   == Expire(c)
             d     == preset_update(c, "none")
             there == ~Still(now) /\ seek(now, now.preset.stage, now.preset.target) = "none"
             end   == IF there THEN Request(now, "none") ELSE now
             h     == Stage(end, "headrest")
             eh    == Request(h, h.preset.drive)
  <1> SUFFICES ASSUME d.preset.stage # "idle"
               PROVE  \/ /\ d.motion = c.motion /\ d.preset.stage = c.preset.stage
                         /\ d.preset.drive = c.motion.requested /\ ~Still(c)
                      \/ c.preset.stage = "recline" /\ d.preset.stage = "headrest"
    OBVIOUS
  <1>1. Sound(now) /\ Steers(now) /\ now.preset.stage = c.preset.stage /\ now.motion = c.motion
    <2>1. preset_cancel(c).motion = c.motion
      BY DEF preset_cancel, Sound, Whole, Shape
    <2> QED
      BY <2>1, ExpireSteers DEF Expire
  <1> HIDE DEF now
  <1>2. now.preset.stage # "idle" /\ d = Advance(now)
    BY DEF preset_update, now
  <1>3. d = IF Still(end) THEN NextStage(end) ELSE end
    BY <1>2 DEF Advance
  <1>4. Whole(end) /\ end.preset = now.preset /\ (end = now \/ there)
    BY <1>1, RequestChair DEF Sound
  <1>5. there => Still(end)
    <2>1. Request(now, "none").motion.requested = "none"
      BY <1>1, RequestSound
    <2> QED
      BY <2>1 DEF Still
  <1> HIDE DEF end
  <1>6. CASE Still(end)
    <2>1. Whole(h) /\ h.preset.stage = "headrest"
      BY <1>4, StageSets DEF Recalls
    <2>2. eh.preset = h.preset
      BY <2>1, RequestChair
    <2>3. Arrive(end).preset.stage = "idle" /\ Arrive(h).preset.stage = "idle"
      BY <1>4, <2>1, ArriveServes
    <2>4. d \in {Arrive(h), Arrive(end)} \/ (end.preset.stage = "recline" /\ d = eh)
      BY <1>3, <1>6 DEF NextStage
    <2> HIDE DEF h, eh, d
    <2> QED
      BY <1>1, <1>4, <2>1, <2>2, <2>3, <2>4 DEF d
  <1>7. CASE ~Still(end)
    <2>1. end = now /\ d = now
      BY <1>3, <1>4, <1>5, <1>7
    <2> HIDE DEF d
    <2>2. now.motion.requested = now.preset.drive
      BY <1>1, <1>2, <1>7, <2>1 DEF Steers, Recalling, Still
    <2> QED
      BY <1>1, <1>7, <2>1, <2>2 DEF Still, d
  <1> QED
    BY <1>6, <1>7

\* A request for what is already under way changes nothing.
LEMMA AskedAgain ==
    ASSUME NEW m, m.requested # "none"
    PROVE  Relay!motion_request(m, m.requested) = m
  BY DEF Relay!motion_request, Relay!NONE

\* What an unattended pass makes of the macro and of its motion.
GoesOn(now, after, current) ==
    /\ after.flatten =>
          /\ now.flatten /\ ~Still(now) /\ after.preset.stage = "idle"
          /\ now.motion.requested = "flatten" =>
                after.motion = Relay!motion_update(now.motion, current)
    /\ after.preset.stage # "idle" =>
          \/ /\ after.preset.stage = now.preset.stage /\ ~Still(now)
             /\ after.motion = Relay!motion_update(now.motion, current)
          \/ now.preset.stage = "recline" /\ after.preset.stage = "headrest"

LEMMA PassGoesOn ==
    ASSUME NEW now, NEW k, Ready(now, k), Steers(now),
           NEW key \in Buttons \cup {"none"}, NEW current
    PROVE  LET after == control_update(now, key, current) IN
           /\ Timed(after.motion)
           /\ after.flatten => after.motion.requested \in {"none", "flatten"}
           /\ k = "none" /\ key = "none" => GoesOn(now, after, current)
  <1> DEFINE flat   == Flattened(now, key)
             macros == preset_update(flat, key)
             want   == Wanted(macros, key)
             asked  == Request(macros, want)
             relays == Relay!motion_update(asked.motion, current)
             after  == [asked EXCEPT !.motion = relays]
  <1>0. control_update(now, key, current) = after
    BY DEF control_update, Flattened
  <1>1. Sound(flat) /\ Steers(flat)
    BY MidPass
  <1>2. k = "none" /\ key = "none" =>
           /\ flat.motion = now.motion /\ flat.preset = now.preset
           /\ flat.flatten => now.flatten /\ ~Still(now)
    BY FlattenedAlone
  <1> HIDE DEF flat
  <1>3. Sound(macros) /\ Heads(macros) /\ Recalls(flat, macros)
    BY <1>1, RecallUpdate, UpdateAims
  <1>4. key = "none" /\ macros.preset.stage # "idle" =>
           \/ /\ macros.motion = flat.motion /\ macros.preset.stage = flat.preset.stage
              /\ macros.preset.drive = flat.motion.requested /\ ~Still(flat)
           \/ flat.preset.stage = "recline" /\ macros.preset.stage = "headrest"
    BY <1>1, RecallGoesOn
  <1>5. macros.preset.stage = "idle" /\ macros.flatten =>
           /\ macros.preset.drive = "none" /\ want = "flatten"
           /\ key = "none" => macros.motion = flat.motion
    <2> SUFFICES ASSUME macros.preset.stage = "idle", macros.flatten
                 PROVE  /\ macros.preset.drive = "none" /\ want = "flatten"
                        /\ key = "none" => macros.motion = flat.motion
      OBVIOUS
    <2>1. macros.preset.drive = "none"
      BY <1>3 DEF Sound, Single
    <2>2. want = "flatten"
      BY <2>1 DEF Wanted
    <2>3. flat.flatten /\ flat.preset.stage = "idle"
      BY <1>1, <1>3 DEF Recalls, Sound, Single
    <2>4. Expire(flat).motion = flat.motion /\ Expire(flat).preset.stage = "idle"
      BY <1>1, <2>3 DEF Expire, preset_cancel, Sound, Whole, Shape, PresetFields
    <2>5. macros.motion = flat.motion
      BY <2>4 DEF preset_update
    <2> QED
      BY <2>1, <2>2, <2>5
  <1> HIDE DEF macros
  <1>6. macros.preset.stage # "idle" => want = macros.preset.drive
    <2>1. macros.preset.stage # "idle" => macros.preset.drive # "none"
      BY <1>3 DEF Heads, Recalling, Up, Down
    <2> QED
      BY <2>1 DEF Wanted
  <1> HIDE DEF want
  <1>7. /\ asked.motion = Relay!motion_request(macros.motion, want)
        /\ Whole(asked) /\ asked.preset = macros.preset /\ asked.flatten = macros.flatten
    BY <1>3, RequestChair DEF Sound
  <1>8. Latchable(asked.motion) /\ asked.motion.requested \in {"none", want}
    BY <1>3, RequestSound DEF Sound
  <1> HIDE DEF asked
  <1>9. Timed(relays) /\ relays.requested \in {"none", asked.motion.requested}
    BY <1>8, UpdateTimes, UpdateLatch DEF Latchable
  <1>10. after.motion = relays /\ after.preset = macros.preset /\ after.flatten = macros.flatten
    BY <1>7 DEF Whole, Shape
  <1>11. macros.motion.requested # "none" /\ want = macros.motion.requested =>
            relays = Relay!motion_update(macros.motion, current)
    BY <1>7, AskedAgain
  <1> HIDE DEF relays, after
  <1>12. after.flatten => after.preset.stage = "idle" /\ after.motion.requested \in {"none", "flatten"}
    BY <1>3, <1>5, <1>8, <1>9, <1>10 DEF Sound, Single
  <1>13. ASSUME k = "none", key = "none" PROVE GoesOn(now, after, current)
    <2>1. flat.motion = now.motion /\ flat.preset = now.preset
          /\ (flat.flatten => now.flatten /\ ~Still(now))
      BY <1>2, <1>13
    <2>2. after.flatten =>
             /\ now.flatten /\ ~Still(now) /\ after.preset.stage = "idle"
             /\ now.motion.requested = "flatten" =>
                   after.motion = Relay!motion_update(now.motion, current)
      BY <1>3, <1>5, <1>10, <1>11, <1>12, <1>13, <2>1 DEF Recalls
    <2>3. after.preset.stage # "idle" =>
             \/ /\ after.preset.stage = now.preset.stage /\ ~Still(now)
                /\ after.motion = Relay!motion_update(now.motion, current)
             \/ now.preset.stage = "recline" /\ after.preset.stage = "headrest"
      BY <1>4, <1>6, <1>10, <1>11, <1>13, <2>1 DEF Still
    <2> QED
      BY <2>2, <2>3 DEF GoesOn
  <1> HIDE DEF GoesOn
  <1> QED
    BY <1>0, <1>9, <1>10, <1>12, <1>13


\* What the run of a move rests on, besides the types.
RunInv ==
    /\ TypeInv
    /\ Timed(chair.motion)
    /\ chair.flatten => chair.motion.requested \in {"none", "flatten"}

LEMMA RunSteps ==
    ASSUME RunInv, NEW d \in Durations, NEW b \in Buttons \cup {"none"},
           NEW current \in Sampled, Pass(d, b, current)
    PROVE  /\ RunInv'
           /\ Unattended /\ Unattended' => Left' < Left \/ (d = 0 /\ Left' <= Left)
  <1> DEFINE now == ElapseChair(chair, d)
  <1>1. TypeInv'
    BY TypeSteps DEF RunInv
  <1>2. Sound(chair) /\ Steers(chair) /\ ButtonDown /\ ButtonDown' /\ chair.motion \in Relay!MotionState
        /\ chair'.motion \in Relay!MotionState
    <2>1. chair' \in ChairState
      BY <1>1 DEF TypeInv, ChairState
    <2> QED
      BY <1>1, <2>1, ChairParts DEF RunInv, TypeInv, SeekInv, ChairInv
  <1>3. Steers(now) /\ Sound(now) /\ now.button.prev = chair.button.prev
        /\ now.flatten = chair.flatten /\ now.preset.stage = chair.preset.stage
    BY Elapsed, SteersElapsed DEF RunInv, TypeInv, SeekInv, ChairInv
  <1>4. now.motion = Relay!Elapse(chair.motion, d)
    BY <1>2 DEF ElapseChair, Sound, Whole, Shape
  <1>5. now.motion.requested = chair.motion.requested
    BY <1>4 DEF Relay!Elapse, Relay!MotionState
  <1>6. chair' = control_update(now, b, current) /\ code' = b
    BY DEF Pass
  <1> HIDE DEF now
  <1>7. Ready(now, code)
    BY <1>2, <1>3 DEF Ready, ButtonDown
  <1>8. /\ Timed(chair'.motion)
        /\ chair'.flatten => chair'.motion.requested \in {"none", "flatten"}
        /\ code = "none" /\ b = "none" => GoesOn(now, chair', current)
    BY <1>3, <1>6, <1>7, PassGoesOn
  <1>9. RunInv'
    BY <1>1, <1>8 DEF RunInv, Timed
  <1>10. ASSUME Unattended, Unattended'
         PROVE  Left' < Left \/ (d = 0 /\ Left' <= Left)
    <2>1. code = "none" /\ b = "none"
      BY <1>2, <1>6, <1>10 DEF Unattended, ButtonDown
    <2>2. GoesOn(now, chair', current)
      BY <1>8, <2>1
    <2> DEFINE m == chair.motion
               n == chair'.motion
    <2>3. Left' = MotionLeft(n) + IF chair'.preset.stage = "recline" THEN SETTLE + TIMEOUT + 2 ELSE 0
      BY DEF Left, MotionLeft
    <2>4. /\ SETTLE \in Nat /\ TIMEOUT \in Nat /\ d \in Nat
          /\ MotionLeft(m) \in 0 .. SETTLE + TIMEOUT + 1
          /\ MotionLeft(n) \in 0 .. SETTLE + TIMEOUT + 1
      BY <1>2, <1>8, LeftBounds, MacroConstants, AdjustConstants DEF RunInv
    <2>5. m.requested # "none" /\ n = Relay!motion_update(now.motion, current) =>
             MotionLeft(n) < MotionLeft(m) \/ (d = 0 /\ MotionLeft(n) <= MotionLeft(m))
      BY <1>2, <1>4, RunsDown DEF RunInv
    <2>6. \/ /\ chair'.preset.stage = chair.preset.stage
             /\ m.requested # "none" /\ n = Relay!motion_update(now.motion, current)
          \/ chair.preset.stage = "recline" /\ chair'.preset.stage = "headrest"
      <3>1. CASE chair'.preset.stage # "idle"
        BY <1>3, <1>5, <2>2, <3>1 DEF GoesOn, Still
      <3>2. CASE chair'.preset.stage = "idle"
        <4>1. chair'.flatten
          BY <1>10, <3>2 DEF Unattended
        <4>2. now.flatten /\ ~Still(now)
              /\ (now.motion.requested = "flatten" =>
                     n = Relay!motion_update(now.motion, current))
          BY <2>2, <4>1 DEF GoesOn
        <4>3. now.motion.requested = "flatten"
          BY <1>3, <1>5, <4>2 DEF RunInv, Still
        <4>4. chair.preset.stage = "idle"
          BY <1>2, <1>3, <4>2 DEF Sound, Single
        <4> QED
          BY <1>5, <3>2, <4>2, <4>3, <4>4
      <3> QED
        BY <3>1, <3>2
    <2> HIDE DEF m, n
    <2>7. Left = MotionLeft(m) + IF chair.preset.stage = "recline" THEN SETTLE + TIMEOUT + 2 ELSE 0
      BY DEF Left, m
    <2> QED
      BY <2>3, <2>4, <2>5, <2>6, <2>7
  <1> QED
    BY <1>9, <1>10

\* An unattended move ends by the clock, arrival or no arrival (motion_update has the
\* settling and the ceiling, preset_update one stage after the other): every pass that takes time
\* leaves less of it than there was, from no more than two whole motions.
MovesRunDown ==
    [][Unattended /\ Unattended' => Left' < Left \/ (Instant /\ Left' <= Left)]_vars

\* The most there is ever to run down: a whole motion for each axis.
TwoMotions == Left \in 0 .. 2 * (SETTLE + TIMEOUT + 1) + 1

LEMMA RunInvariant == Spec => []RunInv
  <1>1. Init => RunInv
    <2> SUFFICES ASSUME Init PROVE RunInv
      OBVIOUS
    <2>1. chair.motion = Relay!PowerOn /\ ~chair.flatten
      BY DEF Init
    <2> QED
      BY <2>1, TypeBegins DEF RunInv, Timed, Relay!PowerOn, Relay!NONE
  <1>2. RunInv /\ [Next]_vars => RunInv'
    <2>1. ASSUME RunInv, Next PROVE RunInv'
      BY <2>1, RunSteps DEF Next
    <2>2. ASSUME RunInv, UNCHANGED vars PROVE RunInv'
      <3>1. TypeInv'
        <4>1. ChairInv'
          BY <2>2 DEF RunInv, TypeInv, SeekInv, vars, ChairInv, ButtonDown, ClaimHeld, HeatClock
        <4> QED
          BY <2>2, <4>1 DEF RunInv, TypeInv, SeekInv, vars
      <3> QED
        BY <2>2, <3>1 DEF RunInv, Timed, vars
    <2> QED
      BY <2>1, <2>2
  <1> QED
    BY <1>1, <1>2, PTL DEF Spec

\* No unattended move, a flatten or a recall, goes on for more passes than two whole
\* motions have milliseconds: MovesRunDown, and the bound it runs down from.
THEOREM MovesEnd == Spec => MovesRunDown /\ []TwoMotions
  <1>1. RunInv /\ [Next]_vars =>
           [Unattended /\ Unattended' => Left' < Left \/ (Instant /\ Left' <= Left)]_vars
    <2> SUFFICES ASSUME RunInv, Next, Unattended, Unattended'
                 PROVE  Left' < Left \/ (Instant /\ Left' <= Left)
      OBVIOUS
    <2>1. PICK d \in Durations, b \in Buttons \cup {"none"}, current \in Sampled :
             Pass(d, b, current)
      BY DEF Next
    <2>2. Left' < Left \/ (d = 0 /\ Left' <= Left)
      BY <2>1, RunSteps
    <2>3. d = 0 => Instant
      BY <2>1 DEF Instant
    <2> QED
      BY <2>2, <2>3
  <1>2. RunInv => TwoMotions
    <2> SUFFICES ASSUME RunInv PROVE TwoMotions
      OBVIOUS
    <2>1. SETTLE \in Nat /\ TIMEOUT \in Nat
      BY MacroConstants
    <2>2. MotionLeft(chair.motion) \in 0 .. SETTLE + TIMEOUT + 1
      BY ChairParts, LeftBounds DEF RunInv, TypeInv
    <2> QED
      BY <2>1, <2>2 DEF TwoMotions, Left
  <1> QED
    BY <1>1, <1>2, RunInvariant, PTL DEF Spec, MovesRunDown

-----------------------------------------------------------------------------
(* The motors of the chair are the motors of Motion, and so keep every promise of       *)
(* theirs.  What Motion leaves open, and the chair does not, is what each pass asks: a   *)
(* tap may begin a macro, preset_update may stop one axis and turn to the other, and     *)
(* control_update asks last.                                                            *)

\* The histories of Motion, which nothing in the code reads, for the chair.
VARIABLES adc, open_age, held

Motors == INSTANCE MotionProofs WITH motion <- chair.motion

\* The motors of a pass as motion_update finds them.
Requested(now, key) ==
    LET macros == preset_update(Flattened(now, key), key)
    IN  Request(macros, Wanted(macros, key)).motion

WatchedPass(d, b, current) ==
    /\ Pass(d, b, current)
    /\ adc' = current
    /\ open_age' = IF Motors!Driving(chair.motion) THEN 0
                   ELSE Motors!AtMost(SETTLE, open_age + d)
    /\ held' = IF Motors!Sensing(Requested(ElapseChair(chair, d), b))
               THEN Motors!Held(d, current) ELSE Motors!Nothing

WatchedNext == \E d \in Durations, b \in Buttons \cup {"none"}, current \in Sampled :
                   WatchedPass(d, b, current)

\* The chair, with its motors watched.
Watched ==
    /\ Spec
    /\ adc = "zero" /\ open_age = 0 /\ held = Motors!Nothing
    /\ [][WatchedNext]_<<vars, adc, open_age, held>>

\* A motion_request takes every member of S into T, as does none.
OneMore(S, T) ==
    /\ S \subseteq T
    /\ \A n \in S, want \in Relay!Motions \cup {"none"} : Relay!motion_request(n, want) \in T

-----------------------------------------------------------------------------
(* A pass changes the motors by requests alone, up to motion_update, and makes four of  *)
(* them at most: one on a tap, two in preset_update and its own.                         *)

LEMMA RequestAsks ==
    ASSUME NEW S, NEW T, OneMore(S, T), NEW c, Whole(c), c.motion \in S
    PROVE  /\ \A want \in Relay!Motions \cup {"none"} :
                 Whole(Request(c, want)) /\ Request(c, want).motion \in T
           /\ \A stage : LET d == Stage(c, stage) IN
                 /\ Whole(d) /\ d.motion \in S
                 /\ Request(d, d.preset.drive).motion \in T
           /\ Arrive(c).motion \in S
  <1>1. ASSUME NEW d, Whole(d), d.motion \in S, NEW want \in Relay!Motions \cup {"none"}
        PROVE  Whole(Request(d, want)) /\ Request(d, want).motion \in T
    BY <1>1, RequestChair DEF OneMore
  <1>2. ASSUME NEW stage
        PROVE  LET d == Stage(c, stage) IN
               /\ Whole(d) /\ d.motion \in S
               /\ Request(d, d.preset.drive).motion \in T
    <2> DEFINE target == c.store.presets[c.preset.slot][stage] * PRESET_STEP
               drive  == seek(c, stage, target)
               d      == Stage(c, stage)
    <2>1. drive \in Relay!Motions \cup {"none"}
      BY SeekType
    <2>2. d.preset.drive = drive
      BY DEF Stage, Whole, Shape, PresetFields
    <2>3. Whole(d) /\ d.motion = c.motion
      BY StageSets DEF Recalls
    <2> HIDE DEF drive, d
    <2>4. Request(d, d.preset.drive).motion \in T
      BY <1>1, <2>1, <2>2, <2>3
    <2> QED
      BY <2>3, <2>4 DEF d
  <1>3. Arrive(c).motion \in S
    BY ArriveServes
  <1> QED
    BY <1>1, <1>2, <1>3

LEMMA RecallAsks ==
    ASSUME NEW S, NEW T, OneMore(S, T), NEW c, Whole(c), c.motion \in S
    PROVE  /\ \A slot : preset_recall(c, slot).motion \in T
           /\ NextStage(c).motion \in T
  <1>1. ASSUME NEW slot PROVE preset_recall(c, slot).motion \in T
    <2> DEFINE named    == [c EXCEPT !.preset.slot = slot]
               recline  == Stage(named, "recline")
               headrest == Stage(recline, "headrest")
    <2>1. Whole(named) /\ named.motion \in S
      BY DEF Whole, Shape, PresetFields
    <2> HIDE DEF named
    <2>2. Whole(recline) /\ recline.motion \in S /\ Request(recline, recline.preset.drive).motion \in T
      BY <2>1, RequestAsks
    <2> HIDE DEF recline
    <2>3. /\ Whole(headrest) /\ headrest.motion \in S
          /\ Request(headrest, headrest.preset.drive).motion \in T
      BY <2>2, RequestAsks
    <2> HIDE DEF headrest
    <2>4. Arrive(headrest).motion \in S
      BY <2>3, RequestAsks
    <2> DEFINE r == preset_recall(c, slot)
    <2>5. r \in {c, Request(recline, recline.preset.drive),
                 Request(headrest, headrest.preset.drive), Arrive(headrest)}
      BY DEF preset_recall, headrest, recline, named
    <2> HIDE DEF r
    <2>6. r.motion \in T
      BY <2>1, <2>2, <2>3, <2>4, <2>5 DEF OneMore
    <2> QED
      BY <2>6 DEF r
  <1>2. NextStage(c).motion \in T
    <2> DEFINE headrest == Stage(c, "headrest")
               n        == NextStage(c)
    <2>1. /\ Whole(headrest) /\ headrest.motion \in S
          /\ Request(headrest, headrest.preset.drive).motion \in T
      BY RequestAsks
    <2> HIDE DEF headrest
    <2>2. Arrive(headrest).motion \in S /\ Arrive(c).motion \in S
      BY <2>1, RequestAsks
    <2>3. n \in {Request(headrest, headrest.preset.drive), Arrive(headrest), Arrive(c)}
      BY DEF NextStage, headrest
    <2> HIDE DEF n
    <2>4. n.motion \in T
      BY <2>1, <2>2, <2>3 DEF OneMore
    <2> QED
      BY <2>4 DEF n
  <1> QED
    BY <1>1, <1>2

LEMMA UpdateAsks ==
    ASSUME NEW S, NEW T, NEW U, OneMore(S, T), OneMore(T, U),
           NEW c, Whole(c), c.motion \in S, NEW key
    PROVE  preset_update(c, key).motion \in U
  <1> DEFINE now   == Expire(c)
             there == ~Still(now) /\ seek(now, now.preset.stage, now.preset.target) = "none"
             end   == IF there THEN Request(now, "none") ELSE now
             u     == preset_update(c, key)
  <1>1. Whole(now) /\ now.motion \in S
    <2>1. LET e == preset_cancel(c) IN Whole(e) /\ e.motion = c.motion
      BY DEF preset_cancel, Whole, Shape, PresetFields
    <2> QED
      BY <2>1 DEF Expire
  <1> HIDE DEF now
  <1>2. Cancel(now).motion \in S
    BY <1>1 DEF Cancel, Whole, Shape
  <1>3. Whole(end) /\ end.motion \in T
    BY <1>1, RequestAsks DEF OneMore
  <1> HIDE DEF there, end
  <1>4. NextStage(end).motion \in U
    BY <1>3, RecallAsks
  <1>5. Advance(now) \in {NextStage(end), end}
    BY DEF Advance, end, there
  <1>6. u \in {now, Cancel(now), Advance(now)}
    BY DEF preset_update, now
  <1> HIDE DEF u
  <1>7. u.motion \in U
    BY <1>1, <1>2, <1>3, <1>4, <1>5, <1>6 DEF OneMore
  <1> QED
    BY <1>7 DEF u

LEMMA TapAsks ==
    ASSUME NEW S, NEW T, OneMore(S, T), NEW c, Sound(c), c.motion \in S,
           NEW b, NEW double \in BOOLEAN
    PROVE  OnTap(c, b, double).motion \in T
  <1>0. Whole(c)
    BY DEF Sound
  <1>1. comfort_button(c, b).motion \in S
    BY ComfortPress DEF Serves, Apart
  <1>2. Release(c).motion \in S
    <2>1. Hushes(c, pneumatics_lumbar_release(c))
      BY <1>0, LumbarServes
    <2> QED
      BY <2>1 DEF Release, Hushes, Apart
  <1>3. preset_save(c, Level(b)).motion \in S /\ preset_cancel(c).motion \in S
    BY <1>0 DEF preset_save, preset_cancel, Whole, Shape
  <1>4. preset_recall(c, Level(b)).motion \in T
    BY <1>0, RecallAsks
  <1>5. flatten_tap_start(c).motion \in T
    <2> DEFINE f == [c EXCEPT !.flatten = TRUE]
    <2>1. Whole(f) /\ f.motion \in S
      BY <1>0 DEF Whole, Shape
    <2> HIDE DEF f
    <2>2. "flatten" \in Relay!Motions
      BY DEF Relay!Motions
    <2>3. Request(f, "flatten").motion \in T
      BY <2>1, <2>2, RequestAsks
    <2> QED
      BY <2>3 DEF flatten_tap_start, f
  <1>6. power_short_press(c).motion \in S
    BY PowerSound
  <1>7. OnPowerTap(c, double).motion \in T /\ OnMotionTap(c, b, double).motion \in T
    BY <1>3, <1>4, <1>5, <1>6 DEF OnPowerTap, OnMotionTap, OneMore
  <1> QED
    BY <1>1, <1>2, <1>7 DEF OnTap, OneMore

LEMMA EventAsks ==
    ASSUME NEW S, NEW T, OneMore(S, T), NEW now, NEW k, Ready(now, k), now.motion \in S, NEW key
    PROVE  LET ev    == Press!Reported(now.button, key)
               heard == [now EXCEPT !.button = Press!Updated(now.button, key)]
           IN  route_event(heard, ev).motion \in T
  <1> DEFINE ev     == Press!Reported(now.button, key)
             b      == Press!Updated(now.button, key)
             heard  == [now EXCEPT !.button = b]
             c      == route_event(heard, ev)
             kind   == ev.kind
             button == ev.button
  <1>1. Sound(heard) /\ heard.motion = now.motion /\ heard.preset = now.preset
    <2>1. DOMAIN now.button = ButtonFields
      BY DEF Ready, Sound, Whole
    <2>2. DOMAIN b = ButtonFields
      BY <2>1, ButtonFollows
    <2> HIDE DEF b
    <2>3. /\ heard.power = now.power /\ heard.flatten = now.flatten /\ heard.preset = now.preset
          /\ heard.heat = now.heat /\ heard.pneu = now.pneu /\ heard.motion = now.motion
          /\ heard.store = now.store /\ Whole(heard)
      BY <2>2 DEF Ready, Sound, Whole, Shape
    <2> HIDE DEF heard
    <2> QED
      BY <2>3 DEF Ready, Sound, Covered, Asleep, Single
  <1> HIDE DEF b, heard
  <1>2. kind = "hold" => heard.preset.stage = "idle"
    <2>1. kind = "hold" => key = k /\ key # "none"
      BY Events DEF Ready
    <2> QED
      BY <1>1, <2>1 DEF Ready
  <1>3. kind = "hold" => OnHold(heard, button).motion \in S
    BY <1>1, <1>2, HoldSound
  <1>4. OnPress(heard, button).motion \in S
    BY <1>1, PressSound
  <1>5. OnTap(heard, button, FALSE).motion \in T /\ OnTap(heard, button, TRUE).motion \in T
    BY <1>1, TapAsks
  <1>6. Release(heard).motion \in S
    <2>1. Hushes(heard, pneumatics_lumbar_release(heard))
      BY <1>1, LumbarServes DEF Sound
    <2> QED
      BY <1>1, <2>1 DEF Release, Hushes, Apart
  <1>7. \/ c \in {OnPress(heard, button), OnTap(heard, button, FALSE), OnTap(heard, button, TRUE),
                  Release(heard), heard}
        \/ kind = "hold" /\ c = OnHold(heard, button)
    BY DEF route_event
  <1> HIDE DEF c, kind, button
  <1>8. c.motion \in T
    BY <1>1, <1>3, <1>4, <1>5, <1>6, <1>7 DEF OneMore
  <1> QED
    BY <1>8 DEF c, heard, b, ev

LEMMA FlattenAsks ==
    ASSUME NEW c, Whole(c), NEW key
    PROVE  flatten_update(c, key).motion = c.motion
  <1> DEFINE f   == [c EXCEPT !.flatten = FALSE]
             off == power_comfort_off(f)
             u   == flatten_update(c, key)
  <1>1. Whole(f) /\ f.motion = c.motion
    BY DEF Whole, Shape
  <1> HIDE DEF f
  <1>2. Whole(off) /\ off.motion = c.motion
    BY <1>1, ComfortOff DEF Hushes, Apart
  <1> HIDE DEF off
  <1>3. power_toggle(off).motion = c.motion
    BY <1>2 DEF power_toggle, Whole, Shape
  <1>4. u \in {c, f, off, power_toggle(off)}
    BY DEF flatten_update, finish, off, f
  <1> HIDE DEF u
  <1>5. u.motion = c.motion
    BY <1>1, <1>2, <1>3, <1>4
  <1> QED
    BY <1>5 DEF u

LEMMA WantedAsks ==
    ASSUME NEW c, Sound(c), Heads(c), NEW key
    PROVE  Wanted(c, key) \in Relay!Motions \cup {"none"}
  <1>1. c.preset.drive \in Relay!Motions \cup {"none"}
    BY DEF Sound, Single, Heads, Recalling, Up, Down, Relay!Motions, Relay!Recline, Relay!Headrest
  <1>2. Drives \subseteq Relay!Motions
    <2>1. Drives \subseteq Relay!Recline \cup Relay!Headrest
      BY ControlConstants DEF Drives
    <2> QED
      BY <2>1 DEF Relay!Motions
  <1>3. motion_for(key) \in Relay!Motions \cup {"none"} /\ "flatten" \in Relay!Motions
    BY <1>2 DEF motion_for, Relay!Motions
  <1>4. Wanted(c, key) \in {c.preset.drive, "flatten", "none", motion_for(key)}
    BY DEF Wanted
  <1> QED
    BY <1>1, <1>3, <1>4

\* All a pass does to the motors before motion_update is to ask.
LEMMA PassAsks ==
    ASSUME NEW now, NEW k, Ready(now, k), Steers(now), NEW key \in Buttons \cup {"none"},
           NEW R, NEW S, NEW T, NEW U, NEW V,
           OneMore(R, S), OneMore(S, T), OneMore(T, U), OneMore(U, V),
           now.motion \in R, NEW current
    PROVE  /\ Requested(now, key) \in V
           /\ control_update(now, key, current).motion
                 = Relay!motion_update(Requested(now, key), current)
  <1> DEFINE ev      == Press!Reported(now.button, key)
             heard   == [now EXCEPT !.button = Press!Updated(now.button, key)]
             routed  == route_event(heard, ev)
             air     == pneumatics_update(routed)
             comfort == heat_update(air)
             x       == adjust_update(comfort.adjust)
             bar     == [comfort EXCEPT !.adjust = x]
             kept    == IF key = bar.consumed THEN bar.consumed ELSE "none"
             borrow  == [bar EXCEPT !.consumed = kept]
             flat    == flatten_update(borrow, key)
             macros  == preset_update(flat, key)
             want    == Wanted(macros, key)
             asked   == Request(macros, want)
             relays  == Relay!motion_update(asked.motion, current)
             after   == [asked EXCEPT !.motion = relays]
  <1>1. control_update(now, key, current) = after
    BY DEF control_update
  <1>2. Flattened(now, key) = flat
    BY DEF Flattened
  <1>3. Requested(now, key) = asked.motion
    BY <1>2 DEF Requested
  <1> SUFFICES asked.motion \in V /\ after.motion = relays
    BY <1>1, <1>3
  <1>4. Sound(flat) /\ Steers(flat)
    BY <1>2, MidPass
  <1>5. Whole(routed) /\ routed.motion \in S
    BY EventRouted, EventAsks DEF Routed, Sound
  <1> HIDE DEF routed
  <1>6. Whole(air) /\ air.motion \in S
    BY <1>5, AirHushes DEF Hushes, Apart
  <1> HIDE DEF air
  <1>7. Whole(comfort) /\ comfort.motion \in S
    BY <1>6, HeatHushes DEF Hushes, Apart
  <1> HIDE DEF comfort
  <1>8. Whole(bar) /\ bar.motion \in S
    <2>1. Bar(comfort.adjust) /\ "heat" \in Owners
      BY <1>7 DEF Whole, Owners
    <2>2. Bar(x)
      BY <2>1, Bars
    <2> HIDE DEF x
    <2>3. Hushes(comfort, bar)
      BY <1>7, <2>2, SetFields
    <2> QED
      BY <1>7, <2>3 DEF Hushes, Apart
  <1> HIDE DEF bar, kept
  <1>9. Whole(borrow) /\ borrow.motion \in S
    BY <1>8 DEF Whole, Shape
  <1> HIDE DEF borrow
  <1>10. flat.motion \in S
    BY <1>9, FlattenAsks
  <1> HIDE DEF flat
  <1>11. Whole(macros) /\ macros.motion \in U /\ want \in Relay!Motions \cup {"none"}
    <2>1. macros.motion \in U
      BY <1>4, <1>10, UpdateAsks DEF Sound
    <2>2. Sound(macros) /\ Heads(macros)
      BY <1>4, RecallUpdate, UpdateAims
    <2> HIDE DEF macros
    <2> QED
      BY <2>1, <2>2, WantedAsks DEF Sound
  <1> HIDE DEF macros, want
  <1>12. Whole(asked) /\ asked.motion \in V
    BY <1>11, RequestAsks
  <1> HIDE DEF asked, relays
  <1> QED
    BY <1>12 DEF Whole, Shape

-----------------------------------------------------------------------------
(* Motion and the chair each take the operators of Relays for themselves: they are the  *)
(* same operators.                                                                      *)

LEMMA SameRequest ==
    ASSUME NEW m
    PROVE  \A want : Motors!motion_request(m, want) = Relay!motion_request(m, want)
  <1>1. \A n : /\ Motors!motion_stop(n) = Relay!motion_stop(n)
               /\ Motors!Unlatch(n) = Relay!Unlatch(n)
               /\ Motors!Latched(n) = Relay!Latched(n)
    BY DEF Motors!motion_stop, Relay!motion_stop, Motors!Unlatch, Relay!Unlatch,
           Motors!Latched, Relay!Latched, Motors!NONE, Relay!NONE
  <1>2. \A n, want : Motors!select_direction(n, want) = Relay!select_direction(n, want)
    BY DEF Motors!select_direction, Relay!select_direction
  <1>3. \A n, want : Motors!Begin(n, want) = Relay!Begin(n, want)
    BY <1>1, <1>2 DEF Motors!Begin, Relay!Begin
  <1> QED
    BY <1>1, <1>3 DEF Motors!motion_request, Relay!motion_request, Motors!NONE, Relay!NONE

LEMMA SameSequence ==
    ASSUME NEW m
    PROVE  Motors!Sequence(m) = Relay!Sequence(m)
  <1>1. \A want : /\ Motors!engage_first(want) = Relay!engage_first(want)
                  /\ Motors!engage_second(want) = Relay!engage_second(want)
    BY DEF Motors!engage_first, Relay!engage_first, Motors!engage_second, Relay!engage_second,
           Motors!Contacts, Relay!Contacts, Motors!UpPair, Relay!UpPair, Motors!DownPair,
           Relay!DownPair, Motors!Headrest, Relay!Headrest
  <1>2. Motors!CloseFirst(m) = Relay!CloseFirst(m) /\ Motors!CloseSecond(m) = Relay!CloseSecond(m)
    BY <1>1 DEF Motors!CloseFirst, Relay!CloseFirst, Motors!CloseSecond, Relay!CloseSecond
  <1> QED
    BY <1>2 DEF Motors!Sequence, Relay!Sequence

LEMMA SameTrack ==
    ASSUME NEW m
    PROVE  Motors!track(m) = Relay!track(m)
  <1>1. \A pos, travel, d : Motors!Raise(pos, travel, d) = Relay!Raise(pos, travel, d)
    BY DEF Motors!Raise, Relay!Raise
  <1>2. \A pos, d : Motors!Lower(pos, d) = Relay!Lower(pos, d)
    BY DEF Motors!Lower, Relay!Lower
  <1> QED
    BY <1>1, <1>2 DEF Motors!track, Relay!track

LEMMA SameEnds ==
    ASSUME NEW m, NEW current
    PROVE  Motors!EndStall(m, current) = Relay!EndStall(m, current)
  <1>1. \A n : /\ Motors!motion_stop(n) = Relay!motion_stop(n)
               /\ Motors!AtStop(n) = Relay!AtStop(n)
    BY DEF Motors!motion_stop, Relay!motion_stop, Motors!AtStop, Relay!AtStop, Motors!NONE,
           Relay!NONE
  <1>2. \A n : Motors!Fault(n) = Relay!Fault(n) /\ Motors!Arrive(n) = Relay!Arrive(n)
    BY <1>1 DEF Motors!Fault, Relay!Fault, Motors!Arrive, Relay!Arrive
  <1>3. \A n : Motors!Armed(n) = Relay!Armed(n)
    BY DEF Motors!Armed, Relay!Armed, Motors!arrival_applies, Relay!arrival_applies,
           Motors!Recline, Relay!Recline
  <1>4. \A n : /\ Motors!arrived(n, current) = Relay!arrived(n, current)
               /\ Motors!stalled(n, current) = Relay!stalled(n, current)
    BY <1>3 DEF Motors!arrived, Relay!arrived, Motors!stalled, Relay!stalled
  <1>5. \A n : /\ Motors!Overcurrent(n, current) = Relay!Overcurrent(n, current)
               /\ Motors!Undercurrent(n, current) = Relay!Undercurrent(n, current)
    BY <1>3 DEF Motors!Overcurrent, Relay!Overcurrent, Motors!Undercurrent, Relay!Undercurrent
  <1>6. \A n : Motors!EndTimeout(n) = Relay!EndTimeout(n)
    BY <1>2 DEF Motors!EndTimeout, Relay!EndTimeout
  <1>7. \A n : Motors!EndArrival(n, current) = Relay!EndArrival(n, current)
    BY <1>2, <1>4, <1>5, <1>6 DEF Motors!EndArrival, Relay!EndArrival
  <1> QED
    BY <1>2, <1>4, <1>5, <1>7 DEF Motors!EndStall, Relay!EndStall

LEMMA SameMotors ==
    ASSUME NEW m, NEW current, NEW d
    PROVE  /\ Motors!Elapse(m, d) = Relay!Elapse(m, d)
           /\ Motors!motion_update(m, current) = Relay!motion_update(m, current)
           /\ Motors!PowerOn = Relay!PowerOn
  <1>1. Motors!Elapse(m, d) = Relay!Elapse(m, d)
    BY DEF Motors!Elapse, Relay!Elapse, Motors!AtMost, Relay!AtMost, Motors!NONE, Relay!NONE
  <1>2. Motors!motion_update(m, current) = Relay!motion_update(m, current)
    BY SameSequence, SameTrack, SameEnds
       DEF Motors!motion_update, Relay!motion_update, Motors!NONE, Relay!NONE
  <1>3. Motors!PowerOn = Relay!PowerOn
    BY DEF Motors!PowerOn, Relay!PowerOn, Motors!NONE, Relay!NONE
  <1> QED
    BY <1>1, <1>2, <1>3

-----------------------------------------------------------------------------
(* The refinement, and what comes with it.                                              *)

LEMMA MotorsAsk ==
    ASSUME NEW S
    PROVE  OneMore(S, Motors!Asked(S))
  <1>1. Motors!Motions \cup {Motors!NONE} = Relay!Motions \cup {"none"}
    BY DEF Motors!Motions, Relay!Motions, Motors!Recline, Relay!Recline, Motors!Headrest,
           Relay!Headrest, Motors!NONE
  <1>2. ASSUME NEW n \in S, NEW want \in Relay!Motions \cup {"none"}
        PROVE  Relay!motion_request(n, want) \in Motors!Asked(S)
    <2>1. Motors!motion_request(n, want) \in Motors!Asked(S)
      BY <1>1 DEF Motors!Asked
    <2> QED
      BY <2>1, SameRequest
  <1>3. S \subseteq Motors!Asked(S)
    BY DEF Motors!Asked
  <1> QED
    BY <1>2, <1>3 DEF OneMore

LEMMA MotorsStep ==
    ASSUME TypeInv, NEW d \in Durations, NEW b \in Buttons \cup {"none"},
           NEW current \in Sampled, WatchedPass(d, b, current)
    PROVE  Motors!Next
  <1> DEFINE now   == ElapseChair(chair, d)
             asked == Requested(now, b)
             e     == Motors!Elapse(chair.motion, d)
  <1>1. Ready(now, code) /\ Steers(now)
    <2>1. Steers(now) /\ Sound(now) /\ now.button.prev = chair.button.prev
          /\ now.flatten = chair.flatten /\ now.preset.stage = chair.preset.stage
      BY Elapsed, SteersElapsed DEF TypeInv, SeekInv, ChairInv
    <2> HIDE DEF now
    <2> QED
      BY <2>1 DEF Ready, TypeInv, SeekInv, ChairInv, ButtonDown
  <1>2. now.motion = e
    <2>1. Whole(chair)
      BY DEF TypeInv, SeekInv, ChairInv, Sound
    <2>2. now.motion = Relay!Elapse(chair.motion, d)
      BY <2>1 DEF ElapseChair, Whole, Shape
    <2> QED
      BY <2>2, SameMotors
  <1>3. chair' = control_update(now, b, current)
    BY DEF WatchedPass, Pass
  <1>4. /\ adc' = current
        /\ open_age' = IF Motors!Driving(chair.motion) THEN 0
                       ELSE Motors!AtMost(SETTLE, open_age + d)
        /\ held' = IF Motors!Sensing(asked) THEN Motors!Held(d, current) ELSE Motors!Nothing
    BY DEF WatchedPass
  <1> HIDE DEF now, e
  <1>5. /\ asked \in Motors!AskedInPass(e)
        /\ control_update(now, b, current).motion = Relay!motion_update(asked, current)
    <2> DEFINE S == Motors!Asked({e})
               T == Motors!Asked(S)
               U == Motors!Asked(T)
    <2>1. /\ OneMore({e}, S) /\ OneMore(S, T) /\ OneMore(T, U)
          /\ OneMore(U, Motors!Asked(U)) /\ now.motion \in {e}
      BY <1>2, MotorsAsk
    <2>2. Motors!AskedInPass(e) = Motors!Asked(U)
      BY DEF Motors!AskedInPass
    <2> HIDE DEF S, T, U
    <2> QED
      BY <1>1, <2>1, <2>2, PassAsks
  <1> HIDE DEF asked
  <1>6. chair'.motion = Motors!motion_update(asked, current)
    BY <1>3, <1>5, SameMotors
  <1>7. current \in Motors!Sampled
    BY SamplesRead
       DEF Sampled, Motors!Sampled, Motors!Driving, Motors!Readings, Relay!Readings
  <1>8. Motors!Pass(d, asked, current)
    BY <1>4, <1>6 DEF Motors!Pass
  <1> QED
    BY <1>5, <1>7, <1>8 DEF Motors!Next, e

\* control_update: whatever is pressed and whatever the macros do, the motors of the
\* chair are asked for motions, shown readings and told the time as Motion says.
THEOREM ChairIsMotion == Watched => Motors!Spec
  <1>1. Init /\ adc = "zero" /\ open_age = 0 /\ held = Motors!Nothing => Motors!Init
    BY SameMotors DEF Init, Motors!Init
  <1>2. TypeInv /\ [WatchedNext]_<<vars, adc, open_age, held>> => [Motors!Next]_(Motors!vars)
    <2>1. ASSUME TypeInv, WatchedNext PROVE Motors!Next
      BY <2>1, MotorsStep DEF WatchedNext
    <2>2. UNCHANGED <<vars, adc, open_age, held>> => UNCHANGED Motors!vars
      BY DEF vars, Motors!vars
    <2> QED
      BY <2>1, <2>2
  <1> QED
    BY <1>1, <1>2, TypeInvariant, PTL DEF Watched, Spec, Motors!Spec

LEMMA MotionHolds ==
    /\ SETTLE \in Nat \ {0}
    /\ {STAGGER, TIMEOUT, STALL, ARM, ARRIVED} \subseteq Nat
    /\ {TRAVEL_RECLINE, TRAVEL_HEADREST} \subseteq Nat
    /\ Durations \subseteq Nat
  BY MacroConstants, AdjustConstants

\* motion.c under control.c and the macros: all that MotionProofs proves of the motors,
\* for the chair.  They are driven only as Drive allows, not while a latch is set, with the
\* contacts staggered; only an earned arrival is one; and the estimate moves with its axis.
THEOREM ChairMotors ==
    Watched => /\ Motors!RelaysSafe /\ []Motors!LatchedIsStopped
               /\ Motors!Staggered /\ Motors!ArrivalIsEarned /\ Motors!EstimateFollowsDrive
  BY ChairIsMotion, MotionHolds, Motors!ImplementsDrive, Motors!LatchStops,
     Motors!ContactsStagger, Motors!ArrivalsAreEarned, Motors!EstimateIsTravel, PTL

\* stalled and arrived, in the chair: a motor at stall current or at its limit switch is
\* cut off in time (MotorsAreCut).
THEOREM ChairMotorsAreCut ==
    ASSUME STALL # 0, ARRIVED # 0
    PROVE  Watched => []Motors!MotorIsCut
  BY ChairIsMotion, MotionHolds, Motors!MotorsAreCut, PTL

=============================================================================
