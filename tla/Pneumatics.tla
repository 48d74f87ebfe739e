----------------------------- MODULE Pneumatics -----------------------------
(***************************************************************************)
(* The air cells: src/src/pneumatics.c, as operators on the chair (see      *)
(* Heat).  A pump, an exhaust and three cells, shared by the massage, the    *)
(* lumbar support and the vent that empties them.                           *)
(*                                                                         *)
(* The valve byte is the set of open valves.  The massage pattern is a       *)
(* parameter, its step lengths per level already worked out (MassageCurve   *)
(* does that for the real one).  Ages are as in Motion, and none is          *)
(* corrected for a pause until the code corrects its stamp.                  *)
(***************************************************************************)
EXTENDS Heat, Sequences

CONSTANTS
    Pattern,         \* massage_pattern: <<[bits, len : Levels -> Nat], ...>>
    MASSAGE_TIMEOUT, \* MASSAGE_TIMEOUT_MS
    VENT,            \* VENT_MS
    PUMP_DELAY,      \* PUMP_DELAY_MS
    INFLATE_MAX,     \* LUMBAR_INFLATE_MAX_MS
    LUMBAR_SET,      \* LUMBAR_SET_MS
    TENTH,           \* LUMBAR_TENTH_MS
    LONGEST_PAUSE    \* a bound on the pauses: the longest run of motions

CellValves == {"top", "mid", "bottom"}
Valves     == CellValves \cup {"vent"}

ASSUME PneumaticsConstants ==
    /\ Pattern \in Seq([bits : SUBSET Valves, len : [Levels -> Nat]])
    /\ Pattern # <<>>
    /\ {MASSAGE_TIMEOUT, VENT, PUMP_DELAY, LUMBAR_SET, LONGEST_PAUSE} \subseteq Nat
    /\ TENTH \in Nat \ {0}
    /\ INFLATE_MAX \in {n * TENTH : n \in 0 .. 255}

LUMBAR_DEFAULT == INFLATE_MAX \div 2

\* The largest each age is compared with, and what a pause can add to it.
StepCap   == LONGEST_PAUSE +
             CHOOSE n \in {Pattern[s].len[l] : s \in DOMAIN Pattern, l \in Levels} :
                \A s \in DOMAIN Pattern, l \in Levels : Pattern[s].len[l] <= n
StartCap  == LONGEST_PAUSE + MASSAGE_TIMEOUT
LumbarCap == LONGEST_PAUSE + IF VENT > INFLATE_MAX THEN VENT ELSE INFLATE_MAX

PneumaticsState ==
    [massage_on       : BOOLEAN,
     massage_level    : Levels,
     massage_step     : 1 .. Len(Pattern),
     step_started     : BOOLEAN, \* massage_step_ms # 0
     step_age         : 0 .. StepCap,
     start_age        : 0 .. StartCap,
     lumbar_state     : {"off", "inflate", "hold", "deflate"},
     lumbar_age       : 0 .. LumbarCap,
     lumbar_target_ms : Nat,
     lumbar_choosing  : BOOLEAN,
     lumbar_base_ms   : 0 .. INFLATE_MAX + LumbarCap,
     lumbar_level_ms  : 0 .. INFLATE_MAX,
     paused           : BOOLEAN,
     pause_age        : 0 .. LONGEST_PAUSE,
     venting          : BOOLEAN,
     vent_age         : 0 .. VENT,
     valves_now       : SUBSET Valves,
     closed_age       : 0 .. PUMP_DELAY,
     pump             : BOOLEAN]

PneumaticsOff ==
    [massage_on |-> FALSE, massage_level |-> LEVEL_MAX, massage_step |-> 1,
     step_started |-> FALSE, step_age |-> 0, start_age |-> 0,
     lumbar_state |-> "off", lumbar_age |-> 0, lumbar_target_ms |-> 0,
     lumbar_choosing |-> FALSE, lumbar_base_ms |-> 0, lumbar_level_ms |-> 0,
     paused |-> FALSE, pause_age |-> 0, venting |-> FALSE, vent_age |-> 0,
     valves_now |-> {}, closed_age |-> 0, pump |-> FALSE]

\* pneumatics_lumbar_lit.
Lit(p) == p.lumbar_state \in {"inflate", "hold"}

\* What is not read before it is next written goes back to what it was at power
\* on: the massage's own state while it is off, and lumbar's but for its level.
Forget(p) ==
    [p EXCEPT
        !.massage_level    = IF p.massage_on THEN @ ELSE LEVEL_MAX,
        !.massage_step     = IF p.massage_on THEN @ ELSE 1,
        !.step_started     = p.massage_on /\ @,
        !.lumbar_target_ms = IF p.lumbar_state = "inflate" THEN @ ELSE 0,
        !.lumbar_choosing  = p.lumbar_state = "inflate" /\ @,
        !.lumbar_base_ms   = IF p.lumbar_state = "inflate" THEN @ ELSE 0]

\* Of a pause with nothing to give its time back to, only that it came before
\* whatever is started next.
PauseCap(p) == IF p.massage_on \/ Lit(p) \/ LONGEST_PAUSE = 0 THEN LONGEST_PAUSE ELSE 1

ElapsePneumatics(p, d) ==
    [Forget(p) EXCEPT
        !.step_age   = IF p.massage_on /\ p.step_started
                       THEN UpTo(StepCap, @ + d) ELSE 0,
        !.start_age  = IF p.massage_on THEN UpTo(StartCap, @ + d) ELSE 0,
        !.lumbar_age = IF p.lumbar_state \in {"inflate", "deflate"}
                       THEN UpTo(LumbarCap, @ + d) ELSE 0,
        !.pause_age  = IF p.paused THEN UpTo(PauseCap(p), @ + d) ELSE 0,
        !.vent_age   = IF p.venting THEN UpTo(VENT, @ + d) ELSE 0,
        !.closed_age = UpTo(PUMP_DELAY, @ + d)]

-----------------------------------------------------------------------------
(* Valves, pump and vent.  These operators take the pneumatics record.      *)

pump_update(p) ==
    IF p.valves_now \cap CellValves = {}
    THEN [p EXCEPT !.closed_age = 0, !.pump = FALSE]
    ELSE [p EXCEPT !.pump = p.closed_age >= PUMP_DELAY]

valves_set(p, bits) == pump_update([p EXCEPT !.valves_now = bits])

start_vent(p) ==
    [valves_set(p, {"vent"}) EXCEPT !.vent_age = 0, !.venting = TRUE]

vent_tick(p) ==
    IF p.vent_age >= VENT
    THEN valves_set([p EXCEPT !.venting = FALSE, !.vent_age = 0], {})
    ELSE valves_set(p, {"vent"})

\* The exhaust is left flagged to be opened again later.
SlipSetLumbar(p, state) == [p EXCEPT !.lumbar_state = state, !.lumbar_age = 0]

\* Lumbar owns the valves from here on, so no vent is left flagged.
set_lumbar(p, state) ==
    [p EXCEPT !.lumbar_state = state, !.lumbar_age = 0,
              !.venting = FALSE, !.vent_age = 0]

-----------------------------------------------------------------------------
(* Massage.                                                                 *)

\* Each step starts the massage's clock again, not only its own.
SlipMassageTick(p) ==
    LET len  == Pattern[p.massage_step].len[p.massage_level]
        next == IF ~p.step_started THEN [p EXCEPT !.step_started = TRUE, !.step_age = 0]
                ELSE IF p.step_age < len THEN p
                ELSE [p EXCEPT !.massage_step = (@ % Len(Pattern)) + 1,
                               !.step_age = 0, !.start_age = 0]
    IN  valves_set(next, Pattern[next.massage_step].bits)

\* The step's own bits are asserted on every pass: a pause closed them.
massage_tick(p) ==
    LET len  == Pattern[p.massage_step].len[p.massage_level]
        next == IF ~p.step_started
                THEN [p EXCEPT !.step_started = TRUE, !.step_age = 0]
                ELSE IF p.step_age < len THEN p
                ELSE [p EXCEPT !.massage_step = (@ % Len(Pattern)) + 1, !.step_age = 0]
    IN  valves_set(next, Pattern[next.massage_step].bits)

massage_off(c) ==
    [c EXCEPT !.pneu.massage_on = FALSE, !.adjust = adjust_close(@, "massage")]

massage_start(c) ==
    IF c.pneu.massage_on THEN c
    ELSE [c EXCEPT !.pneu =
            [@ EXCEPT !.massage_on = TRUE, !.venting = FALSE, !.vent_age = 0,
                      !.lumbar_state = "off", !.massage_step = 1,
                      !.step_started = FALSE, !.step_age = 0,
                      !.start_age = 0,
                      !.massage_level = Remembered(c.store.massage)]]

pneumatics_massage_arm(c) ==
    LET level == IF c.pneu.massage_on THEN c.pneu.massage_level
                 ELSE Remembered(c.store.massage)
    IN  [c EXCEPT !.pneu.massage_level = level,
                  !.adjust = adjust_open(@, "massage", level)]

\* The level a recall runs at becomes the remembered one.
SlipMassageUseLevel(c, want) ==
    IF want \in Levels
    THEN [c EXCEPT !.pneu.massage_level = want, !.store.massage = want] ELSE c

pneumatics_massage_use_level(c, want) ==
    IF want \in Levels THEN [c EXCEPT !.pneu.massage_level = want] ELSE c

pneumatics_massage_set_level(c, want) ==
    IF want \in Levels
    THEN [pneumatics_massage_use_level(c, want) EXCEPT !.store.massage = want]
    ELSE c

EndMassage(c) ==
    LET off == massage_off(c) IN [off EXCEPT !.pneu = start_vent(@)]

pneumatics_massage_set(c, on) ==
    IF on = c.pneu.massage_on THEN c
    ELSE IF ~on THEN EndMassage(c)
    ELSE IF Still(c) THEN massage_start(c) ELSE c

-----------------------------------------------------------------------------
(* Lumbar.                                                                  *)

\* Rounded to what a stored level can say.
lumbar_stop_at(c, elapsed, remember) ==
    LET tenths == (UpTo(INFLATE_MAX, elapsed) + TENTH \div 2) \div TENTH IN
    [c EXCEPT !.pneu = set_lumbar([@ EXCEPT !.lumbar_level_ms = tenths * TENTH], "hold"),
              !.store.lumbar = IF remember THEN tenths ELSE @]

lumbar_keep(c, elapsed) == lumbar_stop_at(c, elapsed, TRUE)

lumbar_banked(p) ==
    CASE p.lumbar_state = "inflate" -> p.lumbar_base_ms + p.lumbar_age
      [] p.lumbar_state = "hold"    -> p.lumbar_level_ms
      [] OTHER                      -> 0

\* Where a tap or a recall stops: as asked, or as remembered, or half way.
Target(tenths) == IF tenths = 0 THEN LUMBAR_DEFAULT ELSE tenths * TENTH

\* The release says what the press meant.
pneumatics_lumbar_release(c) ==
    LET p        == c.pneu
        done     == [c EXCEPT !.pneu.lumbar_choosing = FALSE]
        toStored == [done EXCEPT !.pneu.lumbar_target_ms = Target(c.store.lumbar)]
    IN  IF ~p.lumbar_choosing \/ p.lumbar_state # "inflate" THEN done
        ELSE IF p.lumbar_age >= LUMBAR_SET
        THEN lumbar_keep(done, p.lumbar_base_ms + p.lumbar_age)
        ELSE IF p.lumbar_base_ms > 0
        THEN [done EXCEPT !.pneu = set_lumbar(@, "deflate")]
        ELSE IF p.lumbar_age >= Target(c.store.lumbar)
        THEN lumbar_keep(toStored, p.lumbar_age)
        ELSE toStored

\* The ceiling is counted from the press, not from what was in the cell.
SlipInflateTick(c) ==
    LET p == c.pneu IN
    IF p.lumbar_choosing
    THEN IF p.lumbar_age >= INFLATE_MAX THEN lumbar_keep(c, INFLATE_MAX) ELSE c
    ELSE IF p.lumbar_age >= p.lumbar_target_ms
    THEN lumbar_stop_at(c, p.lumbar_base_ms + p.lumbar_target_ms, FALSE)
    ELSE c

\* Chosen by a finger still down: up to the ceiling.  Otherwise to the target.
InflateTick(c) ==
    LET p == c.pneu IN
    IF p.lumbar_choosing
    THEN IF p.lumbar_base_ms + p.lumbar_age >= INFLATE_MAX
         THEN lumbar_keep(c, INFLATE_MAX) ELSE c
    ELSE IF p.lumbar_age >= p.lumbar_target_ms
    THEN lumbar_stop_at(c, p.lumbar_base_ms + p.lumbar_target_ms, FALSE)
    ELSE c

DeflateTick(p) ==
    LET open == valves_set(p, {"vent"}) IN
    IF p.lumbar_age >= VENT
    THEN valves_set([open EXCEPT !.lumbar_state = "off"], {})
    ELSE open

lumbar_tick(c) ==
    CASE c.pneu.lumbar_state = "inflate" ->
            InflateTick([c EXCEPT !.pneu = valves_set(@, {"bottom"})])
      [] c.pneu.lumbar_state = "hold"    -> [c EXCEPT !.pneu = valves_set(@, {})]
      [] c.pneu.lumbar_state = "deflate" -> [c EXCEPT !.pneu = DeflateTick(@)]
      [] OTHER                           -> c

pneumatics_lumbar_current(p) == p.lumbar_level_ms \div TENTH

\* For a recall: all or nothing, whatever level the cell already has.
pneumatics_lumbar_set(c, on, tenths) ==
    LET want == IF tenths = 0 THEN c.store.lumbar ELSE tenths
        off  == massage_off(c)
    IN  IF on = Lit(c.pneu) THEN c
        ELSE IF ~on THEN [c EXCEPT !.pneu = set_lumbar(@, "deflate")]
        ELSE IF ~Still(c) THEN c
        ELSE [off EXCEPT !.pneu =
                 set_lumbar([@ EXCEPT !.lumbar_base_ms = 0, !.lumbar_choosing = FALSE,
                                      !.lumbar_target_ms = Target(want)], "inflate")]

-----------------------------------------------------------------------------
(* Presses, power off and the update.                                       *)

pneumatics_shutdown(c) ==
    [massage_off(c) EXCEPT !.pneu =
        start_vent([@ EXCEPT !.lumbar_state = "off", !.lumbar_choosing = FALSE,
                             !.lumbar_base_ms = 0])]

MassageButton(c) ==
    LET begun == massage_start(c) IN
    IF c.adjust.armed /\ c.adjust.owner = "massage"
    THEN [c EXCEPT !.adjust = adjust_accept(@)]
    ELSE IF c.pneu.massage_on THEN EndMassage(c)
    ELSE [begun EXCEPT !.adjust =
             adjust_show(@, "massage", begun.pneu.massage_level)]

\* The press always inflates, onto whatever is in the cell.
LumbarButton(c) ==
    [massage_off(c) EXCEPT !.pneu =
        set_lumbar([@ EXCEPT !.lumbar_base_ms = lumbar_banked(c.pneu),
                             !.lumbar_choosing = TRUE,
                             !.lumbar_target_ms = INFLATE_MAX], "inflate")]

\* Only what was running when the pause began is given its time back, and a
\* deflate and a vent never stopped.
started_before_pause(p, age) == age >= p.pause_age

\* The time spent paused is not given back.
SlipUnpause(p) == [p EXCEPT !.paused = FALSE, !.pause_age = 0]

Unpause(p) ==
    LET Credit(age) == IF started_before_pause(p, age) THEN age - p.pause_age ELSE age IN
    [p EXCEPT !.paused = FALSE, !.pause_age = 0,
              !.step_age   = IF p.step_started THEN Credit(@) ELSE @,
              !.start_age  = Credit(@),
              !.lumbar_age = IF p.lumbar_state = "deflate" THEN @ ELSE Credit(@)]

\* The vent is closed for the pause, while its time runs on.
SlipWhilePaused(c) ==
    IF c.pneu.lumbar_state = "deflate" THEN lumbar_tick(c)
    ELSE [c EXCEPT !.pneu = valves_set(@, {})]

\* What ran on through a pause: the exhaust only.
WhilePaused(c) ==
    LET shut == [c EXCEPT !.pneu = valves_set(@, {})] IN
    CASE c.pneu.massage_on -> shut
      [] ~c.pneu.massage_on /\ c.pneu.lumbar_state = "deflate" -> lumbar_tick(c)
      [] ~c.pneu.massage_on /\ Lit(c.pneu) -> shut
      [] OTHER -> IF c.pneu.venting THEN [c EXCEPT !.pneu = vent_tick(@)] ELSE shut

Running(c) ==
    CASE c.pneu.massage_on ->
            IF c.pneu.start_age >= MASSAGE_TIMEOUT THEN EndMassage(c)
            ELSE [c EXCEPT !.pneu = massage_tick(@)]
      [] ~c.pneu.massage_on /\ c.pneu.lumbar_state # "off" -> lumbar_tick(c)
      [] OTHER ->
            IF c.pneu.venting THEN [c EXCEPT !.pneu = vent_tick(@)]
            ELSE [c EXCEPT !.pneu = valves_set(@, {})]

\* The pump does not wait for the motors.
SlipPneumaticsUpdate(c) == Running(c)

pneumatics_update(c) ==
    IF ~Still(c)
    THEN WhilePaused(IF c.pneu.paused THEN c
                     ELSE [c EXCEPT !.pneu.paused = TRUE, !.pneu.pause_age = 0])
    ELSE Running(IF c.pneu.paused THEN [c EXCEPT !.pneu = Unpause(@)] ELSE c)

=============================================================================
