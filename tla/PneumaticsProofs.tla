-------------------------- MODULE PneumaticsProofs --------------------------
(***************************************************************************)
(* The air cells, for every pattern, time, store and length of the passes.   *)
(*                                                                         *)
(* Four parts of the invariant do not know of each other: who owns the       *)
(* valves (Own), how long a vent was open (Vents), how long the massage and  *)
(* its step have run (Timed), how much air the cell has (Cell); and Pauses   *)
(* bounds the motions between.  A pass is followed call by call: time goes   *)
(* by (Aged), an event calls something (Called), the pause is given back     *)
(* (Handled) and the update does its work (Worked).  What each part promises *)
(* at these points in between is what is Due of it, and then Done.           *)
(***************************************************************************)
EXTENDS PneumaticsProperties, TLAPS, WellFoundedInduction

\* What the store can have of lumbar.
Tenths == 0 .. INFLATE_MAX \div TENTH

LEMMA Bounds ==
    /\ Longest \in Nat /\ \A d \in Durations : d \in Nat /\ d <= Longest
    /\ Longest < LUMBAR_SET /\ LUMBAR_SET \in Nat
  <1>1. Longest \in Durations /\ \A d \in Durations : d <= Longest
    BY PassesEnd DEF Longest
  <1>2. LUMBAR_SET \in Nat
    BY PneumaticsConstants
  <1> QED
    BY <1>1, <1>2, AdjustConstants, PassesEnd

LEMMA Ceiling ==
    /\ INFLATE_MAX \in Nat /\ TENTH \in Nat \ {0}
    /\ \E n \in Nat : INFLATE_MAX = n * TENTH
  <1>1. TENTH \in Nat \ {0} /\ INFLATE_MAX \in {n * TENTH : n \in 0 .. 255}
    BY PneumaticsConstants
  <1>2. PICK n \in 0 .. 255 : INFLATE_MAX = n * TENTH
    BY <1>1
  <1>3. n * TENTH \in Nat
    BY <1>1
  <1> QED
    BY <1>1, <1>2, <1>3

LEMMA Division ==
    ASSUME NEW x \in Nat, NEW k \in Nat \ {0}
    PROVE  /\ x \div k \in Nat /\ (x \div k) * k \in Nat
           /\ (x \div k) * k <= x /\ x < (x \div k) * k + k
  OBVIOUS

LEMMA Products ==
    ASSUME NEW m \in Nat, NEW n \in Nat, NEW k \in Nat \ {0}
    PROVE  /\ m * k \in Nat
           /\ m * k < n * k + k => m <= n
           /\ m <= n => m * k <= n * k
  <1>1. m * k \in Nat /\ n * k \in Nat
    OBVIOUS
  <1>2. m <= n => m * k <= n * k
    OBVIOUS
  <1>3. m >= n + 1 => m * k >= n * k + k
    <2>1. (n + 1) * k = n * k + k
      OBVIOUS
    <2>2. m >= n + 1 => m * k >= (n + 1) * k
      OBVIOUS
    <2> QED
      BY <2>1, <2>2
  <1> QED
    BY <1>1, <1>2, <1>3


\* What a level is stored as is within the ceiling, and within TENTH of the time.
LEMMA Rounding ==
    ASSUME NEW x \in Nat
    PROVE  LET tenths == (UpTo(INFLATE_MAX, x) + TENTH \div 2) \div TENTH IN
           /\ tenths \in Tenths /\ tenths * TENTH \in Nat /\ tenths * TENTH <= INFLATE_MAX
           /\ x <= INFLATE_MAX => tenths * TENTH <= x + TENTH /\ x <= tenths * TENTH + TENTH
           /\ x >= INFLATE_MAX => INFLATE_MAX <= tenths * TENTH + TENTH
  <1> DEFINE y == UpTo(INFLATE_MAX, x)
             h == TENTH \div 2
             m == (y + h) \div TENTH
  <1>1. PICK n \in Nat : INFLATE_MAX = n * TENTH
    BY Ceiling
  <1>2. /\ y \in Nat /\ y <= INFLATE_MAX
        /\ (x <= INFLATE_MAX => y = x) /\ (x >= INFLATE_MAX => y = INFLATE_MAX)
    BY Ceiling DEF UpTo
  <1>3. h \in Nat /\ h < TENTH /\ TENTH \in Nat \ {0}
    BY Ceiling
  <1> HIDE DEF y, h
  <1>4. m \in Nat /\ m * TENTH \in Nat /\ m * TENTH <= y + h /\ y + h < m * TENTH + TENTH
    BY <1>2, <1>3, Division
  <1> HIDE DEF m
  <1>5. m <= n
    <2>1. m * TENTH < n * TENTH + TENTH
      BY <1>1, <1>2, <1>3, <1>4, Ceiling
    <2> QED
      BY <2>1, <1>3, <1>4, Products
  <1>6. m * TENTH <= INFLATE_MAX
    BY <1>1, <1>3, <1>4, <1>5, Products
  <1>7. m \in Tenths
    <2> DEFINE k == INFLATE_MAX \div TENTH
    <2>1. k \in Nat /\ INFLATE_MAX < k * TENTH + TENTH /\ k * TENTH \in Nat
      BY <1>3, Ceiling, Division
    <2> HIDE DEF k
    <2>2. m * TENTH < k * TENTH + TENTH
      BY <1>3, <1>4, <1>6, <2>1, Ceiling
    <2>3. m <= k
      BY <2>1, <2>2, <1>3, <1>4, Products
    <2> QED
      BY <2>1, <2>3, <1>4 DEF Tenths, k
  <1>8. /\ x <= INFLATE_MAX => m * TENTH <= x + TENTH /\ x <= m * TENTH + TENTH
        /\ x >= INFLATE_MAX => INFLATE_MAX <= m * TENTH + TENTH
    BY <1>2, <1>3, <1>4, Ceiling
  <1> QED
    BY <1>4, <1>6, <1>7, <1>8 DEF m, y, h

LEMMA Targets ==
    ASSUME NEW n \in Tenths
    PROVE  Target(n) \in Nat /\ Target(n) <= INFLATE_MAX
  <1> DEFINE k == INFLATE_MAX \div TENTH
  <1>1. k \in Nat /\ k * TENTH <= INFLATE_MAX /\ k * TENTH \in Nat /\ n \in Nat /\ n <= k
    BY Ceiling, Division DEF Tenths
  <1> HIDE DEF k
  <1>2. n * TENTH \in Nat /\ n * TENTH <= k * TENTH
    BY <1>1, Ceiling, Products
  <1>3. LUMBAR_DEFAULT \in Nat /\ LUMBAR_DEFAULT <= INFLATE_MAX
    BY Ceiling DEF LUMBAR_DEFAULT
  <1> QED
    BY <1>1, <1>2, <1>3, Ceiling DEF Target

\* One of the values of a finite sequence is the largest: there is no first place
\* up to which none is.
LEMMA LongestOf ==
    ASSUME NEW N \in Nat \ {0}, NEW f \in [1 .. N -> Nat]
    PROVE  \E i \in 1 .. N : \A j \in 1 .. N : f[j] <= f[i]
  <1> DEFINE Best(n) == \E i \in 1 .. n : \A j \in 1 .. n : f[j] <= f[i]
             T == {n \in 1 .. N : ~Best(n)}
             R == OpToRel(<, Nat)
  <1>1. CASE T = {}
    <2>1. N \in 1 .. N
      OBVIOUS
    <2> QED
      BY <1>1, <2>1
  <1>2. CASE T # {}
    <2>1. \E x \in T : \A y \in T : ~(<<y, x>> \in R)
      <3>1. T \subseteq Nat
        OBVIOUS
      <3> HIDE DEF T
      <3> QED
        BY <1>2, <3>1, NatLessThanWellFounded, WFMin
    <2>2. PICK x \in T : \A y \in T : ~(<<y, x>> \in R)
      BY <2>1
    <2>3. \A y \in Nat : y < x => <<y, x>> \in R
      BY DEF OpToRel
    <2>4. x \in 1 .. N /\ ~Best(x)
      OBVIOUS
    <2>5. x # 1
      <3>1. Best(1)
        BY SMT
      <3> QED
        BY <2>4, <3>1
    <2>6. Best(x - 1)
      <3>1. x - 1 \in 1 .. N /\ x - 1 < x /\ x - 1 \in Nat
        BY <2>4, <2>5
      <3>2. ~(x - 1 \in T)
        BY <2>2, <2>3, <3>1
      <3> QED
        BY <3>1, <3>2
    <2>7. PICK i \in 1 .. x - 1 : \A j \in 1 .. x - 1 : f[j] <= f[i]
      BY <2>6
    <2>8. f[x] \in Nat /\ f[i] \in Nat /\ i \in 1 .. N /\ i \in 1 .. x /\ x \in 1 .. x
          /\ \A j \in 1 .. x : f[j] \in Nat /\ (j = x \/ j \in 1 .. x - 1)
      BY <2>4, <2>5
    <2>9. CASE f[x] <= f[i]
      <3>1. \A j \in 1 .. x : f[j] <= f[i]
        BY <2>7, <2>8, <2>9
      <3> QED
        BY <2>4, <2>8, <3>1
    <2>10. CASE f[i] <= f[x]
      <3>1. \A j \in 1 .. x : f[j] <= f[x]
        BY <2>7, <2>8, <2>10
      <3> QED
        BY <2>4, <2>8, <3>1
    <2> QED
      BY <2>8, <2>9, <2>10
  <1> QED
    BY <1>1, <1>2

\* The same of a table.
LEMMA LongestOfAll ==
    ASSUME NEW M \in Nat \ {0}, NEW N \in Nat \ {0}, NEW g \in [1 .. M -> [1 .. N -> Nat]]
    PROVE  \E i \in 1 .. M, k \in 1 .. N : \A j \in 1 .. M, l \in 1 .. N : g[j][l] <= g[i][k]
  <1>1. \A i \in 1 .. M : g[i] \in [1 .. N -> Nat]
    OBVIOUS
  <1>2. \A i \in 1 .. M : \E k \in 1 .. N : \A l \in 1 .. N : g[i][l] <= g[i][k]
    BY <1>1, LongestOf
  <1> DEFINE Best(i) == CHOOSE k \in 1 .. N : \A l \in 1 .. N : g[i][l] <= g[i][k]
             f == [i \in 1 .. M |-> g[i][Best(i)]]
  <1>3. \A i \in 1 .. M : Best(i) \in 1 .. N /\ \A l \in 1 .. N : g[i][l] <= g[i][Best(i)]
    BY <1>2
  <1> HIDE DEF Best
  <1>4. f \in [1 .. M -> Nat]
    BY <1>1, <1>3
  <1>5. PICK i \in 1 .. M : \A j \in 1 .. M : f[j] <= f[i]
    <2> HIDE DEF f
    <2> QED
      BY <1>4, LongestOf
  <1>6. \A j \in 1 .. M, l \in 1 .. N :
           /\ g[j][l] \in Nat /\ g[j][Best(j)] \in Nat /\ g[i][Best(i)] \in Nat
           /\ g[j][l] <= g[j][Best(j)] /\ g[j][Best(j)] <= g[i][Best(i)]
    BY <1>1, <1>3, <1>5
  <1>7. ASSUME NEW j \in 1 .. M, NEW l \in 1 .. N PROVE g[j][l] <= g[i][Best(i)]
    <2>1. \A x, y, z \in Nat : x <= y /\ y <= z => x <= z
      OBVIOUS
    <2>2. /\ g[j][l] \in Nat /\ g[j][Best(j)] \in Nat /\ g[i][Best(i)] \in Nat
          /\ g[j][l] <= g[j][Best(j)] /\ g[j][Best(j)] <= g[i][Best(i)]
      BY <1>6
    <2> HIDE DEF f
    <2> QED
      BY <2>1, <2>2, Zenon
  <1> QED
    BY <1>3, <1>7

\* What the ages stop at is further than anything looks, a pause included.
LEMMA Caps ==
    /\ {MASSAGE_TIMEOUT, VENT, LONGEST_PAUSE, StepCap, StartCap, LumbarCap} \subseteq Nat
    /\ StartCap = LONGEST_PAUSE + MASSAGE_TIMEOUT
    /\ LumbarCap >= LONGEST_PAUSE + INFLATE_MAX
    /\ \A s \in 1 .. Len(Pattern), l \in Levels :
          Pattern[s].len[l] \in Nat /\ StepCap >= LONGEST_PAUSE + Pattern[s].len[l]
  <1>1. MASSAGE_TIMEOUT \in Nat /\ VENT \in Nat /\ LONGEST_PAUSE \in Nat
    BY PneumaticsConstants
  <1>2. DOMAIN Pattern = 1 .. Len(Pattern)
        /\ \A s \in 1 .. Len(Pattern), l \in Levels : Pattern[s].len[l] \in Nat
    <2> DEFINE R == [bits : SUBSET Valves, len : [Levels -> Nat]]
    <2>1. Pattern \in Seq(R)
      BY PneumaticsConstants
    <2>2. \A r \in R : \A l \in Levels : r.len[l] \in Nat
      OBVIOUS
    <2> HIDE DEF R
    <2>3. DOMAIN Pattern = 1 .. Len(Pattern) /\ \A s \in 1 .. Len(Pattern) : Pattern[s] \in R
      BY <2>1
    <2> QED
      BY <2>2, <2>3
  <1> DEFINE S == {Pattern[s].len[l] : s \in DOMAIN Pattern, l \in Levels}
             Above(n) == \A s \in DOMAIN Pattern, l \in Levels : Pattern[s].len[l] <= n
             longest == CHOOSE n \in S : Above(n)
  <1>4. S \subseteq Nat
    BY <1>2
  <1>0. \E n \in S : Above(n)
    <2> DEFINE M == Len(Pattern)
               g == [s \in 1 .. M |-> [l \in 1 .. LEVEL_MAX |-> Pattern[s].len[l]]]
    <2>1. M \in Nat \ {0} /\ LEVEL_MAX \in Nat \ {0} /\ Levels = 1 .. LEVEL_MAX
      BY PneumaticsConstants, AdjustConstants DEF Levels
    <2>2. g \in [1 .. M -> [1 .. LEVEL_MAX -> Nat]]
      BY <1>2, <2>1
    <2>3. \A s \in 1 .. M, l \in 1 .. LEVEL_MAX : g[s][l] = Pattern[s].len[l]
      OBVIOUS
    <2>4. PICK i \in 1 .. M, k \in 1 .. LEVEL_MAX :
             \A j \in 1 .. M, l \in 1 .. LEVEL_MAX : g[j][l] <= g[i][k]
      <3> HIDE DEF g, M
      <3> QED
        BY <2>1, <2>2, LongestOfAll
    <2> HIDE DEF g
    <2>5. Above(Pattern[i].len[k])
      BY <1>2, <2>1, <2>3, <2>4
    <2>6. Pattern[i].len[k] \in S
      BY <1>2, <2>1, <2>4
    <2> HIDE DEF S, Above
    <2> QED
      BY <2>5, <2>6
  <1>5. StepCap = LONGEST_PAUSE + longest
    BY DEF StepCap
  <1> HIDE DEF S
  <1>3. longest \in Nat /\ Above(longest)
    <2> HIDE DEF Above
    <2>1. longest \in S /\ Above(longest)
      BY <1>0
    <2> QED
      BY <2>1, <1>4
  <1> HIDE DEF longest
  <1>6. /\ StepCap \in Nat
        /\ \A s \in 1 .. Len(Pattern), l \in Levels :
              StepCap >= LONGEST_PAUSE + Pattern[s].len[l]
    BY <1>1, <1>2, <1>3, <1>5
  <1> QED
    BY <1>1, <1>2, <1>6, Ceiling DEF StartCap, LumbarCap

-----------------------------------------------------------------------------
(* The record, and what each operator leaves alone in it.                    *)

PneuFields ==
    {"massage_on", "massage_level", "massage_step", "step_started", "step_age",
     "start_age", "lumbar_state", "lumbar_age", "lumbar_target_ms",
     "lumbar_choosing", "lumbar_base_ms", "lumbar_level_ms", "paused",
     "pause_age", "venting", "vent_age", "valves_now", "closed_age", "pump"}

\* Whatever the pump does, and how long it has waited, is of no matter here.
Typed(p) ==
    /\ DOMAIN p = PneuFields /\ p.massage_on \in BOOLEAN
    /\ p.massage_level \in Levels /\ p.massage_step \in 1 .. Len(Pattern)
    /\ p.lumbar_state \in {"off", "inflate", "hold", "deflate"}
    /\ p.step_age \in Nat /\ p.start_age \in Nat /\ p.lumbar_age \in Nat
    /\ p.lumbar_target_ms \in Nat /\ p.lumbar_base_ms \in Nat /\ p.lumbar_level_ms \in Nat
    /\ p.pause_age \in Nat /\ p.vent_age \in Nat

SameMassage(p, q) ==
    /\ q.massage_on = p.massage_on /\ q.massage_level = p.massage_level
    /\ q.massage_step = p.massage_step /\ q.step_started = p.step_started
    /\ q.step_age = p.step_age /\ q.start_age = p.start_age

SameCell(p, q) ==
    /\ q.lumbar_state = p.lumbar_state /\ q.lumbar_age = p.lumbar_age
    /\ q.lumbar_target_ms = p.lumbar_target_ms /\ q.lumbar_choosing = p.lumbar_choosing
    /\ q.lumbar_base_ms = p.lumbar_base_ms /\ q.lumbar_level_ms = p.lumbar_level_ms

SamePause(p, q) == q.paused = p.paused /\ q.pause_age = p.pause_age

SameVent(p, q) == q.venting = p.venting /\ q.vent_age = p.vent_age

LEMMA Unrelated ==
    ASSUME NEW p, Typed(p), NEW q, DOMAIN q = PneuFields,
           SameMassage(p, q), SameCell(p, q), SamePause(p, q), q.vent_age \in Nat
    PROVE  Typed(q)
  BY DEF Typed, SameMassage, SameCell, SamePause

LEMMA Valved ==
    ASSUME NEW p, DOMAIN p = PneuFields, NEW bits
    PROVE  LET q == valves_set(p, bits) IN
           /\ DOMAIN q = PneuFields /\ q.valves_now = bits
           /\ SameMassage(p, q) /\ SameCell(p, q) /\ SamePause(p, q) /\ SameVent(p, q)
  <1> DEFINE r == [p EXCEPT !.valves_now = bits]
             q == pump_update(r)
  <1>1. /\ DOMAIN r = PneuFields /\ r.valves_now = bits
        /\ SameMassage(p, r) /\ SameCell(p, r) /\ SamePause(p, r) /\ SameVent(p, r)
    BY DEF PneuFields, SameMassage, SameCell, SamePause, SameVent
  <1> HIDE DEF r
  <1>2. /\ DOMAIN q = PneuFields /\ q.valves_now = r.valves_now
        /\ SameMassage(r, q) /\ SameCell(r, q) /\ SamePause(r, q) /\ SameVent(r, q)
    BY <1>1 DEF pump_update, PneuFields, SameMassage, SameCell, SamePause, SameVent
  <1>3. valves_set(p, bits) = q
    BY DEF valves_set, r
  <1> HIDE DEF q
  <1> QED
    BY <1>1, <1>2, <1>3 DEF SameMassage, SameCell, SamePause, SameVent

LEMMA Opened ==
    ASSUME NEW p, Typed(p), NEW bits
    PROVE  Typed(valves_set(p, bits))
  <1>1. DOMAIN p = PneuFields /\ p.vent_age \in Nat
    BY DEF Typed
  <1> QED
    BY <1>1, Valved, Unrelated DEF SameVent

LEMMA Vented ==
    ASSUME NEW p, Typed(p)
    PROVE  LET q == start_vent(p) IN
           /\ Typed(q) /\ SameMassage(p, q) /\ SameCell(p, q) /\ SamePause(p, q)
           /\ q.venting /\ q.vent_age = 0 /\ "vent" \in q.valves_now
  <1> DEFINE r == valves_set(p, {"vent"})
             q == [r EXCEPT !.vent_age = 0, !.venting = TRUE]
  <1>1. /\ DOMAIN r = PneuFields /\ r.valves_now = {"vent"}
        /\ SameMassage(p, r) /\ SameCell(p, r) /\ SamePause(p, r)
    BY Valved DEF Typed
  <1>2. start_vent(p) = q
    BY DEF start_vent
  <1> HIDE DEF r
  <1>3. /\ DOMAIN q = PneuFields /\ q.valves_now = {"vent"} /\ q.venting /\ q.vent_age = 0
        /\ SameMassage(r, q) /\ SameCell(r, q) /\ SamePause(r, q)
    BY <1>1 DEF PneuFields, SameMassage, SameCell, SamePause
  <1> HIDE DEF q
  <1>4. SameMassage(p, q) /\ SameCell(p, q) /\ SamePause(p, q)
    BY <1>1, <1>3 DEF SameMassage, SameCell, SamePause
  <1>5. Typed(q)
    BY <1>3, <1>4, Unrelated
  <1> QED
    BY <1>2, <1>3, <1>4, <1>5

LEMMA VentTicked ==
    ASSUME NEW p, Typed(p)
    PROVE  LET q == vent_tick(p) IN
           /\ Typed(q) /\ SameMassage(p, q) /\ SameCell(p, q) /\ SamePause(p, q)
           /\ p.vent_age >= VENT => ~q.venting
           /\ ~(p.vent_age >= VENT) => SameVent(p, q) /\ "vent" \in q.valves_now
  <1>1. DOMAIN p = PneuFields /\ p.vent_age \in Nat
    BY DEF Typed
  <1>2. CASE p.vent_age >= VENT
    <2> DEFINE r == [p EXCEPT !.venting = FALSE, !.vent_age = 0]
    <2>1. /\ DOMAIN r = PneuFields /\ ~r.venting /\ r.vent_age = 0
          /\ SameMassage(p, r) /\ SameCell(p, r) /\ SamePause(p, r)
      BY <1>1 DEF PneuFields, SameMassage, SameCell, SamePause
    <2>2. vent_tick(p) = valves_set(r, {})
      BY <1>2 DEF vent_tick
    <2> HIDE DEF r
    <2>3. Typed(r)
      BY <2>1, Unrelated
    <2> DEFINE q == valves_set(r, {})
    <2>4. Typed(q) /\ SameMassage(r, q) /\ SameCell(r, q) /\ SamePause(r, q) /\ SameVent(r, q)
      BY <2>1, <2>3, Opened, Valved
    <2> HIDE DEF q
    <2>5. /\ Typed(q) /\ SameMassage(p, q) /\ SameCell(p, q) /\ SamePause(p, q) /\ ~q.venting
      BY <2>1, <2>4 DEF SameMassage, SameCell, SamePause, SameVent
    <2> QED
      BY <1>2, <2>2, <2>5 DEF q
  <1>3. CASE ~(p.vent_age >= VENT)
    <2>1. vent_tick(p) = valves_set(p, {"vent"})
      BY <1>3 DEF vent_tick
    <2> QED
      BY <1>1, <1>3, <2>1, Opened, Valved
  <1> QED
    BY <1>2, <1>3

\* Lumbar owns the valves from here on.
LEMMA LumbarSet ==
    ASSUME NEW p, Typed(p), NEW state \in {"off", "inflate", "hold", "deflate"}
    PROVE  LET q == set_lumbar(p, state) IN
           /\ Typed(q) /\ SameMassage(p, q) /\ SamePause(p, q) /\ ~q.venting
           /\ q.lumbar_state = state /\ q.lumbar_age = 0 /\ q.valves_now = p.valves_now
           /\ q.lumbar_target_ms = p.lumbar_target_ms /\ q.lumbar_choosing = p.lumbar_choosing
           /\ q.lumbar_base_ms = p.lumbar_base_ms /\ q.lumbar_level_ms = p.lumbar_level_ms
  BY DEF set_lumbar, Typed, PneuFields, SameMassage, SamePause

LEMMA MassageTicked ==
    ASSUME NEW p, Typed(p)
    PROVE  LET q == massage_tick(p) IN
           /\ Typed(q) /\ SameCell(p, q) /\ SamePause(p, q) /\ SameVent(p, q)
           /\ q.massage_on = p.massage_on /\ q.massage_level = p.massage_level
           /\ q.start_age = p.start_age /\ q.step_started
           /\ \/ ~p.step_started /\ q.massage_step = p.massage_step /\ q.step_age = 0
              \/ p.step_started /\ q.massage_step = p.massage_step /\ q.step_age = p.step_age
              \/ p.step_started /\ p.step_age >= Pattern[p.massage_step].len[p.massage_level]
                    /\ q.step_age = 0
  <1> DEFINE len  == Pattern[p.massage_step].len[p.massage_level]
             next == IF ~p.step_started
                     THEN [p EXCEPT !.step_started = TRUE, !.step_age = 0]
                     ELSE IF p.step_age < len THEN p
                     ELSE [p EXCEPT !.massage_step = (@ % Len(Pattern)) + 1, !.step_age = 0]
             q    == valves_set(next, Pattern[next.massage_step].bits)
             step == (p.massage_step % Len(Pattern)) + 1
  <1>1. massage_tick(p) = q
    BY DEF massage_tick
  <1>2. step \in 1 .. Len(Pattern) /\ len \in Nat /\ p.step_age \in Nat
    <2>1. p.massage_step \in 1 .. Len(Pattern) /\ p.massage_level \in Levels /\ p.step_age \in Nat
      BY DEF Typed
    <2>2. Len(Pattern) \in Nat
      BY PneumaticsConstants
    <2>3. len \in Nat
      BY <2>1, Caps
    <2>4. ASSUME NEW s \in Nat, NEW n \in Nat \ {0}
          PROVE  (s % n) + 1 \in 1 .. n
      OBVIOUS
    <2>5. p.massage_step \in Nat /\ Len(Pattern) \in Nat \ {0}
      BY <2>1, <2>2
    <2>6. step \in 1 .. Len(Pattern)
      BY <2>4, <2>5
    <2> QED
      BY <2>1, <2>3, <2>6
  <1> HIDE DEF step, len
  <1>3. next = IF ~p.step_started
               THEN [p EXCEPT !.step_started = TRUE, !.step_age = 0]
               ELSE IF p.step_age < len THEN p
               ELSE [p EXCEPT !.massage_step = step, !.step_age = 0]
    BY DEF step
  <1> HIDE DEF next, q
  <1>4. /\ Typed(next) /\ SameCell(p, next) /\ SamePause(p, next) /\ SameVent(p, next)
        /\ next.massage_on = p.massage_on /\ next.massage_level = p.massage_level
        /\ next.start_age = p.start_age /\ next.step_started
        /\ \/ ~p.step_started /\ next.massage_step = p.massage_step /\ next.step_age = 0
           \/ p.step_started /\ next.massage_step = p.massage_step /\ next.step_age = p.step_age
           \/ p.step_started /\ p.step_age >= len /\ next.step_age = 0
    BY <1>2, <1>3 DEF Typed, PneuFields, SameCell, SamePause, SameVent
  <1>5. /\ Typed(q) /\ SameMassage(next, q) /\ SameCell(next, q)
        /\ SamePause(next, q) /\ SameVent(next, q)
    BY <1>4, Valved, Opened DEF Typed, q
  <1> QED
    BY <1>1, <1>4, <1>5 DEF SameMassage, SameCell, SamePause, SameVent, len

LEMMA Deflates ==
    ASSUME NEW p, Typed(p)
    PROVE  LET q == DeflateTick(p) IN
           /\ Typed(q) /\ SameMassage(p, q) /\ SamePause(p, q) /\ SameVent(p, q)
           /\ q.lumbar_state \in {p.lumbar_state, "off"} /\ q.lumbar_level_ms = p.lumbar_level_ms
  <1> DEFINE open == valves_set(p, {"vent"})
             shut == [open EXCEPT !.lumbar_state = "off"]
             q    == DeflateTick(p)
  <1>1. /\ Typed(open) /\ SameMassage(p, open) /\ SameCell(p, open)
        /\ SamePause(p, open) /\ SameVent(p, open)
    BY Valved, Opened DEF Typed
  <1> HIDE DEF open
  <1>2. /\ Typed(shut) /\ SameMassage(open, shut) /\ SamePause(open, shut) /\ SameVent(open, shut)
        /\ shut.lumbar_state = "off" /\ shut.lumbar_level_ms = open.lumbar_level_ms
    BY <1>1 DEF Typed, PneuFields, SameMassage, SamePause, SameVent
  <1> HIDE DEF shut
  <1>3. q = IF p.lumbar_age >= VENT THEN valves_set(shut, {}) ELSE open
    BY DEF DeflateTick, open, shut
  <1> HIDE DEF q
  <1>4. CASE q = open
    BY <1>1, <1>4 DEF SameCell, q
  <1>5. CASE q = valves_set(shut, {})
    <2>1. /\ Typed(q) /\ SameMassage(shut, q) /\ SameCell(shut, q)
          /\ SamePause(shut, q) /\ SameVent(shut, q)
      BY <1>2, <1>5, Valved, Opened DEF Typed
    <2> QED
      BY <1>1, <1>2, <2>1 DEF SameMassage, SamePause, SameVent, SameCell, q
  <1> QED
    BY <1>3, <1>4, <1>5

-----------------------------------------------------------------------------
(* A pass: time goes by.                                                     *)

\* What OneOwner says of the record.
Own(p) ==
    /\ p.massage_on => p.lumbar_state = "off" /\ ~p.venting
    /\ p.lumbar_state # "off" => ~p.venting

\* The record d later.
Aged(p, d, q) ==
    /\ Typed(q)
    /\ q.massage_on = p.massage_on /\ q.lumbar_state = p.lumbar_state
    /\ q.lumbar_level_ms = p.lumbar_level_ms /\ q.paused = p.paused
    /\ q.venting = p.venting /\ q.valves_now = p.valves_now
    /\ p.massage_on =>
          /\ q.massage_level = p.massage_level /\ q.massage_step = p.massage_step
          /\ q.step_started <=> p.step_started
          /\ p.step_started => q.step_age = UpTo(StepCap, p.step_age + d)
          /\ q.start_age = UpTo(StartCap, p.start_age + d)
    /\ p.lumbar_state = "inflate" =>
          /\ q.lumbar_target_ms = p.lumbar_target_ms
          /\ q.lumbar_choosing <=> p.lumbar_choosing
          /\ q.lumbar_base_ms = p.lumbar_base_ms
          /\ q.lumbar_age = UpTo(LumbarCap, p.lumbar_age + d)
    /\ p.paused =>
          /\ q.pause_age \in Nat /\ q.pause_age <= p.pause_age + d
          /\ p.massage_on \/ Lit(p) => q.pause_age = UpTo(LONGEST_PAUSE, p.pause_age + d)
    /\ ~p.paused => q.pause_age = 0
    /\ p.venting => q.vent_age = UpTo(VENT, p.vent_age + d)

LEMMA Elapsed ==
    ASSUME NEW p, Typed(p), NEW d \in Durations
    PROVE  Aged(p, d, ElapsePneumatics(p, d))
  <1> DEFINE f == Forget(p)
             q == ElapsePneumatics(p, d)
  <1>1. d \in Nat
    BY Bounds
  <1>2. /\ DOMAIN f = PneuFields
        /\ f.massage_on = p.massage_on /\ f.lumbar_state = p.lumbar_state
        /\ f.lumbar_level_ms = p.lumbar_level_ms /\ f.paused = p.paused
        /\ f.venting = p.venting /\ f.valves_now = p.valves_now
        /\ f.step_age = p.step_age /\ f.start_age = p.start_age
        /\ f.lumbar_age = p.lumbar_age /\ f.pause_age = p.pause_age /\ f.vent_age = p.vent_age
        /\ f.massage_level \in Levels /\ f.massage_step \in 1 .. Len(Pattern)
        /\ f.lumbar_target_ms \in Nat /\ f.lumbar_base_ms \in Nat
        /\ p.massage_on =>
              /\ f.massage_level = p.massage_level /\ f.massage_step = p.massage_step
              /\ f.step_started <=> p.step_started
        /\ p.lumbar_state = "inflate" =>
              /\ f.lumbar_target_ms = p.lumbar_target_ms
              /\ f.lumbar_choosing <=> p.lumbar_choosing
              /\ f.lumbar_base_ms = p.lumbar_base_ms
    <2>1. LEVEL_MAX \in Levels
      BY AdjustConstants DEF Levels
    <2>2. 1 \in 1 .. Len(Pattern)
      <3>1. p.massage_step \in 1 .. Len(Pattern) /\ Len(Pattern) \in Nat
        BY PneumaticsConstants DEF Typed
      <3> QED
        BY <3>1
    <2> QED
      BY <2>1, <2>2 DEF Forget, Typed, PneuFields
  <1>3. q = [f EXCEPT
              !.step_age   = IF p.massage_on /\ p.step_started
                             THEN UpTo(StepCap, f.step_age + d) ELSE 0,
              !.start_age  = IF p.massage_on THEN UpTo(StartCap, f.start_age + d) ELSE 0,
              !.lumbar_age = IF p.lumbar_state \in {"inflate", "deflate"}
                             THEN UpTo(LumbarCap, f.lumbar_age + d) ELSE 0,
              !.pause_age  = IF p.paused THEN UpTo(PauseCap(p), f.pause_age + d) ELSE 0,
              !.vent_age   = IF p.venting THEN UpTo(VENT, f.vent_age + d) ELSE 0,
              !.closed_age = UpTo(PUMP_DELAY, f.closed_age + d)]
    BY <1>2 DEF ElapsePneumatics, PneuFields
  <1> HIDE DEF f, q
  <1>4. /\ DOMAIN q = PneuFields
        /\ q.massage_on = p.massage_on /\ q.lumbar_state = p.lumbar_state
        /\ q.lumbar_level_ms = p.lumbar_level_ms /\ q.paused = p.paused
        /\ q.venting = p.venting /\ q.valves_now = p.valves_now
        /\ q.massage_level = f.massage_level /\ q.massage_step = f.massage_step
        /\ q.step_started = f.step_started /\ q.lumbar_target_ms = f.lumbar_target_ms
        /\ q.lumbar_choosing = f.lumbar_choosing /\ q.lumbar_base_ms = f.lumbar_base_ms
        /\ q.step_age = IF p.massage_on /\ p.step_started THEN UpTo(StepCap, p.step_age + d) ELSE 0
        /\ q.start_age = IF p.massage_on THEN UpTo(StartCap, p.start_age + d) ELSE 0
        /\ q.lumbar_age = IF p.lumbar_state \in {"inflate", "deflate"}
                          THEN UpTo(LumbarCap, p.lumbar_age + d) ELSE 0
        /\ q.pause_age = IF p.paused THEN UpTo(PauseCap(p), p.pause_age + d) ELSE 0
        /\ q.vent_age = IF p.venting THEN UpTo(VENT, p.vent_age + d) ELSE 0
    BY <1>2, <1>3 DEF PneuFields
  <1>5. \A cap, n \in Nat : UpTo(cap, n) \in Nat /\ UpTo(cap, n) <= n
    BY DEF UpTo
  <1>6. {StepCap, StartCap, LumbarCap, PauseCap(p), VENT, LONGEST_PAUSE} \subseteq Nat
    BY Caps DEF PauseCap
  <1>7. /\ p.step_age + d \in Nat /\ p.start_age + d \in Nat /\ p.lumbar_age + d \in Nat
        /\ p.pause_age + d \in Nat /\ p.vent_age + d \in Nat
    <2>1. /\ p.step_age \in Nat /\ p.start_age \in Nat /\ p.lumbar_age \in Nat
          /\ p.pause_age \in Nat /\ p.vent_age \in Nat
      BY DEF Typed
    <2>2. \A n \in Nat : n + d \in Nat
      BY <1>1
    <2> QED
      BY <2>1, <2>2
  <1>8. /\ q.step_age \in Nat /\ q.start_age \in Nat /\ q.lumbar_age \in Nat
        /\ q.pause_age \in Nat /\ q.vent_age \in Nat
    <2>1. /\ UpTo(StepCap, p.step_age + d) \in Nat /\ UpTo(StartCap, p.start_age + d) \in Nat
          /\ UpTo(LumbarCap, p.lumbar_age + d) \in Nat
          /\ UpTo(PauseCap(p), p.pause_age + d) \in Nat /\ UpTo(VENT, p.vent_age + d) \in Nat
      BY <1>5, <1>6, <1>7
    <2> QED
      BY <1>4, <2>1
  <1>9. Typed(q)
    BY <1>2, <1>4, <1>8 DEF Typed
  <1>10. p.paused => q.pause_age <= p.pause_age + d
    BY <1>4, <1>5, <1>6, <1>7
  <1>11. p.massage_on \/ Lit(p) => PauseCap(p) = LONGEST_PAUSE
    BY DEF PauseCap
  <1> QED
    BY <1>2, <1>4, <1>8, <1>9, <1>10, <1>11 DEF q, Aged

-----------------------------------------------------------------------------
(* The chair, and the calls of one event.                                    *)

Shaped(c) ==
    /\ DOMAIN c = {"pneu", "adjust", "motion", "store"}
    /\ DOMAIN c.motion = {"requested"} /\ DOMAIN c.store = {"lumbar", "massage"}
    /\ c.store.lumbar \in Tenths
    /\ Typed(c.pneu)

SameChair(c, e) == Shaped(e) /\ e.motion = c.motion

\* What a call can do to a vent, to the massage and to the cell of lumbar.
VentCalled(p, q) ==
    /\ q.venting => \/ p.venting /\ q.vent_age = p.vent_age /\ q.valves_now = p.valves_now
                    \/ q.vent_age = 0 /\ "vent" \in q.valves_now
    /\ p.venting => q.venting \/ q.massage_on \/ Lit(q)

MassageCalled(p, q) ==
    q.massage_on => \/ /\ p.massage_on /\ q.massage_step = p.massage_step
                       /\ q.step_started <=> p.step_started
                       /\ q.step_age = p.step_age /\ q.start_age = p.start_age
                    \/ ~p.massage_on /\ ~q.step_started /\ q.step_age = 0 /\ q.start_age = 0

CellLeft(p, q) ==
    \/ SameCell(p, q)
    \/ q.lumbar_state \in {"off", "deflate"} /\ q.lumbar_level_ms = p.lumbar_level_ms

Called(p, q) ==
    Own(q) /\ SamePause(p, q) /\ VentCalled(p, q) /\ MassageCalled(p, q)

LEMMA CalledNothing ==
    ASSUME NEW p, NEW q, Own(p), SamePause(p, q), SameVent(p, q), SameCell(p, q),
           q.massage_on = p.massage_on, q.massage_step = p.massage_step,
           q.step_started = p.step_started, q.step_age = p.step_age,
           q.start_age = p.start_age, q.valves_now = p.valves_now
    PROVE  Called(p, q)
  BY DEF Called, Own, SamePause, SameVent, SameCell, VentCalled, MassageCalled

LEMMA MassageOff ==
    ASSUME NEW c, Shaped(c)
    PROVE  LET e == massage_off(c) IN
           /\ SameChair(c, e) /\ ~e.pneu.massage_on /\ e.pneu.valves_now = c.pneu.valves_now
           /\ SameCell(c.pneu, e.pneu) /\ SamePause(c.pneu, e.pneu) /\ SameVent(c.pneu, e.pneu)
           /\ e.store = c.store
  BY DEF massage_off, Shaped, Typed, PneuFields, SameChair, SameCell, SamePause, SameVent

LEMMA MassageEnded ==
    ASSUME NEW c, Shaped(c), Own(c.pneu), c.pneu.massage_on
    PROVE  LET e == EndMassage(c) IN
           /\ SameChair(c, e) /\ Called(c.pneu, e.pneu) /\ SameCell(c.pneu, e.pneu)
           /\ ~e.pneu.massage_on /\ e.pneu.venting /\ e.pneu.vent_age = 0
           /\ "vent" \in e.pneu.valves_now
  <1> DEFINE off == massage_off(c)
             q   == start_vent(off.pneu)
             e   == [off EXCEPT !.pneu = q]
  <1>1. /\ Shaped(off) /\ off.motion = c.motion /\ ~off.pneu.massage_on
        /\ SameCell(c.pneu, off.pneu) /\ SamePause(c.pneu, off.pneu)
    BY MassageOff DEF SameChair
  <1>2. EndMassage(c) = e
    BY <1>1 DEF EndMassage, Shaped
  <1> HIDE DEF off
  <1>3. /\ Typed(q) /\ SameMassage(off.pneu, q) /\ SameCell(off.pneu, q)
        /\ SamePause(off.pneu, q) /\ q.venting /\ q.vent_age = 0 /\ "vent" \in q.valves_now
    BY <1>1, Vented DEF Shaped
  <1> HIDE DEF q
  <1>4. SameChair(c, e) /\ e.pneu = q
    BY <1>1, <1>3 DEF Shaped, SameChair
  <1> HIDE DEF e
  <1>5. SameCell(c.pneu, q) /\ SamePause(c.pneu, q) /\ ~q.massage_on
    BY <1>1, <1>3 DEF SameCell, SamePause, SameMassage
  <1>6. c.pneu.lumbar_state = "off" /\ q.lumbar_state = "off"
    BY <1>5 DEF Own, SameCell
  <1>7. Called(c.pneu, q)
    BY <1>3, <1>5, <1>6 DEF Called, Own, VentCalled, MassageCalled
  <1> QED
    BY <1>2, <1>3, <1>4, <1>5, <1>7

LEMMA MassageStarted ==
    ASSUME NEW c, Shaped(c), Own(c.pneu)
    PROVE  LET e == massage_start(c) IN
           /\ SameChair(c, e) /\ Called(c.pneu, e.pneu) /\ CellLeft(c.pneu, e.pneu)
           /\ e.pneu.massage_on
  <1>1. CASE c.pneu.massage_on
    BY <1>1, CalledNothing DEF massage_start, Shaped, SameChair, SamePause, SameVent, SameCell, CellLeft
  <1>2. CASE ~c.pneu.massage_on
    <2> DEFINE p == c.pneu
               level == Remembered(c.store.massage)
               q == [p EXCEPT !.massage_on = TRUE, !.venting = FALSE, !.vent_age = 0,
                              !.lumbar_state = "off", !.massage_step = 1,
                              !.step_started = FALSE, !.step_age = 0,
                              !.start_age = 0, !.massage_level = level]
    <2>1. massage_start(c) = [c EXCEPT !.pneu = q]
      BY <1>2 DEF massage_start, Shaped
    <2>2. level \in Levels /\ 1 \in 1 .. Len(Pattern)
      <3>1. LEVEL_MAX \in Levels
        BY AdjustConstants DEF Levels
      <3>2. p.massage_step \in 1 .. Len(Pattern) /\ Len(Pattern) \in Nat
        BY PneumaticsConstants DEF Shaped, Typed
      <3> QED
        BY <3>1, <3>2 DEF Remembered
    <2> HIDE DEF level
    <2>3. Typed(p)
      BY DEF Shaped
    <2> HIDE DEF p
    <2>4. /\ Typed(q) /\ Own(q) /\ SamePause(p, q) /\ q.massage_on
          /\ ~q.step_started /\ q.step_age = 0 /\ q.start_age = 0 /\ ~q.venting
          /\ q.lumbar_state = "off" /\ q.lumbar_level_ms = p.lumbar_level_ms
      BY <2>2, <2>3 DEF Typed, PneuFields, Own, SamePause
    <2> HIDE DEF q
    <2>5. Called(p, q) /\ CellLeft(p, q)
      BY <1>2, <2>4 DEF Called, VentCalled, MassageCalled, CellLeft, p
    <2>6. SameChair(c, [c EXCEPT !.pneu = q]) /\ [c EXCEPT !.pneu = q].pneu = q
      BY <2>4 DEF Shaped, SameChair
    <2> QED
      BY <2>1, <2>4, <2>5, <2>6 DEF p
  <1> QED
    BY <1>1, <1>2

LEMMA MassageArmed ==
    ASSUME NEW c, Shaped(c), Own(c.pneu)
    PROVE  LET e == pneumatics_massage_arm(c) IN
           SameChair(c, e) /\ Called(c.pneu, e.pneu) /\ SameCell(c.pneu, e.pneu)
  <1> DEFINE p == c.pneu
             level == IF p.massage_on THEN p.massage_level ELSE Remembered(c.store.massage)
             adjust == adjust_open(c.adjust, "massage", level)
             q == [p EXCEPT !.massage_level = level]
             e == [c EXCEPT !.pneu.massage_level = level, !.adjust = adjust]
  <1>1. pneumatics_massage_arm(c) = e
    BY DEF pneumatics_massage_arm, Shaped
  <1>2. Typed(p) /\ level \in Levels
    <2>1. LEVEL_MAX \in Levels
      BY AdjustConstants DEF Levels
    <2> QED
      BY <2>1 DEF Shaped, Typed, Remembered
  <1> HIDE DEF level, adjust
  <1>3. e.pneu = q /\ e.motion = c.motion /\ e.store = c.store
        /\ DOMAIN e = {"pneu", "adjust", "motion", "store"}
    BY DEF Shaped
  <1> HIDE DEF e
  <1>4. Typed(q) /\ SamePause(p, q) /\ SameVent(p, q) /\ SameCell(p, q)
        /\ q.massage_on = p.massage_on /\ q.massage_step = p.massage_step
        /\ q.step_started = p.step_started /\ q.step_age = p.step_age
        /\ q.start_age = p.start_age /\ q.valves_now = p.valves_now
    BY <1>2 DEF Typed, PneuFields, SamePause, SameVent, SameCell
  <1> HIDE DEF q
  <1>5. Called(p, q)
    BY <1>4, CalledNothing
  <1>6. SameChair(c, e)
    BY <1>3, <1>4 DEF SameChair, Shaped
  <1> QED
    BY <1>1, <1>3, <1>4, <1>5, <1>6

LEMMA LevelUsed ==
    ASSUME NEW c, Shaped(c), Own(c.pneu), NEW want
    PROVE  LET e == pneumatics_massage_use_level(c, want) IN
           /\ SameChair(c, e) /\ Called(c.pneu, e.pneu) /\ SameCell(c.pneu, e.pneu)
           /\ e.pneu.massage_on = c.pneu.massage_on
           /\ e.pneu.step_started = c.pneu.step_started /\ e.store = c.store
           /\ e.pneu.massage_step = c.pneu.massage_step /\ e.pneu.step_age = c.pneu.step_age
           /\ e.pneu.start_age = c.pneu.start_age
           /\ SameVent(c.pneu, e.pneu) /\ e.pneu.valves_now = c.pneu.valves_now
  <1> DEFINE p == c.pneu
             q == [p EXCEPT !.massage_level = want]
             e == [c EXCEPT !.pneu.massage_level = want]
  <1>1. CASE want \in Levels
    <2>1. pneumatics_massage_use_level(c, want) = e
      BY <1>1 DEF pneumatics_massage_use_level
    <2>2. Typed(p) /\ e.pneu = q /\ e.motion = c.motion /\ e.store = c.store
          /\ DOMAIN e = {"pneu", "adjust", "motion", "store"}
      BY DEF Shaped
    <2> HIDE DEF e
    <2>3. Typed(q) /\ SamePause(p, q) /\ SameVent(p, q) /\ SameCell(p, q)
          /\ q.massage_on = p.massage_on /\ q.massage_step = p.massage_step
          /\ q.step_started = p.step_started /\ q.step_age = p.step_age
          /\ q.start_age = p.start_age /\ q.valves_now = p.valves_now
      BY <1>1, <2>2 DEF Typed, PneuFields, SamePause, SameVent, SameCell
    <2> HIDE DEF q
    <2>4. Called(p, q)
      BY <2>3, CalledNothing
    <2>5. SameChair(c, e)
      BY <2>2, <2>3 DEF SameChair, Shaped
    <2> QED
      BY <2>1, <2>2, <2>3, <2>4, <2>5
  <1>2. CASE want \notin Levels
    <2>1. pneumatics_massage_use_level(c, want) = c
      BY <1>2 DEF pneumatics_massage_use_level
    <2>2. SamePause(p, p) /\ SameVent(p, p) /\ SameCell(p, p)
      BY DEF SamePause, SameVent, SameCell
    <2> QED
      BY <2>1, <2>2, CalledNothing DEF SameChair
  <1> QED
    BY <1>1, <1>2

LEMMA LevelSet ==
    ASSUME NEW c, Shaped(c), Own(c.pneu), NEW want \in Levels, NEW adjust
    PROVE  LET set == pneumatics_massage_set_level(c, want)
               e   == [set EXCEPT !.adjust = adjust]
           IN  SameChair(c, e) /\ Called(c.pneu, e.pneu) /\ SameCell(c.pneu, e.pneu)
  <1> DEFINE use == pneumatics_massage_use_level(c, want)
             set == [use EXCEPT !.store.massage = want]
             e   == [set EXCEPT !.adjust = adjust]
  <1>1. pneumatics_massage_set_level(c, want) = set
    BY DEF pneumatics_massage_set_level
  <1>2. SameChair(c, use) /\ Called(c.pneu, use.pneu) /\ SameCell(c.pneu, use.pneu)
    BY LevelUsed
  <1> HIDE DEF use
  <1>3. SameChair(use, e) /\ e.pneu = use.pneu
    BY <1>2 DEF SameChair, Shaped
  <1> HIDE DEF e, set
  <1> QED
    BY <1>1, <1>2, <1>3 DEF SameChair, e

LEMMA MassagePressed ==
    ASSUME NEW c, Shaped(c), Own(c.pneu)
    PROVE  LET e == MassageButton(c) IN
           SameChair(c, e) /\ Called(c.pneu, e.pneu) /\ CellLeft(c.pneu, e.pneu)
  <1>1. CASE c.adjust.armed /\ c.adjust.owner = "massage"
    <2> DEFINE e == [c EXCEPT !.adjust = adjust_accept(c.adjust)]
    <2>1. MassageButton(c) = e
      BY <1>1 DEF MassageButton, Shaped
    <2>2. SameChair(c, e) /\ e.pneu = c.pneu
      BY DEF SameChair, Shaped
    <2> HIDE DEF e
    <2>3. SamePause(c.pneu, e.pneu) /\ SameVent(c.pneu, e.pneu) /\ SameCell(c.pneu, e.pneu)
      BY <2>2 DEF SamePause, SameVent, SameCell
    <2> QED
      BY <2>1, <2>2, <2>3, CalledNothing DEF CellLeft
  <1>2. CASE ~(c.adjust.armed /\ c.adjust.owner = "massage") /\ c.pneu.massage_on
    <2>1. MassageButton(c) = EndMassage(c)
      BY <1>2 DEF MassageButton
    <2> QED
      BY <1>2, <2>1, MassageEnded DEF CellLeft
  <1>3. CASE ~(c.adjust.armed /\ c.adjust.owner = "massage") /\ ~c.pneu.massage_on
    <2> DEFINE begun == massage_start(c)
               adjust == adjust_show(begun.adjust, "massage", begun.pneu.massage_level)
               e == [begun EXCEPT !.adjust = adjust]
    <2>1. SameChair(c, begun) /\ Called(c.pneu, begun.pneu) /\ CellLeft(c.pneu, begun.pneu)
      BY MassageStarted
    <2>2. MassageButton(c) = e
      BY <1>3, <2>1 DEF MassageButton, SameChair, Shaped
    <2> HIDE DEF begun, adjust
    <2>3. SameChair(begun, e) /\ e.pneu = begun.pneu
      BY <2>1 DEF SameChair, Shaped
    <2> HIDE DEF e
    <2> QED
      BY <2>1, <2>2, <2>3 DEF SameChair
  <1> QED
    BY <1>1, <1>2, <1>3

LEMMA ShutDown ==
    ASSUME NEW c, Shaped(c), Own(c.pneu)
    PROVE  LET e == pneumatics_shutdown(c) IN
           /\ SameChair(c, e) /\ Called(c.pneu, e.pneu) /\ CellLeft(c.pneu, e.pneu)
           /\ ~e.pneu.massage_on
  <1> DEFINE off == massage_off(c)
             p == off.pneu
             r == [p EXCEPT !.lumbar_state = "off", !.lumbar_choosing = FALSE, !.lumbar_base_ms = 0]
             q == start_vent(r)
             e == [off EXCEPT !.pneu = q]
  <1>1. /\ Shaped(off) /\ off.motion = c.motion /\ ~p.massage_on
        /\ SameCell(c.pneu, p) /\ SamePause(c.pneu, p)
    BY MassageOff DEF SameChair
  <1>2. pneumatics_shutdown(c) = e
    BY <1>1 DEF pneumatics_shutdown, Shaped
  <1>3. Typed(p)
    BY <1>1 DEF Shaped
  <1> HIDE DEF p
  <1>4. Typed(r) /\ SamePause(p, r) /\ ~r.massage_on /\ r.lumbar_state = "off"
        /\ r.lumbar_level_ms = p.lumbar_level_ms
    BY <1>1, <1>3 DEF Typed, PneuFields, SamePause
  <1> HIDE DEF r
  <1>5. /\ Typed(q) /\ SameMassage(r, q) /\ SameCell(r, q)
        /\ SamePause(r, q) /\ q.venting /\ q.vent_age = 0 /\ "vent" \in q.valves_now
    BY <1>4, Vented
  <1> HIDE DEF q
  <1>6. SameChair(c, e) /\ e.pneu = q
    BY <1>1, <1>5 DEF Shaped, SameChair
  <1> HIDE DEF e
  <1>7. /\ SamePause(c.pneu, q) /\ ~q.massage_on /\ q.lumbar_state = "off"
        /\ q.lumbar_level_ms = c.pneu.lumbar_level_ms
    BY <1>1, <1>4, <1>5 DEF SameCell, SamePause, SameMassage
  <1>8. Called(c.pneu, q) /\ CellLeft(c.pneu, q)
    BY <1>5, <1>7 DEF Called, Own, VentCalled, MassageCalled, CellLeft
  <1> QED
    BY <1>2, <1>6, <1>7, <1>8

\* A press of LUMBAR inflates, onto whatever is in the cell.
LEMMA LumbarPressed ==
    ASSUME NEW c, Shaped(c), Own(c.pneu)
    PROVE  LET e == LumbarButton(c)  p == c.pneu  q == e.pneu IN
           /\ SameChair(c, e) /\ Called(p, q) /\ ~q.massage_on
           /\ q.lumbar_state = "inflate" /\ q.lumbar_age = 0 /\ q.lumbar_choosing
           /\ q.lumbar_base_ms = lumbar_banked(p) /\ q.lumbar_base_ms \in Nat
           /\ q.lumbar_level_ms = p.lumbar_level_ms
  <1> DEFINE off == massage_off(c)
             p == off.pneu
             base == lumbar_banked(c.pneu)
             r == [p EXCEPT !.lumbar_base_ms = base, !.lumbar_choosing = TRUE,
                            !.lumbar_target_ms = INFLATE_MAX]
             q == set_lumbar(r, "inflate")
             e == [off EXCEPT !.pneu = q]
  <1>1. /\ Shaped(off) /\ off.motion = c.motion /\ ~p.massage_on
        /\ SameCell(c.pneu, p) /\ SamePause(c.pneu, p)
    BY MassageOff DEF SameChair
  <1>2. LumbarButton(c) = e
    BY <1>1 DEF LumbarButton, Shaped
  <1>3. Typed(p)
    BY <1>1 DEF Shaped
  <1>4. base \in Nat /\ INFLATE_MAX \in Nat
    <2>1. /\ c.pneu.lumbar_base_ms \in Nat /\ c.pneu.lumbar_age \in Nat
          /\ c.pneu.lumbar_level_ms \in Nat
      BY DEF Shaped, Typed
    <2> QED
      BY <2>1, Ceiling DEF lumbar_banked
  <1> HIDE DEF p, base
  <1>5. /\ Typed(r) /\ SamePause(p, r) /\ ~r.massage_on /\ r.lumbar_choosing
        /\ r.lumbar_base_ms = base /\ r.lumbar_level_ms = p.lumbar_level_ms
    BY <1>1, <1>3, <1>4 DEF Typed, PneuFields, SamePause
  <1> HIDE DEF r
  <1>6. /\ Typed(q) /\ SameMassage(r, q) /\ SamePause(r, q) /\ ~q.venting
        /\ q.lumbar_state = "inflate" /\ q.lumbar_age = 0
        /\ q.lumbar_choosing = r.lumbar_choosing
        /\ q.lumbar_base_ms = r.lumbar_base_ms /\ q.lumbar_level_ms = r.lumbar_level_ms
    BY <1>5, LumbarSet
  <1> HIDE DEF q
  <1>7. SameChair(c, e) /\ e.pneu = q
    BY <1>1, <1>6 DEF Shaped, SameChair
  <1> HIDE DEF e
  <1>8. SamePause(c.pneu, q) /\ ~q.massage_on /\ p.lumbar_level_ms = c.pneu.lumbar_level_ms
    BY <1>1, <1>5, <1>6 DEF SameCell, SamePause, SameMassage
  <1>9. Called(c.pneu, q)
    BY <1>6, <1>8 DEF Called, Own, VentCalled, MassageCalled, Lit
  <1> QED
    BY <1>2, <1>4, <1>5, <1>6, <1>7, <1>8, <1>9 DEF base

\* A stored level within TENTH of a time, which the ceiling bounds.
Kept(level, time) ==
    /\ level \in Nat /\ level <= INFLATE_MAX
    /\ time <= INFLATE_MAX => level <= time + TENTH /\ time <= level + TENTH
    /\ time >= INFLATE_MAX => INFLATE_MAX <= level + TENTH

LEMMA StoppedAt ==
    ASSUME NEW c, Shaped(c), NEW elapsed \in Nat, NEW remember \in BOOLEAN
    PROVE  LET e == lumbar_stop_at(c, elapsed, remember)  p == c.pneu  q == e.pneu IN
           /\ SameChair(c, e) /\ SameMassage(p, q) /\ SamePause(p, q)
           /\ ~q.venting /\ q.lumbar_state = "hold" /\ q.valves_now = p.valves_now
           /\ Kept(q.lumbar_level_ms, elapsed)
  <1> DEFINE p == c.pneu
             tenths == (UpTo(INFLATE_MAX, elapsed) + TENTH \div 2) \div TENTH
             level == tenths * TENTH
             r == [p EXCEPT !.lumbar_level_ms = level]
             q == set_lumbar(r, "hold")
             stored == IF remember THEN tenths ELSE c.store.lumbar
             e == [c EXCEPT !.pneu = q, !.store.lumbar = stored]
  <1>1. tenths \in Tenths /\ Kept(level, elapsed)
    BY Rounding DEF Kept
  <1> HIDE DEF level
  <1>2. lumbar_stop_at(c, elapsed, remember) = e
    BY DEF lumbar_stop_at, Shaped, level
  <1> HIDE DEF tenths
  <1>3. stored \in Tenths
    BY <1>1 DEF Shaped
  <1>4. Typed(p)
    BY DEF Shaped
  <1> HIDE DEF p, stored
  <1>5. Typed(r) /\ SameMassage(p, r) /\ SamePause(p, r) /\ r.lumbar_level_ms = level
        /\ r.valves_now = p.valves_now
    BY <1>1, <1>4 DEF Typed, PneuFields, SameMassage, SamePause, Kept
  <1> HIDE DEF r
  <1>6. /\ Typed(q) /\ SameMassage(r, q) /\ SamePause(r, q) /\ ~q.venting
        /\ q.lumbar_state = "hold" /\ q.valves_now = r.valves_now
        /\ q.lumbar_level_ms = level
    BY <1>5, LumbarSet
  <1> HIDE DEF q
  <1>7. SameChair(c, e) /\ e.pneu = q
    BY <1>3, <1>6 DEF Shaped, SameChair
  <1> HIDE DEF e
  <1> QED
    BY <1>1, <1>2, <1>5, <1>6, <1>7 DEF SameMassage, SamePause, p

\* A release keeps what the cell has, empties it, or goes on to a target.
LEMMA LumbarReleased ==
    ASSUME NEW c, Shaped(c), Own(c.pneu)
    PROVE  LET e == pneumatics_lumbar_release(c)
               p == c.pneu
               q == e.pneu
               time == p.lumbar_base_ms + p.lumbar_age
           IN  /\ SameChair(c, e) /\ Called(p, q) /\ q.massage_on = p.massage_on
               /\ p.lumbar_state # "inflate" =>
                     q.lumbar_state = p.lumbar_state /\ q.lumbar_level_ms = p.lumbar_level_ms
               /\ p.lumbar_state = "inflate" =>
                     \/ /\ q.lumbar_state = "inflate" /\ ~q.lumbar_choosing
                        /\ q.lumbar_level_ms = p.lumbar_level_ms
                        /\ q.lumbar_age = p.lumbar_age /\ q.lumbar_base_ms = p.lumbar_base_ms
                        /\ \/ ~p.lumbar_choosing /\ q.lumbar_target_ms = p.lumbar_target_ms
                           \/ /\ p.lumbar_choosing /\ p.lumbar_base_ms = 0
                              /\ q.lumbar_target_ms <= INFLATE_MAX
                              /\ p.lumbar_age < q.lumbar_target_ms
                     \/ q.lumbar_state = "deflate" /\ q.lumbar_level_ms = p.lumbar_level_ms
                     \/ /\ q.lumbar_state = "hold" /\ Kept(q.lumbar_level_ms, time)
                        /\ p.lumbar_age >= LUMBAR_SET \/ p.lumbar_base_ms = 0
  <1> DEFINE p == c.pneu
             e == pneumatics_lumbar_release(c)
             q == e.pneu
             time == p.lumbar_base_ms + p.lumbar_age
             target == Target(c.store.lumbar)
             dp == [p EXCEPT !.lumbar_choosing = FALSE]
             done == [c EXCEPT !.pneu.lumbar_choosing = FALSE]
             tp == [dp EXCEPT !.lumbar_target_ms = target]
             toStored == [done EXCEPT !.pneu.lumbar_target_ms = target]
  <1>1. target \in Nat /\ target <= INFLATE_MAX
    BY Targets DEF Shaped
  <1>2. /\ Typed(p) /\ p.lumbar_base_ms \in Nat /\ p.lumbar_age \in Nat /\ time \in Nat
        /\ LUMBAR_SET \in Nat
    BY Bounds DEF Shaped, Typed
  <1>3. e = IF ~p.lumbar_choosing \/ p.lumbar_state # "inflate" THEN done
            ELSE IF p.lumbar_age >= LUMBAR_SET THEN lumbar_stop_at(done, time, TRUE)
            ELSE IF p.lumbar_base_ms > 0
            THEN [done EXCEPT !.pneu = set_lumbar(done.pneu, "deflate")]
            ELSE IF p.lumbar_age >= target THEN lumbar_stop_at(toStored, p.lumbar_age, TRUE)
            ELSE toStored
    BY DEF pneumatics_lumbar_release, Shaped, lumbar_keep
  <1>4. done.pneu = dp /\ DOMAIN done = DOMAIN c /\ done.store = c.store /\ done.motion = c.motion
    BY DEF Shaped
  <1>5. toStored.pneu = tp /\ DOMAIN toStored = DOMAIN c /\ toStored.store = c.store
        /\ toStored.motion = c.motion
    BY <1>4 DEF Shaped
  <1> HIDE DEF p, e, target, time, done, toStored
  <1>6. /\ Typed(dp) /\ SameMassage(p, dp) /\ SamePause(p, dp) /\ SameVent(p, dp)
        /\ dp.lumbar_state = p.lumbar_state /\ dp.lumbar_age = p.lumbar_age
        /\ dp.lumbar_target_ms = p.lumbar_target_ms /\ dp.lumbar_base_ms = p.lumbar_base_ms
        /\ dp.lumbar_level_ms = p.lumbar_level_ms /\ ~dp.lumbar_choosing
        /\ dp.valves_now = p.valves_now
    BY <1>2 DEF Typed, PneuFields, SameMassage, SamePause, SameVent
  <1> HIDE DEF dp
  <1>7. /\ Typed(tp) /\ SameMassage(p, tp) /\ SamePause(p, tp) /\ SameVent(p, tp)
        /\ tp.lumbar_state = p.lumbar_state /\ tp.lumbar_age = p.lumbar_age
        /\ tp.lumbar_target_ms = target /\ tp.lumbar_base_ms = p.lumbar_base_ms
        /\ tp.lumbar_level_ms = p.lumbar_level_ms /\ ~tp.lumbar_choosing
        /\ tp.valves_now = p.valves_now
    BY <1>1, <1>6 DEF Typed, PneuFields, SameMassage, SamePause, SameVent
  <1> HIDE DEF tp
  <1>8. SameChair(c, done) /\ SameChair(c, toStored)
    BY <1>4, <1>5, <1>6, <1>7 DEF SameChair, Shaped
  <1>9. ASSUME NEW r, SameMassage(p, r), SamePause(p, r), SameVent(p, r),
               r.valves_now = p.valves_now, r.lumbar_state = p.lumbar_state
        PROVE  Called(p, r)
    BY <1>9 DEF Called, Own, SameMassage, SamePause, SameVent, VentCalled, MassageCalled, p
  <1>10. ASSUME NEW r, SameMassage(p, r), SamePause(p, r), ~r.venting,
                p.lumbar_state = "inflate"
         PROVE  Called(p, r)
    BY <1>10 DEF Called, Own, SameMassage, SamePause, VentCalled, MassageCalled, p
  <1>11. CASE ~p.lumbar_choosing \/ p.lumbar_state # "inflate"
    <2>1. e = done /\ q = dp
      BY <1>3, <1>4, <1>11
    <2>2. Called(p, q)
      BY <1>6, <1>9, <2>1
    <2> HIDE DEF q
    <2> QED
      BY <1>6, <1>8, <1>11, <2>1, <2>2 DEF e, p, q, time, SameMassage
  <1>12. CASE p.lumbar_choosing /\ p.lumbar_state = "inflate" /\ p.lumbar_age >= LUMBAR_SET
    <2>1. e = lumbar_stop_at(done, time, TRUE)
      BY <1>3, <1>12
    <2>2. /\ SameChair(done, e) /\ SameMassage(dp, q) /\ SamePause(dp, q)
          /\ ~q.venting /\ q.lumbar_state = "hold" /\ Kept(q.lumbar_level_ms, time)
      BY <1>2, <1>4, <1>8, <2>1, StoppedAt DEF SameChair
    <2> HIDE DEF q
    <2>3. SameMassage(p, q) /\ SamePause(p, q) /\ SameChair(c, e)
      BY <1>6, <1>8, <2>2 DEF SameMassage, SamePause, SameChair
    <2>4. Called(p, q)
      BY <1>10, <1>12, <2>2, <2>3
    <2> QED
      BY <1>12, <2>2, <2>3, <2>4 DEF e, p, q, time, SameMassage
  <1>13. CASE /\ p.lumbar_choosing /\ p.lumbar_state = "inflate" /\ ~(p.lumbar_age >= LUMBAR_SET)
              /\ p.lumbar_base_ms > 0
    <2> DEFINE r == set_lumbar(dp, "deflate")
               f == [done EXCEPT !.pneu = r]
    <2>1. e = f
      BY <1>3, <1>4, <1>13
    <2>2. /\ Typed(r) /\ SameMassage(dp, r) /\ SamePause(dp, r) /\ ~r.venting
          /\ r.lumbar_state = "deflate" /\ r.lumbar_level_ms = dp.lumbar_level_ms
      BY <1>6, LumbarSet
    <2> HIDE DEF r
    <2>3. SameChair(done, f) /\ f.pneu = r
      BY <1>8, <2>2 DEF SameChair, Shaped
    <2> HIDE DEF f
    <2>4. SameMassage(p, r) /\ SamePause(p, r) /\ SameChair(c, e)
      BY <1>6, <1>8, <2>1, <2>2, <2>3 DEF SameMassage, SamePause, SameChair
    <2>5. Called(p, r)
      BY <1>10, <1>13, <2>2, <2>4
    <2> QED
      BY <1>6, <1>13, <2>1, <2>2, <2>3, <2>4, <2>5 DEF e, p, SameMassage
  <1>14. CASE /\ p.lumbar_choosing /\ p.lumbar_state = "inflate" /\ ~(p.lumbar_age >= LUMBAR_SET)
              /\ ~(p.lumbar_base_ms > 0) /\ p.lumbar_age >= target
    <2>0. e = lumbar_stop_at(toStored, p.lumbar_age, TRUE)
      BY <1>3, <1>14
    <2>9. p.lumbar_base_ms = 0
      BY <1>2, <1>14
    <2>1. e = lumbar_stop_at(toStored, p.lumbar_age, TRUE) /\ time = p.lumbar_age
      BY <1>2, <2>0, <2>9 DEF time
    <2>2. /\ SameChair(toStored, e) /\ SameMassage(tp, q) /\ SamePause(tp, q)
          /\ ~q.venting /\ q.lumbar_state = "hold" /\ Kept(q.lumbar_level_ms, time)
      BY <1>2, <1>5, <1>8, <2>1, StoppedAt DEF SameChair
    <2> HIDE DEF q
    <2>3. SameMassage(p, q) /\ SamePause(p, q) /\ SameChair(c, e)
      BY <1>7, <1>8, <2>2 DEF SameMassage, SamePause, SameChair
    <2>4. Called(p, q)
      BY <1>10, <1>14, <2>2, <2>3
    <2>5. p.lumbar_base_ms = 0
      BY <1>2, <1>14
    <2> QED
      BY <1>14, <2>2, <2>3, <2>4, <2>5 DEF e, p, q, time, SameMassage
  <1>15. CASE /\ p.lumbar_choosing /\ p.lumbar_state = "inflate" /\ ~(p.lumbar_age >= LUMBAR_SET)
              /\ ~(p.lumbar_base_ms > 0) /\ ~(p.lumbar_age >= target)
    <2>1. e = toStored /\ q = tp
      BY <1>3, <1>5, <1>15
    <2>2. Called(p, q)
      BY <1>7, <1>9, <2>1
    <2>3. p.lumbar_base_ms = 0 /\ p.lumbar_age < target
      BY <1>1, <1>2, <1>15
    <2> HIDE DEF q
    <2> QED
      BY <1>1, <1>7, <1>8, <1>15, <2>1, <2>2, <2>3 DEF e, p, q, SameMassage
  <1> QED
    BY <1>2, <1>11, <1>12, <1>13, <1>14, <1>15

-----------------------------------------------------------------------------
(* What a recall calls, and the update.                                      *)

LEMMA MassageRecalled ==
    ASSUME NEW c, Shaped(c), Own(c.pneu), NEW on \in BOOLEAN
    PROVE  LET e == pneumatics_massage_set(c, on) IN
           /\ SameChair(c, e) /\ Called(c.pneu, e.pneu) /\ CellLeft(c.pneu, e.pneu)
           /\ ~on => SameCell(c.pneu, e.pneu)
           /\ Lit(e.pneu) => e.pneu = c.pneu
           /\ c.pneu.massage_on \/ Lit(c.pneu) =>
                 e.pneu.venting \/ e.pneu.massage_on \/ Lit(e.pneu)
  <1> DEFINE e == pneumatics_massage_set(c, on)
  <1>1. CASE e = c
    <2>1. SamePause(c.pneu, c.pneu) /\ SameVent(c.pneu, c.pneu) /\ SameCell(c.pneu, c.pneu)
      BY DEF SamePause, SameVent, SameCell
    <2> QED
      BY <1>1, <2>1, CalledNothing DEF SameChair, CellLeft
  <1>2. CASE ~on /\ c.pneu.massage_on /\ e = EndMassage(c)
    <2>1. /\ SameChair(c, e) /\ Called(c.pneu, e.pneu) /\ SameCell(c.pneu, e.pneu)
          /\ e.pneu.venting
      BY <1>2, MassageEnded
    <2> HIDE DEF e
    <2>2. ~Lit(e.pneu)
      BY <2>1 DEF Called, Own, Lit
    <2> QED
      BY <2>1, <2>2 DEF CellLeft, e
  <1>3. CASE on /\ e = massage_start(c)
    <2>1. /\ SameChair(c, e) /\ Called(c.pneu, e.pneu) /\ CellLeft(c.pneu, e.pneu)
          /\ e.pneu.massage_on
      BY <1>3, MassageStarted
    <2> HIDE DEF e
    <2>2. ~Lit(e.pneu)
      BY <2>1 DEF Called, Own, Lit
    <2> QED
      BY <1>3, <2>1, <2>2 DEF e
  <1>4. e = c \/ (~on /\ c.pneu.massage_on /\ e = EndMassage(c)) \/ (on /\ e = massage_start(c))
    <2>0. c.pneu.massage_on \in BOOLEAN
      BY DEF Shaped, Typed
    <2>1. CASE on = c.pneu.massage_on
      BY <2>1 DEF pneumatics_massage_set
    <2>2. CASE on # c.pneu.massage_on /\ on
      BY <2>2 DEF pneumatics_massage_set
    <2>3. CASE on # c.pneu.massage_on /\ ~on /\ c.pneu.massage_on
      BY <2>3 DEF pneumatics_massage_set
    <2> QED
      BY <2>0, <2>1, <2>2, <2>3
  <1> QED
    BY <1>1, <1>2, <1>3, <1>4

LEMMA LumbarRecalled ==
    ASSUME NEW c, Shaped(c), Own(c.pneu), NEW on \in BOOLEAN, NEW tenths \in Tenths
    PROVE  LET e == pneumatics_lumbar_set(c, on, tenths)  p == c.pneu  q == e.pneu IN
           /\ SameChair(c, e) /\ Own(q) /\ SamePause(p, q) /\ VentCalled(p, q)
           /\ q.massage_on => SameMassage(p, q)
           /\ \/ /\ SameMassage(p, q) /\ SameCell(p, q) /\ SameVent(p, q)
                 /\ q.valves_now = p.valves_now
              \/ ~on /\ Lit(p) /\ q.lumbar_state = "deflate" /\ q.lumbar_level_ms = p.lumbar_level_ms
              \/ /\ on /\ ~Lit(p)
                 /\ q.lumbar_state = "inflate" /\ q.lumbar_level_ms = p.lumbar_level_ms
                 /\ q.lumbar_age = 0 /\ q.lumbar_base_ms = 0 /\ ~q.lumbar_choosing
                 /\ q.lumbar_target_ms <= INFLATE_MAX
  <1> DEFINE e == pneumatics_lumbar_set(c, on, tenths)
             p == c.pneu
             want == IF tenths = 0 THEN c.store.lumbar ELSE tenths
             target == Target(want)
             off == massage_off(c)
             op == off.pneu
             r == [op EXCEPT !.lumbar_base_ms = 0, !.lumbar_choosing = FALSE,
                             !.lumbar_target_ms = target]
             lit == set_lumbar(r, "inflate")
             dark == set_lumbar(p, "deflate")
  <1>1. Typed(p) /\ Own(p)
    BY DEF Shaped
  <1>2. CASE e = c
    <2>1. SamePause(p, p) /\ SameVent(p, p) /\ SameCell(p, p) /\ SameMassage(p, p)
      BY DEF SamePause, SameVent, SameCell, SameMassage
    <2>2. Called(p, p)
      BY <1>1, <2>1, CalledNothing
    <2> QED
      BY <1>2, <2>1, <2>2 DEF SameChair, Called
  <1>3. CASE ~on /\ Lit(p) /\ e = [c EXCEPT !.pneu = dark]
    <2>1. /\ Typed(dark) /\ SameMassage(p, dark) /\ SamePause(p, dark) /\ ~dark.venting
          /\ dark.lumbar_state = "deflate" /\ dark.lumbar_level_ms = p.lumbar_level_ms
      BY <1>1, LumbarSet
    <2> HIDE DEF dark, p
    <2>2. SameChair(c, e) /\ e.pneu = dark
      BY <1>3, <2>1 DEF SameChair, Shaped
    <2>3. Own(dark) /\ VentCalled(p, dark)
      BY <1>1, <1>3, <2>1 DEF Own, VentCalled, SameMassage, Lit
    <2> HIDE DEF e
    <2> QED
      BY <1>3, <2>1, <2>2, <2>3 DEF e, p
  <1>4. CASE on /\ ~Lit(p) /\ e = [off EXCEPT !.pneu = lit]
    <2>1. /\ Shaped(off) /\ off.motion = c.motion /\ ~op.massage_on
          /\ SameCell(p, op) /\ SamePause(p, op) /\ Typed(op)
      BY MassageOff DEF SameChair, Shaped
    <2>2. target \in Nat /\ target <= INFLATE_MAX
      BY Targets DEF Shaped
    <2> HIDE DEF target, off, op, p
    <2>3. /\ Typed(r) /\ SamePause(op, r) /\ ~r.massage_on /\ ~r.lumbar_choosing
          /\ r.lumbar_base_ms = 0 /\ r.lumbar_level_ms = op.lumbar_level_ms
          /\ r.lumbar_target_ms = target
      BY <2>1, <2>2 DEF Typed, PneuFields, SamePause
    <2> HIDE DEF r
    <2>4. /\ Typed(lit) /\ SameMassage(r, lit) /\ SamePause(r, lit) /\ ~lit.venting
          /\ lit.lumbar_state = "inflate" /\ lit.lumbar_age = 0
          /\ lit.lumbar_choosing = r.lumbar_choosing /\ lit.lumbar_target_ms = r.lumbar_target_ms
          /\ lit.lumbar_base_ms = r.lumbar_base_ms /\ lit.lumbar_level_ms = r.lumbar_level_ms
      BY <2>3, LumbarSet
    <2> HIDE DEF lit
    <2>5. SameChair(c, e) /\ e.pneu = lit
      BY <1>4, <2>1, <2>4 DEF SameChair, Shaped
    <2>6. SamePause(p, lit) /\ ~lit.massage_on /\ lit.lumbar_level_ms = p.lumbar_level_ms
      BY <2>1, <2>3, <2>4 DEF SamePause, SameMassage, SameCell
    <2>7. Own(lit) /\ VentCalled(p, lit)
      BY <2>4, <2>6 DEF Own, VentCalled, Lit
    <2> HIDE DEF e
    <2> QED
      BY <1>4, <2>2, <2>3, <2>4, <2>5, <2>6, <2>7 DEF e, p
  <1>5. \/ e = c
        \/ ~on /\ Lit(p) /\ e = [c EXCEPT !.pneu = dark]
        \/ on /\ ~Lit(p) /\ e = [off EXCEPT !.pneu = lit]
    <2>1. Lit(p) \in BOOLEAN
      BY DEF Lit
    <2>2. DOMAIN off = {"pneu", "adjust", "motion", "store"}
      BY MassageOff DEF SameChair, Shaped
    <2>3. CASE on = Lit(p)
      BY <2>3 DEF pneumatics_lumbar_set
    <2>4. CASE on # Lit(p) /\ ~on
      BY <2>1, <2>4 DEF pneumatics_lumbar_set, Shaped
    <2>5. CASE on # Lit(p) /\ on
      BY <2>1, <2>2, <2>5 DEF pneumatics_lumbar_set
    <2> QED
      BY <2>3, <2>4, <2>5
  <1> QED
    BY <1>2, <1>3, <1>4, <1>5

\* The time of a pause, given back to what was running when it began.
Credit(p, age) == IF age >= p.pause_age THEN age - p.pause_age ELSE age

LEMMA Unpaused ==
    ASSUME NEW p, Typed(p)
    PROVE  LET q == Unpause(p) IN
           /\ Typed(q) /\ SameVent(p, q) /\ q.valves_now = p.valves_now
           /\ ~q.paused /\ q.pause_age = 0
           /\ q.massage_on = p.massage_on /\ q.massage_level = p.massage_level
           /\ q.massage_step = p.massage_step /\ q.step_started = p.step_started
           /\ q.start_age = Credit(p, p.start_age)
           /\ p.step_started => q.step_age = Credit(p, p.step_age)
           /\ q.lumbar_state = p.lumbar_state /\ q.lumbar_target_ms = p.lumbar_target_ms
           /\ q.lumbar_choosing = p.lumbar_choosing /\ q.lumbar_base_ms = p.lumbar_base_ms
           /\ q.lumbar_level_ms = p.lumbar_level_ms
           /\ p.lumbar_state # "deflate" => q.lumbar_age = Credit(p, p.lumbar_age)
  <1> DEFINE step   == IF p.step_started THEN Credit(p, p.step_age) ELSE p.step_age
             start  == Credit(p, p.start_age)
             lumbar == IF p.lumbar_state = "deflate" THEN p.lumbar_age ELSE Credit(p, p.lumbar_age)
             q == [p EXCEPT !.paused = FALSE, !.pause_age = 0, !.step_age = step,
                            !.start_age = start, !.lumbar_age = lumbar]
  <1>1. /\ p.step_age \in Nat /\ p.start_age \in Nat /\ p.lumbar_age \in Nat /\ p.pause_age \in Nat
        /\ DOMAIN p = PneuFields
    BY DEF Typed
  <1>2. \A age \in Nat : Credit(p, age) \in Nat
    BY <1>1 DEF Credit
  <1>3. step \in Nat /\ start \in Nat /\ lumbar \in Nat
    BY <1>1, <1>2
  <1>4. Unpause(p) = q
    BY <1>1 DEF Unpause, started_before_pause, Credit, PneuFields
  <1>5. Typed(q)
    <2> HIDE DEF step, start, lumbar
    <2> QED
      BY <1>3 DEF Typed, PneuFields
  <1>6. /\ SameVent(p, q) /\ q.valves_now = p.valves_now
        /\ ~q.paused /\ q.pause_age = 0
        /\ q.massage_on = p.massage_on /\ q.massage_level = p.massage_level
        /\ q.massage_step = p.massage_step /\ q.step_started = p.step_started
        /\ q.start_age = start /\ q.step_age = step
        /\ q.lumbar_state = p.lumbar_state /\ q.lumbar_target_ms = p.lumbar_target_ms
        /\ q.lumbar_choosing = p.lumbar_choosing /\ q.lumbar_base_ms = p.lumbar_base_ms
        /\ q.lumbar_level_ms = p.lumbar_level_ms /\ q.lumbar_age = lumbar
    <2> HIDE DEF step, start, lumbar
    <2> QED
      BY <1>1 DEF PneuFields, SameVent
  <1> HIDE DEF q
  <1> QED
    BY <1>4, <1>5, <1>6

\* The pause, before anything else is looked at.
Shared(p, age) == IF p.paused THEN Credit(p, age) ELSE age

Handled(p, r, still) ==
    /\ Typed(r) /\ SameVent(p, r) /\ r.valves_now = p.valves_now
    /\ ~still => /\ SameMassage(p, r) /\ SameCell(p, r)
                 /\ r.paused /\ r.pause_age = IF p.paused THEN p.pause_age ELSE 0
    /\ still =>
          /\ ~r.paused
          /\ r.massage_on = p.massage_on /\ r.massage_level = p.massage_level
          /\ r.massage_step = p.massage_step /\ r.step_started = p.step_started
          /\ r.start_age = Shared(p, p.start_age)
          /\ p.step_started => r.step_age = Shared(p, p.step_age)
          /\ r.lumbar_state = p.lumbar_state /\ r.lumbar_target_ms = p.lumbar_target_ms
          /\ r.lumbar_choosing = p.lumbar_choosing /\ r.lumbar_base_ms = p.lumbar_base_ms
          /\ r.lumbar_level_ms = p.lumbar_level_ms
          /\ p.lumbar_state # "deflate" => r.lumbar_age = Shared(p, p.lumbar_age)

VentWorked(r, q) ==
    /\ q.venting => /\ "vent" \in q.valves_now
                    /\ q.vent_age = 0 \/ (r.venting /\ q.vent_age = r.vent_age)
    /\ r.venting => q.venting \/ r.vent_age >= VENT
    /\ r.massage_on \/ Lit(r) => q.venting \/ q.massage_on \/ Lit(q)

Ticked(r, q) ==
    \/ ~r.step_started /\ q.massage_step = r.massage_step /\ q.step_age = 0
    \/ r.step_started /\ q.massage_step = r.massage_step /\ q.step_age = r.step_age
    \/ r.step_started /\ r.step_age >= Pattern[r.massage_step].len[r.massage_level]
          /\ q.step_age = 0

MassageWorked(r, q, still) ==
    q.massage_on =>
        /\ r.massage_on /\ q.massage_level = r.massage_level /\ q.start_age = r.start_age
        /\ ~still => SameMassage(r, q)
        /\ still => ~(r.start_age >= MASSAGE_TIMEOUT) /\ q.step_started /\ Ticked(r, q)

Inflated(r, q) ==
    LET time == r.lumbar_base_ms + r.lumbar_age IN
    \/ /\ SameCell(r, q) /\ "bottom" \in q.valves_now
       /\ r.lumbar_choosing => ~(time >= INFLATE_MAX)
       /\ ~r.lumbar_choosing => ~(r.lumbar_age >= r.lumbar_target_ms)
    \/ /\ q.lumbar_state = "hold"
       /\ \/ r.lumbar_choosing /\ time >= INFLATE_MAX /\ Kept(q.lumbar_level_ms, INFLATE_MAX)
          \/ /\ ~r.lumbar_choosing /\ r.lumbar_age >= r.lumbar_target_ms
             /\ Kept(q.lumbar_level_ms, r.lumbar_base_ms + r.lumbar_target_ms)

CellWorked(r, q, still) ==
    /\ ~Lit(r) => ~Lit(q) /\ q.lumbar_level_ms = r.lumbar_level_ms
    /\ r.lumbar_state = "hold" => SameCell(r, q)
    /\ r.lumbar_state = "inflate" =>
          /\ ~still => SameCell(r, q) /\ "bottom" \notin q.valves_now
          /\ still  => Inflated(r, q)

Worked(r, q, still) ==
    /\ Own(q) /\ SamePause(r, q)
    /\ VentWorked(r, q) /\ MassageWorked(r, q, still) /\ CellWorked(r, q, still)

LEMMA Inflates ==
    ASSUME NEW c, Shaped(c), Own(c.pneu), c.pneu.lumbar_state = "inflate"
    PROVE  LET e == lumbar_tick(c) IN SameChair(c, e) /\ Worked(c.pneu, e.pneu, TRUE)
  <1> DEFINE p == c.pneu
             e == lumbar_tick(c)
             q == e.pneu
             o == valves_set(p, {"bottom"})
             open == [c EXCEPT !.pneu = o]
             time == p.lumbar_base_ms + p.lumbar_age
             all == p.lumbar_base_ms + p.lumbar_target_ms
  <1>1. /\ Typed(p) /\ time \in Nat /\ all \in Nat /\ INFLATE_MAX \in Nat
    <2>1. /\ p.lumbar_base_ms \in Nat /\ p.lumbar_age \in Nat /\ p.lumbar_target_ms \in Nat
          /\ Typed(p)
      BY DEF Shaped, Typed
    <2> QED
      BY <2>1, Ceiling
  <1>2. /\ Typed(o) /\ SameMassage(p, o) /\ SameCell(p, o) /\ SamePause(p, o) /\ SameVent(p, o)
        /\ o.valves_now = {"bottom"}
    BY <1>1, Valved, Opened DEF Typed
  <1> HIDE DEF o
  <1>3. open.pneu = o /\ SameChair(c, open)
    BY <1>2 DEF SameChair, Shaped
  <1> HIDE DEF open
  <1>4. e = IF o.lumbar_choosing
            THEN IF o.lumbar_base_ms + o.lumbar_age >= INFLATE_MAX
                 THEN lumbar_stop_at(open, INFLATE_MAX, TRUE) ELSE open
            ELSE IF o.lumbar_age >= o.lumbar_target_ms
            THEN lumbar_stop_at(open, o.lumbar_base_ms + o.lumbar_target_ms, FALSE)
            ELSE open
    BY <1>3 DEF lumbar_tick, InflateTick, lumbar_keep, open, o
  <1>5. e = IF p.lumbar_choosing
            THEN IF time >= INFLATE_MAX THEN lumbar_stop_at(open, INFLATE_MAX, TRUE) ELSE open
            ELSE IF p.lumbar_age >= p.lumbar_target_ms
            THEN lumbar_stop_at(open, all, FALSE) ELSE open
    BY <1>2, <1>4 DEF SameCell
  <1> HIDE DEF e, time, all
  <1>6. ~p.massage_on /\ ~p.venting
    BY DEF Own
  <1>7. ASSUME NEW x \in Nat, NEW remember \in BOOLEAN, e = lumbar_stop_at(open, x, remember)
        PROVE  /\ SameChair(c, e) /\ Own(q) /\ SamePause(p, q) /\ VentWorked(p, q)
               /\ MassageWorked(p, q, TRUE) /\ q.lumbar_state = "hold" /\ Kept(q.lumbar_level_ms, x)
    <2>1. /\ SameChair(open, e) /\ SameMassage(o, q) /\ SamePause(o, q)
          /\ ~q.venting /\ q.lumbar_state = "hold" /\ Kept(q.lumbar_level_ms, x)
      BY <1>3, <1>7, StoppedAt DEF SameChair
    <2> HIDE DEF q
    <2>2. SameChair(c, e) /\ SamePause(p, q) /\ SameMassage(p, q)
      BY <1>2, <1>3, <2>1 DEF SameChair, SamePause, SameMassage
    <2> QED
      BY <1>6, <2>1, <2>2 DEF Own, VentWorked, MassageWorked, Lit, SameMassage
  <1>8. ASSUME e = open
        PROVE  /\ SameChair(c, e) /\ Own(q) /\ SamePause(p, q) /\ VentWorked(p, q)
               /\ MassageWorked(p, q, TRUE) /\ SameCell(p, q) /\ "bottom" \in q.valves_now
    <2>1. q = o
      BY <1>3, <1>8
    <2> HIDE DEF q
    <2> QED
      BY <1>2, <1>3, <1>6, <1>8, <2>1
      DEF SameChair, Own, VentWorked, MassageWorked, Lit, SameMassage, SameCell, SameVent
  <1> HIDE DEF q
  <1>9. SameChair(c, e) /\ Own(q) /\ SamePause(p, q) /\ VentWorked(p, q) /\ MassageWorked(p, q, TRUE)
    BY <1>1, <1>5, <1>7, <1>8
  <1>10. Inflated(p, q)
    <2>1. CASE p.lumbar_choosing /\ time >= INFLATE_MAX
      BY <1>1, <1>5, <1>7, <2>1 DEF Inflated, time
    <2>2. CASE p.lumbar_choosing /\ ~(time >= INFLATE_MAX)
      BY <1>5, <1>8, <2>2 DEF Inflated, time
    <2>3. CASE ~p.lumbar_choosing /\ p.lumbar_age >= p.lumbar_target_ms
      BY <1>1, <1>5, <1>7, <2>3 DEF Inflated, time, all
    <2>4. CASE ~p.lumbar_choosing /\ ~(p.lumbar_age >= p.lumbar_target_ms)
      BY <1>5, <1>8, <2>4 DEF Inflated, time
    <2> QED
      BY <2>1, <2>2, <2>3, <2>4
  <1> QED
    BY <1>9, <1>10 DEF Worked, CellWorked, Lit, e, q, p

\* What gives the whole pneumatics record another value.
LEMMA Replaced ==
    ASSUME NEW c, Shaped(c), NEW q, Typed(q)
    PROVE  LET e == [c EXCEPT !.pneu = q] IN SameChair(c, e) /\ e.pneu = q
  BY DEF SameChair, Shaped

LEMMA ValvesWorked ==
    ASSUME NEW p, Typed(p), Own(p), NEW bits, NEW still \in BOOLEAN, "bottom" \notin bits,
           ~p.venting, p.massage_on => ~still, p.lumbar_state = "inflate" => ~still
    PROVE  LET q == valves_set(p, bits) IN Typed(q) /\ Worked(p, q, still)
  <1> DEFINE q == valves_set(p, bits)
  <1>1. /\ Typed(q) /\ SameMassage(p, q) /\ SameCell(p, q) /\ SamePause(p, q) /\ SameVent(p, q)
        /\ q.valves_now = bits
    BY Valved, Opened DEF Typed
  <1> HIDE DEF q
  <1>2. Own(q) /\ VentWorked(p, q) /\ MassageWorked(p, q, still)
    BY <1>1 DEF Own, VentWorked, MassageWorked, Lit, SameMassage, SameCell, SameVent
  <1>3. CellWorked(p, q, still)
    BY <1>1 DEF CellWorked, Lit, SameCell
  <1> QED
    BY <1>1, <1>2, <1>3 DEF Worked, q

LEMMA VentsWorked ==
    ASSUME NEW p, Typed(p), Own(p), NEW still \in BOOLEAN, p.venting
    PROVE  LET q == vent_tick(p) IN Typed(q) /\ Worked(p, q, still)
  <1> DEFINE q == vent_tick(p)
  <1>1. /\ Typed(q) /\ SameMassage(p, q) /\ SameCell(p, q) /\ SamePause(p, q)
        /\ p.vent_age >= VENT => ~q.venting
        /\ ~(p.vent_age >= VENT) => SameVent(p, q) /\ "vent" \in q.valves_now
    BY VentTicked
  <1> HIDE DEF q
  <1>2. ~p.massage_on /\ p.lumbar_state = "off"
    BY DEF Own, Typed
  <1>3. Own(q) /\ VentWorked(p, q) /\ MassageWorked(p, q, still) /\ CellWorked(p, q, still)
    BY <1>1, <1>2
    DEF Own, VentWorked, MassageWorked, CellWorked, Lit, SameMassage, SameCell, SameVent
  <1> QED
    BY <1>1, <1>3 DEF Worked, q

LEMMA DeflatesWorked ==
    ASSUME NEW p, Typed(p), Own(p), NEW still \in BOOLEAN, p.lumbar_state = "deflate"
    PROVE  LET q == DeflateTick(p) IN Typed(q) /\ Worked(p, q, still)
  <1> DEFINE q == DeflateTick(p)
  <1>1. /\ Typed(q) /\ SameMassage(p, q) /\ SamePause(p, q) /\ SameVent(p, q)
        /\ q.lumbar_state \in {p.lumbar_state, "off"} /\ q.lumbar_level_ms = p.lumbar_level_ms
    BY Deflates
  <1> HIDE DEF q
  <1>2. ~p.massage_on /\ ~p.venting
    BY DEF Own
  <1>3. Own(q) /\ VentWorked(p, q) /\ MassageWorked(p, q, still) /\ CellWorked(p, q, still)
    BY <1>1, <1>2
    DEF Own, VentWorked, MassageWorked, CellWorked, Lit, SameMassage, SameVent
  <1> QED
    BY <1>1, <1>3 DEF Worked, q

\* While a motion is wanted: the exhaust only.
LEMMA WorkedPaused ==
    ASSUME NEW c, Shaped(c), Own(c.pneu)
    PROVE  LET e == WhilePaused(c) IN SameChair(c, e) /\ Worked(c.pneu, e.pneu, FALSE)
  <1> DEFINE p == c.pneu
             e == WhilePaused(c)
  <1>1. Typed(p)
    BY DEF Shaped
  <1>2. CASE ~p.venting /\ e = [c EXCEPT !.pneu = valves_set(p, {})]
    <2> DEFINE q == valves_set(p, {})
    <2>1. Typed(q) /\ Worked(p, q, FALSE)
      BY <1>1, <1>2, ValvesWorked
    <2>2. e = [c EXCEPT !.pneu = q]
      BY <1>2
    <2> HIDE DEF q, e
    <2> QED
      BY <2>1, <2>2, Replaced DEF e
  <1>3. CASE p.lumbar_state = "deflate" /\ e = [c EXCEPT !.pneu = DeflateTick(p)]
    <2> DEFINE q == DeflateTick(p)
    <2>1. Typed(q) /\ Worked(p, q, FALSE)
      BY <1>1, <1>3, DeflatesWorked
    <2>2. e = [c EXCEPT !.pneu = q]
      BY <1>3
    <2> HIDE DEF q, e
    <2> QED
      BY <2>1, <2>2, Replaced DEF e
  <1>4. CASE p.venting /\ e = [c EXCEPT !.pneu = vent_tick(p)]
    <2> DEFINE q == vent_tick(p)
    <2>1. Typed(q) /\ Worked(p, q, FALSE)
      BY <1>1, <1>4, VentsWorked
    <2>2. e = [c EXCEPT !.pneu = q]
      BY <1>4
    <2> HIDE DEF q, e
    <2> QED
      BY <2>1, <2>2, Replaced DEF e
  <1>5. \/ ~p.venting /\ e = [c EXCEPT !.pneu = valves_set(p, {})]
        \/ p.lumbar_state = "deflate" /\ e = [c EXCEPT !.pneu = DeflateTick(p)]
        \/ p.venting /\ e = [c EXCEPT !.pneu = vent_tick(p)]
    <2>1. CASE p.massage_on
      BY <2>1 DEF WhilePaused, Own
    <2>2. CASE ~p.massage_on /\ p.lumbar_state = "deflate"
      <3>1. e = lumbar_tick(c)
        BY <2>2 DEF WhilePaused, Lit
      <3>2. lumbar_tick(c) = [c EXCEPT !.pneu = DeflateTick(p)]
        BY <2>2 DEF lumbar_tick
      <3> QED
        BY <2>2, <3>1, <3>2
    <2>3. CASE ~p.massage_on /\ p.lumbar_state # "deflate" /\ Lit(p)
      <3>1. ~p.venting
        BY <2>3 DEF Own, Lit
      <3> QED
        BY <2>3, <3>1 DEF WhilePaused
    <2>4. CASE ~p.massage_on /\ p.lumbar_state # "deflate" /\ ~Lit(p)
      BY <2>4 DEF WhilePaused
    <2> QED
      BY <2>1, <2>2, <2>3, <2>4
  <1> QED
    BY <1>2, <1>3, <1>4, <1>5

LEMMA WorkedRunning ==
    ASSUME NEW c, Shaped(c), Own(c.pneu)
    PROVE  LET e == Running(c) IN SameChair(c, e) /\ Worked(c.pneu, e.pneu, TRUE)
  <1> DEFINE p == c.pneu
             e == Running(c)
  <1>1. Typed(p)
    BY DEF Shaped
  <1>2. CASE p.massage_on /\ p.start_age >= MASSAGE_TIMEOUT
    <2>1. e = EndMassage(c)
      BY <1>2 DEF Running
    <2> DEFINE q == e.pneu
    <2>2. /\ SameChair(c, e) /\ Called(p, q) /\ SameCell(p, q)
          /\ ~q.massage_on /\ q.venting /\ q.vent_age = 0 /\ "vent" \in q.valves_now
      BY <1>2, <2>1, MassageEnded
    <2> HIDE DEF q, e
    <2>3. p.lumbar_state = "off"
      BY <1>2 DEF Own
    <2> HIDE DEF p
    <2>4. VentWorked(p, q) /\ MassageWorked(p, q, TRUE) /\ CellWorked(p, q, TRUE)
      <3>1. VentWorked(p, q) /\ MassageWorked(p, q, TRUE)
        BY <2>2, <2>3 DEF VentWorked, MassageWorked, Called, VentCalled
      <3>2. q.lumbar_state = "off" /\ q.lumbar_level_ms = p.lumbar_level_ms
        BY <2>2, <2>3 DEF SameCell
      <3> QED
        BY <2>3, <3>1, <3>2 DEF CellWorked, Lit
    <2> QED
      BY <2>2, <2>4 DEF Worked, Called, e, q, p
  <1>3. CASE p.massage_on /\ ~(p.start_age >= MASSAGE_TIMEOUT)
    <2> DEFINE q == massage_tick(p)
    <2>1. e = [c EXCEPT !.pneu = q]
      BY <1>3 DEF Running
    <2>2. /\ Typed(q) /\ SameCell(p, q) /\ SamePause(p, q) /\ SameVent(p, q)
          /\ q.massage_on = p.massage_on /\ q.massage_level = p.massage_level
          /\ q.start_age = p.start_age /\ q.step_started /\ Ticked(p, q)
      BY <1>1, MassageTicked DEF Ticked
    <2> HIDE DEF q
    <2>3. p.lumbar_state = "off" /\ ~p.venting
      BY <1>3 DEF Own
    <2>4. Own(q) /\ VentWorked(p, q) /\ CellWorked(p, q, TRUE)
      BY <1>3, <2>2, <2>3 DEF Own, VentWorked, CellWorked, SameCell, SameVent, Lit
    <2>5. MassageWorked(p, q, TRUE)
      BY <1>3, <2>2 DEF MassageWorked
    <2> HIDE DEF e
    <2> QED
      BY <2>1, <2>2, <2>4, <2>5, Replaced DEF Worked, e
  <1>4. CASE ~p.massage_on /\ p.lumbar_state = "inflate"
    <2>1. e = lumbar_tick(c)
      BY <1>4 DEF Running
    <2> QED
      BY <1>4, <2>1, Inflates
  <1>5. CASE ~p.massage_on /\ p.lumbar_state = "hold"
    <2> DEFINE q == valves_set(p, {})
    <2>1. e = [c EXCEPT !.pneu = q]
      BY <1>5 DEF Running, lumbar_tick
    <2>2. ~p.venting
      BY <1>5 DEF Own
    <2>3. Typed(q) /\ Worked(p, q, TRUE)
      BY <1>1, <1>5, <2>2, ValvesWorked
    <2> HIDE DEF q
    <2> QED
      BY <2>1, <2>3, Replaced
  <1>6. CASE ~p.massage_on /\ p.lumbar_state = "deflate"
    <2> DEFINE q == DeflateTick(p)
    <2>1. e = [c EXCEPT !.pneu = q]
      BY <1>6 DEF Running, lumbar_tick
    <2>2. Typed(q) /\ Worked(p, q, TRUE)
      BY <1>1, <1>6, DeflatesWorked
    <2> HIDE DEF q
    <2> QED
      BY <2>1, <2>2, Replaced
  <1>7. CASE ~p.massage_on /\ p.lumbar_state = "off" /\ p.venting
    <2> DEFINE q == vent_tick(p)
    <2>1. e = [c EXCEPT !.pneu = q]
      BY <1>7 DEF Running
    <2>2. Typed(q) /\ Worked(p, q, TRUE)
      BY <1>1, <1>7, VentsWorked
    <2> HIDE DEF q
    <2> QED
      BY <2>1, <2>2, Replaced
  <1>8. CASE ~p.massage_on /\ p.lumbar_state = "off" /\ ~p.venting
    <2> DEFINE q == valves_set(p, {})
    <2>1. e = [c EXCEPT !.pneu = q]
      BY <1>8 DEF Running
    <2>2. Typed(q) /\ Worked(p, q, TRUE)
      BY <1>1, <1>8, ValvesWorked
    <2> HIDE DEF q
    <2> QED
      BY <2>1, <2>2, Replaced
  <1> DEFINE Good == SameChair(c, e) /\ Worked(p, e.pneu, TRUE)
  <1>9. Good
    <2>1. p.massage_on \/ p.lumbar_state \in {"off", "inflate", "hold", "deflate"}
      BY <1>1 DEF Typed
    <2>2. CASE p.massage_on
      BY <1>2, <1>3, <2>2
    <2>3. CASE ~p.massage_on /\ p.lumbar_state = "off"
      BY <1>7, <1>8, <2>3
    <2> HIDE DEF Good
    <2>4. CASE ~p.massage_on /\ p.lumbar_state = "inflate"
      BY <1>4, <2>4 DEF Good
    <2>5. CASE ~p.massage_on /\ p.lumbar_state = "hold"
      BY <1>5, <2>5 DEF Good
    <2>6. CASE ~p.massage_on /\ p.lumbar_state = "deflate"
      BY <1>6, <2>6 DEF Good
    <2> QED
      BY <2>1, <2>2, <2>3, <2>4, <2>5, <2>6
  <1> QED
    BY <1>9

LEMMA Updated ==
    ASSUME NEW c, Shaped(c), Own(c.pneu)
    PROVE  LET e == pneumatics_update(c) IN
           /\ SameChair(c, e)
           /\ \E r : Handled(c.pneu, r, Still(c)) /\ Worked(r, e.pneu, Still(c))
  <1> DEFINE p == c.pneu
             e == pneumatics_update(c)
  <1>1. Typed(p) /\ Own(p)
    BY DEF Shaped
  <1>2. ASSUME NEW r, NEW still \in BOOLEAN, Handled(p, r, still) PROVE Own(r)
    BY <1>1, <1>2 DEF Own, Handled, SameMassage, SameCell, SameVent
  <1>3. CASE ~Still(c)
    <2> DEFINE r == IF p.paused THEN p ELSE [p EXCEPT !.paused = TRUE, !.pause_age = 0]
               b == [c EXCEPT !.pneu = r]
    <2>1. Handled(p, r, FALSE)
      <3>1. CASE p.paused
        BY <1>1, <3>1 DEF Handled, SameMassage, SameCell, SameVent
      <3>2. CASE ~p.paused
        BY <1>1, <3>2 DEF Handled, Typed, PneuFields, SameMassage, SameCell, SameVent
      <3> QED
        BY <3>1, <3>2
    <2>2. e = WhilePaused(IF p.paused THEN c ELSE b)
      BY <1>3 DEF pneumatics_update, Shaped
    <2> HIDE DEF r
    <2>3. Typed(r) /\ Own(r)
      BY <1>2, <2>1 DEF Handled
    <2>4. PICK a : e = WhilePaused(a) /\ SameChair(c, a) /\ a.pneu = r
      <3>1. CASE p.paused
        BY <2>2, <3>1 DEF SameChair, r
      <3>2. CASE ~p.paused
        BY <2>2, <2>3, <3>2, Replaced
      <3> QED
        BY <3>1, <3>2
    <2>5. SameChair(a, e) /\ Worked(r, e.pneu, FALSE)
      BY <2>3, <2>4, WorkedPaused DEF SameChair
    <2> HIDE DEF e
    <2>6. SameChair(c, e)
      BY <2>4, <2>5 DEF SameChair
    <2> QED
      BY <1>3, <2>1, <2>5, <2>6 DEF e, Still
  <1>4. CASE Still(c)
    <2> DEFINE r == IF p.paused THEN Unpause(p) ELSE p
               b == [c EXCEPT !.pneu = r]
    <2>1. Handled(p, r, TRUE)
      <3>1. CASE p.paused
        BY <1>1, <3>1, Unpaused DEF Handled, Shared
      <3>2. CASE ~p.paused
        BY <1>1, <3>2 DEF Handled, Shared, SameVent
      <3> QED
        BY <3>1, <3>2
    <2>2. e = Running(IF p.paused THEN b ELSE c)
      BY <1>4 DEF pneumatics_update
    <2> HIDE DEF r
    <2>3. Typed(r) /\ Own(r)
      BY <1>2, <2>1 DEF Handled
    <2>4. PICK a : e = Running(a) /\ SameChair(c, a) /\ a.pneu = r
      <3>1. CASE p.paused
        BY <2>2, <2>3, <3>1, Replaced
      <3>2. CASE ~p.paused
        BY <2>2, <3>2 DEF SameChair, r
      <3> QED
        BY <3>1, <3>2
    <2>5. SameChair(a, e) /\ Worked(r, e.pneu, TRUE)
      BY <2>3, <2>4, WorkedRunning DEF SameChair
    <2> HIDE DEF e
    <2>6. SameChair(c, e)
      BY <2>4, <2>5 DEF SameChair
    <2> QED
      BY <1>4, <2>1, <2>5, <2>6 DEF e, Still
  <1> QED
    BY <1>3, <1>4

-----------------------------------------------------------------------------
(* The vent.  What is due of it within a pass, which began with the record w *)
(* and a vent that had run for `run` by now.                                 *)

Vents(p, run) == p.venting => "vent" \in p.valves_now /\ p.vent_age <= run

VentDue(w, p, run) ==
    /\ p.venting => /\ "vent" \in p.valves_now
                    /\ p.vent_age = 0 \/ (w.venting /\ "vent" \in w.valves_now /\ p.vent_age <= run)
    /\ w.venting => p.venting \/ p.massage_on \/ Lit(p) \/ run >= VENT

LEMMA VentAged ==
    ASSUME NEW w, Typed(w), NEW d \in Durations, NEW a, Aged(w, d, a),
           NEW run \in Nat, Vents(w, run)
    PROVE  /\ UpTo(VENT, run + d) \in Nat /\ UpTo(VENT, run + d) <= run + Longest
           /\ VentDue(w, a, UpTo(VENT, run + d))
  <1>1. d \in Nat /\ d <= Longest /\ Longest \in Nat /\ VENT \in Nat /\ w.vent_age \in Nat
    BY Bounds, Caps DEF Typed
  <1>2. UpTo(VENT, run + d) \in Nat /\ UpTo(VENT, run + d) <= run + Longest
    BY <1>1 DEF UpTo
  <1>3. w.vent_age <= run => UpTo(VENT, w.vent_age + d) <= UpTo(VENT, run + d)
    BY <1>1 DEF UpTo
  <1> QED
    BY <1>2, <1>3 DEF VentDue, Vents, Aged

LEMMA VentCalls ==
    ASSUME NEW w, NEW p, NEW q, NEW run \in Nat, VentDue(w, p, run),
           VentCalled(p, q), p.massage_on \/ Lit(p) => ~w.venting \/ q.massage_on \/ Lit(q) \/ q.venting
    PROVE  VentDue(w, q, run)
  BY DEF VentDue, VentCalled

LEMMA VentUpdates ==
    ASSUME NEW w, NEW p, NEW r, NEW q, NEW still \in BOOLEAN, NEW run \in Nat,
           VentDue(w, p, run), Handled(p, r, still), Worked(r, q, still)
    PROVE  VentDue(w, q, run)
  <1>1. VENT \in Nat
    BY Caps
  <1>2. SameVent(p, r) /\ r.valves_now = p.valves_now /\ r.massage_on = p.massage_on
        /\ (Lit(r) <=> Lit(p))
    BY DEF Handled, SameMassage, SameCell, Lit
  <1>3. VentDue(w, r, run)
    BY <1>2 DEF VentDue, SameVent
  <1>4. VentWorked(r, q)
    BY DEF Worked
  <1>5. r.vent_age >= VENT /\ (r.vent_age = 0 \/ r.vent_age <= run) => run >= VENT
    <2>1. CASE r.vent_age = 0
      BY <1>1, <2>1
    <2>2. CASE r.vent_age # 0
      <3>1. r.vent_age \in Nat
        BY DEF Handled, Typed
      <3> QED
        BY <1>1, <2>2, <3>1
    <2> QED
      BY <2>1, <2>2
  <1> QED
    BY <1>3, <1>4, <1>5 DEF VentDue, VentWorked

\* The end of the pass, at z.
LEMMA VentObserved ==
    ASSUME NEW w, NEW z, NEW run \in Nat, VentDue(w, z, run), NEW now,
           now = IF w.venting /\ z.venting /\ "vent" \in w.valves_now THEN run ELSE 0
    PROVE  now \in Nat /\ Vents(z, now)
  BY DEF VentDue, Vents

-----------------------------------------------------------------------------
(* The massage.  In a pass that began with w, it has run for `total` and its *)
(* step has played for `part` by now.                                        *)

Timed(p, total, part) ==
    p.massage_on =>
       /\ total <= MASSAGE_TIMEOUT + Longest
       /\ ~p.paused =>
             /\ total <= p.start_age /\ p.start_age <= MASSAGE_TIMEOUT
             /\ p.step_started => p.step_age <= part
       /\ p.paused =>
             /\ p.start_age >= p.pause_age
             /\ \/ total <= p.start_age - p.pause_age
                \/ p.start_age - p.pause_age >= MASSAGE_TIMEOUT
             /\ p.step_started => p.step_age >= p.pause_age /\ p.step_age - p.pause_age <= part

StepDue(w, p, part) ==
    p.step_started =>
        /\ w.massage_on /\ w.step_started /\ p.massage_step = w.massage_step
        /\ ~p.paused => p.step_age <= part
        /\ p.paused => p.step_age >= p.pause_age /\ p.step_age - p.pause_age <= part

MassageDue(w, p, total, part, still) ==
    p.massage_on =>
       /\ total <= MASSAGE_TIMEOUT + Longest
       /\ ~p.paused => total <= p.start_age \/ p.start_age >= MASSAGE_TIMEOUT
       /\ p.paused /\ p.start_age >= p.pause_age =>
             \/ total <= p.start_age - p.pause_age
             \/ p.start_age - p.pause_age >= MASSAGE_TIMEOUT
       /\ p.paused /\ ~(p.start_age >= p.pause_age) => total = 0 /\ still
       /\ StepDue(w, p, part)
       /\ w.massage_on => p.massage_step = w.massage_step

Live(w, history, d) == IF w.paused THEN history ELSE history + d

LEMMA MassageAged ==
    ASSUME NEW w, Typed(w), NEW d \in Durations, NEW a, Aged(w, d, a), NEW still \in BOOLEAN,
           NEW total \in Nat, NEW part \in Nat, Timed(w, total, part),
           w.paused => w.pause_age + Longest <= LONGEST_PAUSE
    PROVE  MassageDue(w, a, IF w.massage_on THEN Live(w, total, d) ELSE 0, Live(w, part, d), still)
  <1>1. /\ d \in Nat /\ d <= Longest /\ Longest \in Nat /\ MASSAGE_TIMEOUT \in Nat
        /\ LONGEST_PAUSE \in Nat /\ StartCap = LONGEST_PAUSE + MASSAGE_TIMEOUT
    BY Bounds, Caps
  <1>2. SUFFICES ASSUME w.massage_on
                 PROVE  MassageDue(w, a, Live(w, total, d), Live(w, part, d), still)
    BY DEF MassageDue, Aged
  <1>3. /\ w.step_age \in Nat /\ w.start_age \in Nat /\ w.pause_age \in Nat
        /\ w.massage_level \in Levels /\ w.massage_step \in 1 .. Len(Pattern)
    BY DEF Typed
  <1>4. StepCap \in Nat /\ StepCap >= LONGEST_PAUSE
    <2>1. /\ Pattern[w.massage_step].len[w.massage_level] \in Nat /\ StepCap \in Nat
          /\ StepCap >= LONGEST_PAUSE + Pattern[w.massage_step].len[w.massage_level]
      BY <1>3, Caps
    <2> QED
      BY <1>1, <2>1
  <1>5. /\ a.massage_on /\ a.massage_step = w.massage_step /\ (a.step_started <=> w.step_started)
        /\ w.step_started => a.step_age = UpTo(StepCap, w.step_age + d)
        /\ a.start_age = UpTo(StartCap, w.start_age + d) /\ a.paused = w.paused
        /\ w.paused => a.pause_age = UpTo(LONGEST_PAUSE, w.pause_age + d)
    BY <1>2 DEF Aged
  <1>6. CASE ~w.paused
    <2>1. Live(w, total, d) = total + d /\ Live(w, part, d) = part + d
      BY <1>6 DEF Live
    <2>2. /\ total <= w.start_age /\ w.start_age <= MASSAGE_TIMEOUT
          /\ w.step_started => w.step_age <= part
      BY <1>2, <1>6 DEF Timed
    <2>3. total + d <= MASSAGE_TIMEOUT + Longest
      BY <1>1, <1>3, <2>2
    <2>4. total + d <= a.start_age \/ a.start_age >= MASSAGE_TIMEOUT
      BY <1>1, <1>3, <1>5, <2>2 DEF UpTo
    <2>5. w.step_started => a.step_age <= part + d
      BY <1>1, <1>3, <1>4, <1>5, <2>2 DEF UpTo
    <2> QED
      BY <1>2, <1>5, <1>6, <2>1, <2>3, <2>4, <2>5 DEF MassageDue, StepDue
  <1>7. CASE w.paused
    <2>1. Live(w, total, d) = total /\ Live(w, part, d) = part
      BY <1>7 DEF Live
    <2>2. /\ total <= MASSAGE_TIMEOUT + Longest
          /\ w.start_age >= w.pause_age
          /\ \/ total <= w.start_age - w.pause_age
             \/ w.start_age - w.pause_age >= MASSAGE_TIMEOUT
          /\ w.step_started => w.step_age >= w.pause_age /\ w.step_age - w.pause_age <= part
      BY <1>2, <1>7 DEF Timed
    <2>3. a.pause_age = w.pause_age + d /\ a.pause_age <= LONGEST_PAUSE
      BY <1>1, <1>3, <1>5, <1>7 DEF UpTo
    <2>4. /\ a.start_age >= a.pause_age
          /\ \/ total <= a.start_age - a.pause_age
             \/ a.start_age - a.pause_age >= MASSAGE_TIMEOUT
      BY <1>1, <1>3, <1>5, <2>2, <2>3 DEF UpTo
    <2>5. ASSUME w.step_started
          PROVE  a.step_age >= a.pause_age /\ a.step_age - a.pause_age <= part
      <3>1. /\ a.step_age = UpTo(StepCap, w.step_age + d)
            /\ w.step_age >= w.pause_age /\ w.step_age - w.pause_age <= part
        BY <1>5, <2>2, <2>5
      <3>2. StepCap >= a.pause_age
        BY <1>1, <1>3, <1>4, <2>3
      <3>3. CASE a.step_age = w.step_age + d
        BY <1>1, <1>3, <2>3, <3>1, <3>3
      <3>4. CASE a.step_age = StepCap /\ StepCap <= w.step_age + d
        BY <1>1, <1>3, <1>4, <2>3, <3>1, <3>2, <3>4
      <3> QED
        BY <1>1, <1>3, <1>4, <3>1, <3>3, <3>4 DEF UpTo
    <2> QED
      BY <1>2, <1>5, <1>7, <2>1, <2>2, <2>4, <2>5 DEF MassageDue, StepDue
  <1> QED
    BY <1>6, <1>7

LEMMA MassageCalls ==
    ASSUME NEW w, NEW p, Typed(p), NEW q, NEW total \in Nat, NEW part \in Nat,
           NEW still \in BOOLEAN, MassageDue(w, p, total, part, still),
           MassageCalled(p, q), SamePause(p, q),
           p.massage_on = w.massage_on, w.massage_on \/ total = 0,
           q.massage_on /\ ~p.massage_on => still
    PROVE  MassageDue(w, q, total, part, still)
  <1>1. p.pause_age \in Nat /\ Longest \in Nat /\ MASSAGE_TIMEOUT \in Nat
    BY Bounds, Caps DEF Typed
  <1>2. CASE ~q.massage_on
    BY <1>2 DEF MassageDue
  <1>3. CASE q.massage_on /\ p.massage_on
    BY <1>3 DEF MassageDue, StepDue, MassageCalled, SamePause
  <1>4. CASE q.massage_on /\ ~p.massage_on
    <2>1. total = 0 /\ still /\ q.start_age = 0 /\ ~q.step_started /\ q.pause_age = p.pause_age
      BY <1>4 DEF MassageCalled, SamePause
    <2> QED
      BY <1>1, <1>4, <2>1 DEF MassageDue, StepDue
  <1> QED
    BY <1>2, <1>3, <1>4

\* Once updated, the step has either just begun or is the one of w.
MassageDone(w, q, total, part) ==
    q.massage_on =>
       /\ total <= MASSAGE_TIMEOUT + Longest
       /\ ~q.paused => total <= q.start_age /\ q.start_age <= MASSAGE_TIMEOUT
       /\ q.paused => /\ q.start_age >= q.pause_age
                      /\ \/ total <= q.start_age - q.pause_age
                         \/ q.start_age - q.pause_age >= MASSAGE_TIMEOUT
       /\ StepDue(w, q, part) \/ (~q.paused /\ q.step_age = 0)

\* The step of w has been left only if it had played.
Left(w, q, part) ==
    w.massage_on /\ q.massage_on /\ q.massage_step # w.massage_step =>
        part >= Pattern[w.massage_step].len[q.massage_level]

LEMMA MassageUpdates ==
    ASSUME NEW w, NEW p, Typed(p), NEW r, NEW q, NEW total \in Nat, NEW part \in Nat,
           NEW still \in BOOLEAN, MassageDue(w, p, total, part, still),
           Handled(p, r, still), Worked(r, q, still)
    PROVE  MassageDone(w, q, total, part) /\ Left(w, q, part)
  <1>1. /\ p.pause_age \in Nat /\ p.start_age \in Nat /\ p.step_age \in Nat
        /\ Longest \in Nat /\ MASSAGE_TIMEOUT \in Nat
    BY Bounds, Caps DEF Typed
  <1>2. SUFFICES ASSUME q.massage_on
                 PROVE  MassageDone(w, q, total, part) /\ Left(w, q, part)
    BY DEF MassageDone, Left
  <1>3. /\ r.massage_on /\ q.massage_level = r.massage_level /\ q.start_age = r.start_age
        /\ ~still => SameMassage(r, q)
        /\ still => ~(r.start_age >= MASSAGE_TIMEOUT) /\ q.step_started /\ Ticked(r, q)
        /\ q.paused = r.paused /\ q.pause_age = r.pause_age
    BY <1>2 DEF Worked, MassageWorked, SamePause
  <1>4. CASE ~still
    <2>1. /\ SameMassage(p, r) /\ SameMassage(r, q)
          /\ r.paused /\ r.pause_age = IF p.paused THEN p.pause_age ELSE 0
      BY <1>3, <1>4 DEF Handled
    <2>2. SameMassage(p, q) /\ q.paused /\ q.pause_age = IF p.paused THEN p.pause_age ELSE 0
      BY <1>3, <2>1 DEF SameMassage
    <2>3. p.massage_on
      BY <1>2, <2>2 DEF SameMassage
    <2>4. /\ q.start_age >= q.pause_age
          /\ \/ total <= q.start_age - q.pause_age
             \/ q.start_age - q.pause_age >= MASSAGE_TIMEOUT
          /\ total <= MASSAGE_TIMEOUT + Longest
      BY <1>1, <1>4, <2>2, <2>3 DEF MassageDue, SameMassage
    <2>5. StepDue(w, q, part) /\ (w.massage_on => q.massage_step = w.massage_step)
      BY <1>1, <2>2, <2>3 DEF MassageDue, StepDue, SameMassage
    <2> QED
      BY <2>2, <2>4, <2>5 DEF MassageDone, Left
  <1>5. CASE still
    <2>1. /\ ~r.paused /\ p.massage_on /\ r.massage_level = p.massage_level
          /\ r.massage_step = p.massage_step /\ r.step_started = p.step_started
          /\ r.start_age = Shared(p, p.start_age)
          /\ p.step_started => r.step_age = Shared(p, p.step_age)
      BY <1>3, <1>5 DEF Handled
    <2>2. /\ total <= MASSAGE_TIMEOUT + Longest
          /\ total <= r.start_age \/ r.start_age >= MASSAGE_TIMEOUT
      <3>1. CASE p.paused
        BY <1>1, <2>1, <3>1 DEF MassageDue, Shared, Credit
      <3>2. CASE ~p.paused
        BY <2>1, <3>2 DEF MassageDue, Shared
      <3> QED
        BY <3>1, <3>2
    <2>3. r.start_age \in Nat
      BY DEF Handled, Typed
    <2>4. total <= q.start_age /\ q.start_age <= MASSAGE_TIMEOUT /\ ~q.paused
      BY <1>1, <1>3, <1>5, <2>1, <2>2, <2>3
    <2>5. r.step_started => /\ w.massage_on /\ w.step_started
                            /\ r.massage_step = w.massage_step /\ r.step_age <= part
      <3>1. CASE p.paused
        BY <1>1, <2>1, <3>1 DEF MassageDue, StepDue, Shared, Credit
      <3>2. CASE ~p.paused
        BY <2>1, <3>2 DEF MassageDue, StepDue, Shared
      <3> QED
        BY <3>1, <3>2
    <2>6. w.massage_on => r.massage_step = w.massage_step
      BY <2>1 DEF MassageDue
    <2>7. StepDue(w, q, part) \/ q.step_age = 0
      BY <1>3, <1>5, <2>4, <2>5 DEF StepDue, Ticked
    <2>8. w.massage_on /\ q.massage_step # w.massage_step =>
             part >= Pattern[w.massage_step].len[q.massage_level]
      <3> SUFFICES ASSUME w.massage_on, q.massage_step # w.massage_step
                   PROVE  part >= Pattern[w.massage_step].len[q.massage_level]
        OBVIOUS
      <3> DEFINE len == Pattern[w.massage_step].len[q.massage_level]
      <3>1. r.step_age >= len /\ r.step_age <= part
        BY <1>3, <1>5, <2>5, <2>6 DEF Ticked
      <3>2. len \in Nat /\ r.step_age \in Nat
        <4>1. r.massage_step \in 1 .. Len(Pattern) /\ r.massage_level \in Levels
              /\ r.step_age \in Nat
          BY DEF Handled, Typed
        <4> QED
          BY <1>3, <2>6, <4>1, Caps
      <3> HIDE DEF len
      <3>3. part >= len
        BY <3>1, <3>2
      <3> QED
        BY <3>3 DEF len
    <2> QED
      BY <1>3, <2>1, <2>2, <2>4, <2>7, <2>8 DEF MassageDone, Left
  <1> QED
    BY <1>4, <1>5

\* A recall may start the massage that the update has just ended.
LEMMA MassageRecalls ==
    ASSUME NEW w, NEW q, Typed(q), ~q.paused, NEW z, NEW total \in Nat, NEW part \in Nat,
           MassageDone(w, q, total, part), MassageCalled(q, z), SamePause(q, z)
    PROVE  MassageDone(w, z, IF w.massage_on /\ z.massage_on /\ z.step_started THEN total ELSE 0, part)
  <1>1. Longest \in Nat /\ MASSAGE_TIMEOUT \in Nat
    BY Bounds, Caps
  <1>2. CASE ~z.massage_on
    BY <1>2 DEF MassageDone
  <1>3. CASE z.massage_on /\ q.massage_on
    <2>1. /\ z.massage_step = q.massage_step /\ (z.step_started <=> q.step_started)
          /\ z.step_age = q.step_age /\ z.start_age = q.start_age /\ z.paused = q.paused
      BY <1>3 DEF MassageCalled, SamePause
    <2>2. total <= q.start_age /\ q.start_age <= MASSAGE_TIMEOUT /\ total <= MASSAGE_TIMEOUT + Longest
      BY <1>3 DEF MassageDone
    <2>3. StepDue(w, z, part) \/ (~z.paused /\ z.step_age = 0)
      BY <1>3, <2>1 DEF MassageDone, StepDue
    <2>4. q.start_age \in Nat
      BY DEF Typed
    <2> QED
      BY <1>1, <2>1, <2>2, <2>3, <2>4 DEF MassageDone
  <1>4. CASE z.massage_on /\ ~q.massage_on
    <2>1. z.start_age = 0 /\ z.step_age = 0 /\ ~z.step_started /\ ~z.paused
      BY <1>4 DEF MassageCalled, SamePause
    <2> QED
      BY <1>1, <2>1 DEF MassageDone, StepDue
  <1> QED
    BY <1>2, <1>3, <1>4

LEMMA MassageObserved ==
    ASSUME NEW w, NEW z, Typed(z), NEW total \in Nat, NEW part \in Nat,
           MassageDone(w, z, total, part), NEW now,
           now = IF /\ w.massage_on /\ z.massage_on
                    /\ w.massage_step = z.massage_step /\ w.step_started
                 THEN part ELSE 0
    PROVE  Timed(z, total, now) /\ now \in Nat
  <1>1. z.massage_on /\ z.step_started /\ StepDue(w, z, part) => now = part
    BY DEF StepDue
  <1>2. now \in Nat
    OBVIOUS
  <1> QED
    BY <1>1, <1>2 DEF Timed, MassageDone, StepDue

-----------------------------------------------------------------------------
(* The cell of lumbar: `a` is its air, `o` whether it was overtaken, `still`  *)
(* whether no motion is wanted, `f` the finger.                              *)

Cell(p, a, o, still, f) ==
    LET time == p.lumbar_base_ms + p.lumbar_age IN
    /\ p.lumbar_level_ms <= INFLATE_MAX
    /\ f = "lumbar" => still
    /\ ~Lit(p) => a = 0
    /\ Lit(p) => a <= INFLATE_MAX + Longest
    /\ p.lumbar_state = "hold" /\ ~o => Near(p.lumbar_level_ms, a)
    /\ p.lumbar_state = "inflate" =>
        /\ ~p.lumbar_choosing =>
              /\ p.lumbar_base_ms = 0 /\ p.lumbar_target_ms <= INFLATE_MAX
              /\ a <= p.lumbar_target_ms + Longest
        /\ ~p.paused =>
              /\ a <= time /\ time <= INFLATE_MAX
              /\ ~p.lumbar_choosing => p.lumbar_age <= p.lumbar_target_ms
              /\ ~o => time <= a + (IF "bottom" \in p.valves_now THEN Longest ELSE 0)
        /\ p.paused =>
              /\ "bottom" \notin p.valves_now
              /\ f = "lumbar" => p.lumbar_age = 0
              /\ p.lumbar_age >= p.pause_age =>
                    /\ a <= time - p.pause_age \/ time - p.pause_age >= INFLATE_MAX
                    /\ ~o => time - p.pause_age <= a + Longest
              /\ ~(p.lumbar_age >= p.pause_age) =>
                    /\ p.lumbar_age = 0 /\ still
                    /\ a <= p.lumbar_base_ms \/ p.lumbar_base_ms >= INFLATE_MAX
                    /\ ~o => p.lumbar_base_ms <= a

\* A time that says what the air is, as far as a pass can tell.
Tells(time, a, o) ==
    /\ a <= time \/ time >= INFLATE_MAX
    /\ ~o => time <= a + Longest

CellDue(p, a, o, still, f) ==
    LET time == p.lumbar_base_ms + p.lumbar_age IN
    /\ p.lumbar_level_ms <= INFLATE_MAX
    /\ Lit(p) => a <= INFLATE_MAX + Longest
    /\ p.lumbar_state = "hold" /\ ~o => Near(p.lumbar_level_ms, a)
    /\ p.lumbar_state = "inflate" =>
        /\ ~p.lumbar_choosing =>
              /\ p.lumbar_base_ms = 0 /\ p.lumbar_target_ms <= INFLATE_MAX
              /\ a <= p.lumbar_target_ms + Longest
        /\ ~p.paused => Tells(time, a, o)
        /\ p.paused /\ p.lumbar_age >= p.pause_age => Tells(time - p.pause_age, a, o)
        /\ p.paused /\ ~(p.lumbar_age >= p.pause_age) =>
              /\ Tells(time, a, o)
              /\ ~still => /\ p.lumbar_age = 0 /\ f = "lumbar"
                           /\ a <= p.lumbar_base_ms \/ p.lumbar_base_ms >= INFLATE_MAX
                           /\ ~o => p.lumbar_base_ms <= a
        /\ ~still /\ f = "lumbar" => p.lumbar_age = 0

\* The air by the end of a pass that began with w.
Air(w, a, d) ==
    IF w.lumbar_state = "hold" THEN w.lumbar_level_ms
    ELSE IF w.lumbar_state = "inflate" /\ "bottom" \in w.valves_now THEN a + d ELSE a

LEMMA CellAged ==
    ASSUME NEW w, Typed(w), NEW d \in Durations, NEW q, Aged(w, d, q), NEW a \in Nat,
           NEW o \in BOOLEAN, NEW still \in BOOLEAN, NEW f, Cell(w, a, o, still, f),
           w.paused => w.pause_age + Longest <= LONGEST_PAUSE
    PROVE  /\ Air(w, a, d) \in Nat /\ CellDue(q, Air(w, a, d), o, still, "none")
           /\ ~Lit(q) => Air(w, a, d) = 0
           /\ q.lumbar_state = "hold" => Air(w, a, d) = q.lumbar_level_ms
           /\ q.lumbar_state = "inflate" /\ q.paused /\ f = "lumbar" => q.lumbar_age <= Longest
  <1>1. /\ d \in Nat /\ d <= Longest /\ Longest \in Nat /\ INFLATE_MAX \in Nat /\ TENTH \in Nat
        /\ LONGEST_PAUSE \in Nat /\ LumbarCap \in Nat /\ LumbarCap >= LONGEST_PAUSE + INFLATE_MAX
    BY Bounds, Caps, Ceiling
  <1>2. /\ w.lumbar_age \in Nat /\ w.lumbar_base_ms \in Nat /\ w.lumbar_level_ms \in Nat
        /\ w.lumbar_target_ms \in Nat /\ w.pause_age \in Nat
    BY DEF Typed
  <1>3. /\ q.lumbar_state = w.lumbar_state /\ q.lumbar_level_ms = w.lumbar_level_ms
        /\ q.paused = w.paused /\ w.lumbar_level_ms <= INFLATE_MAX
    BY DEF Aged, Cell
  <1>4. CASE ~Lit(w)
    <2>1. Air(w, a, d) = 0 /\ w.lumbar_state # "hold" /\ w.lumbar_state # "inflate"
      BY <1>4 DEF Cell, Air, Lit
    <2> QED
      BY <1>1, <1>3, <2>1 DEF CellDue, Lit
  <1>5. CASE w.lumbar_state = "hold"
    <2>1. Air(w, a, d) = w.lumbar_level_ms
      BY <1>5 DEF Air
    <2> QED
      BY <1>1, <1>2, <1>3, <1>5, <2>1 DEF CellDue, Lit, Near
  <1>6. CASE w.lumbar_state = "inflate"
    <2> DEFINE time == w.lumbar_base_ms + w.lumbar_age
               now  == q.lumbar_base_ms + q.lumbar_age
               b    == Air(w, a, d)
    <2>1. b = IF "bottom" \in w.valves_now THEN a + d ELSE a
      BY <1>6 DEF Air
    <2>2. /\ q.lumbar_target_ms = w.lumbar_target_ms /\ (q.lumbar_choosing <=> w.lumbar_choosing)
          /\ q.lumbar_base_ms = w.lumbar_base_ms
          /\ q.lumbar_age = UpTo(LumbarCap, w.lumbar_age + d)
          /\ w.paused => q.pause_age = UpTo(LONGEST_PAUSE, w.pause_age + d)
      BY <1>6 DEF Aged, Lit
    <2>3. a <= INFLATE_MAX + Longest
      BY <1>6 DEF Cell, Lit
    <2>4. b \in Nat
      BY <1>1, <2>1
    <2>5. ~w.lumbar_choosing =>
             /\ w.lumbar_base_ms = 0 /\ w.lumbar_target_ms <= INFLATE_MAX
             /\ a <= w.lumbar_target_ms + Longest
      BY <1>6 DEF Cell
    <2>6. CASE ~w.paused
      <3>1. /\ a <= time /\ time <= INFLATE_MAX
            /\ ~w.lumbar_choosing => w.lumbar_age <= w.lumbar_target_ms
            /\ ~o => time <= a + (IF "bottom" \in w.valves_now THEN Longest ELSE 0)
        BY <1>6, <2>6 DEF Cell
      <3>2. /\ now >= INFLATE_MAX \/ now = time + d
            /\ now <= time + d /\ now \in Nat /\ time \in Nat
        BY <1>1, <1>2, <2>2 DEF UpTo
      <3> HIDE DEF time, now, b
      <3>3. b <= INFLATE_MAX + Longest
        BY <1>1, <2>1, <2>3, <3>1, <3>2
      <3>4. b <= now \/ now >= INFLATE_MAX
        BY <1>1, <2>1, <3>1, <3>2
      <3>5. ~o => now <= b + Longest
        BY <1>1, <2>1, <3>1, <3>2
      <3>6. ~w.lumbar_choosing => b <= w.lumbar_target_ms + Longest
        <4> SUFFICES ASSUME ~w.lumbar_choosing PROVE b <= w.lumbar_target_ms + Longest
          OBVIOUS
        <4>1. time = w.lumbar_age
          BY <1>2, <2>5 DEF time
        <4> QED
          BY <1>1, <1>2, <2>1, <2>5, <3>1, <4>1
      <3> QED
        BY <1>3, <1>6, <2>2, <2>4, <2>5, <2>6, <3>3, <3>4, <3>5, <3>6
        DEF CellDue, Tells, Lit, b, now
    <2>7. CASE w.paused
      <3>1. /\ "bottom" \notin w.valves_now /\ b = a
            /\ f = "lumbar" => w.lumbar_age = 0
        BY <1>6, <2>1, <2>7 DEF Cell
      <3>2. q.pause_age = w.pause_age + d /\ q.pause_age <= LONGEST_PAUSE
        BY <1>1, <1>2, <2>2, <2>7 DEF UpTo
      <3> HIDE DEF b
      <3>3. CASE w.lumbar_age >= w.pause_age
        <4>1. /\ a <= time - w.pause_age \/ time - w.pause_age >= INFLATE_MAX
              /\ ~o => time - w.pause_age <= a + Longest
          BY <1>6, <2>7, <3>3 DEF Cell
        <4>2. q.lumbar_age >= q.pause_age
          BY <1>1, <1>2, <2>2, <3>2, <3>3 DEF UpTo
        <4>3. Tells(now - q.pause_age, b, o)
          BY <1>1, <1>2, <2>2, <3>1, <3>2, <3>3, <4>1 DEF UpTo, Tells
        <4>4. f = "lumbar" => q.lumbar_age <= Longest
          BY <1>1, <1>2, <2>2, <3>1 DEF UpTo
        <4> QED
          BY <1>3, <1>6, <2>2, <2>3, <2>4, <2>5, <2>7, <3>1, <4>2, <4>3, <4>4
          DEF CellDue, Lit, b
      <3>4. CASE ~(w.lumbar_age >= w.pause_age)
        <4>1. /\ w.lumbar_age = 0 /\ still
              /\ a <= w.lumbar_base_ms \/ w.lumbar_base_ms >= INFLATE_MAX
              /\ ~o => w.lumbar_base_ms <= a
          BY <1>6, <2>7, <3>4 DEF Cell
        <4>2. ~(q.lumbar_age >= q.pause_age) /\ q.lumbar_age <= Longest /\ q.lumbar_age \in Nat
          BY <1>1, <1>2, <2>2, <3>2, <3>4, <4>1 DEF UpTo
        <4>3. Tells(now, b, o)
          BY <1>1, <1>2, <2>2, <3>1, <4>1, <4>2 DEF Tells
        <4> QED
          BY <1>3, <1>6, <2>2, <2>3, <2>4, <2>5, <2>7, <3>1, <4>1, <4>2, <4>3
          DEF CellDue, Lit, b
      <3> QED
        BY <3>3, <3>4
    <2> QED
      BY <2>6, <2>7
  <1> QED
    BY <1>4, <1>5, <1>6 DEF Lit

\* Another finger than none changes nothing of it, but for a press.
LEMMA CellFingered ==
    ASSUME NEW p, NEW a, NEW o, NEW still, NEW f, CellDue(p, a, o, still, "none"),
           f = "lumbar" => still
    PROVE  CellDue(p, a, o, still, f)
  BY DEF CellDue

LEMMA CellCalled ==
    ASSUME NEW p, NEW q, NEW a, NEW o, NEW still, NEW f, CellDue(p, a, o, still, f),
           SamePause(p, q), CellLeft(p, q)
    PROVE  CellDue(q, a, o, still, f)
  <1>1. CASE SameCell(p, q)
    BY <1>1 DEF CellDue, SameCell, SamePause, Lit
  <1>2. CASE q.lumbar_state \in {"off", "deflate"} /\ q.lumbar_level_ms = p.lumbar_level_ms
    BY <1>2 DEF CellDue, Lit
  <1> QED
    BY <1>1, <1>2 DEF CellLeft

LEMMA CellPressed ==
    ASSUME NEW p, Typed(p), NEW q, NEW a \in Nat, NEW o \in BOOLEAN, NEW v \in BOOLEAN,
           NEW still \in BOOLEAN, CellDue(p, a, o, still, "none"),
           ~Lit(p) => a = 0, p.lumbar_state = "hold" => a = p.lumbar_level_ms,
           o => v, p.paused /\ p.lumbar_state = "inflate" => v, SamePause(p, q),
           q.lumbar_state = "inflate", q.lumbar_age = 0, q.lumbar_choosing,
           q.lumbar_base_ms = lumbar_banked(p), q.lumbar_level_ms = p.lumbar_level_ms
    PROVE  CellDue(q, a, v, still, "lumbar")
  <1>1. /\ Longest \in Nat /\ INFLATE_MAX \in Nat
        /\ p.lumbar_age \in Nat /\ p.lumbar_base_ms \in Nat /\ p.lumbar_level_ms \in Nat
        /\ p.pause_age \in Nat
    BY Bounds, Ceiling DEF Typed
  <1>2. p.lumbar_level_ms <= INFLATE_MAX /\ (Lit(p) => a <= INFLATE_MAX + Longest)
    BY DEF CellDue
  <1>3. a <= INFLATE_MAX + Longest
    BY <1>1, <1>2
  <1> DEFINE base == q.lumbar_base_ms
  <1>4. base \in Nat /\ (a <= base \/ base >= INFLATE_MAX)
    <2>1. CASE p.lumbar_state = "inflate"
      <3>1. base = p.lumbar_base_ms + p.lumbar_age
        BY <2>1 DEF lumbar_banked
      <3> HIDE DEF base
      <3>2. \/ Tells(base, a, o)
            \/ Tells(base - p.pause_age, a, o)
        BY <2>1, <3>1 DEF CellDue
      <3> QED
        BY <1>1, <3>1, <3>2 DEF Tells
    <2>2. CASE p.lumbar_state = "hold"
      BY <1>1, <2>2 DEF lumbar_banked
    <2>3. CASE ~Lit(p)
      <3>1. base = 0
        BY <2>3 DEF lumbar_banked, Lit
      <3> QED
        BY <2>3, <3>1
    <2> QED
      BY <2>1, <2>2, <2>3 DEF Lit
  <1>5. ~v => base <= a + Longest
    <2>1. CASE p.lumbar_state = "inflate" /\ ~v
      <3>1. base = p.lumbar_base_ms + p.lumbar_age
        BY <2>1 DEF lumbar_banked
      <3> HIDE DEF base
      <3>2. Tells(base, a, o)
        BY <2>1, <3>1 DEF CellDue
      <3> QED
        BY <2>1, <3>2 DEF Tells
    <2>2. CASE p.lumbar_state = "hold"
      <3>1. base = a
        BY <2>2 DEF lumbar_banked
      <3> QED
        BY <1>1, <3>1
    <2>3. CASE ~Lit(p)
      <3>1. base = 0
        BY <2>3 DEF lumbar_banked, Lit
      <3> QED
        BY <1>1, <3>1
    <2> QED
      BY <2>1, <2>2, <2>3 DEF Lit
  <1>6. ~v /\ p.paused => base <= a
    <2>1. CASE p.lumbar_state = "hold"
      <3>1. base = a
        BY <2>1 DEF lumbar_banked
      <3> QED
        BY <1>1, <3>1
    <2>2. CASE ~Lit(p)
      <3>1. base = 0
        BY <2>2 DEF lumbar_banked, Lit
      <3> QED
        BY <1>1, <3>1
    <2> QED
      BY <2>1, <2>2 DEF Lit
  <1> HIDE DEF base
  <1>7. Tells(base + q.lumbar_age, a, v)
    BY <1>4, <1>5 DEF Tells
  <1>8. q.pause_age = p.pause_age /\ q.paused = p.paused
    BY DEF SamePause
  <1>9. q.paused /\ q.lumbar_age >= q.pause_age => Tells((base + q.lumbar_age) - q.pause_age, a, v)
    <2> SUFFICES ASSUME q.paused, q.lumbar_age >= q.pause_age
                 PROVE  Tells((base + q.lumbar_age) - q.pause_age, a, v)
      OBVIOUS
    <2>1. q.pause_age = 0
      BY <1>1, <1>8
    <2>2. (base + q.lumbar_age) - q.pause_age = base + q.lumbar_age
      BY <1>4, <2>1
    <2> QED
      BY <1>7, <2>2
  <1>10. q.paused => /\ a <= q.lumbar_base_ms \/ q.lumbar_base_ms >= INFLATE_MAX
                     /\ ~v => q.lumbar_base_ms <= a
    BY <1>4, <1>6, <1>8 DEF base
  <1>11. /\ Tells(q.lumbar_base_ms + q.lumbar_age, a, v)
         /\ q.paused /\ q.lumbar_age >= q.pause_age =>
               Tells((q.lumbar_base_ms + q.lumbar_age) - q.pause_age, a, v)
    BY <1>7, <1>9 DEF base
  <1>12. q.lumbar_level_ms <= INFLATE_MAX /\ a <= INFLATE_MAX + Longest
    BY <1>2, <1>3
  <1> QED
    BY <1>10, <1>11, <1>12 DEF CellDue

\* A level that was kept is as near the air as the time it was kept for.
LEMMA KeptNear ==
    ASSUME NEW level, NEW time \in Nat, NEW a \in Nat, Kept(level, time),
           a <= INFLATE_MAX + Longest, a <= time + Longest \/ time >= INFLATE_MAX,
           time <= a + Longest
    PROVE  Near(level, a)
  <1>1. Longest \in Nat /\ INFLATE_MAX \in Nat /\ TENTH \in Nat
    BY Bounds, Ceiling
  <1>2. level \in Nat
    BY DEF Kept
  <1>3. CASE time <= INFLATE_MAX
    BY <1>1, <1>2, <1>3 DEF Kept, Near
  <1>4. CASE ~(time <= INFLATE_MAX)
    BY <1>1, <1>2, <1>4 DEF Kept, Near
  <1> QED
    BY <1>3, <1>4

LEMMA CellReleased ==
    ASSUME NEW p, Typed(p), NEW q, NEW a \in Nat, NEW o \in BOOLEAN,
           NEW still \in BOOLEAN, CellDue(p, a, o, still, "none"),
           p.lumbar_state = "inflate" /\ p.paused => p.lumbar_age <= Longest,
           SamePause(p, q),
           p.lumbar_state # "inflate" =>
              q.lumbar_state = p.lumbar_state /\ q.lumbar_level_ms = p.lumbar_level_ms,
           p.lumbar_state = "inflate" =>
              \/ /\ q.lumbar_state = "inflate" /\ ~q.lumbar_choosing
                 /\ q.lumbar_level_ms = p.lumbar_level_ms
                 /\ q.lumbar_age = p.lumbar_age /\ q.lumbar_base_ms = p.lumbar_base_ms
                 /\ \/ ~p.lumbar_choosing /\ q.lumbar_target_ms = p.lumbar_target_ms
                    \/ /\ p.lumbar_choosing /\ p.lumbar_base_ms = 0
                       /\ q.lumbar_target_ms <= INFLATE_MAX
                       /\ p.lumbar_age < q.lumbar_target_ms
              \/ q.lumbar_state = "deflate" /\ q.lumbar_level_ms = p.lumbar_level_ms
              \/ /\ q.lumbar_state = "hold"
                 /\ Kept(q.lumbar_level_ms, p.lumbar_base_ms + p.lumbar_age)
                 /\ p.lumbar_age >= LUMBAR_SET \/ p.lumbar_base_ms = 0,
           NEW target, target = q.lumbar_target_ms, target \in Nat
    PROVE  CellDue(q, a, o, still, "none")
  <1> DEFINE time == p.lumbar_base_ms + p.lumbar_age
  <1>1. /\ Longest \in Nat /\ INFLATE_MAX \in Nat /\ LUMBAR_SET \in Nat /\ Longest < LUMBAR_SET
        /\ p.lumbar_age \in Nat /\ p.lumbar_base_ms \in Nat /\ p.pause_age \in Nat /\ time \in Nat
    <2>1. p.lumbar_age \in Nat /\ p.lumbar_base_ms \in Nat /\ p.pause_age \in Nat
      BY DEF Typed
    <2> QED
      BY <2>1, Bounds, Ceiling
  <1>2. q.paused = p.paused /\ q.pause_age = p.pause_age
    BY DEF SamePause
  <1>3. CASE p.lumbar_state # "inflate"
    BY <1>3 DEF CellDue, Lit
  <1>4. CASE p.lumbar_state = "inflate" /\ q.lumbar_state = "deflate"
             /\ q.lumbar_level_ms = p.lumbar_level_ms
    BY <1>4 DEF CellDue, Lit
  <1>5. CASE /\ p.lumbar_state = "inflate" /\ q.lumbar_state = "inflate" /\ ~q.lumbar_choosing
             /\ q.lumbar_level_ms = p.lumbar_level_ms
             /\ q.lumbar_age = p.lumbar_age /\ q.lumbar_base_ms = p.lumbar_base_ms
             /\ \/ ~p.lumbar_choosing /\ q.lumbar_target_ms = p.lumbar_target_ms
                \/ /\ p.lumbar_choosing /\ p.lumbar_base_ms = 0
                   /\ q.lumbar_target_ms <= INFLATE_MAX
                   /\ p.lumbar_age < q.lumbar_target_ms
    <2>1. /\ q.lumbar_base_ms = 0 /\ q.lumbar_target_ms <= INFLATE_MAX
          /\ a <= q.lumbar_target_ms + Longest
      <3>1. CASE ~p.lumbar_choosing /\ q.lumbar_target_ms = p.lumbar_target_ms
        BY <1>5, <3>1 DEF CellDue
      <3>2. CASE /\ p.lumbar_choosing /\ p.lumbar_base_ms = 0
                 /\ q.lumbar_target_ms <= INFLATE_MAX /\ p.lumbar_age < q.lumbar_target_ms
        <4>1. time = p.lumbar_age
          BY <1>1, <3>2
        <4>2. Tells(time, a, o) \/ Tells(time - p.pause_age, a, o)
          BY <1>5 DEF CellDue
        <4>3. a <= p.lumbar_age \/ p.lumbar_age >= INFLATE_MAX
          BY <1>1, <4>1, <4>2 DEF Tells
        <4> QED
          BY <1>1, <1>5, <3>2, <4>3
      <3> QED
        BY <1>5, <3>1, <3>2
    <2> QED
      BY <1>2, <1>5, <2>1 DEF CellDue, Lit
  <1>6. CASE /\ p.lumbar_state = "inflate" /\ q.lumbar_state = "hold"
             /\ Kept(q.lumbar_level_ms, time)
             /\ p.lumbar_age >= LUMBAR_SET \/ p.lumbar_base_ms = 0
    <2>1. a <= INFLATE_MAX + Longest
      BY <1>6 DEF CellDue, Lit
    <2>2. Tells(time, a, o) \/ (Tells(time - p.pause_age, a, o) /\ p.paused)
      BY <1>6 DEF CellDue
    <2>3. a <= time \/ time >= INFLATE_MAX
      <3> HIDE DEF time
      <3> QED
        BY <1>1, <2>2 DEF Tells
    <2>4. ~o => time <= a + Longest
      <3>1. CASE Tells(time, a, o)
        BY <3>1 DEF Tells
      <3>2. CASE p.paused
        <4>1. p.lumbar_age <= Longest
          BY <1>6, <3>2
        <4>2. p.lumbar_base_ms = 0
          BY <1>1, <1>6, <4>1
        <4>3. time = p.lumbar_age
          BY <1>1, <4>2
        <4> QED
          BY <1>1, <4>1, <4>3
      <3> QED
        BY <2>2, <3>1, <3>2
    <2> HIDE DEF time
    <2>5. ~o => Near(q.lumbar_level_ms, a)
      BY <1>1, <1>6, <2>1, <2>3, <2>4, KeptNear
    <2>6. q.lumbar_level_ms <= INFLATE_MAX
      BY <1>6 DEF Kept
    <2> QED
      BY <1>6, <2>1, <2>5, <2>6 DEF CellDue, Lit
  <1> QED
    BY <1>3, <1>4, <1>5, <1>6

LEMMA CellUpdates ==
    ASSUME NEW p, Typed(p), NEW r, NEW q, NEW a \in Nat, NEW o \in BOOLEAN,
           NEW still \in BOOLEAN, NEW after \in BOOLEAN, NEW f,
           CellDue(p, a, o, still, f), f = "lumbar" => after,
           Handled(p, r, still), Worked(r, q, still), Typed(q)
    PROVE  /\ Lit(q) <=> Lit(p)
           /\ Cell(q, IF Lit(q) THEN a ELSE 0, o, after, f)
  <1>1. /\ Longest \in Nat /\ INFLATE_MAX \in Nat /\ TENTH \in Nat /\ p.pause_age \in Nat
        /\ p.lumbar_age \in Nat /\ p.lumbar_base_ms \in Nat /\ p.lumbar_level_ms \in Nat
        /\ p.lumbar_target_ms \in Nat
    BY Bounds, Ceiling DEF Typed
  <1>2. /\ r.lumbar_state = p.lumbar_state /\ r.lumbar_target_ms = p.lumbar_target_ms
        /\ r.lumbar_choosing = p.lumbar_choosing /\ r.lumbar_base_ms = p.lumbar_base_ms
        /\ r.lumbar_level_ms = p.lumbar_level_ms
        /\ ~still => /\ r.lumbar_age = p.lumbar_age /\ r.paused
                     /\ r.pause_age = IF p.paused THEN p.pause_age ELSE 0
        /\ still /\ p.lumbar_state # "deflate" => r.lumbar_age = Shared(p, p.lumbar_age) /\ ~r.paused
    BY DEF Handled, SameCell
  <1>3. CellWorked(r, q, still) /\ q.paused = r.paused /\ q.pause_age = r.pause_age
    BY DEF Worked, SamePause
  <1>4. p.lumbar_level_ms <= INFLATE_MAX
    BY DEF CellDue
  <1>5. CASE ~Lit(p)
    <2>1. ~Lit(q) /\ q.lumbar_level_ms = p.lumbar_level_ms
      BY <1>2, <1>3, <1>5 DEF CellWorked, Lit
    <2> QED
      BY <1>4, <1>5, <2>1 DEF Cell, Lit
  <1>6. CASE p.lumbar_state = "hold"
    <2>1. q.lumbar_state = "hold" /\ q.lumbar_level_ms = p.lumbar_level_ms
      BY <1>2, <1>3, <1>6 DEF CellWorked, SameCell
    <2> QED
      BY <1>4, <1>6, <2>1 DEF Cell, CellDue, Lit
  <1>7. CASE p.lumbar_state = "inflate" /\ ~still
    <2>1. SameCell(p, q) /\ "bottom" \notin q.valves_now /\ q.paused
          /\ q.pause_age = IF p.paused THEN p.pause_age ELSE 0
      BY <1>2, <1>3, <1>7 DEF CellWorked, SameCell
    <2>2. /\ q.lumbar_state = "inflate" /\ q.lumbar_level_ms = p.lumbar_level_ms
          /\ q.lumbar_target_ms = p.lumbar_target_ms /\ q.lumbar_choosing = p.lumbar_choosing
          /\ q.lumbar_base_ms = p.lumbar_base_ms /\ q.lumbar_age = p.lumbar_age
      BY <1>7, <2>1 DEF SameCell
    <2> DEFINE time == q.lumbar_base_ms + q.lumbar_age
    <2>3. /\ a <= INFLATE_MAX + Longest
          /\ ~q.lumbar_choosing =>
                /\ q.lumbar_base_ms = 0 /\ q.lumbar_target_ms <= INFLATE_MAX
                /\ a <= q.lumbar_target_ms + Longest
          /\ f = "lumbar" => q.lumbar_age = 0
      BY <1>7, <2>2 DEF CellDue, Lit
    <2>4. CASE ~p.paused
      <3>1. Tells(time, a, o)
        BY <1>7, <2>2, <2>4 DEF CellDue
      <3>2. q.pause_age = 0 /\ time \in Nat /\ time - q.pause_age = time
        BY <1>1, <2>1, <2>2, <2>4
      <3>3. q.lumbar_age >= q.pause_age
        BY <1>1, <2>2, <3>2
      <3>4. /\ a <= time - q.pause_age \/ time - q.pause_age >= INFLATE_MAX
            /\ ~o => time - q.pause_age <= a + Longest
        BY <3>1, <3>2 DEF Tells
      <3> QED
        BY <1>4, <1>7, <2>1, <2>2, <2>3, <3>3, <3>4 DEF Cell, Lit
    <2>5. CASE p.paused /\ q.lumbar_age >= q.pause_age
      <3>1. Tells(time - q.pause_age, a, o)
        BY <1>7, <2>1, <2>2, <2>5 DEF CellDue
      <3> QED
        BY <1>4, <1>7, <2>1, <2>2, <2>3, <2>5, <3>1 DEF Cell, Lit, Tells
    <2>6. CASE p.paused /\ ~(q.lumbar_age >= q.pause_age)
      <3>1. /\ q.lumbar_age = 0 /\ f = "lumbar"
            /\ a <= q.lumbar_base_ms \/ q.lumbar_base_ms >= INFLATE_MAX
            /\ ~o => q.lumbar_base_ms <= a
        BY <1>7, <2>1, <2>2, <2>6 DEF CellDue
      <3> QED
        BY <1>4, <1>7, <2>1, <2>2, <2>3, <2>6, <3>1 DEF Cell, Lit
    <2> QED
      BY <2>4, <2>5, <2>6
  <1>8. CASE p.lumbar_state = "inflate" /\ still
    <2> DEFINE time == r.lumbar_base_ms + r.lumbar_age
    <2>1. ~q.paused /\ Inflated(r, q) /\ r.lumbar_age = Shared(p, p.lumbar_age)
      BY <1>2, <1>3, <1>8 DEF CellWorked
    <2>2. r.lumbar_age \in Nat /\ time \in Nat
      <3>1. r.lumbar_age \in Nat /\ r.lumbar_base_ms \in Nat
        BY DEF Handled, Typed
      <3> QED
        BY <3>1
    <2>3. Tells(time, a, o)
      <3>1. CASE ~p.paused
        BY <1>2, <1>8, <2>1, <3>1 DEF Shared, CellDue
      <3>2. CASE p.paused /\ p.lumbar_age >= p.pause_age
        <4>1. Tells((p.lumbar_base_ms + p.lumbar_age) - p.pause_age, a, o)
          BY <1>8, <3>2 DEF CellDue
        <4>2. time = (p.lumbar_base_ms + p.lumbar_age) - p.pause_age
          BY <1>1, <1>2, <2>1, <3>2 DEF Shared, Credit
        <4> QED
          BY <4>1, <4>2
      <3>3. CASE p.paused /\ ~(p.lumbar_age >= p.pause_age)
        <4>1. Tells(p.lumbar_base_ms + p.lumbar_age, a, o)
          BY <1>8, <3>3 DEF CellDue
        <4>2. time = p.lumbar_base_ms + p.lumbar_age
          BY <1>2, <2>1, <3>3 DEF Shared, Credit
        <4> QED
          BY <4>1, <4>2
      <3> QED
        BY <3>1, <3>2, <3>3
    <2>4. /\ a <= INFLATE_MAX + Longest
          /\ ~r.lumbar_choosing =>
                /\ r.lumbar_base_ms = 0 /\ r.lumbar_target_ms <= INFLATE_MAX
                /\ a <= r.lumbar_target_ms + Longest
      BY <1>2, <1>8 DEF CellDue, Lit
    <2>5. CASE /\ SameCell(r, q) /\ "bottom" \in q.valves_now
               /\ r.lumbar_choosing => ~(time >= INFLATE_MAX)
               /\ ~r.lumbar_choosing => ~(r.lumbar_age >= r.lumbar_target_ms)
      <3>1. /\ q.lumbar_state = "inflate" /\ q.lumbar_level_ms = p.lumbar_level_ms
            /\ q.lumbar_target_ms = r.lumbar_target_ms /\ q.lumbar_choosing = r.lumbar_choosing
            /\ q.lumbar_base_ms = r.lumbar_base_ms /\ q.lumbar_age = r.lumbar_age
        BY <1>2, <1>8, <2>5 DEF SameCell
      <3>2. ~(time >= INFLATE_MAX)
        <4>1. CASE r.lumbar_choosing
          BY <2>5, <4>1
        <4>2. CASE ~r.lumbar_choosing
          <5>1. time = r.lumbar_age /\ r.lumbar_target_ms \in Nat
            BY <1>1, <1>2, <2>2, <2>4, <4>2
          <5> QED
            BY <1>1, <2>2, <2>4, <2>5, <4>2, <5>1
        <4> QED
          BY <4>1, <4>2
      <3>3. a <= time /\ time <= INFLATE_MAX /\ (~o => time <= a + Longest)
        BY <1>1, <2>2, <2>3, <3>2 DEF Tells
      <3>4. ~r.lumbar_choosing => r.lumbar_age <= r.lumbar_target_ms
        BY <1>1, <1>2, <2>2, <2>5
      <3> QED
        BY <1>4, <1>8, <2>1, <2>4, <2>5, <3>1, <3>3, <3>4 DEF Cell, Lit
    <2>6. CASE /\ q.lumbar_state = "hold"
               /\ \/ r.lumbar_choosing /\ time >= INFLATE_MAX /\ Kept(q.lumbar_level_ms, INFLATE_MAX)
                  \/ /\ ~r.lumbar_choosing /\ r.lumbar_age >= r.lumbar_target_ms
                     /\ Kept(q.lumbar_level_ms, r.lumbar_base_ms + r.lumbar_target_ms)
      <3>1. ~o => Near(q.lumbar_level_ms, a)
        <4> SUFFICES ASSUME ~o PROVE Near(q.lumbar_level_ms, a)
          OBVIOUS
        <4>1. CASE time >= INFLATE_MAX /\ Kept(q.lumbar_level_ms, INFLATE_MAX)
          <5>1. INFLATE_MAX <= a + Longest
            <6> HIDE DEF time
            <6> QED
              BY <1>1, <2>2, <2>3, <4>1 DEF Tells
          <5> QED
            BY <1>1, <2>4, <4>1, <5>1, KeptNear
        <4>2. CASE /\ ~r.lumbar_choosing /\ r.lumbar_age >= r.lumbar_target_ms
                   /\ Kept(q.lumbar_level_ms, r.lumbar_base_ms + r.lumbar_target_ms)
          <5>1. /\ r.lumbar_base_ms + r.lumbar_target_ms = r.lumbar_target_ms
                /\ time = r.lumbar_age /\ r.lumbar_target_ms \in Nat
            BY <1>1, <1>2, <2>2, <2>4, <4>2
          <5>2. r.lumbar_target_ms <= a + Longest
            BY <1>1, <2>2, <2>3, <4>2, <5>1 DEF Tells
          <5> QED
            BY <2>4, <4>2, <5>1, <5>2, KeptNear
        <4> QED
          BY <2>6, <4>1, <4>2
      <3>2. q.lumbar_level_ms <= INFLATE_MAX
        BY <2>6 DEF Kept
      <3> QED
        BY <1>8, <2>4, <2>6, <3>1, <3>2 DEF Cell, Lit
    <2> QED
      BY <2>1, <2>5, <2>6 DEF Inflated
  <1> QED
    BY <1>5, <1>6, <1>7, <1>8 DEF Lit

\* What a recall does to the cell, once the update has been.
LEMMA CellRecalls ==
    ASSUME NEW q, Typed(q), NEW z, NEW a \in Nat, NEW o, NEW still, NEW f,
           Cell(q, a, o, still, f), ~q.paused, SamePause(q, z),
           \/ SameCell(q, z) /\ (Lit(z) => z.valves_now = q.valves_now)
           \/ z.lumbar_state \in {"off", "deflate"} /\ z.lumbar_level_ms = q.lumbar_level_ms
           \/ /\ ~Lit(q) /\ z.lumbar_state = "inflate" /\ z.lumbar_level_ms = q.lumbar_level_ms
              /\ z.lumbar_age = 0 /\ z.lumbar_base_ms = 0 /\ ~z.lumbar_choosing
              /\ z.lumbar_target_ms <= INFLATE_MAX /\ z.lumbar_target_ms \in Nat
    PROVE  Cell(z, IF Lit(z) THEN a ELSE 0, o, still, f)
  <1>1. Longest \in Nat /\ INFLATE_MAX \in Nat /\ ~z.paused
    BY Bounds, Ceiling DEF SamePause
  <1>2. q.lumbar_level_ms <= INFLATE_MAX /\ (f = "lumbar" => still)
    BY DEF Cell
  <1>3. CASE z.lumbar_state \in {"off", "deflate"} /\ z.lumbar_level_ms = q.lumbar_level_ms
    BY <1>2, <1>3 DEF Cell, Lit
  <1>4. CASE SameCell(q, z) /\ (Lit(z) => z.valves_now = q.valves_now)
    <2>1. CASE ~Lit(z)
      BY <1>2, <1>4, <2>1 DEF Cell, Lit, SameCell
    <2>2. CASE Lit(z)
      BY <1>1, <1>4, <2>2 DEF Cell, Lit, SameCell
    <2> QED
      BY <2>1, <2>2
  <1>5. CASE /\ ~Lit(q) /\ z.lumbar_state = "inflate" /\ z.lumbar_level_ms = q.lumbar_level_ms
             /\ z.lumbar_age = 0 /\ z.lumbar_base_ms = 0 /\ ~z.lumbar_choosing
             /\ z.lumbar_target_ms <= INFLATE_MAX /\ z.lumbar_target_ms \in Nat
    <2>1. a = 0
      BY <1>5 DEF Cell
    <2>2. 0 <= INFLATE_MAX + Longest /\ 0 <= z.lumbar_target_ms + Longest
      BY <1>1, <1>5
    <2>3. 0 <= 0 + (IF "bottom" \in z.valves_now THEN Longest ELSE 0) /\ 0 + 0 = 0
      BY <1>1
    <2> QED
      BY <1>1, <1>2, <1>5, <2>1, <2>2, <2>3 DEF Cell, Lit
  <1> QED
    BY <1>3, <1>4, <1>5

-----------------------------------------------------------------------------
(* The inductive invariant, and a pass.                                      *)

\* A motion's own pass is still to come when it is asked for.
Pauses(p, still) ==
    /\ p.paused => p.pause_age + Longest <= LONGEST_PAUSE
    /\ ~still => p.pause_age + 2 * Longest <= LONGEST_PAUSE

IInv ==
    /\ Shaped(chair) /\ Own(chair.pneu)
    /\ air \in Nat /\ ran \in Nat /\ played \in Nat /\ vented \in Nat /\ overtaken \in BOOLEAN
    /\ Vents(chair.pneu, vented)
    /\ Timed(chair.pneu, ran, played)
    /\ Pauses(chair.pneu, Still(chair))
    /\ Cell(chair.pneu, air, overtaken, Still(chair), finger)

LEMMA Begins ==
    ASSUME IInv, NEW d \in Durations
    PROVE  /\ SameChair(chair, Later(d)) /\ Still(Later(d)) = Still(chair)
           /\ Aged(chair.pneu, d, Later(d).pneu) /\ Own(Later(d).pneu)
  <1> DEFINE p == chair.pneu
             q == ElapsePneumatics(p, d)
             adjust == ElapseAdjust(chair.adjust, d)
             e == [chair EXCEPT !.pneu = q, !.adjust = adjust]
  <1>1. Shaped(chair) /\ Typed(p) /\ Own(p)
    BY DEF IInv, Shaped
  <1>2. Later(d) = e
    BY <1>1 DEF Later, Shaped
  <1>3. Aged(p, d, q)
    BY <1>1, Elapsed
  <1>4. Typed(q) /\ Own(q)
    BY <1>1, <1>3 DEF Aged, Own
  <1> HIDE DEF q, adjust
  <1>5. SameChair(chair, e) /\ e.pneu = q
    BY <1>1, <1>4 DEF Shaped, SameChair
  <1> HIDE DEF e
  <1> QED
    BY <1>2, <1>3, <1>4, <1>5 DEF SameChair, Still

\* What is due of the record of w by now, w having begun the pass.
Due(w, p, d, o, still, f, total, part, run, a) ==
    /\ VentDue(w, p, UpTo(VENT, run + d))
    /\ MassageDue(w, p, IF w.massage_on THEN Live(w, total, d) ELSE 0, Live(w, part, d), still)
    /\ CellDue(p, Air(w, a, d), o, still, f)

LEMMA DueAtFirst ==
    ASSUME IInv, NEW d \in Durations
    PROVE  LET a == Later(d).pneu  b == Air(chair.pneu, air, d) IN
           /\ Due(chair.pneu, a, d, overtaken, Still(chair), "none", ran, played, vented, air)
           /\ b \in Nat /\ (~Lit(a) => b = 0)
           /\ a.lumbar_state = "hold" => b = a.lumbar_level_ms
           /\ a.lumbar_state = "inflate" /\ a.paused /\ finger = "lumbar" =>
                 a.lumbar_age <= Longest
           /\ {Live(chair.pneu, ran, d), Live(chair.pneu, played, d), UpTo(VENT, vented + d)}
                 \subseteq Nat
           /\ Live(chair.pneu, played, d) <= played + Longest
           /\ UpTo(VENT, vented + d) <= vented + Longest
  <1> DEFINE w == chair.pneu
             a == Later(d).pneu
             still == Still(chair)
  <1>1. /\ Typed(w) /\ Aged(w, d, a) /\ still \in BOOLEAN
        /\ air \in Nat /\ ran \in Nat /\ played \in Nat /\ vented \in Nat /\ overtaken \in BOOLEAN
        /\ Vents(w, vented) /\ Timed(w, ran, played)
        /\ Cell(w, air, overtaken, still, finger)
        /\ w.paused => w.pause_age + Longest <= LONGEST_PAUSE
    BY Begins DEF IInv, Shaped, Pauses, Still
  <1>2. d \in Nat /\ d <= Longest /\ Longest \in Nat
    BY Bounds
  <1> HIDE DEF w, a, still
  <1>3. /\ UpTo(VENT, vented + d) \in Nat /\ UpTo(VENT, vented + d) <= vented + Longest
        /\ VentDue(w, a, UpTo(VENT, vented + d))
    BY <1>1, VentAged
  <1>4. MassageDue(w, a, IF w.massage_on THEN Live(w, ran, d) ELSE 0, Live(w, played, d), still)
    BY <1>1, MassageAged
  <1>5. /\ Air(w, air, d) \in Nat /\ CellDue(a, Air(w, air, d), overtaken, still, "none")
        /\ ~Lit(a) => Air(w, air, d) = 0
        /\ a.lumbar_state = "hold" => Air(w, air, d) = a.lumbar_level_ms
        /\ a.lumbar_state = "inflate" /\ a.paused /\ finger = "lumbar" => a.lumbar_age <= Longest
    BY <1>1, CellAged
  <1>6. /\ Live(w, ran, d) \in Nat /\ Live(w, played, d) \in Nat
        /\ Live(w, played, d) <= played + Longest
    BY <1>1, <1>2 DEF Live
  <1> QED
    BY <1>3, <1>4, <1>5, <1>6 DEF Due, w, a, still

Ready(w, p, d, o, still, f, after, total, part, run, a) ==
    /\ Due(w, p, d, o, still, f, total, part, run, a)
    /\ Live(w, total, d) \in Nat /\ Live(w, part, d) \in Nat /\ UpTo(VENT, run + d) \in Nat
    /\ Air(w, a, d) \in Nat /\ o \in BOOLEAN /\ after \in BOOLEAN /\ (f = "lumbar" => after)

\* And what there is of it once the update has been.
Done(w, q, d, o, after, f, total, part, run, a) ==
    /\ VentDue(w, q, UpTo(VENT, run + d))
    /\ MassageDone(w, q, IF w.massage_on THEN Live(w, total, d) ELSE 0, Live(w, part, d))
    /\ Cell(q, IF Lit(q) THEN Air(w, a, d) ELSE 0, o, after, f)

LEMMA DueUpdated ==
    ASSUME NEW w, NEW c, Shaped(c), Own(c.pneu), NEW d, NEW o, NEW f, NEW after,
           NEW total, NEW part, NEW run, NEW a,
           Ready(w, c.pneu, d, o, Still(c), f, after, total, part, run, a)
    PROVE  LET e == pneumatics_update(c)  q == e.pneu IN
           /\ SameChair(c, e) /\ Own(q)
           /\ Done(w, q, d, o, after, f, total, part, run, a)
           /\ Left(w, q, Live(w, part, d))
           /\ q.massage_on => q.massage_level = c.pneu.massage_level
           /\ q.paused <=> ~Still(c)
           /\ q.paused => q.pause_age = IF c.pneu.paused THEN c.pneu.pause_age ELSE 0
           /\ Lit(q) <=> Lit(c.pneu)
  <1> DEFINE e == pneumatics_update(c)
             p == c.pneu
             q == e.pneu
             still == Still(c)
             time == IF w.massage_on THEN Live(w, total, d) ELSE 0
  <1>1. PICK r : SameChair(c, e) /\ Handled(p, r, still) /\ Worked(r, q, still)
    BY Updated
  <1>2. /\ Typed(p) /\ Typed(q) /\ still \in BOOLEAN /\ time \in Nat
        /\ UpTo(VENT, run + d) \in Nat /\ Live(w, part, d) \in Nat /\ Air(w, a, d) \in Nat
        /\ o \in BOOLEAN /\ after \in BOOLEAN /\ (f = "lumbar" => after)
    BY <1>1 DEF Shaped, SameChair, Still, Ready
  <1>3. /\ VentDue(w, p, UpTo(VENT, run + d)) /\ MassageDue(w, p, time, Live(w, part, d), still)
        /\ CellDue(p, Air(w, a, d), o, still, f)
    BY DEF Due, Ready
  <1> HIDE DEF e, p, q, still, time
  <1>4. VentDue(w, q, UpTo(VENT, run + d))
    BY <1>1, <1>2, <1>3, VentUpdates
  <1>5. /\ MassageDone(w, q, time, Live(w, part, d))
        /\ Left(w, q, Live(w, part, d))
    <2> DEFINE played_now == Live(w, part, d)
    <2>1. played_now \in Nat
      BY <1>2
    <2> HIDE DEF played_now
    <2>2. MassageDue(w, p, time, played_now, still)
      BY <1>3 DEF played_now
    <2> QED
      BY <1>1, <1>2, <2>1, <2>2, MassageUpdates DEF played_now
  <1>6. /\ Lit(q) <=> Lit(p)
        /\ Cell(q, IF Lit(q) THEN Air(w, a, d) ELSE 0, o, after, f)
    BY <1>1, <1>2, <1>3, CellUpdates
  <1>7. q.massage_on => q.massage_level = p.massage_level
    BY <1>1 DEF Worked, MassageWorked, Handled, SameMassage
  <1>8. /\ q.paused <=> ~still
        /\ q.paused => q.pause_age = IF p.paused THEN p.pause_age ELSE 0
    BY <1>1, <1>2 DEF Worked, SamePause, Handled
  <1>9. Own(q)
    BY <1>1 DEF Worked
  <1> QED
    BY <1>1, <1>4, <1>5, <1>6, <1>7, <1>8, <1>9 DEF Done, e, p, q, still, time

\* The histories at the end of a pass.
LEMMA Ends ==
    ASSUME IInv, NEW d \in Durations, NEW z, Typed(z), Own(z),
           Observe(d, z), NEW o \in BOOLEAN,
           o <=> \/ overtaken
                 \/ /\ chair.pneu.paused /\ chair.pneu.lumbar_state = "inflate"
                    /\ finger = "none" /\ finger' = "lumbar",
           NEW after, NEW total \in Nat,
           total = ran' \/ total = IF chair.pneu.massage_on THEN Live(chair.pneu, ran, d) ELSE 0,
           VentDue(chair.pneu, z, UpTo(VENT, vented + d)),
           MassageDone(chair.pneu, z, total, Live(chair.pneu, played, d)),
           Cell(z, IF Lit(z) THEN Air(chair.pneu, air, d) ELSE 0, o, after, finger')
    PROVE  /\ air' \in Nat /\ ran' \in Nat /\ played' \in Nat /\ vented' \in Nat
           /\ overtaken' \in BOOLEAN
           /\ Vents(z, vented') /\ Timed(z, ran', played')
           /\ Cell(z, air', overtaken', after, finger')
  <1> DEFINE w == chair.pneu
             b == Air(w, air, d)
             part == Live(w, played, d)
             run == UpTo(VENT, vented + d)
  <1>1. b \in Nat /\ part \in Nat /\ run \in Nat /\ Live(w, ran, d) \in Nat
    BY DueAtFirst
  <1>2. /\ air' = IF ~Lit(z) THEN 0
                  ELSE IF w.lumbar_state = "hold" THEN w.lumbar_level_ms
                  ELSE IF w.lumbar_state = "inflate" /\ "bottom" \in w.valves_now
                  THEN air + d ELSE air
        /\ ran' = IF w.massage_on /\ z.massage_on /\ z.step_started THEN Live(w, ran, d) ELSE 0
        /\ played' = IF /\ w.massage_on /\ z.massage_on
                        /\ w.massage_step = z.massage_step /\ w.step_started
                     THEN part ELSE 0
        /\ vented' = IF w.venting /\ z.venting /\ "vent" \in w.valves_now THEN run ELSE 0
        /\ overtaken' = /\ Lit(z)
                        /\ \/ overtaken
                           \/ w.paused /\ w.lumbar_state = "inflate"
                              /\ finger = "none" /\ finger' = "lumbar"
    BY DEF Observe, Live
  <1>3. air' = IF Lit(z) THEN b ELSE 0
    BY <1>2 DEF Air
  <1> HIDE DEF w, b, part, run
  <1>4. air' \in Nat /\ ran' \in Nat /\ overtaken' \in BOOLEAN
    BY <1>1, <1>2, <1>3
  <1>5. vented' \in Nat /\ Vents(z, vented')
    BY <1>1, <1>2, VentObserved DEF w, run
  <1>6. played' \in Nat /\ Timed(z, total, played')
    BY <1>1, <1>2, MassageObserved DEF w, part
  <1>7. ran' <= total \/ ~z.massage_on
    <2>1. CASE total = ran'
      BY <1>4, <2>1
    <2>2. CASE total = IF w.massage_on THEN Live(w, ran, d) ELSE 0
      BY <1>1, <1>2, <2>2
    <2> QED
      BY <2>1, <2>2 DEF w
  <1>8. Timed(z, ran', played')
    <2>1. /\ z.start_age \in Nat /\ z.pause_age \in Nat /\ MASSAGE_TIMEOUT \in Nat /\ Longest \in Nat
      BY Bounds, Caps DEF Typed
    <2> QED
      BY <1>4, <1>6, <1>7, <2>1 DEF Timed
  <1>9. Cell(z, air', overtaken', after, finger')
    <2>1. Cell(z, air', o, after, finger')
      BY <1>3 DEF w, b
    <2>2. Lit(z) => (overtaken' <=> o)
      BY <1>2 DEF w
    <2> QED
      BY <2>1, <2>2 DEF Cell, Lit
  <1> QED
    BY <1>4, <1>5, <1>6, <1>8, <1>9

\* LUMBAR has been pressed on an inflation that a motion had paused.
Overtakes ==
    \/ overtaken
    \/ /\ chair.pneu.paused /\ chair.pneu.lumbar_state = "inflate"
       /\ finger = "none" /\ finger' = "lumbar"

\* A pass that ends in an update, whatever its event called.
LEMMA PassEnds ==
    ASSUME IInv, NEW d \in Durations, NEW c,
           SameChair(Later(d), c), Called(Later(d).pneu, c.pneu),
           c.pneu.massage_on /\ ~chair.pneu.massage_on => Still(chair),
           NEW o \in BOOLEAN, o <=> Overtakes,
           CellDue(c.pneu, Air(chair.pneu, air, d), o, Still(chair), finger'),
           NEW want, finger' = "lumbar" => want = "none", Finish(d, c, want)
    PROVE  IInv' /\ StepPlays /\ VentRuns
  <1> DEFINE w == chair.pneu
             a == Later(d).pneu
             p == c.pneu
             e == pneumatics_update(c)
             q == e.pneu
             still == Still(chair)
             after == Still(chair)'
             total == IF w.massage_on THEN Live(w, ran, d) ELSE 0
             part  == Live(w, played, d)
             run   == UpTo(VENT, vented + d)
             b     == Air(w, air, d)
  <1>1. /\ Typed(w) /\ Own(w) /\ Aged(w, d, a) /\ Own(a) /\ Typed(a)
        /\ SameChair(Later(d), c) /\ Called(a, p) /\ Typed(p) /\ Own(p) /\ Shaped(c)
        /\ still \in BOOLEAN /\ after \in BOOLEAN /\ Still(c) = still
        /\ Pauses(w, still)
    BY Begins DEF IInv, Shaped, SameChair, Still, Called, Aged
  <1>2. /\ Due(w, a, d, overtaken, still, "none", ran, played, vented, air)
        /\ b \in Nat /\ part \in Nat /\ run \in Nat /\ Live(w, ran, d) \in Nat
        /\ part <= played + Longest /\ run <= vented + Longest
    BY DueAtFirst
  <1>3. total \in Nat
    BY <1>2
  <1>4. /\ d \in Nat /\ d <= Longest /\ Longest \in Nat /\ LONGEST_PAUSE \in Nat /\ VENT \in Nat
        /\ played \in Nat /\ vented \in Nat
    BY Bounds, Caps DEF IInv
  <1>5. /\ Observe(d, q)
        /\ want = "none" \/ q.pause_age + 2 * Longest <= LONGEST_PAUSE
        /\ chair' = [e EXCEPT !.adjust = adjust_update(@), !.motion.requested = want]
    BY DEF Finish
  <1>6. CellDue(p, b, o, still, finger')
    OBVIOUS
  <1>7. p.massage_on /\ ~w.massage_on => still
    OBVIOUS
  <1>8. VentDue(w, p, run)
    <2>1. VentDue(w, a, run) /\ VentCalled(a, p)
      BY <1>1, <1>2 DEF Due, Called
    <2>2. a.massage_on \/ Lit(a) => ~w.venting
      BY <1>1 DEF Aged, Own, Lit
    <2> HIDE DEF w, a, p, run
    <2> QED
      BY <1>2, <2>1, <2>2, VentCalls
  <1>9. MassageDue(w, p, total, part, still)
    <2>1. MassageDue(w, a, total, part, still) /\ MassageCalled(a, p) /\ SamePause(a, p)
      BY <1>1, <1>2 DEF Due, Called
    <2>2. a.massage_on = w.massage_on /\ (w.massage_on \/ total = 0)
      BY <1>1 DEF Aged
    <2> HIDE DEF w, a, p, total, part, still
    <2> QED
      BY <1>1, <1>2, <1>3, <1>7, <2>1, <2>2, MassageCalls
  <1>10. Due(w, p, d, o, still, finger', ran, played, vented, air)
    BY <1>6, <1>8, <1>9 DEF Due
  <1>11. finger' = "lumbar" => after
    <2>1. SameChair(c, e)
      BY <1>1, Updated
    <2> HIDE DEF e
    <2>2. want = "none" => Still(chair)'
      BY <1>5, <2>1 DEF SameChair, Shaped, Still
    <2> QED
      BY <2>2
  <1>12. /\ SameChair(c, e) /\ Own(q)
         /\ Done(w, q, d, o, after, finger', ran, played, vented, air)
         /\ Left(w, q, part)
         /\ q.paused <=> ~still
         /\ q.paused => q.pause_age = IF p.paused THEN p.pause_age ELSE 0
    <2> HIDE DEF w, b
    <2>1. Own(c.pneu) /\ Shaped(c) /\ Still(c) = still /\ after \in BOOLEAN
          /\ Live(w, ran, d) \in Nat /\ Live(w, played, d) \in Nat
          /\ UpTo(VENT, vented + d) \in Nat /\ Air(w, air, d) \in Nat
      BY <1>1, <1>2 DEF b
    <2>2. Ready(w, c.pneu, d, o, Still(c), finger', after, ran, played, vented, air)
      BY <1>1, <1>10, <1>11, <2>1 DEF Ready
    <2> HIDE DEF after, still
    <2>3. /\ SameChair(c, e) /\ Own(q)
          /\ Done(w, q, d, o, after, finger', ran, played, vented, air)
          /\ Left(w, q, Live(w, played, d))
          /\ q.paused <=> ~Still(c)
          /\ q.paused => q.pause_age = IF c.pneu.paused THEN c.pneu.pause_age ELSE 0
      BY <2>1, <2>2, DueUpdated
    <2> QED
      BY <2>1, <2>3
  <1> HIDE DEF e
  <1>13. /\ chair'.pneu = q /\ Shaped(chair') /\ (after <=> want = "none")
    BY <1>5, <1>12 DEF SameChair, Shaped, Still
  <1> HIDE DEF q, a, p, total, part, run, b, still, after
  <1>14. Typed(q)
    BY <1>12 DEF SameChair, Shaped, q
  <1>15. /\ air' \in Nat /\ ran' \in Nat /\ played' \in Nat /\ vented' \in Nat
         /\ overtaken' \in BOOLEAN
         /\ Vents(q, vented') /\ Timed(q, ran', played')
         /\ Cell(q, air', overtaken', after, finger')
    <2>1. /\ VentDue(chair.pneu, q, UpTo(VENT, vented + d))
          /\ MassageDone(chair.pneu, q, total, Live(chair.pneu, played, d))
          /\ Cell(q, IF Lit(q) THEN Air(chair.pneu, air, d) ELSE 0, o, after, finger')
      BY <1>12 DEF Done, total
    <2>2. total = IF chair.pneu.massage_on THEN Live(chair.pneu, ran, d) ELSE 0
      BY DEF total
    <2>3. o <=> \/ overtaken
                \/ /\ chair.pneu.paused /\ chair.pneu.lumbar_state = "inflate"
                   /\ finger = "none" /\ finger' = "lumbar"
      BY DEF Overtakes
    <2> QED
      BY <1>3, <1>5, <1>12, <1>14, <2>1, <2>2, <2>3, Ends
  <1>16. Pauses(q, after)
    <2>1. /\ q.paused => q.pause_age = 0 \/ (w.paused /\ q.pause_age <= w.pause_age + d)
          /\ q.pause_age \in Nat /\ w.pause_age \in Nat
      BY <1>1, <1>12, <1>14 DEF Called, SamePause, Aged, Typed
    <2>2. q.paused => w.pause_age + 2 * Longest <= LONGEST_PAUSE
      BY <1>1, <1>12 DEF Pauses
    <2>3. q.paused => q.pause_age + Longest <= LONGEST_PAUSE
      BY <1>4, <2>1, <2>2
    <2> QED
      BY <1>5, <1>13, <2>3 DEF Pauses
  <1>17. IInv'
    BY <1>12, <1>13, <1>15, <1>16 DEF IInv, after
  <1>18. VentRuns
    <2>1. w.venting => q.venting \/ q.massage_on \/ Lit(q) \/ run >= VENT
      BY <1>12 DEF Done, VentDue, run
    <2>2. run >= VENT => vented + Longest >= VENT
      BY <1>2, <1>4
    <2>3. Lit(q) => q.lumbar_state # "off"
      BY DEF Lit
    <2> QED
      BY <1>13, <2>1, <2>2, <2>3 DEF VentRuns
  <1>19. StepPlays
    <2> SUFFICES ASSUME chair.pneu.massage_on, chair'.pneu.massage_on,
                        chair'.pneu.massage_step # chair.pneu.massage_step
                 PROVE  played + Longest >=
                           Pattern[chair.pneu.massage_step].len[chair'.pneu.massage_level]
      BY DEF StepPlays
    <2> DEFINE len == Pattern[w.massage_step].len[q.massage_level]
    <2>1. len \in Nat
      BY <1>1, <1>14, Caps DEF Typed
    <2>2. part >= len
      BY <1>12, <1>13 DEF Left
    <2> HIDE DEF len
    <2>3. played + Longest >= len
      BY <1>2, <1>4, <2>1, <2>2
    <2> QED
      BY <1>13, <2>3 DEF len
  <1> QED
    BY <1>17, <1>18, <1>19

-----------------------------------------------------------------------------
(* The actions, one by one.                                                  *)

\* Every action but a press of LUMBAR leaves `overtaken` to what it was.
LEMMA PassCalls ==
    ASSUME IInv, NEW d \in Durations, NEW c,
           SameChair(Later(d), c), Called(Later(d).pneu, c.pneu),
           c.pneu.massage_on /\ ~chair.pneu.massage_on => Still(chair),
           finger' \in {finger, "none"},
           CellDue(c.pneu, Air(chair.pneu, air, d), overtaken, Still(chair), "none"),
           NEW want, finger' = "lumbar" => want = "none", Finish(d, c, want)
    PROVE  IInv' /\ StepPlays /\ VentRuns
  <1>1. overtaken \in BOOLEAN /\ (finger = "lumbar" => Still(chair))
    BY DEF IInv, Cell
  <1>2. overtaken <=> Overtakes
    BY DEF Overtakes
  <1>3. CellDue(c.pneu, Air(chair.pneu, air, d), overtaken, Still(chair), finger')
    BY <1>1, CellFingered
  <1> QED
    BY <1>1, <1>2, <1>3, PassEnds

\* What an event is called with.
LEMMA Calling ==
    ASSUME IInv, NEW d \in Durations
    PROVE  LET c == Later(d) IN
           /\ Shaped(c) /\ Own(c.pneu) /\ c.pneu.massage_on = chair.pneu.massage_on
           /\ CellDue(c.pneu, Air(chair.pneu, air, d), overtaken, Still(chair), "none")
           /\ Air(chair.pneu, air, d) \in Nat
  BY Begins, DueAtFirst DEF SameChair, Aged, Due

LEMMA Quietly ==
    ASSUME IInv, NEW d \in Durations, NEW want, finger' = "lumbar" => want = "none",
           finger' \in {finger, "none"}, Finish(d, Later(d), want)
    PROVE  IInv' /\ StepPlays /\ VentRuns
  <1> DEFINE c == Later(d)
  <1>1. /\ Shaped(c) /\ Own(c.pneu) /\ c.pneu.massage_on = chair.pneu.massage_on
        /\ CellDue(c.pneu, Air(chair.pneu, air, d), overtaken, Still(chair), "none")
    BY Calling
  <1>2. Finish(d, c, want)
    OBVIOUS
  <1> HIDE DEF c
  <1>3. Called(c.pneu, c.pneu)
    BY <1>1, CalledNothing DEF SamePause, SameVent, SameCell
  <1>4. SameChair(c, c)
    BY <1>1 DEF SameChair
  <1> QED
    BY <1>1, <1>2, <1>3, <1>4, PassCalls DEF c

LEMMA QuietPreserves ==
    ASSUME IInv, NEW d \in Durations, Quiet(d)
    PROVE  IInv' /\ StepPlays /\ VentRuns
  <1>1. PICK want : (finger = "lumbar" => want = "none") /\ Finish(d, Later(d), want)
    BY DEF Quiet
  <1> QED
    BY <1>1, Quietly DEF Quiet

LEMMA RollOverPreserves ==
    ASSUME IInv, NEW d \in Durations, RollOver(d)
    PROVE  IInv' /\ StepPlays /\ VentRuns
  <1>1. PICK want : Finish(d, Later(d), want)
    BY DEF RollOver
  <1> QED
    BY <1>1, Quietly DEF RollOver

LEMMA MassageTapPreserves ==
    ASSUME IInv, NEW d \in Durations, MassageTap(d)
    PROVE  IInv' /\ StepPlays /\ VentRuns
  <1> DEFINE c == MassageButton(Later(d))
             b == Air(chair.pneu, air, d)
  <1>1. /\ SameChair(Later(d), c) /\ Called(Later(d).pneu, c.pneu)
        /\ CellLeft(Later(d).pneu, c.pneu)
    BY Calling, MassagePressed
  <1>2. Finish(d, c, "none") /\ Still(chair) /\ finger' \in {finger, "none"}
    BY DEF MassageTap
  <1> HIDE DEF c
  <1>3. CellDue(c.pneu, b, overtaken, Still(chair), "none")
    BY <1>1, Calling, CellCalled DEF Called
  <1> QED
    BY <1>1, <1>2, <1>3, PassCalls

LEMMA MassageLevelPreserves ==
    ASSUME IInv, NEW d \in Durations, MassageLevel(d)
    PROVE  IInv' /\ StepPlays /\ VentRuns
  <1> DEFINE b == Air(chair.pneu, air, d)
  <1>1. ASSUME NEW c, SameChair(Later(d), c), Called(Later(d).pneu, c.pneu),
               SameCell(Later(d).pneu, c.pneu), Finish(d, c, "none")
        PROVE  IInv' /\ StepPlays /\ VentRuns
    <2>1. Still(chair) /\ finger' \in {finger, "none"}
      BY DEF MassageLevel
    <2>2. CellDue(c.pneu, b, overtaken, Still(chair), "none")
      BY <1>1, Calling, CellCalled DEF Called, CellLeft
    <2> QED
      BY <1>1, <2>1, <2>2, PassCalls
  <1>2. CASE Finish(d, pneumatics_massage_arm(Later(d)), "none")
    <2> DEFINE c == pneumatics_massage_arm(Later(d))
    <2>1. /\ SameChair(Later(d), c) /\ Called(Later(d).pneu, c.pneu)
          /\ SameCell(Later(d).pneu, c.pneu)
      BY Calling, MassageArmed
    <2> QED
      BY <1>1, <1>2, <2>1
  <1>3. ASSUME NEW want \in Levels,
               Finish(d, [pneumatics_massage_set_level(Later(d), want) EXCEPT
                             !.adjust = adjust_pick(@, want)], "none")
        PROVE  IInv' /\ StepPlays /\ VentRuns
    <2> DEFINE set == pneumatics_massage_set_level(Later(d), want)
               adjust == adjust_pick(set.adjust, want)
               c == [set EXCEPT !.adjust = adjust]
    <2>1. Finish(d, c, "none")
      BY <1>3
    <2> HIDE DEF adjust
    <2>2. /\ SameChair(Later(d), c) /\ Called(Later(d).pneu, c.pneu)
          /\ SameCell(Later(d).pneu, c.pneu)
      BY Calling, LevelSet
    <2> HIDE DEF c
    <2> QED
      BY <1>1, <2>1, <2>2
  <1> QED
    BY <1>2, <1>3 DEF MassageLevel

LEMMA PowerOffPreserves ==
    ASSUME IInv, NEW d \in Durations, PowerOff(d)
    PROVE  IInv' /\ StepPlays /\ VentRuns
  <1> DEFINE c == pneumatics_shutdown(Later(d))
             b == Air(chair.pneu, air, d)
  <1>1. /\ SameChair(Later(d), c) /\ Called(Later(d).pneu, c.pneu)
        /\ CellLeft(Later(d).pneu, c.pneu) /\ ~c.pneu.massage_on
    BY Calling, ShutDown
  <1>2. Finish(d, c, "none") /\ finger' \in {finger, "none"}
    BY DEF PowerOff
  <1> HIDE DEF c
  <1>3. CellDue(c.pneu, b, overtaken, Still(chair), "none")
    BY <1>1, Calling, CellCalled DEF Called
  <1> QED
    BY <1>1, <1>2, <1>3, PassCalls

LEMMA LumbarPressPreserves ==
    ASSUME IInv, NEW d \in Durations, LumbarPress(d)
    PROVE  IInv' /\ StepPlays /\ VentRuns
  <1> DEFINE a == Later(d).pneu
             c == LumbarButton(Later(d))
             q == c.pneu
             b == Air(chair.pneu, air, d)
             v == overtaken \/ (chair.pneu.paused /\ chair.pneu.lumbar_state = "inflate")
             still == Still(chair)
  <1>1. /\ SameChair(Later(d), c) /\ Called(a, q) /\ ~q.massage_on
        /\ q.lumbar_state = "inflate" /\ q.lumbar_age = 0 /\ q.lumbar_choosing
        /\ q.lumbar_base_ms = lumbar_banked(a) /\ q.lumbar_level_ms = a.lumbar_level_ms
    BY Calling, LumbarPressed
  <1>2. Finish(d, c, "none") /\ finger = "none" /\ finger' = "lumbar"
    BY DEF LumbarPress
  <1>3. /\ Typed(a) /\ b \in Nat /\ overtaken \in BOOLEAN /\ v \in BOOLEAN /\ still \in BOOLEAN
        /\ CellDue(a, b, overtaken, still, "none")
        /\ (~Lit(a) => b = 0) /\ (a.lumbar_state = "hold" => b = a.lumbar_level_ms)
        /\ a.paused = chair.pneu.paused /\ a.lumbar_state = chair.pneu.lumbar_state
    BY Begins, Calling, DueAtFirst DEF Aged, IInv, Still
  <1>4. v <=> Overtakes
    BY <1>2 DEF Overtakes
  <1>5. (overtaken => v) /\ (a.paused /\ a.lumbar_state = "inflate" => v)
    BY <1>3
  <1>6. SamePause(a, q)
    BY <1>1 DEF Called
  <1> HIDE DEF a, c, q, b, v, still
  <1>7. CellDue(q, b, v, still, "lumbar")
    BY <1>1, <1>3, <1>5, <1>6, CellPressed
  <1>8. CellDue(c.pneu, Air(chair.pneu, air, d), v, Still(chair), finger')
    BY <1>2, <1>7 DEF q, b, still
  <1> QED
    BY <1>1, <1>2, <1>3, <1>4, <1>8, PassEnds DEF a, q

LEMMA LumbarReleasePreserves ==
    ASSUME IInv, NEW d \in Durations, LumbarRelease(d)
    PROVE  IInv' /\ StepPlays /\ VentRuns
  <1> DEFINE p == Later(d).pneu
             c == pneumatics_lumbar_release(Later(d))
             q == c.pneu
             b == Air(chair.pneu, air, d)
             still == Still(chair)
             time == p.lumbar_base_ms + p.lumbar_age
  <1>1. /\ SameChair(Later(d), c) /\ Called(p, q) /\ q.massage_on = p.massage_on
        /\ p.lumbar_state # "inflate" =>
              q.lumbar_state = p.lumbar_state /\ q.lumbar_level_ms = p.lumbar_level_ms
        /\ p.lumbar_state = "inflate" =>
              \/ /\ q.lumbar_state = "inflate" /\ ~q.lumbar_choosing
                 /\ q.lumbar_level_ms = p.lumbar_level_ms
                 /\ q.lumbar_age = p.lumbar_age /\ q.lumbar_base_ms = p.lumbar_base_ms
                 /\ \/ ~p.lumbar_choosing /\ q.lumbar_target_ms = p.lumbar_target_ms
                    \/ /\ p.lumbar_choosing /\ p.lumbar_base_ms = 0
                       /\ q.lumbar_target_ms <= INFLATE_MAX
                       /\ p.lumbar_age < q.lumbar_target_ms
              \/ q.lumbar_state = "deflate" /\ q.lumbar_level_ms = p.lumbar_level_ms
              \/ /\ q.lumbar_state = "hold" /\ Kept(q.lumbar_level_ms, time)
                 /\ p.lumbar_age >= LUMBAR_SET \/ p.lumbar_base_ms = 0
    BY Calling, LumbarReleased
  <1>2. Finish(d, c, "none") /\ finger = "lumbar" /\ finger' = "none"
    BY DEF LumbarRelease
  <1>3. /\ Typed(p) /\ Typed(q) /\ b \in Nat /\ overtaken \in BOOLEAN /\ still \in BOOLEAN
        /\ CellDue(p, b, overtaken, still, "none")
        /\ (p.lumbar_state = "inflate" /\ p.paused => p.lumbar_age <= Longest)
        /\ SamePause(p, q) /\ q.lumbar_target_ms \in Nat
        /\ p.massage_on = chair.pneu.massage_on
    BY <1>1, <1>2, Begins, Calling, DueAtFirst
       DEF Aged, IInv, Still, SameChair, Shaped, Called, Typed
  <1> HIDE DEF p, c, q, b, still
  <1>4. CellDue(q, b, overtaken, still, "none")
    BY <1>1, <1>3, CellReleased
  <1>5. CellDue(c.pneu, Air(chair.pneu, air, d), overtaken, Still(chair), "none")
    BY <1>4 DEF q, b, still
  <1> QED
    BY <1>1, <1>2, <1>3, <1>5, PassCalls DEF p, q

\* What restore_comfort calls, one after the other, of what the update has left.
LEMMA Restored ==
    ASSUME NEW up, Shaped(up), Own(up.pneu), NEW massage \in BOOLEAN, NEW lumbar \in BOOLEAN,
           ~(massage /\ lumbar), NEW tenths \in Recalled, NEW level \in Levels
    PROVE  LET set == pneumatics_massage_set(up, massage)
               use == IF massage THEN pneumatics_massage_use_level(set, level) ELSE set
               all == pneumatics_lumbar_set(use, lumbar, tenths)
               q   == up.pneu
               z   == all.pneu
           IN  /\ SameChair(up, all) /\ Own(z) /\ SamePause(q, z) /\ MassageCalled(q, z)
               /\ z.venting =>
                     \/ q.venting /\ z.vent_age = q.vent_age /\ z.valves_now = q.valves_now
                     \/ z.vent_age = 0 /\ "vent" \in z.valves_now
               /\ ~Lit(q) /\ (q.venting \/ q.massage_on) =>
                     z.venting \/ z.massage_on \/ Lit(z)
               /\ \/ SameCell(q, z) /\ (Lit(z) => z.valves_now = q.valves_now)
                  \/ z.lumbar_state \in {"off", "deflate"} /\ z.lumbar_level_ms = q.lumbar_level_ms
                  \/ /\ ~Lit(q) /\ z.lumbar_state = "inflate"
                     /\ z.lumbar_level_ms = q.lumbar_level_ms
                     /\ z.lumbar_age = 0 /\ z.lumbar_base_ms = 0 /\ ~z.lumbar_choosing
                     /\ z.lumbar_target_ms <= INFLATE_MAX /\ z.lumbar_target_ms \in Nat
  <1> DEFINE set == pneumatics_massage_set(up, massage)
             use == IF massage THEN pneumatics_massage_use_level(set, level) ELSE set
             all == pneumatics_lumbar_set(use, lumbar, tenths)
             q == up.pneu
             s == set.pneu
             u == use.pneu
             z == all.pneu
  <1>1. /\ SameChair(up, set) /\ Called(q, s) /\ CellLeft(q, s)
        /\ ~massage => SameCell(q, s)
        /\ Lit(s) => s = q
        /\ q.massage_on \/ Lit(q) => s.venting \/ s.massage_on \/ Lit(s)
    BY MassageRecalled
  <1>2. Shaped(set) /\ Own(s) /\ set.motion = up.motion
    BY <1>1 DEF SameChair, Called
  <1> HIDE DEF set
  <1>3. /\ SameChair(set, use) /\ Own(u) /\ SamePause(s, u) /\ SameCell(s, u)
        /\ u.massage_on = s.massage_on /\ u.step_started = s.step_started
        /\ u.massage_step = s.massage_step /\ u.step_age = s.step_age
        /\ u.start_age = s.start_age /\ SameVent(s, u) /\ u.valves_now = s.valves_now
    <2>1. CASE massage
      <3>1. use = pneumatics_massage_use_level(set, level)
        BY <2>1
      <3> QED
        BY <1>2, <3>1, LevelUsed DEF Called
    <2>2. CASE ~massage
      <3>1. use = set
        BY <2>2
      <3> QED
        BY <1>2, <3>1 DEF SameChair, SamePause, SameCell, SameVent
    <2> QED
      BY <2>1, <2>2
  <1>4. Shaped(use) /\ use.motion = set.motion /\ tenths \in Tenths
    BY <1>3, StoredTenths DEF SameChair, Tenths
  <1> HIDE DEF use
  <1>5. /\ SameChair(use, all) /\ Own(z) /\ SamePause(u, z) /\ VentCalled(u, z)
        /\ z.massage_on => SameMassage(u, z)
        /\ \/ /\ SameMassage(u, z) /\ SameCell(u, z) /\ SameVent(u, z)
              /\ z.valves_now = u.valves_now
           \/ ~lumbar /\ Lit(u) /\ z.lumbar_state = "deflate" /\ z.lumbar_level_ms = u.lumbar_level_ms
           \/ /\ lumbar /\ ~Lit(u)
              /\ z.lumbar_state = "inflate" /\ z.lumbar_level_ms = u.lumbar_level_ms
              /\ z.lumbar_age = 0 /\ z.lumbar_base_ms = 0 /\ ~z.lumbar_choosing
              /\ z.lumbar_target_ms <= INFLATE_MAX
    BY <1>3, <1>4, LumbarRecalled
  <1>6. z.lumbar_target_ms \in Nat
    BY <1>5 DEF SameChair, Shaped, Typed
  <1> HIDE DEF all
  <1>7. SameChair(up, all)
    BY <1>2, <1>4, <1>5 DEF SameChair
  <1> HIDE DEF q, s, u, z
  <1>8. SamePause(q, z)
    BY <1>1, <1>3, <1>5 DEF Called, SamePause
  <1>9. MassageCalled(q, z)
    BY <1>1, <1>3, <1>5 DEF Called, MassageCalled, SameMassage
  <1>10. z.venting =>
            \/ q.venting /\ z.vent_age = q.vent_age /\ z.valves_now = q.valves_now
            \/ z.vent_age = 0 /\ "vent" \in z.valves_now
    <2>1. /\ s.venting => \/ q.venting /\ s.vent_age = q.vent_age /\ s.valves_now = q.valves_now
                          \/ s.vent_age = 0 /\ "vent" \in s.valves_now
          /\ z.venting => \/ u.venting /\ z.vent_age = u.vent_age /\ z.valves_now = u.valves_now
                          \/ z.vent_age = 0 /\ "vent" \in z.valves_now
      BY <1>1, <1>5 DEF Called, VentCalled
    <2> QED
      BY <1>3, <2>1 DEF SameVent
  <1>11. ~Lit(q) /\ (q.venting \/ q.massage_on) => z.venting \/ z.massage_on \/ Lit(z)
    <2> SUFFICES ASSUME ~Lit(q), q.venting \/ q.massage_on
                 PROVE  z.venting \/ z.massage_on \/ Lit(z)
      OBVIOUS
    <2>1. s.venting \/ s.massage_on \/ Lit(s)
      BY <1>1 DEF Called, VentCalled
    <2>2. ~Lit(s)
      BY <1>1
    <2>3. ~Lit(u) /\ (u.venting \/ u.massage_on)
      BY <1>3, <2>1, <2>2 DEF Lit, SameCell, SameVent
    <2> QED
      BY <1>5, <2>3 DEF SameMassage, SameVent, Lit
  <1>12. \/ SameCell(q, z) /\ (Lit(z) => z.valves_now = q.valves_now)
         \/ z.lumbar_state \in {"off", "deflate"} /\ z.lumbar_level_ms = q.lumbar_level_ms
         \/ /\ ~Lit(q) /\ z.lumbar_state = "inflate" /\ z.lumbar_level_ms = q.lumbar_level_ms
            /\ z.lumbar_age = 0 /\ z.lumbar_base_ms = 0 /\ ~z.lumbar_choosing
            /\ z.lumbar_target_ms <= INFLATE_MAX /\ z.lumbar_target_ms \in Nat
    <2>1. CASE SameCell(u, z) /\ z.valves_now = u.valves_now
      <3>1. SameCell(s, z) /\ z.valves_now = s.valves_now
        BY <1>3, <2>1 DEF SameCell
      <3>2. Lit(z) => z.valves_now = q.valves_now
        BY <1>1, <3>1 DEF SameCell, Lit
      <3> QED
        BY <1>1, <3>1, <3>2 DEF CellLeft, SameCell
    <2>2. u.lumbar_level_ms = q.lumbar_level_ms
      BY <1>1, <1>3 DEF CellLeft, SameCell
    <2>3. CASE z.lumbar_state = "deflate" /\ z.lumbar_level_ms = u.lumbar_level_ms
      BY <2>2, <2>3
    <2>4. CASE /\ lumbar /\ ~Lit(u)
               /\ z.lumbar_state = "inflate" /\ z.lumbar_level_ms = u.lumbar_level_ms
               /\ z.lumbar_age = 0 /\ z.lumbar_base_ms = 0 /\ ~z.lumbar_choosing
               /\ z.lumbar_target_ms <= INFLATE_MAX
      <3>1. SameCell(q, s)
        BY <1>1, <2>4
      <3>2. ~Lit(q)
        BY <1>3, <2>4, <3>1 DEF SameCell, Lit
      <3> QED
        BY <1>6, <2>2, <2>4, <3>2
    <2> QED
      BY <1>5, <2>1, <2>3, <2>4
  <1> QED
    BY <1>5, <1>7, <1>8, <1>9, <1>10, <1>11, <1>12 DEF q, z, all, use, set

LEMMA RecallPreserves ==
    ASSUME IInv, NEW d \in Durations, Recall(d)
    PROVE  IInv' /\ StepPlays /\ VentRuns
  <1> DEFINE w == chair.pneu
             c == Later(d)
             up == pneumatics_update(c)
             q == up.pneu
             still == Still(chair)
             after == Still(chair)'
             total == IF w.massage_on THEN Live(w, ran, d) ELSE 0
             part  == Live(w, played, d)
             run   == UpTo(VENT, vented + d)
             b     == Air(w, air, d)
  <1>1. PICK all : /\ SameChair(up, all) /\ Own(all.pneu)
                   /\ SamePause(q, all.pneu) /\ MassageCalled(q, all.pneu)
                   /\ all.pneu.venting =>
                         \/ /\ q.venting /\ all.pneu.vent_age = q.vent_age
                            /\ all.pneu.valves_now = q.valves_now
                         \/ all.pneu.vent_age = 0 /\ "vent" \in all.pneu.valves_now
                   /\ ~Lit(q) /\ (q.venting \/ q.massage_on) =>
                         all.pneu.venting \/ all.pneu.massage_on \/ Lit(all.pneu)
                   /\ \/ /\ SameCell(q, all.pneu)
                         /\ (Lit(all.pneu) => all.pneu.valves_now = q.valves_now)
                      \/ /\ all.pneu.lumbar_state \in {"off", "deflate"}
                         /\ all.pneu.lumbar_level_ms = q.lumbar_level_ms
                      \/ /\ ~Lit(q) /\ all.pneu.lumbar_state = "inflate"
                         /\ all.pneu.lumbar_level_ms = q.lumbar_level_ms
                         /\ all.pneu.lumbar_age = 0 /\ all.pneu.lumbar_base_ms = 0
                         /\ ~all.pneu.lumbar_choosing
                         /\ all.pneu.lumbar_target_ms <= INFLATE_MAX
                         /\ all.pneu.lumbar_target_ms \in Nat
                   /\ chair' = [all EXCEPT !.adjust = adjust_update(@)]
                   /\ Observe(d, all.pneu)
    <2>1. PICK massage \in BOOLEAN, lumbar \in BOOLEAN, tenths \in Recalled, level \in Levels :
             LET set == pneumatics_massage_set(up, massage)
                 use == IF massage THEN pneumatics_massage_use_level(set, level) ELSE set
                 all == pneumatics_lumbar_set(use, lumbar, tenths)
             IN  /\ ~(massage /\ lumbar)
                 /\ chair' = [all EXCEPT !.adjust = adjust_update(@)]
                 /\ Observe(d, all.pneu)
      BY ZenonT(60) DEF Recall
    <2>2. Shaped(up) /\ Own(up.pneu)
      BY Calling, Updated DEF SameChair, Worked
    <2> HIDE DEF up
    <2> DEFINE set == pneumatics_massage_set(up, massage)
               use == IF massage THEN pneumatics_massage_use_level(set, level) ELSE set
               all == pneumatics_lumbar_set(use, lumbar, tenths)
    <2>3. ~(massage /\ lumbar) /\ Observe(d, all.pneu)
          /\ chair' = [all EXCEPT !.adjust = adjust_update(@)]
      BY <2>1
    <2>4. /\ SameChair(up, all) /\ Own(all.pneu)
          /\ SamePause(q, all.pneu) /\ MassageCalled(q, all.pneu)
          /\ all.pneu.venting =>
                \/ /\ q.venting /\ all.pneu.vent_age = q.vent_age
                   /\ all.pneu.valves_now = q.valves_now
                \/ all.pneu.vent_age = 0 /\ "vent" \in all.pneu.valves_now
          /\ ~Lit(q) /\ (q.venting \/ q.massage_on) =>
                all.pneu.venting \/ all.pneu.massage_on \/ Lit(all.pneu)
          /\ \/ /\ SameCell(q, all.pneu)
                /\ (Lit(all.pneu) => all.pneu.valves_now = q.valves_now)
             \/ /\ all.pneu.lumbar_state \in {"off", "deflate"}
                /\ all.pneu.lumbar_level_ms = q.lumbar_level_ms
             \/ /\ ~Lit(q) /\ all.pneu.lumbar_state = "inflate"
                /\ all.pneu.lumbar_level_ms = q.lumbar_level_ms
                /\ all.pneu.lumbar_age = 0 /\ all.pneu.lumbar_base_ms = 0
                /\ ~all.pneu.lumbar_choosing
                /\ all.pneu.lumbar_target_ms <= INFLATE_MAX
                /\ all.pneu.lumbar_target_ms \in Nat
      BY <2>2, <2>3, Restored
    <2> HIDE DEF all
    <2> QED
      BY <2>3, <2>4
  <1> DEFINE z == all.pneu
  <1>2. finger = "none" /\ finger' = "none" /\ still = TRUE
    BY DEF Recall, Still
  <1>3. /\ Typed(w) /\ Own(w) /\ Aged(w, d, c.pneu) /\ Shaped(c) /\ Own(c.pneu)
        /\ Still(c) = still /\ Pauses(w, still) /\ overtaken \in BOOLEAN /\ after \in BOOLEAN
    BY Begins DEF IInv, Shaped, SameChair, Still
  <1>4. /\ Due(w, c.pneu, d, overtaken, still, "none", ran, played, vented, air)
        /\ b \in Nat /\ part \in Nat /\ run \in Nat /\ Live(w, ran, d) \in Nat /\ total \in Nat
        /\ part <= played + Longest /\ run <= vented + Longest
    BY DueAtFirst
  <1>5. /\ d \in Nat /\ Longest \in Nat /\ VENT \in Nat /\ played \in Nat /\ vented \in Nat
    BY Bounds, Caps DEF IInv
  <1>6. /\ SameChair(c, up) /\ Own(q)
        /\ Done(w, q, d, overtaken, after, "none", ran, played, vented, air)
        /\ Left(w, q, part)
        /\ q.massage_on => q.massage_level = c.pneu.massage_level
        /\ ~q.paused /\ (Lit(q) <=> Lit(c.pneu))
    <2> HIDE DEF w, c, after, still
    <2>1. Ready(w, c.pneu, d, overtaken, Still(c), "none", after, ran, played, vented, air)
      BY <1>3, <1>4 DEF Ready
    <2>2. Shaped(c) /\ Own(c.pneu)
      BY <1>3
    <2>3. /\ SameChair(c, up) /\ Own(q)
          /\ Done(w, q, d, overtaken, after, "none", ran, played, vented, air)
          /\ Left(w, q, Live(w, played, d))
          /\ q.massage_on => q.massage_level = c.pneu.massage_level
          /\ q.paused <=> ~Still(c)
          /\ Lit(q) <=> Lit(c.pneu)
      BY <2>1, <2>2, DueUpdated
    <2> QED
      BY <1>2, <1>3, <2>3
  <1>7. Typed(q)
    BY <1>6 DEF SameChair, Shaped
  <1>8. /\ chair'.pneu = z /\ Shaped(chair') /\ after = TRUE /\ Typed(z)
    <2>1. all.motion = chair.motion /\ Shaped(all)
      BY <1>1, <1>6, Begins DEF SameChair
    <2> QED
      BY <1>1, <1>2, <2>1 DEF Shaped, Still
  <1> HIDE DEF w, q, z, b, part, run, total, after, still
  <1>9. VentDue(w, z, run)
    <2>1. VentDue(w, q, run)
      BY <1>6 DEF Done, run
    <2>2. w.venting => ~Lit(q)
      BY <1>3, <1>6 DEF Own, Aged, Lit
    <2> QED
      BY <1>1, <2>1, <2>2 DEF VentDue, z
  <1>10. MassageDone(w, q, total, part)
    BY <1>6 DEF Done, total, part
  <1> DEFINE sum == IF w.massage_on /\ z.massage_on /\ z.step_started THEN total ELSE 0
  <1>11. MassageDone(w, z, sum, part)
    <2>1. ~q.paused /\ MassageCalled(q, z) /\ SamePause(q, z)
      BY <1>1, <1>6 DEF z
    <2> QED
      BY <1>4, <1>7, <1>10, <2>1, MassageRecalls
  <1>12. sum \in Nat /\ sum = ran'
    <2>1. ran' = IF w.massage_on /\ z.massage_on /\ z.step_started THEN Live(w, ran, d) ELSE 0
      BY <1>1 DEF Observe, Live, w, z
    <2> QED
      BY <1>4, <2>1 DEF total
  <1>13. Cell(z, IF Lit(z) THEN b ELSE 0, overtaken, after, "none")
    <2>1. Cell(q, IF Lit(q) THEN b ELSE 0, overtaken, after, "none")
      BY <1>6 DEF Done, b
    <2> DEFINE x == IF Lit(q) THEN b ELSE 0
    <2>2. x \in Nat
      BY <1>4
    <2>3. /\ ~q.paused /\ SamePause(q, z)
          /\ \/ SameCell(q, z) /\ (Lit(z) => z.valves_now = q.valves_now)
             \/ z.lumbar_state \in {"off", "deflate"} /\ z.lumbar_level_ms = q.lumbar_level_ms
             \/ /\ ~Lit(q) /\ z.lumbar_state = "inflate" /\ z.lumbar_level_ms = q.lumbar_level_ms
                /\ z.lumbar_age = 0 /\ z.lumbar_base_ms = 0 /\ ~z.lumbar_choosing
                /\ z.lumbar_target_ms <= INFLATE_MAX /\ z.lumbar_target_ms \in Nat
      BY <1>1, <1>6 DEF z
    <2>4. Cell(q, x, overtaken, after, "none")
      BY <2>1
    <2>5. ~Lit(q) => b = 0
      BY <1>6, DueAtFirst DEF b, w
    <2> HIDE DEF x
    <2>6. Cell(z, IF Lit(z) THEN x ELSE 0, overtaken, after, "none")
      BY <1>7, <2>2, <2>3, <2>4, CellRecalls
    <2> QED
      BY <2>5, <2>6 DEF x
  <1>14. /\ air' \in Nat /\ ran' \in Nat /\ played' \in Nat /\ vented' \in Nat
         /\ overtaken' \in BOOLEAN
         /\ Vents(z, vented') /\ Timed(z, ran', played')
         /\ Cell(z, air', overtaken', after, finger')
    <2> HIDE DEF sum
    <2>1. /\ VentDue(chair.pneu, z, UpTo(VENT, vented + d))
          /\ MassageDone(chair.pneu, z, sum, Live(chair.pneu, played, d))
          /\ Cell(z, IF Lit(z) THEN Air(chair.pneu, air, d) ELSE 0, overtaken, after, finger')
      BY <1>2, <1>9, <1>11, <1>13 DEF w, run, part, b
    <2>2. overtaken <=> \/ overtaken
                        \/ /\ chair.pneu.paused /\ chair.pneu.lumbar_state = "inflate"
                           /\ finger = "none" /\ finger' = "lumbar"
      BY <1>2
    <2>3. Observe(d, z) /\ Own(z)
      BY <1>1 DEF z
    <2> QED
      BY <1>3, <1>8, <1>12, <2>1, <2>2, <2>3, Ends
  <1>15. Pauses(z, after)
    BY <1>1, <1>6, <1>8 DEF Pauses, SamePause, z
  <1>16. IInv'
    BY <1>1, <1>8, <1>14, <1>15 DEF IInv, after, z
  <1>17. VentRuns
    <2>1. w.venting => z.venting \/ z.massage_on \/ Lit(z) \/ run >= VENT
      BY <1>9 DEF VentDue
    <2>2. run >= VENT => vented + Longest >= VENT
      BY <1>4, <1>5
    <2>3. Lit(z) => z.lumbar_state # "off"
      BY DEF Lit
    <2> QED
      BY <1>8, <2>1, <2>2, <2>3 DEF VentRuns, w
  <1>18. StepPlays
    <2> SUFFICES ASSUME chair.pneu.massage_on, chair'.pneu.massage_on, chair'.pneu.step_started,
                        chair'.pneu.massage_step # chair.pneu.massage_step
                 PROVE  played + Longest >=
                           Pattern[chair.pneu.massage_step].len[chair.pneu.massage_level]
      BY DEF StepPlays
    <2>1. q.massage_on /\ z.massage_step = q.massage_step
      BY <1>1, <1>8 DEF MassageCalled, z
    <2>2. q.massage_level = w.massage_level
      BY <1>3, <1>6, <2>1 DEF Aged, w
    <2> DEFINE len == Pattern[w.massage_step].len[q.massage_level]
    <2>3. len \in Nat
      BY <1>3, <1>7, Caps DEF Typed
    <2>4. part >= len
      BY <1>6, <1>8, <2>1 DEF Left, w
    <2> HIDE DEF len
    <2>5. played + Longest >= len
      BY <1>4, <1>5, <2>3, <2>4
    <2> QED
      BY <2>2, <2>5 DEF len, w
  <1> QED
    BY <1>16, <1>17, <1>18

-----------------------------------------------------------------------------
(* The inductive invariant, and what follows from it.                        *)

LEMMA AtPowerOn == Init => IInv
  <1> SUFFICES ASSUME Init
               PROVE  IInv
    OBVIOUS
  <1> DEFINE p == PneumaticsOff
  <1>1. PICK tenths \in Stored :
           chair = [pneu   |-> p, adjust |-> AdjustOff, motion |-> [requested |-> "none"],
                    store  |-> [lumbar |-> tenths, massage |-> 0]]
    BY DEF Init
  <1>2. /\ p.massage_on = FALSE /\ p.lumbar_state = "off" /\ p.venting = FALSE
        /\ p.paused = FALSE /\ p.pause_age = 0 /\ p.lumbar_level_ms = 0
    BY DEF PneumaticsOff
  <1>3. Typed(p)
    <2>1. LEVEL_MAX \in Levels /\ 1 \in 1 .. Len(Pattern)
      <3>1. LEVEL_MAX \in Nat \ {0}
        BY AdjustConstants
      <3>2. Len(Pattern) \in Nat \ {0}
        BY PneumaticsConstants
      <3> QED
        BY <3>1, <3>2 DEF Levels
    <2> QED
      BY <2>1 DEF Typed, PneumaticsOff, PneuFields
  <1> HIDE DEF p
  <1>4. tenths \in Tenths
    BY StoredTenths DEF Tenths
  <1>5. Shaped(chair) /\ chair.pneu = p /\ Still(chair)
    BY <1>1, <1>3, <1>4 DEF Shaped, Still
  <1>6. /\ air = 0 /\ ran = 0 /\ played = 0 /\ vented = 0 /\ overtaken = FALSE /\ finger = "none"
    BY DEF Init
  <1>7. Own(p) /\ Vents(p, 0) /\ Timed(p, 0, 0) /\ Pauses(p, TRUE)
    BY <1>2 DEF Own, Vents, Timed, Pauses
  <1>8. Cell(p, 0, FALSE, TRUE, "none")
    BY <1>2, Ceiling DEF Cell, Lit
  <1>9. Still(chair) = TRUE
    BY <1>5 DEF Still
  <1> QED
    BY <1>5, <1>6, <1>7, <1>8, <1>9 DEF IInv

LEMMA Steps ==
    ASSUME IInv, Next
    PROVE  IInv' /\ StepPlays /\ VentRuns
  <1>1. PICK d \in Durations :
           \/ Quiet(d) \/ MassageTap(d) \/ MassageLevel(d) \/ LumbarPress(d)
           \/ LumbarRelease(d) \/ RollOver(d) \/ Recall(d) \/ PowerOff(d)
    BY DEF Next
  <1>2. CASE Quiet(d)
    BY <1>2, QuietPreserves
  <1>3. CASE MassageTap(d)
    BY <1>3, MassageTapPreserves
  <1>4. CASE MassageLevel(d)
    BY <1>4, MassageLevelPreserves
  <1>5. CASE LumbarPress(d)
    BY <1>5, LumbarPressPreserves
  <1>6. CASE LumbarRelease(d)
    BY <1>6, LumbarReleasePreserves
  <1>7. CASE RollOver(d)
    BY <1>7, RollOverPreserves
  <1>8. CASE Recall(d)
    BY <1>8, RecallPreserves
  <1>9. CASE PowerOff(d)
    BY <1>9, PowerOffPreserves
  <1> QED
    BY <1>1, <1>2, <1>3, <1>4, <1>5, <1>6, <1>7, <1>8, <1>9

LEMMA Stutters == IInv /\ UNCHANGED vars => IInv'
  BY DEF vars, IInv

\* What every pass relies on and leaves behind.
THEOREM Inductive == Spec => []IInv
  <1>1. IInv /\ [Next]_vars => IInv'
    BY Steps, Stutters
  <1> QED
    BY <1>1, AtPowerOn, PTL DEF Spec

LEMMA Implies == IInv => OneOwner /\ LumbarCeiling /\ LevelIsAir /\ MassageEnds
  <1> SUFFICES ASSUME IInv
               PROVE  OneOwner /\ LumbarCeiling /\ LevelIsAir /\ MassageEnds
    OBVIOUS
  <1>1. OneOwner
    BY DEF IInv, Own, OneOwner
  <1>2. LumbarCeiling
    BY Ceiling, Bounds DEF IInv, Cell, LumbarCeiling
  <1>3. LevelIsAir
    BY DEF IInv, Cell, LevelIsAir
  <1>4. MassageEnds
    BY DEF IInv, Timed, MassageEnds
  <1> QED
    BY <1>1, <1>2, <1>3, <1>4

\* Massage, lumbar and the vent share one set of valves (pneumatics.c): never do
\* two of them hold it, through every sequence of presses, recalls and pauses.
THEOREM NeverTwoOwners == Spec => []OneOwner
  BY Inductive, Implies, PTL

\* LUMBAR_INFLATE_MAX_MS: the cell's valve is open for no longer, over all the
\* presses, pauses and resumed targets of one inflation, but for a pass.
THEOREM CeilingHolds == Spec => []LumbarCeiling
  BY Inductive, Implies, PTL

\* lumbar_stop_at: the level held is the time of the open valve, pauses taken out,
\* but for a pass and the rounding, unless a press came while it was paused.
THEOREM LevelIsEarned == Spec => []LevelIsAir
  BY Inductive, Implies, PTL

\* MASSAGE_TIMEOUT_MS: the massage runs no longer, pauses apart, but for a pass.
THEOREM MassageAlwaysEnds == Spec => []MassageEnds
  BY Inductive, Implies, PTL

\* massage_tick: a step of the pattern is left only when it has played for its
\* length, however often motions have paused it.
THEOREM PatternResumes == Spec => StepsPlay
  <1>1. IInv /\ [Next]_vars => [StepPlays]_vars
    BY Steps
  <1> QED
    BY <1>1, Inductive, PTL DEF Spec, StepsPlay

\* vent_tick: a vent that began is stopped before its time only by the massage or
\* lumbar taking the valves.
THEOREM VentsAreWhole == Spec => VentsComplete
  <1>1. IInv /\ [Next]_vars => [VentRuns]_vars
    BY Steps
  <1> QED
    BY <1>1, Inductive, PTL DEF Spec, VentsComplete

=============================================================================
