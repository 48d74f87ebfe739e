---------------------------- MODULE AdjustProofs ----------------------------
(***************************************************************************)
(* The window the buttons are borrowed for, for every length of its phases,  *)
(* every number of lamps and however late the passes come.                   *)
(*                                                                         *)
(* A pass is two things: time goes by and a call may be made, and then       *)
(* adjust_update catches up.  Due is what holds between the two.             *)
(***************************************************************************)
EXTENDS AdjustProperties, TLAPS

\* How long a lamp of the fill can take.
Lamp == BAR_STEP + Longest

IsBar(a) ==
    a \in [phase : {"off", "in", "hold", "confirm", "out"},
           step : Nat, step_age : Nat, hold_age : Nat, hold_span : Nat,
           owner : Owners \cup {NOBODY}, level : Nat, armed : BOOLEAN]

\* The buttons are borrowed for no longer than the window, and with an owner.
Borrowed(a) ==
    /\ a.armed => Showing(a) /\ a.hold_span <= ADJUST_ARM
    /\ a.phase # "off" => a.owner # NOBODY

\* q is how long the bar has been due, f whether it was deferred.  While the bar
\* fills in, that time is in its lamps; then it is in the wait as well.
Spent(a, q) ==
    /\ a.phase = "in" =>
          /\ a.step \in 1 .. LEVEL_MAX /\ a.level \in Levels
          /\ a.step_age = 0 \/ a.step_age < BAR_STEP
          /\ q <= (a.step - 1) * Lamp + a.step_age
    /\ a.phase = "hold" =>
          /\ a.hold_age = 0 \/ a.hold_age < a.hold_span
          /\ q <= Fill + a.hold_age

\* What is left of the wait of a bar that was deferred.
Left(a, q) ==
    /\ a.phase = "in" => a.hold_span >= SHORT
    /\ a.phase = "hold" => a.hold_age + SHORT <= a.hold_span + q
    /\ ~Showing(a) => q >= SHORT

Inv(a, q, f) ==
    /\ IsBar(a) /\ q \in Nat /\ f \in BOOLEAN
    /\ Borrowed(a) /\ Spent(a, q)
    /\ f => Left(a, q)

AdjustInv == Inv(adjust, asked, deferred)

\* The same when a step or the wait may be over and adjust_update has not seen it.
Due(a, q, f) ==
    /\ IsBar(a) /\ q \in Nat /\ f \in BOOLEAN
    /\ Borrowed(a)
    /\ a.phase = "in" =>
          /\ a.step \in 1 .. LEVEL_MAX /\ a.level \in Levels
          /\ q <= (a.step - 1) * Lamp + Lamp
          /\ a.step_age < BAR_STEP => q <= (a.step - 1) * Lamp + a.step_age
    /\ a.phase = "hold" /\ a.hold_age < a.hold_span => q <= Fill + a.hold_age
    /\ f => /\ a.phase = "in" => a.hold_span >= SHORT
            /\ a.phase = "hold" =>
                  IF a.hold_age < a.hold_span THEN a.hold_age + SHORT <= a.hold_span + q ELSE q >= SHORT
            /\ ~Showing(a) => q >= SHORT

-----------------------------------------------------------------------------
(* Times.                                                                   *)

LEMMA LongestPass == Longest \in Nat /\ \A d \in Durations : d \in Nat /\ d <= Longest
  BY AdjustConstants, WindowConstants DEF Longest

LEMMA LongestPhase == LongestStep \in Nat /\ BAR_STEP <= LongestStep
  <1> DEFINE S == {BAR_STEP, BAR_EXIT, CONFIRM}
  <1>1. S \subseteq Nat
    BY AdjustConstants
  <1>2. \E n \in S : \A k \in S : k <= n
    <2>1. CASE BAR_STEP >= BAR_EXIT /\ BAR_STEP >= CONFIRM
      BY <1>1, <2>1
    <2>2. CASE BAR_EXIT >= BAR_STEP /\ BAR_EXIT >= CONFIRM
      BY <1>1, <2>2
    <2>3. CASE CONFIRM >= BAR_STEP /\ CONFIRM >= BAR_EXIT
      BY <1>1, <2>3
    <2> QED
      BY <1>1, <2>1, <2>2, <2>3
  <1> QED
    BY <1>1, <1>2 DEF LongestStep

LEMMA Times ==
    /\ Lamp \in Nat /\ Fill \in Nat /\ Window \in Nat
    /\ BAR_STEP \in Nat /\ Lamp = BAR_STEP + Longest /\ Window >= SHORT
  BY AdjustConstants, LongestPass DEF Lamp, Fill, Window

\* The lamps up to one of them fit in the fill.
LEMMA LampsFit ==
    ASSUME NEW s \in 1 .. LEVEL_MAX
    PROVE  /\ (s - 1) * Lamp \in Nat
           /\ ((s + 1) - 1) * Lamp = (s - 1) * Lamp + Lamp
           /\ (s - 1) * Lamp + Lamp <= Fill
  <1>1. LEVEL_MAX \in Nat /\ Lamp \in Nat /\ Fill = LEVEL_MAX * Lamp
    BY AdjustConstants, Times DEF Lamp, Fill
  <1>2. (s - 1) * Lamp \in Nat /\ (s - 1) * Lamp + Lamp = s * Lamp
    BY <1>1
  <1>3. s * Lamp <= LEVEL_MAX * Lamp
    BY <1>1
  <1> QED
    BY <1>1, <1>2, <1>3

-----------------------------------------------------------------------------
(* Time goes by.                                                            *)

LEMMA ElapseKeeps ==
    ASSUME NEW a, NEW q, NEW f, Inv(a, q, f), NEW d \in Durations
    PROVE  /\ Due(ElapseAdjust(a, d), UpTo(Window, q + d), f)
           /\ Showing(ElapseAdjust(a, d)) = Showing(a)
  <1> DEFINE b == ElapseAdjust(a, d)
             r == UpTo(Window, q + d)
  <1>1. IsBar(a) /\ q \in Nat /\ f \in BOOLEAN /\ Borrowed(a) /\ Spent(a, q) /\ (f => Left(a, q))
    BY DEF Inv
  <1>2. d \in Nat /\ d <= Longest /\ Longest \in Nat
    BY LongestPass
  <1>3. r \in Nat /\ r <= q + d /\ (r = q + d \/ r >= SHORT)
    BY <1>1, <1>2, Times, AdjustConstants DEF UpTo
  <1> HIDE DEF r
  <1>4. CASE a.phase = "off"
    <2>1. /\ IsBar(b) /\ b.phase = "off" /\ b.armed = a.armed /\ b.owner = a.owner
      BY <1>1, <1>4 DEF ElapseAdjust, AdjustOff, IsBar, NOBODY
    <2>2. f => r >= SHORT
      BY <1>1, <1>2, <1>3, <1>4, AdjustConstants DEF Left, Showing
    <2> QED
      BY <1>1, <1>3, <1>4, <2>1, <2>2 DEF Due, Borrowed, Showing, r
  <1>5. CASE a.phase = "in"
    <2>1. /\ IsBar(b) /\ b.phase = "in" /\ b.armed = a.armed /\ b.owner = a.owner /\ b.step = a.step
          /\ b.level = a.level /\ b.hold_span = a.hold_span /\ b.step_age = UpTo(LongestStep, a.step_age + d)
      <3> DEFINE g == UpTo(LongestStep, a.step_age + d)
      <3>1. g \in Nat
        BY <1>1, <1>2, LongestPhase DEF UpTo, IsBar
      <3>2. b = [a EXCEPT !.step_age = g, !.hold_age = 0]
        BY <1>5 DEF ElapseAdjust
      <3> HIDE DEF g, b
      <3>3. IsBar(b) /\ b.step_age = g
        BY <1>1, <3>1, <3>2 DEF IsBar
      <3> QED
        BY <1>1, <1>5, <3>2, <3>3 DEF g, IsBar
    <2>2. b.step_age \in Nat /\ (b.step_age < BAR_STEP => b.step_age = a.step_age + d)
      BY <1>1, <1>2, <2>1, LongestPhase, Times DEF IsBar, UpTo
    <2>3. a.step_age + d <= Lamp /\ a.step_age \in Nat
      BY <1>1, <1>2, <1>5, Times DEF Spent, IsBar
    <2>4. (a.step - 1) * Lamp \in Nat /\ a.step \in 1 .. LEVEL_MAX /\ a.level \in Levels
      BY <1>1, <1>5, LampsFit DEF Spent
    <2>5. q <= (a.step - 1) * Lamp + a.step_age
      BY <1>1, <1>5 DEF Spent
    <2> HIDE DEF b
    <2>6. /\ r <= (b.step - 1) * Lamp + Lamp
          /\ b.step_age < BAR_STEP => r <= (b.step - 1) * Lamp + b.step_age
      BY <1>1, <1>2, <1>3, <2>1, <2>2, <2>3, <2>4, <2>5, Times
    <2>7. f => b.hold_span >= SHORT
      BY <1>1, <1>5, <2>1 DEF Left
    <2>8. Due(b, r, f)
      BY <1>1, <1>3, <1>5, <2>1, <2>4, <2>6, <2>7 DEF Due, Borrowed, Showing
    <2> QED
      BY <1>5, <2>1, <2>8 DEF b, r, Showing
  <1>6. CASE a.phase = "hold"
    <2>1. /\ IsBar(b) /\ b.phase = "hold" /\ b.armed = a.armed /\ b.owner = a.owner
          /\ b.hold_span = a.hold_span /\ b.hold_age = UpTo(a.hold_span, a.hold_age + d)
      <3> DEFINE g == UpTo(a.hold_span, a.hold_age + d)
      <3>1. g \in Nat
        BY <1>1, <1>2 DEF UpTo, IsBar
      <3>2. b = [a EXCEPT !.step_age = 0, !.hold_age = g]
        BY <1>6 DEF ElapseAdjust
      <3> HIDE DEF g, b
      <3>3. IsBar(b) /\ b.hold_age = g
        BY <1>1, <3>1, <3>2 DEF IsBar
      <3> QED
        BY <1>1, <1>6, <3>2, <3>3 DEF g, IsBar
    <2>2. /\ a.hold_age \in Nat /\ a.hold_span \in Nat /\ b.hold_age \in Nat
          /\ b.hold_age < b.hold_span => b.hold_age = a.hold_age + d
          /\ b.hold_age >= b.hold_span => a.hold_age + d >= a.hold_span
      BY <1>1, <1>2, <2>1 DEF IsBar, UpTo
    <2>3. q <= Fill + a.hold_age /\ Fill \in Nat
      BY <1>1, <1>6, Times DEF Spent
    <2>4. f => a.hold_age + SHORT <= a.hold_span + q
      BY <1>1, <1>6 DEF Left
    <2> HIDE DEF b
    <2>5. b.hold_age < b.hold_span => r <= Fill + b.hold_age
      BY <1>1, <1>2, <1>3, <2>2, <2>3
    <2>6. f => IF b.hold_age < b.hold_span THEN b.hold_age + SHORT <= b.hold_span + r ELSE r >= SHORT
      BY <1>1, <1>2, <1>3, <2>1, <2>2, <2>4, AdjustConstants
    <2>7. Due(b, r, f)
      BY <1>1, <1>3, <1>6, <2>1, <2>5, <2>6 DEF Due, Borrowed, Showing
    <2> QED
      BY <1>6, <2>1, <2>7 DEF b, r, Showing
  <1>7. CASE a.phase \in {"confirm", "out"}
    <2>1. /\ IsBar(b) /\ b.phase = a.phase /\ b.armed = a.armed /\ b.owner = a.owner
      <3> DEFINE g == UpTo(LongestStep, a.step_age + d)
      <3>1. g \in Nat
        BY <1>1, <1>2, LongestPhase DEF UpTo, IsBar
      <3>2. b = [a EXCEPT !.step_age = g, !.hold_age = 0]
        BY <1>7 DEF ElapseAdjust
      <3> HIDE DEF g, b
      <3> QED
        BY <1>1, <3>1, <3>2 DEF IsBar
    <2>2. f => r >= SHORT
      BY <1>1, <1>2, <1>3, <1>7, AdjustConstants DEF Left, Showing
    <2> QED
      BY <1>1, <1>3, <1>7, <2>1, <2>2 DEF Due, Borrowed, Showing, r
  <1> QED
    BY <1>1, <1>4, <1>5, <1>6, <1>7 DEF IsBar

-----------------------------------------------------------------------------
(* The calls.                                                               *)

\* A bar put up or taken down has not been due yet.
LEMMA StartKeeps ==
    ASSUME NEW a, NEW q, NEW f, Due(a, q, f), NEW who \in Owners, NEW want \in Levels,
           NEW span \in {READOUT, ADJUST_ARM}, NEW arm \in BOOLEAN, arm => span = ADJUST_ARM
    PROVE  Due([StartBar(a, who, want, span) EXCEPT !.armed = arm], 0, FALSE)
  <1> DEFINE b == [StartBar(a, who, want, span) EXCEPT !.armed = arm]
  <1>1. IsBar(a) /\ span \in Nat /\ want \in Nat /\ who # NOBODY
    BY AdjustConstants DEF Due, Levels, Owners, NOBODY
  <1>2. 1 \in 1 .. LEVEL_MAX /\ Fill \in Nat /\ Lamp \in Nat
    BY AdjustConstants, Times
  <1>3. CASE Showing(a)
    <2>1. b = [a EXCEPT !.owner = who, !.level = want, !.hold_age = 0, !.hold_span = span, !.armed = arm]
      BY <1>1, <1>3 DEF StartBar, IsBar
    <2> HIDE DEF b
    <2>2. /\ IsBar(b) /\ b.phase = a.phase /\ b.step = a.step /\ b.owner = who /\ b.level = want
          /\ b.hold_age = 0 /\ b.hold_span = span /\ b.armed = arm /\ b.step_age = a.step_age
      BY <1>1, <2>1 DEF IsBar
    <2>3. b.phase = "in" => b.step \in 1 .. LEVEL_MAX /\ (b.step - 1) * Lamp \in Nat /\ b.step_age \in Nat
      BY <1>1, <2>2, LampsFit DEF Due, IsBar
    <2>4. Borrowed(b)
      BY <1>1, <1>3, <2>2, AdjustConstants DEF Borrowed, Showing
    <2>5. Due(b, 0, FALSE)
      BY <1>2, <2>2, <2>3, <2>4 DEF Due
    <2> QED
      BY <2>5 DEF b
  <1>4. CASE ~Showing(a)
    <2>1. b = [a EXCEPT !.owner = who, !.level = want, !.hold_span = span,
                        !.phase = "in", !.step = 1, !.step_age = 0, !.armed = arm]
      BY <1>1, <1>4 DEF StartBar, IsBar
    <2> HIDE DEF b
    <2>2. /\ IsBar(b) /\ b.phase = "in" /\ b.step = 1 /\ b.owner = who /\ b.level = want
          /\ b.hold_span = span /\ b.armed = arm /\ b.step_age = 0
      BY <1>1, <2>1 DEF IsBar
    <2>3. (b.step - 1) * Lamp \in Nat
      BY <1>2, <2>2, LampsFit
    <2>4. Borrowed(b)
      BY <1>1, <2>2, AdjustConstants DEF Borrowed, Showing
    <2>5. Due(b, 0, FALSE)
      BY <1>2, <2>2, <2>3, <2>4 DEF Due
    <2> QED
      BY <2>5 DEF b
  <1> QED
    BY <1>3, <1>4

LEMMA DeferKeeps ==
    ASSUME NEW a, NEW q, NEW f, Due(a, q, f)
    PROVE  Due(adjust_defer(a, SHORT), 0, Showing(a))
  <1> DEFINE b == adjust_defer(a, SHORT)
  <1>1. /\ IsBar(a) /\ Borrowed(a) /\ SHORT \in Nat /\ Fill \in Nat /\ SHORT <= ADJUST_ARM /\ Lamp \in Nat
        /\ ADJUST_ARM \in Nat
    BY AdjustConstants, WindowConstants, Times DEF Due
  <1>2. CASE a.phase = "in"
    <2>1. b = IF a.hold_span < SHORT THEN [a EXCEPT !.hold_span = SHORT] ELSE a
      BY <1>2 DEF adjust_defer
    <2> HIDE DEF b
    <2>2. /\ IsBar(b) /\ b.phase = "in" /\ b.armed = a.armed /\ b.owner = a.owner /\ b.step = a.step
          /\ b.level = a.level /\ b.step_age = a.step_age /\ b.hold_span >= SHORT
          /\ b.hold_span = a.hold_span \/ b.hold_span = SHORT
      BY <1>1, <1>2, <2>1 DEF IsBar
    <2>3. b.step \in 1 .. LEVEL_MAX /\ b.level \in Levels /\ (b.step - 1) * Lamp \in Nat /\ b.step_age \in Nat
      BY <1>1, <1>2, <2>2, LampsFit DEF Due, IsBar
    <2>4. Borrowed(b)
      BY <1>1, <1>2, <2>2 DEF Borrowed, Showing
    <2>5. Due(b, 0, TRUE)
      BY <1>1, <2>2, <2>3, <2>4 DEF Due, Showing
    <2> QED
      BY <1>2, <2>5 DEF b, Showing
  <1>3. CASE a.phase = "hold"
    <2>1. b = IF a.hold_span < a.hold_age + SHORT THEN [a EXCEPT !.hold_age = 0, !.hold_span = SHORT] ELSE a
      BY <1>3 DEF adjust_defer
    <2> HIDE DEF b
    <2>2. IsBar(b)
      BY <1>1, <2>1 DEF IsBar
    <2>3. /\ b.phase = "hold" /\ b.armed = a.armed /\ b.owner = a.owner
          /\ b.hold_age + SHORT <= b.hold_span
          /\ b.hold_span = a.hold_span \/ b.hold_span = SHORT
      <3>1. a.hold_age \in Nat /\ a.hold_span \in Nat
        BY <1>1 DEF IsBar
      <3>2. CASE a.hold_span < a.hold_age + SHORT
        BY <1>1, <1>3, <2>1, <3>1, <3>2 DEF IsBar
      <3>3. CASE ~(a.hold_span < a.hold_age + SHORT)
        BY <1>1, <1>3, <2>1, <3>1, <3>3
      <3> QED
        BY <3>2, <3>3
    <2>4. b.hold_age \in Nat /\ b.hold_span \in Nat
      BY <2>2 DEF IsBar
    <2>5. Borrowed(b)
      BY <1>1, <1>3, <2>3 DEF Borrowed, Showing
    <2>6. /\ b.hold_age < b.hold_span => 0 <= Fill + b.hold_age
          /\ IF b.hold_age < b.hold_span THEN b.hold_age + SHORT <= b.hold_span + 0 ELSE 0 >= SHORT
      BY <1>1, <2>3, <2>4
    <2>7. Due(b, 0, TRUE)
      BY <2>2, <2>3, <2>5, <2>6 DEF Due, Showing
    <2> QED
      BY <1>3, <2>7 DEF b, Showing
  <1>4. CASE ~Showing(a)
    <2>1. b = a /\ a.phase # "in" /\ a.phase # "hold"
      BY <1>4 DEF adjust_defer, Showing
    <2> QED
      BY <1>1, <1>4, <2>1 DEF Due, Showing
  <1> QED
    BY <1>2, <1>3, <1>4 DEF Showing

LEMMA SlideKeeps ==
    ASSUME NEW a, NEW q, NEW f, Due(a, q, f)
    PROVE  Due(slide_out(a), q, FALSE)
  <1>1. IsBar(a) /\ Borrowed(a) /\ q \in Nat
    BY DEF Due
  <1>2. CASE a.phase \in {"off", "out"}
    <2>1. slide_out(a) = [a EXCEPT !.armed = FALSE]
      BY <1>2 DEF slide_out
    <2> QED
      BY <1>1, <1>2, <2>1 DEF Due, Borrowed, IsBar, Showing
  <1>3. CASE a.phase \notin {"off", "out"}
    <2> DEFINE b == slide_out(a)
    <2>1. b = [a EXCEPT !.armed = FALSE, !.phase = "out", !.step = 1, !.step_age = 0]
      BY <1>3 DEF slide_out
    <2> HIDE DEF b
    <2>2. IsBar(b) /\ b.phase = "out" /\ ~b.armed /\ b.owner = a.owner
      BY <1>1, <2>1 DEF IsBar
    <2>3. Due(b, q, FALSE)
      BY <1>1, <1>3, <2>2 DEF Due, Borrowed, Showing
    <2> QED
      BY <2>3 DEF b
  <1> QED
    BY <1>2, <1>3

LEMMA EndKeeps ==
    ASSUME NEW a, NEW q, NEW f, Due(a, q, f), NEW want \in Levels, NEW who \in Owners
    PROVE  /\ Due(adjust_pick(a, want), q, FALSE)
           /\ Due(adjust_accept(a), q, FALSE)
           /\ Due(adjust_dismiss(a), q, FALSE)
           /\ Due(adjust_close(a, who), q, FALSE)
  <1>1. IsBar(a) /\ Borrowed(a) /\ q \in Nat /\ Due(a, q, FALSE)
    BY DEF Due
  <1>2. Due(adjust_pick(a, want), q, FALSE)
    <2>1. CASE a.armed
      <3> DEFINE b == adjust_pick(a, want)
      <3>1. b = [a EXCEPT !.level = want, !.armed = FALSE,
                          !.phase = "confirm", !.step = 0, !.step_age = 0]
        BY <2>1 DEF adjust_pick
      <3> HIDE DEF b
      <3>2. want \in Nat
        BY AdjustConstants DEF Levels
      <3>3. a.owner # NOBODY
        BY <1>1, <2>1 DEF Borrowed, Showing
      <3>4. IsBar(b) /\ b.phase = "confirm" /\ ~b.armed /\ b.owner = a.owner
        BY <1>1, <3>1, <3>2 DEF IsBar
      <3>5. Due(b, q, FALSE)
        BY <1>1, <3>3, <3>4 DEF Due, Borrowed, Showing
      <3> QED
        BY <3>5 DEF b
    <2> QED
      BY <1>1, <2>1 DEF adjust_pick
  <1>3. Due(adjust_accept(a), q, FALSE) /\ Due(adjust_dismiss(a), q, FALSE)
    BY <1>1, SlideKeeps DEF adjust_accept, adjust_dismiss
  <1>4. Due(adjust_close(a, who), q, FALSE)
    <2>1. CASE a.owner = who
      <3>1. adjust_close(a, who) = [a EXCEPT !.phase = "off", !.armed = FALSE, !.owner = NOBODY]
        BY <2>1 DEF adjust_close
      <3> QED
        BY <1>1, <3>1 DEF Due, Borrowed, IsBar, Showing
    <2> QED
      BY <1>1, <2>1 DEF adjust_close
  <1> QED
    BY <1>2, <1>3, <1>4

-----------------------------------------------------------------------------
(* adjust_update.                                                           *)

LEMMA UpdateKeeps ==
    ASSUME NEW a, NEW q, NEW f, Due(a, q, f)
    PROVE  Inv(adjust_update(a), q, f)
  <1> DEFINE b == adjust_update(a)
  <1>1. IsBar(a) /\ Borrowed(a) /\ q \in Nat /\ f \in BOOLEAN /\ SHORT \in Nat /\ BAR_STEP \in Nat
    BY AdjustConstants DEF Due
  <1>2. CASE a.phase = "in"
    <2>1. b = FillIn(a)
      BY <1>2 DEF adjust_update
    <2>2. /\ a.step \in 1 .. LEVEL_MAX /\ a.level \in Levels /\ a.owner # NOBODY /\ a.step_age \in Nat
          /\ (a.step - 1) * Lamp \in Nat /\ (a.step - 1) * Lamp + Lamp <= Fill
          /\ ((a.step + 1) - 1) * Lamp = (a.step - 1) * Lamp + Lamp
      BY <1>1, <1>2, LampsFit DEF Due, Borrowed, IsBar
    <2>3. CASE a.step_age < BAR_STEP
      <3>1. b = a
        BY <2>1, <2>3 DEF FillIn
      <3> QED
        BY <1>1, <1>2, <2>2, <2>3, <3>1 DEF Due, Inv, Spent, Left, Showing
    <2>4. CASE a.step_age >= BAR_STEP /\ a.step + 1 >= a.level
      <3>1. b = [a EXCEPT !.step = a.step + 1, !.step_age = 0, !.phase = "hold", !.hold_age = 0]
        BY <1>1, <2>1, <2>2, <2>4 DEF FillIn, Stepped, IsBar
      <3> HIDE DEF b
      <3>2. /\ IsBar(b) /\ b.phase = "hold" /\ b.hold_age = 0 /\ b.hold_span = a.hold_span
            /\ b.armed = a.armed /\ b.owner = a.owner
        <4> DEFINE s == a.step + 1
        <4>1. s \in Nat
          BY <2>2
        <4>2. b = [a EXCEPT !.step = s, !.step_age = 0, !.phase = "hold", !.hold_age = 0]
          BY <3>1
        <4> HIDE DEF s
        <4> QED
          BY <1>1, <4>1, <4>2 DEF IsBar
      <3>3. q <= Fill /\ Fill \in Nat /\ a.hold_span \in Nat
        BY <1>1, <1>2, <2>2, Times DEF Due, IsBar
      <3>4. f => SHORT <= a.hold_span
        BY <1>2 DEF Due
      <3>5. Inv(b, q, f)
        BY <1>1, <1>2, <2>2, <3>2, <3>3, <3>4 DEF Inv, Borrowed, Spent, Left, Showing
      <3> QED
        BY <3>5 DEF b
    <2>5. CASE a.step_age >= BAR_STEP /\ a.step + 1 < a.level
      <3>1. b = [a EXCEPT !.step = a.step + 1, !.step_age = 0]
        BY <1>1, <2>1, <2>2, <2>5 DEF FillIn, Stepped, IsBar, Levels
      <3> HIDE DEF b
      <3>2. /\ IsBar(b) /\ b.phase = "in" /\ b.step = a.step + 1 /\ b.step_age = 0
            /\ b.hold_span = a.hold_span /\ b.armed = a.armed /\ b.owner = a.owner /\ b.level = a.level
        <4> DEFINE s == a.step + 1
        <4>1. s \in Nat
          BY <2>2
        <4>2. b = [a EXCEPT !.step = s, !.step_age = 0]
          BY <3>1
        <4> HIDE DEF s
        <4>3. /\ IsBar(b) /\ b.phase = a.phase /\ b.step = s /\ b.step_age = 0 /\ b.hold_span = a.hold_span
              /\ b.armed = a.armed /\ b.owner = a.owner /\ b.level = a.level
          BY <1>1, <4>1, <4>2 DEF IsBar
        <4> QED
          BY <1>2, <4>3 DEF s
      <3>3. b.step \in 1 .. LEVEL_MAX
        BY <2>2, <2>5, <3>2, AdjustConstants DEF Levels
      <3>4. q <= (b.step - 1) * Lamp + b.step_age
        BY <1>1, <1>2, <2>2, <3>2, Times DEF Due
      <3>5. f => b.hold_span >= SHORT
        BY <1>2, <3>2 DEF Due
      <3>6. Inv(b, q, f)
        BY <1>1, <1>2, <2>2, <3>2, <3>3, <3>4, <3>5 DEF Inv, Borrowed, Spent, Left, Showing
      <3> QED
        BY <3>6 DEF b
    <2> QED
      BY <1>1, <2>2, <2>3, <2>4, <2>5, AdjustConstants DEF Levels
  <1>3. CASE a.phase = "hold" /\ a.hold_age < a.hold_span
    <2>1. b = a
      BY <1>1, <1>3 DEF adjust_update, IsBar
    <2> QED
      BY <1>1, <1>3, <2>1 DEF Due, Inv, Spent, Left, Showing, IsBar
  <1>4. CASE a.phase = "hold" /\ a.hold_age >= a.hold_span
    <2>1. b = [a EXCEPT !.armed = FALSE, !.phase = "out", !.step = 1, !.step_age = 0]
      BY <1>4 DEF adjust_update, slide_out
    <2> HIDE DEF b
    <2>2. IsBar(b) /\ b.phase = "out" /\ ~b.armed /\ b.owner = a.owner /\ a.owner # NOBODY
      BY <1>1, <1>4, <2>1 DEF IsBar, Borrowed
    <2>3. f => q >= SHORT
      BY <1>1, <1>4 DEF Due, IsBar
    <2>4. Inv(b, q, f)
      BY <1>1, <2>2, <2>3 DEF Inv, Borrowed, Spent, Left, Showing
    <2> QED
      BY <2>4 DEF b
  <1>5. CASE a.phase \in {"confirm", "out", "off"}
    <2>1. ~a.armed /\ (f => q >= SHORT)
      BY <1>1, <1>5 DEF Due, Borrowed, Showing
    <2>2. \/ b = a
          \/ b = Stepped(a)
          \/ b = Gone(Stepped(a))
      BY <1>5 DEF adjust_update, Flash, Slide
    <2>3. IsBar(Stepped(a)) /\ Stepped(a).phase = a.phase /\ ~Stepped(a).armed /\ Stepped(a).owner = a.owner
      <3> DEFINE s == a.step + 1
      <3>1. s \in Nat
        BY <1>1 DEF IsBar
      <3>2. Stepped(a) = [a EXCEPT !.step = s, !.step_age = 0]
        BY <1>1 DEF Stepped, IsBar
      <3> HIDE DEF s
      <3> DEFINE c == Stepped(a)
      <3>3. c = [a EXCEPT !.step = s, !.step_age = 0]
        BY <3>2
      <3> HIDE DEF c
      <3>4. IsBar(c) /\ c.phase = a.phase /\ c.armed = a.armed /\ c.owner = a.owner
        BY <1>1, <3>1, <3>3 DEF IsBar
      <3> QED
        BY <2>1, <3>4 DEF c
    <2>4. IsBar(Gone(Stepped(a))) /\ Gone(Stepped(a)).phase = "off" /\ ~Gone(Stepped(a)).armed
      BY <2>3 DEF IsBar, Gone
    <2> HIDE DEF b
    <2>5. IsBar(b) /\ ~b.armed /\ ~Showing(b) /\ (b.phase # "off" => b.owner # NOBODY)
      BY <1>1, <1>5, <2>1, <2>2, <2>3, <2>4 DEF Borrowed, Showing
    <2>6. Inv(b, q, f)
      BY <1>1, <2>1, <2>5 DEF Inv, Borrowed, Spent, Left, Showing
    <2> QED
      BY <2>6 DEF b
  <1> QED
    BY <1>1, <1>2, <1>3, <1>4, <1>5 DEF IsBar

-----------------------------------------------------------------------------
(* The specification.                                                       *)

LEMMA InitInv ==
    ASSUME Init
    PROVE  AdjustInv
  BY DEF Init, AdjustInv, Inv, IsBar, AdjustOff, Borrowed, Spent, NOBODY

LEMMA NextInv ==
    ASSUME AdjustInv, NEW d \in Durations, Quiet(d) \/ Show(d) \/ Open(d) \/ Defer(d) \/ End(d)
    PROVE  AdjustInv'
  <1> DEFINE a == ElapseAdjust(adjust, d)
             q == UpTo(Window, asked + d)
  <1>1. Due(a, q, deferred) /\ Showing(a) = Showing(adjust)
    BY ElapseKeeps DEF AdjustInv
  <1> HIDE DEF a, q
  <1>2. CASE Quiet(d)
    BY <1>1, <1>2, UpdateKeeps DEF Quiet, Step, AdjustInv, a, q
  <1>3. CASE Show(d)
    <2>1. PICK who \in Owners, want \in Levels : Ask(adjust_show(a, who, want))
      BY <1>3 DEF Show, a
    <2>2. Due(adjust_show(a, who, want), 0, FALSE)
      BY <1>1, StartKeeps DEF adjust_show
    <2> QED
      BY <1>3, <2>1, <2>2, UpdateKeeps DEF Show, Ask, AdjustInv
  <1>4. CASE Open(d)
    <2>1. PICK who \in Owners, want \in Levels : Ask(adjust_open(a, who, want))
      BY <1>4 DEF Open, a
    <2>2. Due(adjust_open(a, who, want), 0, FALSE)
      BY <1>1, StartKeeps DEF adjust_open
    <2> QED
      BY <1>4, <2>1, <2>2, UpdateKeeps DEF Open, Ask, AdjustInv
  <1>5. CASE Defer(d)
    <2>1. Due(adjust_defer(a, SHORT), 0, Showing(a))
      BY <1>1, DeferKeeps
    <2>2. adjust' = adjust_update(adjust_defer(a, SHORT)) /\ asked' = 0 /\ deferred' = Showing(a)
      BY <1>1, <1>5 DEF Defer, Ask, a
    <2> QED
      BY <2>1, <2>2, UpdateKeeps DEF AdjustInv
  <1>6. CASE End(d)
    <2>1. PICK b : Step(d, b) /\ Due(b, q, FALSE)
      <3>1. \A want \in Levels, who \in Owners :
               /\ Due(adjust_pick(a, want), q, FALSE) /\ Due(adjust_accept(a), q, FALSE)
               /\ Due(adjust_dismiss(a), q, FALSE) /\ Due(adjust_close(a, who), q, FALSE)
        BY <1>1, EndKeeps
      <3>2. 1 \in Levels /\ "heat" \in Owners
        BY AdjustConstants DEF Levels, Owners
      <3>3. CASE \E want \in Levels : Step(d, adjust_pick(a, want))
        <4>1. PICK want \in Levels : Step(d, adjust_pick(a, want))
          BY <3>3
        <4>2. Due(adjust_pick(a, want), q, FALSE)
          BY <3>1, <3>2
        <4> QED
          BY <4>1, <4>2
      <3>4. CASE Step(d, adjust_accept(a))
        BY <3>1, <3>2, <3>4
      <3>5. CASE Step(d, adjust_dismiss(a))
        BY <3>1, <3>2, <3>5
      <3>6. CASE \E who \in Owners : Step(d, adjust_close(a, who))
        <4>1. PICK who \in Owners : Step(d, adjust_close(a, who))
          BY <3>6
        <4>2. Due(adjust_close(a, who), q, FALSE)
          BY <3>1, <3>2
        <4> QED
          BY <4>1, <4>2
      <3> QED
        BY <1>6, <3>3, <3>4, <3>5, <3>6 DEF End, a
    <2> QED
      BY <1>6, <2>1, UpdateKeeps DEF End, Step, AdjustInv, q
  <1> QED
    BY <1>2, <1>3, <1>4, <1>5, <1>6

\* The bar's invariant: what its ages say of the time it has been up.
THEOREM BarInvariant == Spec => []AdjustInv
  <1>1. Init => AdjustInv
    BY InitInv
  <1>2. AdjustInv /\ [Next]_vars => AdjustInv'
    <2>1. CASE Next
      BY <2>1, NextInv DEF Next
    <2>2. CASE UNCHANGED vars
      BY <2>2 DEF vars, AdjustInv
    <2> QED
      BY <2>1, <2>2
  <1> QED
    BY <1>1, <1>2, PTL DEF Spec

\* Nothing borrows the motion buttons without a bar that says so, nor for longer
\* than its lamps and one wait, whatever is called when and however late.
THEOREM WindowsClose == Spec => []WindowCloses
  <1>1. AdjustInv => WindowCloses
    <2> SUFFICES ASSUME AdjustInv, adjust.armed
                 PROVE  Showing(adjust) /\ asked <= Fill + ADJUST_ARM + Longest
      BY DEF WindowCloses, AdjustInv, Inv, Borrowed
    <2>1. IsBar(adjust) /\ asked \in Nat /\ Showing(adjust)
         /\ adjust.hold_span <= ADJUST_ARM /\ Spent(adjust, asked)
      BY DEF AdjustInv, Inv, Borrowed
    <2>2. CASE adjust.phase = "in"
      <3>1. /\ (adjust.step - 1) * Lamp \in Nat /\ (adjust.step - 1) * Lamp + Lamp <= Fill
            /\ asked <= (adjust.step - 1) * Lamp + adjust.step_age
            /\ adjust.step_age = 0 \/ adjust.step_age < BAR_STEP
        BY <2>1, <2>2, LampsFit DEF Spent
      <3> QED
        BY <2>1, <3>1, Times, LongestPass, AdjustConstants DEF IsBar
    <2>3. CASE adjust.phase = "hold"
      BY <2>1, <2>3, Times, LongestPass, AdjustConstants DEF IsBar, Spent
    <2> QED
      BY <2>1, <2>2, <2>3 DEF Showing
  <1> QED
    BY <1>1, BarInvariant, PTL

\* A bar up when its owner's button goes down outlasts the time that press has to
\* become a hold, whichever phase it was in.
THEOREM DeferralLasts == Spec => []DeferredStaysUp
  <1>1. AdjustInv => DeferredStaysUp
    BY AdjustConstants DEF AdjustInv, Inv, Left, DeferredStaysUp
  <1> QED
    BY <1>1, BarInvariant, PTL

=============================================================================
