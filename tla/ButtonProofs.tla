---------------------------- MODULE ButtonProofs ----------------------------
(***************************************************************************)
(* Proofs about Button, for every set of buttons, every set of thresholds   *)
(* a pass is short against, and every width of the clock.                   *)
(***************************************************************************)
EXTENDS ButtonProperties, TLAPS

\* What the clock does to an age: it stays in the word, and is the age it
\* would have been until that first reaches a whole turn.
LEMMA Wrapped ==
    ASSUME NEW n \in Nat
    PROVE  n % WORD \in Tick /\ (n < WORD => n % WORD = n)
  BY PressConstants DEF Tick

-----------------------------------------------------------------------------
(* What one call of button_update does to the fields the properties read.   *)

LEMMA Elapsed ==
    ASSUME NEW b \in ButtonState, NEW d \in Durations
    PROVE  /\ Elapse(b, d) \in ButtonState
           /\ Elapse(b, d).prev = b.prev /\ Elapse(b, d).hold_done = b.hold_done
           /\ Elapse(b, d).tapped = b.tapped /\ Elapse(b, d).tap_button = b.tap_button
           /\ b.tapped => Elapse(b, d).tap_age = (b.tap_age + d) % WORD
  <1> DEFINE down == IF b.prev # NONE /\ ~b.hold_done THEN (b.down_age + d) % WORD ELSE 0
             tap  == IF b.tapped THEN (b.tap_age + d) % WORD ELSE 0
  <1>1. b.down_age + d \in Nat /\ b.tap_age + d \in Nat
    BY PressConstants DEF ButtonState, Tick
  <1>2. down \in Tick /\ tap \in Tick
    <2>1. 0 \in Tick
      BY PressConstants DEF Tick
    <2> QED BY <1>1, <2>1, Wrapped
  <1>3. Elapse(b, d) = [b EXCEPT !.down_age = down, !.tap_age = tap]
    BY DEF Elapse
  <1> HIDE DEF down, tap
  <1>4. /\ Elapse(b, d) \in ButtonState
        /\ Elapse(b, d).prev = b.prev /\ Elapse(b, d).hold_done = b.hold_done
        /\ Elapse(b, d).tapped = b.tapped /\ Elapse(b, d).tap_button = b.tap_button
        /\ Elapse(b, d).tap_age = tap
    BY <1>2, <1>3 DEF ButtonState
  <1> QED BY <1>4 DEF tap

LEMMA UpdatedType ==
    ASSUME NEW b \in ButtonState, NEW code \in Codes
    PROVE  /\ Updated(b, code) \in ButtonState
           /\ Updated(b, code).prev = code
  <1>1. 0 \in Tick /\ NONE \in Codes
    BY PressConstants DEF Tick, Codes
  <1> QED
    BY <1>1 DEF Updated, Released, Pressed, ButtonState

LEMMA ReportedType ==
    ASSUME NEW b \in ButtonState, NEW code \in Codes
    PROVE  Reported(b, code) \in [kind : Kinds, button : Codes]
  BY DEF Reported, Event, Kinds, ButtonState

-----------------------------------------------------------------------------
(* The inductive invariant: the ages the code keeps are the real ones until  *)
(* they wrap.                                                               *)

AgesInv ==
    /\ quiet < WORD => frame_age = quiet
    /\ button.tapped /\ since_tap < WORD => button.tap_age = since_tap

ButtonInv == TypeOK /\ SilentIsReleased /\ AgesInv

LEMMA InitInv == Init => ButtonInv
  <1> SUFFICES ASSUME Init PROVE ButtonInv
    OBVIOUS
  <1>1. 0 \in Tick /\ NONE \in Codes
    BY PressConstants DEF Tick, Codes
  <1>2. TypeOK
    BY <1>1, PressConstants DEF TypeOK, Init, PowerOn, ButtonState, Event, Kinds
  <1>3. SilentIsReleased /\ AgesInv
    BY DEF SilentIsReleased, AgesInv, Init, PowerOn
  <1> QED BY <1>2, <1>3 DEF ButtonInv

LEMMA UpToType ==
    ASSUME NEW cap \in Nat, NEW n \in Nat
    PROVE  UpTo(cap, n) \in 0 .. cap /\ UpTo(cap, n) <= n /\ (UpTo(cap, n) < cap => UpTo(cap, n) = n)
  BY DEF UpTo

\* The line to the handset: which code is believed, and for how long.
LEMMA HeardInv ==
    ASSUME TypeOK, AgesInv, NEW d \in Durations, finger' \in Codes, Heard \/ Unheard(d)
    PROVE  /\ last_button' \in Codes /\ frame_age' \in Tick /\ quiet' \in 0 .. WORD
           /\ quiet' < WORD => frame_age' = quiet'
           /\ HeardButton \in Codes
           /\ quiet' > SILENT /\ quiet' < WORD => HeardButton = NONE
  <1>1. d \in Nat /\ WORD \in Nat \ {0} /\ SILENT \in Nat
    BY PressConstants, SilenceConstants
  <1>2. frame_age + d \in Nat /\ quiet + d \in Nat
    BY <1>1 DEF TypeOK, Tick
  <1>3. CASE Heard
    BY <1>1, <1>3 DEF Heard, Tick, HeardButton, Codes
  <1>4. CASE Unheard(d)
    <2>1. last_button' \in Codes /\ frame_age' \in Tick /\ quiet' \in 0 .. WORD
      BY <1>1, <1>2, <1>4, Wrapped, UpToType DEF Unheard, TypeOK
    <2>2. ASSUME quiet' < WORD PROVE frame_age' = quiet'
      <3>1. quiet' = quiet + d
        BY <1>1, <1>2, <1>4, <2>2, UpToType DEF Unheard
      <3>2. frame_age = quiet
        BY <1>1, <2>2, <3>1 DEF AgesInv, TypeOK
      <3>3. (frame_age + d) % WORD = frame_age + d
        BY <1>1, <1>2, <2>2, <3>1, <3>2, Wrapped
      <3> QED BY <1>4, <3>1, <3>2, <3>3 DEF Unheard
    <2>3. HeardButton \in Codes
      BY <2>1 DEF HeardButton, Codes
    <2>4. quiet' > SILENT /\ quiet' < WORD => HeardButton = NONE
      BY <2>2 DEF HeardButton
    <2> QED BY <2>1, <2>2, <2>3, <2>4
  <1> QED BY <1>3, <1>4

\* What a report says of the tap on record, before and after.
LEMMA TapRecord ==
    ASSUME NEW b \in ButtonState, NEW code \in Codes
    PROVE  LET kind == Reported(b, code).kind
               next == Updated(b, code)
           IN  /\ kind = "tap" => next.tapped /\ next.tap_age = 0
               /\ kind = "double_tap" => b.tapped /\ b.tap_age <= DOUBLE /\ ~next.tapped
               /\ kind \notin {"tap", "double_tap"} =>
                     /\ next.tapped = b.tapped /\ next.tap_button = b.tap_button
                     /\ next.tap_age = b.tap_age
  <1>1. CASE code = b.prev
    BY <1>1 DEF Reported, Updated, Event, ButtonState
  <1>2. CASE code # b.prev /\ code # NONE
    BY <1>2 DEF Reported, Updated, Pressed, Event, ButtonState
  <1>3. CASE code # b.prev /\ code = NONE /\ b.hold_done
    BY <1>3 DEF Reported, Updated, Released, Event, ButtonState
  <1>4. CASE code # b.prev /\ code = NONE /\ ~b.hold_done /\ Doubles(b)
    BY <1>4 DEF Reported, Updated, Released, Event, ButtonState, Doubles
  <1>5. CASE code # b.prev /\ code = NONE /\ ~b.hold_done /\ ~Doubles(b)
    BY <1>5 DEF Reported, Updated, Released, Event, ButtonState
  <1> QED BY <1>1, <1>2, <1>3, <1>4, <1>5

LEMMA PassInv ==
    ASSUME ButtonInv, NEW d \in Durations, Pass(d)
    PROVE  ButtonInv'
  <1> DEFINE e == Elapse(button, d)
  <1> USE DEF ButtonInv
  <1>1. /\ d \in Nat /\ WORD \in Nat \ {0}
        /\ button \in ButtonState /\ since_tap \in Nat /\ since_tap + d \in Nat
    BY PressConstants, SilenceConstants DEF TypeOK
  <1>2. /\ last_button' \in Codes /\ frame_age' \in Tick /\ quiet' \in 0 .. WORD
        /\ quiet' < WORD => frame_age' = quiet'
        /\ HeardButton \in Codes
        /\ quiet' > SILENT /\ quiet' < WORD => HeardButton = NONE
    BY HeardInv DEF Pass
  <1>3. /\ e \in ButtonState
        /\ e.tapped = button.tapped
        /\ e.tapped => e.tap_age = (button.tap_age + d) % WORD
    BY <1>1, Elapsed
  <1>4. /\ button' = Updated(e, HeardButton)
        /\ event' = Reported(e, HeardButton)
        /\ since_tap' = IF event'.kind = "tap" THEN 0 ELSE UpTo(WORD, since_tap + d)
        /\ finger' \in Codes
    BY DEF Pass, Observe
  <1>5. lifted' \in BOOLEAN
    BY DEF Pass, Observe, TypeOK
  <1> HIDE DEF e
  <1>6. /\ button' \in ButtonState /\ button'.prev = HeardButton
        /\ event' \in [kind : Kinds, button : Codes]
    BY <1>2, <1>3, <1>4, UpdatedType, ReportedType
  <1>7. since_tap' \in 0 .. WORD
    BY <1>1, <1>4, UpToType
  <1>8. TypeOK'
    BY <1>2, <1>4, <1>5, <1>6, <1>7 DEF TypeOK
  <1>9. SilentIsReleased'
    BY <1>2, <1>6 DEF SilentIsReleased
  <1>10. ASSUME button'.tapped, since_tap' < WORD PROVE button'.tap_age = since_tap'
    <2>1. CASE event'.kind = "tap"
      BY <1>2, <1>3, <1>4, <2>1, TapRecord
    <2>2. CASE event'.kind # "tap"
      <3>1. button.tapped /\ button'.tap_age = (button.tap_age + d) % WORD
        BY <1>2, <1>3, <1>4, <1>10, <2>2, TapRecord
      <3>2. since_tap' = since_tap + d
        BY <1>1, <1>4, <1>10, <2>2, UpToType
      <3>3. button.tap_age = since_tap
        BY <1>1, <1>10, <3>1, <3>2 DEF AgesInv
      <3> QED BY <1>1, <1>10, <3>1, <3>2, <3>3, Wrapped
    <2> QED BY <2>1, <2>2
  <1>11. AgesInv'
    BY <1>2, <1>10 DEF AgesInv
  <1> QED BY <1>8, <1>9, <1>11

LEMMA StutterInv == ButtonInv /\ UNCHANGED vars => ButtonInv'
  BY DEF ButtonInv, TypeOK, SilentIsReleased, AgesInv, vars

\* The invariant of button.c and of the handset's age: the ages are real until
\* they wrap, and a silence releases every button.
THEOREM ButtonInvariant == Spec => []ButtonInv
  <1>1. Init => ButtonInv
    BY InitInv
  <1>2. ButtonInv /\ [Next]_vars => ButtonInv'
    BY PassInv, StutterInv DEF Next
  <1> QED BY <1>1, <1>2, PTL DEF Spec

\* A disconnected handset leaves no button down (control.c, HANDSET_TIMEOUT_MS),
\* for every timeout, until its age wraps.
THEOREM SilenceReleases == Spec => []SilentIsReleased
  <1>1. ButtonInv => SilentIsReleased
    BY DEF ButtonInv
  <1> QED BY <1>1, ButtonInvariant, PTL

-----------------------------------------------------------------------------
(* The two action properties.                                               *)

\* A double tap is never two taps further apart than BUTTON_DOUBLE_MS, short of
\* a whole turn of ms_ticks.
THEOREM DoubleTaps == Spec => DoubleTapInWindow
  <1>1. ASSUME ButtonInv, [Next]_vars
        PROVE  [event'.kind = "double_tap" =>
                  \E d \in Durations : \/ since_tap + d <= DOUBLE
                                       \/ since_tap + d >= WORD]_vars
    <2> SUFFICES ASSUME NEW d \in Durations, Pass(d), event'.kind = "double_tap"
                 PROVE  since_tap + d <= DOUBLE \/ since_tap + d >= WORD
      BY <1>1 DEF Next
    <2> DEFINE e == Elapse(button, d)
    <2>1. /\ button \in ButtonState /\ button.tap_age \in Nat
          /\ since_tap \in Nat /\ d \in Nat /\ WORD \in Nat /\ DOUBLE \in Nat
      BY <1>1, PressConstants DEF ButtonInv, TypeOK, ButtonState, Tick
    <2>2. HeardButton \in Codes
      BY <1>1, HeardInv DEF ButtonInv, Pass
    <2>3. /\ e \in ButtonState /\ e.tapped = button.tapped
          /\ e.tapped => e.tap_age = (button.tap_age + d) % WORD
      BY <2>1, Elapsed
    <2>4. event' = Reported(e, HeardButton)
      BY DEF Pass
    <2> HIDE DEF e
    <2>5. button.tapped /\ (button.tap_age + d) % WORD <= DOUBLE
      BY <2>2, <2>3, <2>4, TapRecord
    <2>6. ASSUME since_tap + d < WORD PROVE since_tap + d <= DOUBLE
      <3>1. button.tap_age = since_tap
        BY <1>1, <2>1, <2>5, <2>6 DEF ButtonInv, AgesInv
      <3> QED BY <2>1, <2>5, <2>6, <3>1, Wrapped
    <2> QED BY <2>1, <2>6
  <1> QED BY <1>1, ButtonInvariant, PTL DEF Spec, DoubleTapInWindow

-----------------------------------------------------------------------------
(* The protocol of events.                                                  *)

\* One call of button_update is one step of Gestures, seen through the fields
\* it keeps: the button down, whether its hold is out, and the tap on record.
LEMMA AnswerIsAllowed ==
    ASSUME TypeOK, NEW e \in ButtonState, NEW code \in Codes,
           e.prev = button.prev, e.hold_done = button.hold_done,
           e.tapped = button.tapped, e.tap_button = button.tap_button,
           button' = Updated(e, code), event' = Reported(e, code)
    PROVE  Promised!Next
  <1> USE DEF ButtonState, Event, Codes
  <1>1. NONE \notin Buttons
    BY PressConstants
  <1>2. CASE code = e.prev /\ ~HoldEarned(e, code)
    <2>1. button' = e /\ event' = Event("none", code)
      BY <1>2 DEF Updated, Reported
    <2>2. Promised!Quiet
      BY <1>2, <2>1 DEF Promised!Quiet, Promised!Report
    <2> QED BY <2>2 DEF Promised!Next
  <1>3. CASE code = e.prev /\ HoldEarned(e, code)
    <2>1. /\ button'.prev = e.prev /\ button'.hold_done /\ button'.tapped = e.tapped
          /\ button'.tap_button = e.tap_button /\ event' = Event("hold", code)
      BY <1>3 DEF Updated, Reported
    <2>2. code \in Buttons /\ ~e.hold_done
      BY <1>3 DEF HoldEarned
    <2>3. Promised!Hold
      BY <1>1, <1>3, <2>1, <2>2 DEF Promised!Hold, Promised!Report
    <2> QED BY <2>3 DEF Promised!Next
  <1>4. CASE code # e.prev /\ code # NONE
    <2>1. /\ button'.prev = code /\ ~button'.hold_done /\ button'.tapped = e.tapped
          /\ button'.tap_button = e.tap_button /\ event' = Event("press", code)
      BY <1>4 DEF Updated, Reported, Pressed
    <2>2. Promised!Press(code)
      BY <1>4, <2>1 DEF Promised!Press, Promised!Report
    <2> QED BY <1>4, <2>2 DEF Promised!Next
  <1>5. CASE code # e.prev /\ code = NONE /\ e.hold_done
    <2>1. /\ button'.prev = NONE /\ button'.tapped = e.tapped
          /\ button'.tap_button = e.tap_button /\ event' = Event("hold_release", e.prev)
      BY <1>5 DEF Updated, Reported, Released
    <2>2. Promised!HoldRelease
      BY <1>5, <2>1 DEF Promised!HoldRelease, Promised!Lift, Promised!Report
    <2> QED BY <2>2 DEF Promised!Next
  <1>6. CASE code # e.prev /\ code = NONE /\ ~e.hold_done /\ Doubles(e)
    <2>1. /\ button'.prev = NONE /\ ~button'.tapped /\ event' = Event("double_tap", e.prev)
          /\ e.tapped /\ e.tap_button = e.prev
      BY <1>6 DEF Updated, Reported, Released, Doubles
    <2>2. Promised!DoubleTap
      BY <1>6, <2>1 DEF Promised!DoubleTap, Promised!Lift, Promised!Report
    <2> QED BY <2>2 DEF Promised!Next
  <1>7. CASE code # e.prev /\ code = NONE /\ ~e.hold_done /\ ~Doubles(e)
    <2>1. /\ button'.prev = NONE /\ button'.tapped /\ button'.tap_button = e.prev
          /\ event' = Event("tap", e.prev)
      BY <1>7 DEF Updated, Reported, Released
    <2>2. Promised!Tap
      BY <1>7, <2>1 DEF Promised!Tap, Promised!Lift, Promised!Report
    <2> QED BY <2>2 DEF Promised!Next
  <1> QED BY <1>2, <1>3, <1>4, <1>5, <1>6, <1>7

\* button.c implements the promise of button.h: its events come only in the
\* orders Gestures allows.
THEOREM ImplementsGestures == Spec => Protocol
  <1>1. Init => Promised!Init
    BY DEF Init, PowerOn, Event, Promised!Init
  <1>2. ButtonInv /\ [Next]_vars => [Promised!Next]_Promised!vars
    <2>1. ASSUME ButtonInv, NEW d \in Durations, Pass(d) PROVE Promised!Next
      <3>1. TypeOK /\ button \in ButtonState
        BY <2>1 DEF ButtonInv, TypeOK
      <3>2. HeardButton \in Codes
        BY <2>1, HeardInv DEF ButtonInv, Pass
      <3> QED BY <2>1, <3>1, <3>2, Elapsed, AnswerIsAllowed DEF Pass
    <2>2. ASSUME UNCHANGED vars PROVE UNCHANGED Promised!vars
      BY <2>2 DEF vars, Promised!vars
    <2> QED BY <2>1, <2>2 DEF Next
  <1> QED BY <1>1, <1>2, ButtonInvariant, PTL DEF Spec, Protocol, Promised!Spec

=============================================================================
