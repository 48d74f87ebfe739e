------------------------------- MODULE Motion -------------------------------
(***************************************************************************)
(* The motors by themselves: Relays, asked for any motions in any pass and *)
(* shown any reading.                                                      *)
(***************************************************************************)
EXTENDS Relays

-----------------------------------------------------------------------------
(* One pass of the main loop as far as the motors see it: a new reading,   *)
(* and then control_update asks for motions and runs the sequence.          *)
(*                                                                         *)
(* Two history variables, which nothing in the code reads.  `open_age` is   *)
(* for how long every contact has been open, up to SETTLE; the pass that    *)
(* closes one leaves there how long they had been.  `held` is the zero or   *)
(* stall-level reading that this motion keeps producing, and for how long   *)
(* (a failed conversion interrupts zero, and says nothing about a stall).   *)

VARIABLES motion,
          adc,      \* dbg.adc, the reading of this pass
          open_age, held

vars == <<motion, adc, open_age, held>>

Driving(m) == m.closed # {}

\* motion_update will look at the reading: a contact is closed.
Sensing(m) == m.requested # NONE /\ Sequence(m).seq # "settling"

Nothing == [level |-> "none", age |-> 0]

Init ==
    /\ motion = PowerOn
    /\ adc = "zero"
    /\ open_age = 0
    /\ held = Nothing

Held(d, current) ==
    CASE \/ held.level = current
         \/ held.level = "high" /\ current = "failed" -> [held EXCEPT !.age = @ + d]
      [] held.level # current /\ current \in {"zero", "high"} ->
            [level |-> current, age |-> 0]
      [] OTHER -> Nothing

\* These, and what one more request may make of them.
Asked(ms) == ms \cup {motion_request(m, want) : m \in ms, want \in Motions \cup {NONE}}

\* A pass asks up to four times: a tap begins a macro, preset_update stops one axis
\* and turns to the other, and control_update asks for what is wanted.
AskedInPass(m) == Asked(Asked(Asked(Asked({m}))))

Pass(d, asked, current) ==
    /\ motion' = motion_update(asked, current)
    /\ adc' = current
    /\ open_age' = IF Driving(motion) THEN 0 ELSE AtMost(SETTLE, open_age + d)
    /\ held' = IF Sensing(asked) THEN Held(d, current) ELSE Nothing

\* The reading is sampled before the pass closes anything, so stall current
\* needs a contact that was closed already.
Sampled == IF Driving(motion) THEN Readings ELSE Readings \ {"high"}

Next == \E d \in Durations : \E asked \in AskedInPass(Elapse(motion, d)), current \in Sampled :
            Pass(d, asked, current)

Spec == Init /\ [][Next]_vars

=============================================================================
