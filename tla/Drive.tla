-------------------------------- MODULE Drive --------------------------------
(***************************************************************************)
(* What src/src/motion.c promises the motors and their relays, whatever is *)
(* asked of it (motion.h, "Relay sequencing" and MOTION_TIMEOUT_MS):       *)
(*   - a motor is driven one way at a time, and the polarity never changes *)
(*     while any contact is closed;                                        *)
(*   - every contact has been open for DEAD before one closes;             *)
(*   - one stretch of driving never outlives LIMIT.                        *)
(* The state is the set of motors driven, each with its direction.         *)
(***************************************************************************)
EXTENDS Naturals

CONSTANTS DEAD, LIMIT, Durations

VARIABLES drive,    \* the motors being driven, with their polarity
          open_age, \* how long nothing has been driven, up to DEAD
          on_age    \* how long this stretch of driving has lasted

vars == <<drive, open_age, on_age>>

\* Never both polarities of one motor.
Engagements ==
    {e \in SUBSET {"recline_up", "recline_down", "headrest_up", "headrest_down"} :
        /\ ~({"recline_up", "recline_down"} \subseteq e)
        /\ ~({"headrest_up", "headrest_down"} \subseteq e)}

Init == drive = {} /\ open_age = 0 /\ on_age = 0

Rested(d) == IF open_age + d > DEAD THEN DEAD ELSE open_age + d

\* Nothing is driven for another d.
Wait(d) ==
    /\ drive = {} /\ drive' = {}
    /\ open_age' = Rested(d)
    /\ on_age' = 0

\* Contacts close, after a dead time.
Close(d) ==
    /\ drive = {} /\ drive' \in Engagements \ {{}}
    /\ Rested(d) >= DEAD /\ open_age' = Rested(d)
    /\ on_age' = 0

\* The same motors stay driven, the same way, within the ceiling.
Hold(d) ==
    /\ drive # {} /\ drive' = drive
    /\ open_age' = 0
    /\ on_age + d <= LIMIT /\ on_age' = on_age + d

\* Everything opens.
Open ==
    /\ drive # {} /\ drive' = {}
    /\ open_age' = 0
    /\ on_age' = 0

Next == Open \/ \E d \in Durations : Wait(d) \/ Close(d) \/ Hold(d)

Spec == Init /\ [][Next]_vars

=============================================================================
