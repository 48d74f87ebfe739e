-------------------------- MODULE MotionProperties --------------------------
(***************************************************************************)
(* What must be true of motion.c.  The refinement of Drive is the promise  *)
(* to the hardware; the rest is about the two detectors, the latches and   *)
(* the position estimate.                                                  *)
(***************************************************************************)
EXTENDS Motion

\* The type invariant of the record, the reading and the history variables.
TypeOK ==
    /\ motion \in MotionState
    /\ adc \in Readings
    /\ open_age \in 0 .. SETTLE
    /\ held \in [level : {"none", "zero", "high"}, age : Nat]

-----------------------------------------------------------------------------
(* The promise to the relays.                                              *)

\* Which motors the closed contacts drive.  A single contact of a recline
\* pair does nothing alone but fixes the polarity, so it counts.
Driven(m) ==
    {w \in Recline \cup Headrest :
        \/ w = "recline_up"    /\ m.closed \cap UpPair # {}
        \/ w = "recline_down"  /\ m.closed \cap DownPair # {}
        \/ w = "headrest_up"   /\ "EN" \in m.closed /\ m.headrest_dir = "up"
        \/ w = "headrest_down" /\ "EN" \in m.closed /\ m.headrest_dir = "down"}

Relays == INSTANCE Drive WITH
    DEAD <- SETTLE, LIMIT <- TIMEOUT, drive <- Driven(motion),
    on_age <- IF Driving(motion) THEN motion.running_age ELSE 0

\* motion_request and motion_update, in any sequence of requests, readings and
\* pass lengths, do to the relays only what Drive allows: a dead time of
\* MOTION_SETTLE_MS before any contact, no polarity change under load, never
\* two directions, never longer than MOTION_TIMEOUT_MS.
RelaysSafe == Relays!Spec

\* The second contact of a motion closes in a later pass than the first, and
\* later by MOTION_STAGGER_MS less one pass: it is timed from the request, and
\* the first may have come one pass late.
Staggered ==
    [][motion.seq # "running" /\ motion'.seq = "running" =>
          /\ motion.seq = "first" /\ motion'.requested = motion.requested
          /\ \E longest \in Durations : motion'.running_age + longest > STAGGER]_vars

-----------------------------------------------------------------------------
(* The latches.                                                            *)

\* After a fault or an arrival nothing is requested or closed until every
\* button is released: the press that ran into something cannot drive into it
\* again, and the relays do not chatter against an open limit switch.
LatchedIsStopped ==
    Latched(motion) => motion.requested = NONE /\ ~Driving(motion)

\* What the contacts must be at each point of the sequence.
EngagedBy(m) ==
    CASE m.seq = "first"   -> engage_first(m.requested)
      [] m.seq = "running" -> engage_first(m.requested) \cup engage_second(m.requested)
      [] OTHER -> {}

Wired(m) ==
    /\ m.requested = NONE <=> m.seq = "idle"
    /\ m.closed = EngagedBy(m)
    /\ m.requested = "headrest_up" => m.headrest_dir = "up"
    /\ m.requested \in {"headrest_down", "flatten"} => m.headrest_dir = "down"
    /\ Latched(m) => m.requested = NONE

\* Every contact has been open since the request that is settling.
Rested ==
    motion.seq = "settling" =>
        motion.requested_age < SETTLE /\ motion.requested_age <= open_age

\* The inductive invariant behind RelaysSafe and LatchedIsStopped: at the end
\* of every pass the contacts are those of the point the sequence has reached,
\* the settle has been spent with all of them open, and no motion has outlived
\* the ceiling.
RelayInv ==
    /\ TypeOK
    /\ Wired(motion)
    /\ Rested
    /\ Driving(motion) => motion.running_age <= TIMEOUT

-----------------------------------------------------------------------------
(* The detectors.                                                          *)

\* A motor that draws stall current is cut off at the first such reading
\* MOTION_STALL_MS after the first of an unbroken stretch.
StallIsCut ==
    Driving(motion) /\ held.level = "high" /\ adc = "high" => held.age < STALL

\* A recline motor whose limit switch has opened is cut off within a pass of
\* MOTION_ARRIVED_MS, once detection is armed.
EndOfTravelIsCut ==
    Driving(motion) /\ arrival_applies(motion.requested) /\ held.level = "zero" =>
        \/ held.age < ARRIVED
        \/ \E longest \in Durations :
              motion.running_age < ARM + ARRIVED + longest

\* A motor that meets something, or the end of its travel, is cut off in time.
MotorIsCut == StallIsCut /\ EndOfTravelIsCut

NewlyArrived == motion'.arrived_latched /\ ~motion.arrived_latched
NewlyFaulted == motion'.fault_latched /\ ~motion.fault_latched

\* Nothing but a zero that this motion has held for MOTION_ARRIVED_MS, counted
\* from MOTION_ARM_MS at the earliest, is taken for the end of the travel; and
\* the headrest, which reads as zero all the way, never is.
ArrivalIsEarned ==
    [][NewlyArrived =>
          /\ arrival_applies(motion.requested)
          /\ held'.level = "zero" /\ held'.age >= ARRIVED
          /\ motion'.running_age >= ARM + ARRIVED]_vars

\* motion.h:47, "The hold time exists to ride out inrush": a motion ends as a
\* fault only after MOTION_STALL_MS of stall readings of its own, or at the
\* ceiling.
InrushRidesOut ==
    [][NewlyFaulted =>
          \/ held'.level = "high" /\ held'.age >= STALL
          \/ motion'.running_age > TIMEOUT]_vars

-----------------------------------------------------------------------------
(* The position estimate.                                                  *)

Distance(a, b) == IF a > b THEN a - b ELSE b - a

\* Only time with that axis driven counts as travel, each pass at most once:
\* the settle is not travel, nor is the time since an earlier motion.
\* (Reaching a stop is meant to be the exception.)
EstimateFollowsDrive ==
    [][~NewlyArrived =>
          \A axis \in {"pos_recline", "pos_headrest"} :
             motion'[axis] # motion[axis] =>
                /\ Driven(motion) \cap (IF axis = "pos_recline" THEN Recline
                                        ELSE Headrest) # {}
                /\ Distance(motion'[axis], motion[axis])
                      <= motion'.running_age - motion.running_age]_vars

\* motion.c:339, "At a stop the axis is at a known end of its travel, whatever
\* the estimate had accumulated, so the estimate is replaced".
ArrivalReplacesEstimate ==
    [][NewlyArrived =>
          /\ motion.requested = "recline_up" => motion'.pos_recline = TRAVEL_RECLINE
          /\ motion.requested = "recline_down" => motion'.pos_recline = 0
          /\ motion.requested = "flatten" =>
                motion'.pos_recline = 0 /\ motion'.pos_headrest = 0]_vars

=============================================================================
