------------------------------- MODULE Relays -------------------------------
(***************************************************************************)
(* Recline and headrest: src/src/motion.c, default (ENHANCED) build.       *)
(*                                                                         *)
(* The file's static variables and the five relay pins it writes are one   *)
(* record, and each of its functions is an operator from that record to    *)
(* the next one, so that a caller that makes several calls in one pass of   *)
(* the main loop composes them exactly as the code does.                  *)
(*                                                                         *)
(* A time stamp is kept as its age, the value of  ms_ticks - stamp,  which  *)
(* is the only way the code ever reads one.  Writing ms_ticks to the stamp  *)
(* sets the age to 0, and Elapse adds the length of a pass to every age.    *)
(* An age stops at the largest value it is compared with.                  *)
(*                                                                         *)
(* Operators named Slip... are plausible mistakes in the operator that     *)
(* follows them.  No specification uses one: they stand in for it when the  *)
(* properties are tested for being able to fail.                           *)
(***************************************************************************)
EXTENDS Naturals

CONSTANTS
    SETTLE,          \* MOTION_SETTLE_MS: request to first contact
    STAGGER,         \* MOTION_STAGGER_MS: first contact to second
    TIMEOUT,         \* MOTION_TIMEOUT_MS: ceiling on one motion
    STALL,           \* MOTION_STALL_MS: how long stall current must hold
    ARM,             \* MOTION_ARM_MS: first contact to arrival detection
    ARRIVED,         \* MOTION_ARRIVED_MS: how long zero must hold
    TRAVEL_RECLINE,  \* MOTION_TRAVEL_RECLINE_MS
    TRAVEL_HEADREST, \* MOTION_TRAVEL_HEADREST_MS
    Durations        \* how long a pass of the main loop can take

ASSUME MotionConstants ==
    /\ SETTLE \in Nat \ {0}
    /\ {STAGGER, TIMEOUT, STALL, ARM, ARRIVED} \subseteq Nat
    /\ {TRAVEL_RECLINE, TRAVEL_HEADREST} \subseteq Nat
    /\ Durations \subseteq Nat

-----------------------------------------------------------------------------
(* Motions, relay contacts and readings of the sense channel.              *)

NONE     == "none"
Recline  == {"recline_up", "recline_down"}
Headrest == {"headrest_up", "headrest_down"}
Motions  == Recline \cup Headrest \cup {"flatten"}

\* A and B drive the recline motor up, C and D drive it down; EN is the
\* headrest enable, whose direction is a pin of its own.
UpPair   == {"A", "B"}
DownPair == {"C", "D"}
Contacts == UpPair \cup DownPair \cup {"EN"}

\* The ADC as motion.c distinguishes it: zero, below or above
\* MOTION_STALL_ADC, or 0xFFFFFFFF for a conversion that timed out.
Readings == {"zero", "low", "high", "failed"}

\* Which motions can end themselves at a stop.
arrival_applies(want) == want \in Recline \cup {"flatten"}

MotionState ==
    [requested       : Motions \cup {NONE},
     seq             : {"idle", "settling", "first", "running"},
     closed          : SUBSET Contacts,
     headrest_dir    : {"up", "down"},
     fault_latched   : BOOLEAN,
     arrived_latched : BOOLEAN,
     over            : BOOLEAN,
     zero            : BOOLEAN,
     requested_age   : 0 .. SETTLE + STAGGER,
     running_age     : Nat,
     over_age        : 0 .. STALL,
     zero_age        : 0 .. ARRIVED,
     track_age       : Nat,
     pos_recline     : 0 .. TRAVEL_RECLINE,
     pos_headrest    : 0 .. TRAVEL_HEADREST]

\* Zeroed statics; gpio_init leaves every output low.
PowerOn ==
    [requested |-> NONE, seq |-> "idle", closed |-> {}, headrest_dir |-> "up",
     fault_latched |-> FALSE, arrived_latched |-> FALSE,
     over |-> FALSE, zero |-> FALSE,
     requested_age |-> 0, running_age |-> 0, over_age |-> 0, zero_age |-> 0,
     track_age |-> 0, pos_recline |-> 0, pos_headrest |-> 0]

AtMost(cap, n) == IF n > cap THEN cap ELSE n

\* An age that is not read until its stamp is next written stays at 0:
\* over_age while ~over, zero_age while ~zero, and the others while nothing is
\* requested.
Elapse(m, d) ==
    LET live == m.requested # NONE IN
    [m EXCEPT
        !.requested_age = IF live THEN AtMost(SETTLE + STAGGER, @ + d) ELSE 0,
        !.running_age   = IF live THEN @ + d ELSE 0,
        !.track_age     = IF live THEN @ + d ELSE 0,
        !.over_age      = IF m.over THEN AtMost(STALL, @ + d) ELSE 0,
        !.zero_age      = IF m.zero THEN AtMost(ARRIVED, @ + d) ELSE 0]

-----------------------------------------------------------------------------
(* motion_stop and motion_request.                                         *)

motion_stop(m) == [m EXCEPT !.closed = {}, !.requested = NONE, !.seq = "idle"]

select_direction(m, want) ==
    [m EXCEPT !.headrest_dir =
        IF want = "headrest_up" THEN "up"
        ELSE IF want \in {"headrest_down", "flatten"} THEN "down"
        ELSE @]

Latched(m) == m.fault_latched \/ m.arrived_latched

Unlatch(m) == [m EXCEPT !.fault_latched = FALSE, !.arrived_latched = FALSE]

\* The relays are not opened first.
SlipBeginDriving(m, want) ==
    [select_direction(m, want) EXCEPT
        !.requested = want, !.requested_age = 0, !.seq = "settling",
        !.zero = FALSE, !.running_age = 0, !.track_age = 0]

\* The zero count is carried over from the previous motion.
SlipBeginCounting(m, want) ==
    [SlipBeginDriving(motion_stop(m), want) EXCEPT !.zero = m.zero]

\* A new motion starts with every contact open.  (running_ms and track_ms are
\* written when the first one closes and not read before: their ages restart
\* here only so that they do not grow while they mean nothing.)
Begin(m, want) ==
    [select_direction(motion_stop(m), want) EXCEPT
        !.requested = want, !.requested_age = 0, !.seq = "settling",
        !.zero = FALSE, !.running_age = 0, !.track_age = 0]

\* Only the fault latch refuses a request.
SlipRequestAtStop(m, want) ==
    IF want = NONE
    THEN IF m.requested = NONE THEN Unlatch(m) ELSE motion_stop(Unlatch(m))
    ELSE IF m.fault_latched \/ want = m.requested THEN m ELSE Begin(m, want)

motion_request(m, want) ==
    IF want = NONE
    THEN IF m.requested = NONE THEN Unlatch(m) ELSE motion_stop(Unlatch(m))
    ELSE IF Latched(m) \/ want = m.requested THEN m ELSE Begin(m, want)

-----------------------------------------------------------------------------
(* motion_update: the relay sequence, dead reckoning and the three stops.  *)

engage_first(want) ==
    {c \in Contacts :
        \/ c = "A"  /\ want = "recline_up"
        \/ c = "C"  /\ want \in {"recline_down", "flatten"}
        \/ c = "EN" /\ want \in Headrest \cup {"flatten"}}

engage_second(want) ==
    {c \in Contacts :
        \/ c = "B" /\ want = "recline_up"
        \/ c = "D" /\ want \in {"recline_down", "flatten"}}

\* track_ms is not stamped: the settle counts as travel.
SlipCloseFirst(m) ==
    [m EXCEPT !.closed = @ \cup engage_first(m.requested), !.seq = "first",
              !.running_age = 0]

CloseFirst(m) ==
    [m EXCEPT !.closed = @ \cup engage_first(m.requested), !.seq = "first",
              !.running_age = 0, !.track_age = 0]

CloseSecond(m) ==
    [m EXCEPT !.closed = @ \cup engage_second(m.requested), !.seq = "running"]

\* A missing break between the cases of the switch.
SlipSequence(m) ==
    LET first == IF m.seq = "settling" /\ m.requested_age >= SETTLE
                 THEN CloseFirst(m) ELSE m
    IN  IF first.seq = "first" /\ m.requested_age >= SETTLE + STAGGER
        THEN CloseSecond(first) ELSE first

Sequence(m) ==
    IF m.seq = "settling" /\ m.requested_age >= SETTLE THEN CloseFirst(m)
    ELSE IF m.seq = "first" /\ m.requested_age >= SETTLE + STAGGER
    THEN CloseSecond(m)
    ELSE m

\* advance: saturate at both ends of the travel.
Raise(pos, travel, d) == IF pos + d > travel THEN travel ELSE pos + d
Lower(pos, d)         == IF d > pos THEN 0 ELSE pos - d

track(m) ==
    LET d == m.track_age IN
    [m EXCEPT
        !.track_age   = 0,
        !.pos_recline =
            IF m.requested = "recline_up" THEN Raise(@, TRAVEL_RECLINE, d)
            ELSE IF m.requested \in {"recline_down", "flatten"} THEN Lower(@, d)
            ELSE @,
        !.pos_headrest =
            IF m.requested = "headrest_up" THEN Raise(@, TRAVEL_HEADREST, d)
            ELSE IF m.requested \in {"headrest_down", "flatten"} THEN Lower(@, d)
            ELSE @]

\* A failed conversion taken for a low reading.
SlipOvercurrent(m, current) ==
    IF current # "high" THEN [m EXCEPT !.over = FALSE]
    ELSE IF m.over THEN m ELSE [m EXCEPT !.over = TRUE, !.over_age = 0]

\* stalled(): what the static pair over, over_since_ms becomes, and the verdict.
Overcurrent(m, current) ==
    CASE current = "failed"         -> m
      [] current \in {"zero", "low"} -> [m EXCEPT !.over = FALSE]
      [] OTHER -> IF m.over THEN m ELSE [m EXCEPT !.over = TRUE, !.over_age = 0]

stalled(m, current) == current = "high" /\ m.over /\ m.over_age >= STALL

\* arrived(): the same for zero, zero_since_ms, only once armed.
Armed(m) == arrival_applies(m.requested) /\ m.running_age >= ARM

\* zero_since_ms is stamped by every zero reading, not by the first.
SlipUndercurrent(m, current) ==
    IF ~Armed(m) THEN m
    ELSE IF current # "zero" THEN [m EXCEPT !.zero = FALSE]
    ELSE [m EXCEPT !.zero = TRUE, !.zero_age = 0]

Undercurrent(m, current) ==
    IF ~Armed(m) THEN m
    ELSE IF current # "zero" THEN [m EXCEPT !.zero = FALSE]
    ELSE IF m.zero THEN m ELSE [m EXCEPT !.zero = TRUE, !.zero_age = 0]

arrived(m, current) ==
    Armed(m) /\ current = "zero" /\ m.zero /\ m.zero_age >= ARRIVED

\* The switch over `requested` that puts the estimate at the end of its travel.
AtStop(m) ==
    [m EXCEPT
        !.pos_recline =
            IF m.requested = "recline_up" THEN TRAVEL_RECLINE
            ELSE IF m.requested \in {"recline_down", "flatten"} THEN 0
            ELSE @,
        !.pos_headrest =
            IF m.requested = "headrest_up" THEN TRAVEL_HEADREST
            ELSE IF m.requested \in {"headrest_down", "flatten"} THEN 0
            ELSE @]

Fault(m) == [motion_stop(m) EXCEPT !.fault_latched = TRUE]

\* In the code's order: motion_stop clears `requested` before the switch.
Arrive(m) == AtStop([motion_stop(m) EXCEPT !.arrived_latched = TRUE])

EndTimeout(m) == IF m.running_age > TIMEOUT THEN Fault(m) ELSE m

EndArrival(m, current) ==
    IF arrived(m, current) THEN Arrive(m) ELSE EndTimeout(Undercurrent(m, current))

EndStall(m, current) ==
    IF stalled(m, current) THEN Fault(m)
    ELSE EndArrival(Overcurrent(m, current), current)

motion_update(m, current) ==
    IF m.requested = NONE \/ Sequence(m).seq = "settling"
    THEN m
    ELSE EndStall(track(Sequence(m)), current)

=============================================================================
