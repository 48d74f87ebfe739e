---------------------------- MODULE MotionProofs ----------------------------
(***************************************************************************)
(* Proofs about motion.c, for every value of its thresholds, travel times  *)
(* and pass lengths.                                                       *)
(*                                                                         *)
(* First the type of each operator's result, then what each does to the    *)
(* fields the relays depend on, and then the invariants of Spec.  Records   *)
(* are Zenon's part and arithmetic is SMT's, hence two kinds of leaf.       *)
(***************************************************************************)
EXTENDS MotionProperties, TLAPS

LEMMA Fields ==
    ASSUME NEW m \in MotionState
    PROVE  /\ m.requested \in Motions \cup {NONE}
           /\ m.seq \in {"idle", "settling", "first", "running"}
           /\ m.closed \in SUBSET Contacts
           /\ m.headrest_dir \in {"up", "down"}
           /\ m.fault_latched \in BOOLEAN
           /\ m.arrived_latched \in BOOLEAN
           /\ m.over \in BOOLEAN
           /\ m.zero \in BOOLEAN
           /\ m.requested_age \in 0 .. SETTLE + STAGGER
           /\ m.running_age \in Nat
           /\ m.over_age \in 0 .. STALL
           /\ m.zero_age \in 0 .. ARRIVED
           /\ m.track_age \in Nat
           /\ m.pos_recline \in 0 .. TRAVEL_RECLINE
           /\ m.pos_headrest \in 0 .. TRAVEL_HEADREST
  BY DEF MotionState

LEMMA Zeros ==
    /\ 0 \in Nat
    /\ 0 \in 0 .. SETTLE + STAGGER
    /\ 0 \in 0 .. STALL
    /\ 0 \in 0 .. ARRIVED
    /\ 0 \in 0 .. TRAVEL_RECLINE /\ TRAVEL_RECLINE \in 0 .. TRAVEL_RECLINE
    /\ 0 \in 0 .. TRAVEL_HEADREST /\ TRAVEL_HEADREST \in 0 .. TRAVEL_HEADREST
  BY MotionConstants DEF MotionConstants

LEMMA ElapseType ==
    ASSUME NEW m \in MotionState, NEW d \in Durations
    PROVE  Elapse(m, d) \in MotionState
  <1> DEFINE live == m.requested # NONE
  <1>1. /\ (IF live THEN AtMost(SETTLE + STAGGER, m.requested_age + d) ELSE 0)
              \in 0 .. SETTLE + STAGGER
        /\ (IF live THEN m.running_age + d ELSE 0) \in Nat
        /\ (IF live THEN m.track_age + d ELSE 0) \in Nat
        /\ (IF m.over THEN AtMost(STALL, m.over_age + d) ELSE 0) \in 0 .. STALL
        /\ (IF m.zero THEN AtMost(ARRIVED, m.zero_age + d) ELSE 0) \in 0 .. ARRIVED
    BY Fields, MotionConstants DEF MotionConstants, AtMost
  <1> QED
    BY <1>1, Zenon DEF MotionState, Elapse

LEMMA StopType ==
    ASSUME NEW m \in MotionState
    PROVE  motion_stop(m) \in MotionState
  BY Zenon DEF MotionState, motion_stop

LEMMA SelectType ==
    ASSUME NEW m \in MotionState, NEW want
    PROVE  select_direction(m, want) \in MotionState
  BY DEF MotionState, select_direction

LEMMA BeginType ==
    ASSUME NEW m \in MotionState, NEW want \in Motions
    PROVE  Begin(m, want) \in MotionState
  <1> DEFINE s == select_direction(motion_stop(m), want)
  <1>1. s \in MotionState
    BY StopType, SelectType
  <1> HIDE DEF s
  <1>2. [s EXCEPT !.requested = want, !.requested_age = 0, !.seq = "settling",
                  !.zero = FALSE, !.running_age = 0, !.track_age = 0]
            \in MotionState
    BY <1>1, Zeros, Zenon DEF MotionState
  <1> QED
    BY <1>2 DEF s, Begin

LEMMA UnlatchType ==
    ASSUME NEW m \in MotionState
    PROVE  Unlatch(m) \in MotionState
  BY Zenon DEF MotionState, Unlatch

LEMMA RequestType ==
    ASSUME NEW m \in MotionState, NEW want \in Motions \cup {NONE}
    PROVE  motion_request(m, want) \in MotionState
  BY UnlatchType, StopType, BeginType DEF motion_request

LEMMA FirstType ==
    ASSUME NEW m \in MotionState
    PROVE  CloseFirst(m) \in MotionState
  <1>1. m.closed \cup engage_first(m.requested) \in SUBSET Contacts
    BY Fields DEF engage_first
  <1> QED
    BY <1>1, Zeros, Zenon DEF MotionState, CloseFirst

LEMMA SecondType ==
    ASSUME NEW m \in MotionState
    PROVE  CloseSecond(m) \in MotionState
  <1>1. m.closed \cup engage_second(m.requested) \in SUBSET Contacts
    BY Fields DEF engage_second
  <1> QED
    BY <1>1, Zenon DEF MotionState, CloseSecond

LEMMA SequenceType ==
    ASSUME NEW m \in MotionState
    PROVE  Sequence(m) \in MotionState
  BY FirstType, SecondType DEF Sequence

LEMMA AdvanceType ==
    ASSUME NEW travel \in Nat, NEW pos \in 0 .. travel, NEW d \in Nat
    PROVE  Raise(pos, travel, d) \in 0 .. travel /\ Lower(pos, d) \in 0 .. travel
  BY DEF Raise, Lower

LEMMA TrackType ==
    ASSUME NEW m \in MotionState
    PROVE  track(m) \in MotionState
  <1> DEFINE d == m.track_age
             r == IF m.requested = "recline_up"
                  THEN Raise(m.pos_recline, TRAVEL_RECLINE, d)
                  ELSE IF m.requested \in {"recline_down", "flatten"}
                  THEN Lower(m.pos_recline, d) ELSE m.pos_recline
             h == IF m.requested = "headrest_up"
                  THEN Raise(m.pos_headrest, TRAVEL_HEADREST, d)
                  ELSE IF m.requested \in {"headrest_down", "flatten"}
                  THEN Lower(m.pos_headrest, d) ELSE m.pos_headrest
  <1>1. r \in 0 .. TRAVEL_RECLINE /\ h \in 0 .. TRAVEL_HEADREST
    BY Fields, AdvanceType, MotionConstants DEF MotionConstants
  <1> QED
    BY <1>1, Zeros, Zenon DEF MotionState, track

LEMMA OvercurrentType ==
    ASSUME NEW m \in MotionState, NEW current \in Readings
    PROVE  Overcurrent(m, current) \in MotionState
  <1>1. /\ [m EXCEPT !.over = FALSE] \in MotionState
        /\ [m EXCEPT !.over = TRUE, !.over_age = 0] \in MotionState
    BY Zeros, Zenon DEF MotionState
  <1> QED
    BY <1>1 DEF Overcurrent, Readings

LEMMA UndercurrentType ==
    ASSUME NEW m \in MotionState, NEW current \in Readings
    PROVE  Undercurrent(m, current) \in MotionState
  <1>1. /\ [m EXCEPT !.zero = FALSE] \in MotionState
        /\ [m EXCEPT !.zero = TRUE, !.zero_age = 0] \in MotionState
    BY Zeros, Zenon DEF MotionState
  <1> QED
    BY <1>1 DEF Undercurrent

LEMMA FaultType ==
    ASSUME NEW m \in MotionState
    PROVE  Fault(m) \in MotionState
  BY StopType, Zenon DEF MotionState, Fault, motion_stop

LEMMA AtStopType ==
    ASSUME NEW m \in MotionState
    PROVE  AtStop(m) \in MotionState
  <1> DEFINE r == IF m.requested = "recline_up" THEN TRAVEL_RECLINE
                  ELSE IF m.requested \in {"recline_down", "flatten"} THEN 0
                  ELSE m.pos_recline
             h == IF m.requested = "headrest_up" THEN TRAVEL_HEADREST
                  ELSE IF m.requested \in {"headrest_down", "flatten"} THEN 0
                  ELSE m.pos_headrest
  <1>1. r \in 0 .. TRAVEL_RECLINE /\ h \in 0 .. TRAVEL_HEADREST
    BY Fields, Zeros
  <1> QED
    BY <1>1, Zenon DEF MotionState, AtStop

LEMMA ArriveType ==
    ASSUME NEW m \in MotionState
    PROVE  Arrive(m) \in MotionState
  <1>1. [motion_stop(m) EXCEPT !.arrived_latched = TRUE] \in MotionState
    BY Zenon DEF MotionState, motion_stop
  <1> QED
    BY <1>1, AtStopType DEF Arrive

LEMMA UpdateType ==
    ASSUME NEW m \in MotionState, NEW current \in Readings
    PROVE  motion_update(m, current) \in MotionState
  BY SequenceType, TrackType, OvercurrentType, UndercurrentType, FaultType, ArriveType
     DEF motion_update, EndStall, EndArrival, EndTimeout

-----------------------------------------------------------------------------
(* What each operator does to the fields the relays depend on.             *)

SameRelays(n, m) ==
    /\ n.requested = m.requested
    /\ n.seq = m.seq
    /\ n.closed = m.closed
    /\ n.headrest_dir = m.headrest_dir
    /\ n.running_age = m.running_age
    /\ n.requested_age = m.requested_age

SameLatches(n, m) ==
    /\ n.fault_latched = m.fault_latched
    /\ n.arrived_latched = m.arrived_latched

SamePosition(n, m) ==
    n.pos_recline = m.pos_recline /\ n.pos_headrest = m.pos_headrest

Stopped(m) == m.closed = {} /\ m.requested = NONE /\ m.seq = "idle"

\* A motion has just been requested.
Begun(m) == m.seq = "settling" /\ m.requested_age = 0 /\ ~Driving(m) /\ ~m.zero

LEMMA ElapseEffect ==
    ASSUME NEW m \in MotionState, NEW d \in Durations
    PROVE  LET n == Elapse(m, d) IN
           /\ n.requested = m.requested /\ n.seq = m.seq
           /\ n.closed = m.closed /\ n.headrest_dir = m.headrest_dir
           /\ SameLatches(n, m)
           /\ m.requested # NONE =>
                /\ n.running_age = m.running_age + d
                /\ n.requested_age = AtMost(SETTLE + STAGGER, m.requested_age + d)
  BY DEF MotionState, Elapse, SameLatches

LEMMA StopEffect ==
    ASSUME NEW m \in MotionState
    PROVE  Stopped(motion_stop(m)) /\ SameLatches(motion_stop(m), m)
  BY DEF MotionState, motion_stop, Stopped, SameLatches

LEMMA BeginEffect ==
    ASSUME NEW m \in MotionState, NEW want \in Motions
    PROVE  LET n == Begin(m, want) IN
           /\ n.closed = {} /\ n.requested = want /\ n.seq = "settling"
           /\ n.requested_age = 0
           /\ want = "headrest_up" => n.headrest_dir = "up"
           /\ want \in {"headrest_down", "flatten"} => n.headrest_dir = "down"
           /\ SameLatches(n, m)
  BY DEF MotionState, Begin, select_direction, motion_stop, SameLatches

LEMMA UnlatchEffect ==
    ASSUME NEW m \in MotionState
    PROVE  SameRelays(Unlatch(m), m) /\ ~Latched(Unlatch(m))
  BY DEF MotionState, Unlatch, SameRelays, Latched

LEMMA TrackEffect ==
    ASSUME NEW m \in MotionState
    PROVE  SameRelays(track(m), m) /\ SameLatches(track(m), m)
  BY DEF MotionState, track, SameRelays, SameLatches

LEMMA OvercurrentEffect ==
    ASSUME NEW m \in MotionState, NEW current \in Readings
    PROVE  /\ SameRelays(Overcurrent(m, current), m)
           /\ SameLatches(Overcurrent(m, current), m)
  BY DEF MotionState, Overcurrent, SameRelays, SameLatches, Readings

LEMMA UndercurrentEffect ==
    ASSUME NEW m \in MotionState, NEW current \in Readings
    PROVE  /\ SameRelays(Undercurrent(m, current), m)
           /\ SameLatches(Undercurrent(m, current), m)
  BY DEF MotionState, Undercurrent, SameRelays, SameLatches

LEMMA FaultEffect ==
    ASSUME NEW m \in MotionState
    PROVE  Stopped(Fault(m))
  BY DEF MotionState, Fault, motion_stop, Stopped

LEMMA ArriveEffect ==
    ASSUME NEW m \in MotionState
    PROVE  Stopped(Arrive(m))
  BY DEF MotionState, Arrive, AtStop, motion_stop, Stopped

LEMMA FirstEffect ==
    ASSUME NEW m \in MotionState
    PROVE  LET n == CloseFirst(m) IN
           /\ n.requested = m.requested /\ n.headrest_dir = m.headrest_dir
           /\ n.seq = "first" /\ n.running_age = 0
           /\ n.closed = m.closed \cup engage_first(m.requested)
           /\ SameLatches(n, m)
  BY DEF MotionState, CloseFirst, SameLatches

LEMMA SecondEffect ==
    ASSUME NEW m \in MotionState
    PROVE  LET n == CloseSecond(m) IN
           /\ n.requested = m.requested /\ n.headrest_dir = m.headrest_dir
           /\ n.seq = "running" /\ n.running_age = m.running_age
           /\ n.closed = m.closed \cup engage_second(m.requested)
           /\ SameLatches(n, m)
  BY DEF MotionState, CloseSecond, SameLatches

-----------------------------------------------------------------------------
(* motion_request and motion_update, as the relays see them.               *)

LEMMA ContactsOfMotions ==
    ASSUME NEW want \in Motions
    PROVE  engage_first(want) # {}
  BY DEF Motions, Recline, Headrest, engage_first, Contacts, UpPair, DownPair

LEMMA WiredDriving ==
    ASSUME NEW m \in MotionState, Wired(m)
    PROVE  Driving(m) <=> m.seq \in {"first", "running"}
  BY Fields, ContactsOfMotions DEF Wired, EngagedBy, Driving, NONE

LEMMA StoppedWired ==
    ASSUME NEW m \in MotionState, Stopped(m)
    PROVE  Wired(m) /\ ~Driving(m)
  BY DEF Stopped, Wired, EngagedBy, Driving, NONE

LEMMA SameWired ==
    ASSUME NEW m \in MotionState, NEW n \in MotionState, Wired(m),
           SameRelays(n, m), SameLatches(n, m) \/ ~Latched(n)
    PROVE  Wired(n)
  BY DEF SameRelays, SameLatches, Latched, Wired, EngagedBy

LEMMA BeginSenses ==
    ASSUME NEW m \in MotionState, NEW want \in Motions
    PROVE  LET n == Begin(m, want) IN
           SamePosition(n, m) /\ SameLatches(n, m) /\ ~n.zero
  BY DEF MotionState, Begin, select_direction, motion_stop, SamePosition, SameLatches

LEMMA StopSenses ==
    ASSUME NEW m \in MotionState
    PROVE  /\ SamePosition(motion_stop(m), m) /\ SamePosition(Unlatch(m), m)
           /\ SameLatches(motion_stop(m), m)
           /\ motion_stop(m).running_age = m.running_age
           /\ ~Unlatch(m).arrived_latched
  BY DEF MotionState, motion_stop, Unlatch, SamePosition, SameLatches

\* A request changes nothing, opens everything, or begins a new motion with
\* everything open.
LEMMA RequestEffect ==
    ASSUME NEW m \in MotionState, Wired(m), NEW want \in Motions \cup {NONE}
    PROVE  LET n == motion_request(m, want) IN
           /\ Wired(n) /\ SamePosition(n, m)
           /\ n.arrived_latched => m.arrived_latched
           /\ n = m \/ Stopped(n) \/ Begun(n)
  <1>1. CASE want = NONE
    <2> DEFINE u == Unlatch(m)
               n == motion_request(m, want)
    <2>1. /\ u \in MotionState /\ SameRelays(u, m) /\ SamePosition(u, m)
          /\ ~Latched(u) /\ ~u.arrived_latched
      BY UnlatchEffect, UnlatchType, StopSenses
    <2>2. n = IF m.requested = NONE THEN u ELSE motion_stop(u)
      BY <1>1 DEF motion_request
    <2> HIDE DEF u, n
    <2>3. /\ motion_stop(u) \in MotionState /\ Stopped(motion_stop(u))
          /\ SamePosition(motion_stop(u), u) /\ ~motion_stop(u).arrived_latched
      BY <2>1, StopType, StopEffect, StopSenses DEF SameLatches
    <2>4. m.requested = NONE => Stopped(u)
      BY <2>1 DEF SameRelays, Stopped, Wired, EngagedBy
    <2>5. Wired(u) /\ Wired(motion_stop(u))
      BY <2>1, <2>3, SameWired, StoppedWired
    <2>6. /\ Wired(n) /\ SamePosition(n, m)
          /\ n.arrived_latched => m.arrived_latched
          /\ Stopped(n)
      BY <2>1, <2>2, <2>3, <2>4, <2>5 DEF SamePosition
    <2> QED
      BY <2>6 DEF n
  <1>2. CASE want # NONE /\ (Latched(m) \/ want = m.requested)
    BY <1>2 DEF motion_request, SamePosition
  <1>3. CASE want # NONE /\ ~Latched(m) /\ want # m.requested
    <2>1. want \in Motions
      BY <1>3
    <2> DEFINE n == Begin(m, want)
    <2>2. /\ n.closed = {} /\ n.requested = want /\ n.seq = "settling"
          /\ n.requested_age = 0 /\ ~n.zero /\ SamePosition(n, m)
          /\ want = "headrest_up" => n.headrest_dir = "up"
          /\ want \in {"headrest_down", "flatten"} => n.headrest_dir = "down"
          /\ ~Latched(n) /\ ~n.arrived_latched
      BY <2>1, BeginEffect, BeginSenses, <1>3 DEF SameLatches, Latched
    <2>3. motion_request(m, want) = n
      BY <1>3 DEF motion_request
    <2> HIDE DEF n
    <2>4. Wired(n) /\ Begun(n)
      BY <2>2, <1>3 DEF Wired, EngagedBy, Driving, Begun
    <2> QED
      BY <2>2, <2>3, <2>4
  <1> QED
    BY <1>1, <1>2, <1>3

\* So does any number of them.
AskedFrom(m) ==
    {n \in MotionState :
        /\ Wired(n) /\ SamePosition(n, m)
        /\ n.arrived_latched => m.arrived_latched
        /\ n = m \/ Stopped(n) \/ Begun(n)}

LEMMA AskedAgain ==
    ASSUME NEW m, NEW ms \in SUBSET AskedFrom(m)
    PROVE  Asked(ms) \in SUBSET AskedFrom(m)
  <1> SUFFICES ASSUME NEW n \in AskedFrom(m), NEW want \in Motions \cup {NONE}
               PROVE  motion_request(n, want) \in AskedFrom(m)
    BY DEF Asked
  <1> DEFINE k == motion_request(n, want)
  <1>1. /\ n \in MotionState /\ Wired(n) /\ SamePosition(n, m)
        /\ n.arrived_latched => m.arrived_latched
        /\ n = m \/ Stopped(n) \/ Begun(n)
    BY DEF AskedFrom
  <1>2. /\ k \in MotionState /\ Wired(k) /\ SamePosition(k, n)
        /\ k.arrived_latched => n.arrived_latched
        /\ k = n \/ Stopped(k) \/ Begun(k)
    BY <1>1, RequestType, RequestEffect
  <1> HIDE DEF k
  <1>3. k \in AskedFrom(m)
    BY <1>1, <1>2 DEF AskedFrom, SamePosition
  <1> QED
    BY <1>3 DEF k

LEMMA PassAsked ==
    ASSUME NEW m \in MotionState, Wired(m)
    PROVE  AskedInPass(m) \in SUBSET AskedFrom(m)
  <1>1. {m} \in SUBSET AskedFrom(m)
    BY DEF AskedFrom, SamePosition
  <1>2. \A ms \in SUBSET AskedFrom(m) : Asked(ms) \in SUBSET AskedFrom(m)
    BY AskedAgain
  <1> QED
    BY <1>1, <1>2 DEF AskedInPass

\* The sequence only ever adds contacts of the requested motion, and the first
\* of them only once the settle is over.
LEMMA SequenceEffect ==
    ASSUME NEW m \in MotionState, Wired(m)
    PROVE  LET n == Sequence(m) IN
           /\ Wired(n)
           /\ n.requested = m.requested /\ n.headrest_dir = m.headrest_dir
           /\ SameLatches(n, m)
           /\ \/ n = m
              \/ /\ m.seq = "settling" /\ m.requested_age >= SETTLE
                 /\ n.seq = "first" /\ n.running_age = 0
              \/ m.seq = "first" /\ n.seq = "running" /\ n.running_age = m.running_age
  <1>1. CASE m.seq = "settling" /\ m.requested_age >= SETTLE
    <2> DEFINE n == CloseFirst(m)
    <2>1. /\ n.requested = m.requested /\ n.headrest_dir = m.headrest_dir
          /\ n.seq = "first" /\ n.running_age = 0
          /\ n.closed = m.closed \cup engage_first(m.requested)
          /\ SameLatches(n, m)
      BY FirstEffect
    <2> HIDE DEF n
    <2>2. m.closed = {} /\ m.requested # NONE
      BY <1>1 DEF Wired, EngagedBy
    <2>3. Wired(n)
      BY <2>1, <2>2 DEF Wired, EngagedBy, Latched, SameLatches
    <2> QED
      BY <1>1, <2>1, <2>3 DEF Sequence, n
  <1>2. CASE m.seq = "first" /\ m.requested_age >= SETTLE + STAGGER
    <2> DEFINE n == CloseSecond(m)
    <2>1. /\ n.requested = m.requested /\ n.headrest_dir = m.headrest_dir
          /\ n.seq = "running" /\ n.running_age = m.running_age
          /\ n.closed = m.closed \cup engage_second(m.requested)
          /\ SameLatches(n, m)
      BY SecondEffect
    <2> HIDE DEF n
    <2>2. m.closed = engage_first(m.requested) /\ m.requested # NONE
      BY <1>2 DEF Wired, EngagedBy
    <2>3. Wired(n)
      BY <2>1, <2>2 DEF Wired, EngagedBy, Latched, SameLatches
    <2> QED
      BY <1>2, <2>1, <2>3 DEF Sequence, n
  <1>3. CASE Sequence(m) = m
    BY <1>3 DEF SameLatches
  <1> QED
    BY <1>1, <1>2, <1>3 DEF Sequence

\* What follows the sequence either stops everything or leaves the relays
\* alone, and then the ceiling has not been passed.
LEMMA EndEffect ==
    ASSUME NEW m \in MotionState, NEW current \in Readings
    PROVE  LET n == EndStall(track(m), current) IN
           \/ Stopped(n)
           \/ SameRelays(n, m) /\ SameLatches(n, m) /\ n.running_age <= TIMEOUT
  <1> DEFINE t == track(m)
             o == Overcurrent(t, current)
             u == Undercurrent(o, current)
  <1>1. t \in MotionState /\ SameRelays(t, m) /\ SameLatches(t, m)
    BY TrackType, TrackEffect
  <1>2. o \in MotionState /\ SameRelays(o, m) /\ SameLatches(o, m)
    BY <1>1, OvercurrentType, OvercurrentEffect DEF SameRelays, SameLatches
  <1>3. u \in MotionState /\ SameRelays(u, m) /\ SameLatches(u, m)
    BY <1>2, UndercurrentType, UndercurrentEffect DEF SameRelays, SameLatches
  <1>4. Stopped(Fault(t)) /\ Stopped(Arrive(o)) /\ Stopped(Fault(u))
    BY <1>1, <1>2, <1>3, FaultEffect, ArriveEffect
  <1>5. ~(u.running_age > TIMEOUT) => u.running_age <= TIMEOUT
    BY <1>3, Fields, MotionConstants DEF MotionConstants
  <1>6. EndStall(t, current) \in {Fault(t), Arrive(o), Fault(u)}
          \/ (EndStall(t, current) = u /\ ~(u.running_age > TIMEOUT))
    BY DEF EndStall, EndArrival, EndTimeout
  <1> QED
    BY <1>3, <1>4, <1>5, <1>6

LEMMA UpdateEffect ==
    ASSUME NEW m \in MotionState, Wired(m), NEW current \in Readings
    PROVE  LET n == motion_update(m, current) IN
           /\ Wired(n)
           /\ \/ Stopped(n)
              \/ n = m /\ m.seq = "settling" /\ m.requested_age < SETTLE
              \/ /\ SameRelays(n, Sequence(m))
                 /\ n.seq \in {"first", "running"} /\ n.running_age <= TIMEOUT
  <1> DEFINE s == Sequence(m)
             n == motion_update(m, current)
  <1>1. s \in MotionState /\ Wired(s) /\ s.requested = m.requested
    BY SequenceType, SequenceEffect
  <1>2. n \in MotionState
    BY UpdateType
  <1>3. CASE m.requested = NONE
    BY <1>3 DEF motion_update, Wired, EngagedBy, Stopped
  <1>4. CASE m.requested # NONE /\ s.seq = "settling"
    <2>1. m.seq = "settling" /\ ~(m.requested_age >= SETTLE)
      BY <1>4, FirstEffect, SecondEffect DEF Sequence
    <2>2. m.requested_age < SETTLE
      BY <2>1, Fields, MotionConstants DEF MotionConstants
    <2> QED
      BY <1>4, <2>1, <2>2 DEF motion_update
  <1>5. CASE m.requested # NONE /\ s.seq # "settling"
    <2>1. n = EndStall(track(s), current)
      BY <1>5 DEF motion_update
    <2>2. s.seq \in {"first", "running"}
      BY <1>1, <1>5, Fields DEF Wired
    <2>3. Stopped(n) \/ (SameRelays(n, s) /\ SameLatches(n, s) /\ n.running_age <= TIMEOUT)
      BY <1>1, <2>1, EndEffect
    <2>4. Wired(n)
      BY <1>1, <1>2, <2>3, StoppedWired, SameWired
    <2> QED
      BY <2>2, <2>3, <2>4 DEF SameRelays
  <1> QED
    BY <1>3, <1>4, <1>5

-----------------------------------------------------------------------------
(* The invariants of Spec.                                                 *)

LEMMA HeldType ==
    ASSUME held \in [level : {"none", "zero", "high"}, age : Nat],
           NEW d \in Durations, NEW current \in Readings
    PROVE  /\ Held(d, current) \in [level : {"none", "zero", "high"}, age : Nat]
           /\ Nothing \in [level : {"none", "zero", "high"}, age : Nat]
  <1>1. held.age + d \in Nat /\ 0 \in Nat
    BY MotionConstants DEF MotionConstants
  <1>2. [held EXCEPT !.age = @ + d] \in [level : {"none", "zero", "high"}, age : Nat]
    BY <1>1, Zenon
  <1> QED
    BY <1>1, <1>2 DEF Held, Nothing, Readings

LEMMA InitInv == Init => RelayInv
  <1> SUFFICES ASSUME Init PROVE RelayInv
    OBVIOUS
  <1>1. PowerOn \in MotionState
    BY Zeros, Zenon DEF PowerOn, MotionState
  <1>2. Stopped(PowerOn) /\ PowerOn.seq # "settling"
    BY DEF PowerOn, Stopped
  <1>3. 0 \in 0 .. SETTLE /\ 0 \in Nat
    BY MotionConstants DEF MotionConstants
  <1>4. TypeOK
    BY <1>1, <1>3 DEF Init, TypeOK, Readings, Nothing
  <1> QED
    BY <1>1, <1>2, <1>4, StoppedWired DEF Init, RelayInv, Rested

\* The calls of a pass, composed.
LEMMA PassStep ==
    ASSUME RelayInv, NEW d \in Durations, NEW a \in AskedInPass(Elapse(motion, d)),
           NEW current \in Readings, Pass(d, a, current)
    PROVE  /\ RelayInv'
           /\ Driving(motion) /\ Driving(motion') =>
                /\ motion'.requested = motion.requested
                /\ motion'.headrest_dir = motion.headrest_dir
                /\ motion'.running_age = motion.running_age + d
           /\ ~Driving(motion) /\ Driving(motion') =>
                open_age' >= SETTLE /\ motion'.running_age = 0
  <1> DEFINE e == Elapse(motion, d)
             s == Sequence(a)
             n == motion_update(a, current)
  <1> USE DEF RelayInv, TypeOK
  <1>1. e \in MotionState /\ Wired(e)
    <2>1. /\ e.requested = motion.requested /\ e.seq = motion.seq
          /\ e.closed = motion.closed /\ e.headrest_dir = motion.headrest_dir
          /\ SameLatches(e, motion)
      BY ElapseEffect
    <2> QED
      BY <2>1, ElapseType DEF Wired, EngagedBy, Latched, SameLatches
  <1>2. a \in MotionState /\ Wired(a) /\ (a = e \/ Stopped(a) \/ Begun(a))
    BY <1>1, PassAsked DEF AskedFrom
  <1>3. n \in MotionState /\ Wired(n) /\ motion' = n
    BY <1>2, UpdateType, UpdateEffect DEF Pass
  <1>4. TypeOK'
    <2>1. open_age' \in 0 .. SETTLE
      BY MotionConstants DEF MotionConstants, Pass, AtMost
    <2>2. held' \in [level : {"none", "zero", "high"}, age : Nat]
      BY HeldType DEF Pass
    <2> QED
      BY <1>3, <2>1, <2>2 DEF Pass
  <1>5. \/ ~Driving(n) /\ n.seq = "idle"
        \/ n = a /\ a.seq = "settling" /\ a.requested_age < SETTLE /\ ~Driving(n)
        \/ /\ SameRelays(n, s) /\ n.seq \in {"first", "running"}
           /\ Driving(n) /\ n.running_age <= TIMEOUT
    BY <1>2, <1>3, UpdateEffect, StoppedWired, WiredDriving DEF Stopped
  <1>6. Rested'
    <2> SUFFICES ASSUME n.seq = "settling"
                 PROVE  n.requested_age < SETTLE /\ n.requested_age <= open_age'
      BY <1>3 DEF Rested
    <2>1. n = a /\ a.seq = "settling" /\ a.requested_age < SETTLE
      BY <1>5
    <2>2. CASE a.requested_age = 0
      BY <2>1, <2>2, <1>4
    <2>3. CASE a = e
      <3>1. motion.seq = "settling" /\ motion.requested # NONE
        BY <2>1, <2>3, <1>1, ElapseEffect DEF Wired
      <3>2. motion.requested_age <= open_age /\ ~Driving(motion)
        BY <3>1, WiredDriving DEF Rested
      <3>3. a.requested_age = AtMost(SETTLE + STAGGER, motion.requested_age + d)
        BY <2>3, <3>1, ElapseEffect
      <3>4. open_age' = AtMost(SETTLE, open_age + d)
        BY <3>2 DEF Pass
      <3> QED
        BY <2>1, <3>2, <3>3, <3>4, Fields, MotionConstants
           DEF MotionConstants, AtMost
    <2> QED
      BY <2>1, <2>2, <2>3, <1>2 DEF Stopped, Begun
  <1>7. ASSUME Driving(motion), Driving(n)
        PROVE  /\ n.requested = motion.requested
               /\ n.headrest_dir = motion.headrest_dir
               /\ n.running_age = motion.running_age + d
    <2>1. motion.seq \in {"first", "running"} /\ motion.requested # NONE
      BY <1>7, WiredDriving DEF Wired
    <2>2. SameRelays(n, s) /\ n.seq \in {"first", "running"}
      BY <1>5, <1>7
    <2>3. a = e
      <3>1. ~Stopped(a)
        BY <1>2, <2>2, SequenceEffect DEF Stopped, SameRelays
      <3>2. ~(a.seq = "settling" /\ a.requested_age = 0)
        <4> SUFFICES ASSUME a.seq = "settling", a.requested_age = 0 PROVE FALSE
          OBVIOUS
        <4>1. ~(a.requested_age >= SETTLE)
          BY MotionConstants DEF MotionConstants
        <4> QED
          BY <4>1, <2>2, <1>2, SequenceEffect DEF SameRelays
      <3> QED
        BY <1>2, <3>1, <3>2 DEF Begun
    <2>4. /\ a.requested = motion.requested /\ a.headrest_dir = motion.headrest_dir
          /\ a.seq \in {"first", "running"} /\ a.running_age = motion.running_age + d
      BY <2>1, <2>3, ElapseEffect
    <2>5. /\ s.requested = a.requested /\ s.headrest_dir = a.headrest_dir
          /\ s.running_age = a.running_age
      BY <1>2, <2>4, SequenceEffect
    <2> QED
      BY <2>2, <2>4, <2>5 DEF SameRelays
  <1>8. ASSUME ~Driving(motion), Driving(n)
        PROVE  open_age' >= SETTLE /\ n.running_age = 0
    <2>1. SameRelays(n, s) /\ n.seq \in {"first", "running"}
      BY <1>5, <1>8
    <2>2. motion.seq \notin {"first", "running"}
      BY <1>8, WiredDriving
    <2>3. a.seq \notin {"first", "running"}
      BY <1>2, <2>2, ElapseEffect DEF Stopped, Begun
    <2>4. a.seq = "settling" /\ a.requested_age >= SETTLE /\ s.running_age = 0
      BY <1>2, <2>1, <2>3, SequenceEffect DEF SameRelays
    <2>5. a = e
      <3>1. a.requested_age # 0 /\ ~Stopped(a)
        BY <2>4, MotionConstants DEF MotionConstants, Stopped
      <3> QED
        BY <1>2, <3>1 DEF Begun
    <2>6. motion.seq = "settling" /\ motion.requested # NONE
      BY <2>4, <2>5, <1>1, ElapseEffect DEF Wired
    <2>7. /\ motion.requested_age <= open_age
          /\ a.requested_age = AtMost(SETTLE + STAGGER, motion.requested_age + d)
      BY <2>5, <2>6, ElapseEffect DEF Rested
    <2>8. open_age' = AtMost(SETTLE, open_age + d)
      BY <1>8 DEF Pass
    <2>9. open_age' >= SETTLE
      BY <2>4, <2>7, <2>8, Fields, MotionConstants DEF MotionConstants, AtMost
    <2> QED
      BY <2>1, <2>4, <2>9 DEF SameRelays
  <1> QED
    BY <1>3, <1>4, <1>5, <1>6, <1>7, <1>8

LEMMA StepInv == RelayInv /\ [Next]_vars => RelayInv'
  <1> SUFFICES ASSUME RelayInv, [Next]_vars PROVE RelayInv'
    OBVIOUS
  <1>1. CASE Next
    BY <1>1, PassStep DEF Next, Sampled
  <1>2. CASE UNCHANGED vars
    BY <1>2 DEF vars, RelayInv, TypeOK, Rested
  <1> QED
    BY <1>1, <1>2

\* motion.c: at the end of every pass of the main loop, whatever was requested
\* and read, the closed contacts are exactly those of the point the sequence
\* has reached for the requested motion, with the headrest direction that goes
\* with it; a motion still settling has had every contact open since it was
\* requested; and none has outlived MOTION_TIMEOUT_MS.
THEOREM RelayInvariant == Spec => []RelayInv
  BY InitInv, StepInv, PTL DEF Spec

\* motion.c: every field keeps its type; in particular each position estimate
\* stays within its travel.
THEOREM TypeCorrect == Spec => []TypeOK
  <1>1. RelayInv => TypeOK
    BY DEF RelayInv
  <1> QED
    BY <1>1, RelayInvariant, PTL

\* motion_request: after a fault or an arrival no contact closes until every
\* button has been released.
THEOREM LatchStops == Spec => []LatchedIsStopped
  <1>1. RelayInv => LatchedIsStopped
    BY WiredDriving DEF RelayInv, TypeOK, Wired, LatchedIsStopped, EngagedBy, Driving, NONE
  <1> QED
    BY <1>1, RelayInvariant, PTL

-----------------------------------------------------------------------------
(* motion.c implements Drive.                                              *)

\* The closed contacts drive what was requested and nothing else.
LEMMA DrivenIsRequested ==
    ASSUME NEW m \in MotionState, Wired(m), Driving(m)
    PROVE  Driven(m) = IF m.requested = "flatten"
                       THEN {"recline_down", "headrest_down"}
                       ELSE {m.requested}
  <1>1. m.requested \in Motions
    BY WiredDriving, Fields DEF Wired
  <1>2. m.closed \in {engage_first(m.requested),
                      engage_first(m.requested) \cup engage_second(m.requested)}
    BY WiredDriving DEF Wired, EngagedBy
  <1>3. CASE m.requested = "recline_up"
    BY <1>2, <1>3 DEF Driven, engage_first, engage_second, Contacts, UpPair,
                      DownPair, Recline, Headrest
  <1>4. CASE m.requested = "recline_down"
    BY <1>2, <1>4 DEF Driven, engage_first, engage_second, Contacts, UpPair,
                      DownPair, Recline, Headrest
  <1>5. CASE m.requested \in Headrest
    BY <1>2, <1>5 DEF Driven, engage_first, engage_second, Contacts, UpPair,
                      DownPair, Recline, Headrest, Wired
  <1>6. CASE m.requested = "flatten"
    BY <1>2, <1>6 DEF Driven, engage_first, engage_second, Contacts, UpPair,
                      DownPair, Recline, Headrest, Wired
  <1> QED
    BY <1>1, <1>3, <1>4, <1>5, <1>6 DEF Motions, Recline

LEMMA RestingDrivesNothing ==
    ASSUME NEW m \in MotionState, ~Driving(m)
    PROVE  Driven(m) = {}
  BY DEF Driving, Driven

LEMMA DrivingDrives ==
    ASSUME NEW m \in MotionState, Wired(m), Driving(m)
    PROVE  Driven(m) \in Relays!Engagements \ {{}}
  <1>1. m.requested \in Motions
    BY WiredDriving, Fields DEF Wired
  <1>2. Driven(m) \in {{"recline_up"}, {"recline_down"}, {"headrest_up"},
                       {"headrest_down"}, {"recline_down", "headrest_down"}}
    BY <1>1, DrivenIsRequested DEF Motions, Recline, Headrest
  <1> QED
    BY <1>2 DEF Relays!Engagements

LEMMA RelaysStep ==
    RelayInv /\ [Next]_vars => [Relays!Next]_(Relays!vars)
  <1> SUFFICES ASSUME RelayInv, [Next]_vars
               PROVE  [Relays!Next]_(Relays!vars)
    OBVIOUS
  <1>1. CASE UNCHANGED vars
    BY <1>1 DEF vars, Relays!vars, Driving
  <1>2. ASSUME NEW d \in Durations, NEW asked \in AskedInPass(Elapse(motion, d)),
               NEW current \in Readings, Pass(d, asked, current)
        PROVE  Relays!Next
    <2>1. RelayInv'
      BY <1>2, PassStep
    <2>2. motion \in MotionState /\ motion' \in MotionState
      BY <2>1 DEF RelayInv, TypeOK
    <2>3. Wired(motion) /\ Wired(motion')
      BY <2>1 DEF RelayInv
    <2>4. CASE ~Driving(motion) /\ ~Driving(motion')
      <3>1. Driven(motion) = {} /\ Driven(motion') = {}
        BY <2>2, <2>4, RestingDrivesNothing
      <3>2. open_age' = Relays!Rested(d)
        BY <1>2, <2>4 DEF Pass, AtMost, Relays!Rested
      <3> QED
        BY <2>4, <3>1, <3>2 DEF Relays!Next, Relays!Wait
    <2>5. CASE ~Driving(motion) /\ Driving(motion')
      <3>1. Driven(motion) = {} /\ Driven(motion') \in Relays!Engagements \ {{}}
        BY <2>2, <2>3, <2>5, RestingDrivesNothing, DrivingDrives
      <3>2. open_age' = Relays!Rested(d)
        BY <1>2, <2>5 DEF Pass, AtMost, Relays!Rested
      <3>3. open_age' >= SETTLE /\ motion'.running_age = 0
        BY <1>2, <2>5, PassStep
      <3> QED
        BY <2>5, <3>1, <3>2, <3>3 DEF Relays!Next, Relays!Close
    <2>6. CASE Driving(motion) /\ Driving(motion')
      <3>1. Driven(motion) # {} /\ Driven(motion') = Driven(motion)
        <4>1. motion'.requested = motion.requested
          BY <1>2, <2>6, PassStep
        <4> QED
          BY <4>1, <2>2, <2>3, <2>6, DrivenIsRequested
      <3>2. motion'.running_age = motion.running_age + d
        BY <1>2, <2>6, PassStep
      <3>3. motion'.running_age <= TIMEOUT
        BY <2>1, <2>6 DEF RelayInv
      <3>4. open_age' = 0
        BY <1>2, <2>6 DEF Pass
      <3> QED
        BY <2>6, <3>1, <3>2, <3>3, <3>4 DEF Relays!Next, Relays!Hold
    <2>7. CASE Driving(motion) /\ ~Driving(motion')
      <3>1. Driven(motion) # {} /\ Driven(motion') = {}
        BY <2>2, <2>3, <2>7, RestingDrivesNothing, DrivingDrives
      <3>2. open_age' = 0
        BY <1>2, <2>7 DEF Pass
      <3> QED
        BY <2>7, <3>1, <3>2 DEF Relays!Next, Relays!Open
    <2> QED
      BY <2>4, <2>5, <2>6, <2>7
  <1> QED
    BY <1>1, <1>2 DEF Next, Sampled

LEMMA RelaysInit == Init => Relays!Init
  BY DEF Init, PowerOn, Relays!Init, Driven, Driving

\* motion_request and motion_update implement Drive, with the settle time as
\* its dead time and the ceiling as its limit: a motor is driven one way at a
\* time, no polarity changes under load, and every contact has been open for
\* the settle time before one closes.
THEOREM ImplementsDrive == Spec => RelaysSafe
  <1>1. Init => Relays!Init
    BY RelaysInit
  <1>2. RelayInv /\ [Next]_vars => [Relays!Next]_(Relays!vars)
    BY RelaysStep
  <1> QED
    BY <1>1, <1>2, RelayInvariant, PTL DEF Spec, RelaysSafe, Relays!Spec
-----------------------------------------------------------------------------
(* What each operator does to the detectors and the estimate.              *)

SameDetectors(n, m) ==
    /\ n.over = m.over /\ n.over_age = m.over_age
    /\ n.zero = m.zero /\ n.zero_age = m.zero_age

LEMMA ElapseSenses ==
    ASSUME NEW m \in MotionState, NEW d \in Durations
    PROVE  LET n == Elapse(m, d) IN
           /\ SamePosition(n, m) /\ SameLatches(n, m)
           /\ n.over = m.over /\ n.zero = m.zero
           /\ m.over => n.over_age = AtMost(STALL, m.over_age + d)
           /\ m.zero => n.zero_age = AtMost(ARRIVED, m.zero_age + d)
           /\ m.requested # NONE => n.track_age = m.track_age + d
  BY DEF MotionState, Elapse, SameLatches, SamePosition

LEMMA SequenceSenses ==
    ASSUME NEW m \in MotionState
    PROVE  LET n == Sequence(m) IN
           /\ SameDetectors(n, m) /\ SamePosition(n, m) /\ SameLatches(n, m)
           /\ n.requested = m.requested /\ n.requested_age = m.requested_age
           /\ n.track_age = m.track_age \/ n.track_age = 0
           /\ m.seq = "settling" /\ n.seq # "settling" =>
                n.track_age = 0 /\ n.running_age = 0 /\ n.seq = "first"
           /\ m.seq # "settling" => n.running_age = m.running_age
  <1>1. LET n == CloseFirst(m) IN
        /\ SameDetectors(n, m) /\ SamePosition(n, m) /\ SameLatches(n, m)
        /\ n.requested = m.requested /\ n.requested_age = m.requested_age
        /\ n.track_age = 0 /\ n.running_age = 0 /\ n.seq = "first"
    BY DEF MotionState, CloseFirst, SameDetectors, SamePosition, SameLatches
  <1>2. LET n == CloseSecond(m) IN
        /\ SameDetectors(n, m) /\ SamePosition(n, m) /\ SameLatches(n, m)
        /\ n.requested = m.requested /\ n.requested_age = m.requested_age
        /\ n.track_age = m.track_age /\ n.running_age = m.running_age
    BY DEF MotionState, CloseSecond, SameDetectors, SamePosition, SameLatches
  <1>3. SameDetectors(m, m) /\ SamePosition(m, m) /\ SameLatches(m, m)
    BY DEF SameDetectors, SamePosition, SameLatches
  <1>4. CASE m.seq = "settling" /\ m.requested_age >= SETTLE
    BY <1>1, <1>4 DEF Sequence
  <1>5. CASE m.seq = "first" /\ m.requested_age >= SETTLE + STAGGER
    BY <1>2, <1>5 DEF Sequence
  <1>6. CASE Sequence(m) = m
    BY <1>3, <1>6
  <1> QED
    BY <1>4, <1>5, <1>6 DEF Sequence

\* track moves an estimate by the time since it was last called at most, and
\* only along the axis of the requested motion.
LEMMA TrackSenses ==
    ASSUME NEW m \in MotionState
    PROVE  LET n == track(m) IN
           /\ SameDetectors(n, m) /\ SameLatches(n, m)
           /\ n.requested = m.requested /\ n.seq = m.seq /\ n.closed = m.closed
           /\ n.headrest_dir = m.headrest_dir
           /\ n.running_age = m.running_age /\ n.requested_age = m.requested_age
           /\ n.track_age = 0
           /\ n.pos_recline # m.pos_recline =>
                m.requested \in Recline \cup {"flatten"}
           /\ n.pos_headrest # m.pos_headrest =>
                m.requested \in Headrest \cup {"flatten"}
           /\ Distance(n.pos_recline, m.pos_recline) <= m.track_age
           /\ Distance(n.pos_headrest, m.pos_headrest) <= m.track_age
           /\ m.track_age = 0 => SamePosition(n, m)
  <1> DEFINE n == track(m)
             d == m.track_age
             r == IF m.requested = "recline_up"
                  THEN Raise(m.pos_recline, TRAVEL_RECLINE, d)
                  ELSE IF m.requested \in {"recline_down", "flatten"}
                  THEN Lower(m.pos_recline, d) ELSE m.pos_recline
             h == IF m.requested = "headrest_up"
                  THEN Raise(m.pos_headrest, TRAVEL_HEADREST, d)
                  ELSE IF m.requested \in {"headrest_down", "flatten"}
                  THEN Lower(m.pos_headrest, d) ELSE m.pos_headrest
  <1>1. /\ SameDetectors(n, m) /\ SameLatches(n, m)
        /\ n.requested = m.requested /\ n.seq = m.seq /\ n.closed = m.closed
        /\ n.headrest_dir = m.headrest_dir
        /\ n.running_age = m.running_age /\ n.requested_age = m.requested_age
        /\ n.track_age = 0
    BY DEF MotionState, track, SameDetectors, SameLatches
  <1>2. n.pos_recline = r /\ n.pos_headrest = h
    BY DEF MotionState, track
  <1>3. /\ d \in Nat
        /\ m.pos_recline \in Nat /\ m.pos_recline <= TRAVEL_RECLINE
        /\ m.pos_headrest \in Nat /\ m.pos_headrest <= TRAVEL_HEADREST
        /\ TRAVEL_RECLINE \in Nat /\ TRAVEL_HEADREST \in Nat
    BY Fields, MotionConstants DEF MotionConstants
  <1>4. r # m.pos_recline => m.requested \in Recline \cup {"flatten"}
    BY DEF Recline
  <1>5. h # m.pos_headrest => m.requested \in Headrest \cup {"flatten"}
    BY DEF Headrest
  <1> HIDE DEF n, d
  <1>6. Distance(r, m.pos_recline) <= d /\ Distance(h, m.pos_headrest) <= d
    BY <1>3 DEF Distance, Raise, Lower
  <1>7. d = 0 => r = m.pos_recline /\ h = m.pos_headrest
    BY <1>3 DEF Raise, Lower
  <1> HIDE DEF r, h
  <1> QED
    BY <1>1, <1>2, <1>4, <1>5, <1>6, <1>7 DEF n, d, SamePosition

LEMMA OvercurrentSenses ==
    ASSUME NEW m \in MotionState, NEW current \in Readings
    PROVE  LET n == Overcurrent(m, current) IN
           /\ SamePosition(n, m) /\ SameLatches(n, m)
           /\ n.zero = m.zero /\ n.zero_age = m.zero_age
           /\ n.track_age = m.track_age
           /\ current = "failed" => n.over = m.over /\ n.over_age = m.over_age
           /\ current = "high" => n.over
           /\ current = "high" /\ m.over => n.over_age = m.over_age
           /\ current = "high" /\ ~m.over => n.over_age = 0
  BY DEF MotionState, Overcurrent, SamePosition, SameLatches, Readings

LEMMA UndercurrentSenses ==
    ASSUME NEW m \in MotionState, NEW current \in Readings
    PROVE  LET n == Undercurrent(m, current) IN
           /\ SamePosition(n, m) /\ SameLatches(n, m)
           /\ n.over = m.over /\ n.over_age = m.over_age
           /\ n.track_age = m.track_age
           /\ ~Armed(m) => n.zero = m.zero /\ n.zero_age = m.zero_age
           /\ Armed(m) /\ current # "zero" => ~n.zero
           /\ Armed(m) /\ current = "zero" => n.zero
           /\ Armed(m) /\ current = "zero" /\ m.zero => n.zero_age = m.zero_age
           /\ Armed(m) /\ current = "zero" /\ ~m.zero => n.zero_age = 0
  <1>1. LET n == [m EXCEPT !.zero = FALSE] IN
        /\ SamePosition(n, m) /\ SameLatches(n, m)
        /\ n.over = m.over /\ n.over_age = m.over_age /\ n.track_age = m.track_age
        /\ ~n.zero
    BY DEF MotionState, SamePosition, SameLatches
  <1>2. LET n == [m EXCEPT !.zero = TRUE, !.zero_age = 0] IN
        /\ SamePosition(n, m) /\ SameLatches(n, m)
        /\ n.over = m.over /\ n.over_age = m.over_age /\ n.track_age = m.track_age
        /\ n.zero /\ n.zero_age = 0
    BY DEF MotionState, SamePosition, SameLatches
  <1>3. SamePosition(m, m) /\ SameLatches(m, m)
    BY DEF SamePosition, SameLatches
  <1> QED
    BY <1>1, <1>2, <1>3 DEF Undercurrent

LEMMA FaultSenses ==
    ASSUME NEW m \in MotionState
    PROVE  LET n == Fault(m) IN
           /\ SamePosition(n, m) /\ n.arrived_latched = m.arrived_latched
           /\ n.running_age = m.running_age
  BY DEF MotionState, Fault, motion_stop, SamePosition

LEMMA ArriveSenses ==
    ASSUME NEW m \in MotionState
    PROVE  Arrive(m).running_age = m.running_age /\ Arrive(m).arrived_latched
  BY DEF MotionState, Arrive, AtStop, motion_stop

\* What one call of track may do to the estimates.
Tracked(n, m) ==
    /\ n.pos_recline # m.pos_recline => m.requested \in Recline \cup {"flatten"}
    /\ n.pos_headrest # m.pos_headrest => m.requested \in Headrest \cup {"flatten"}
    /\ Distance(n.pos_recline, m.pos_recline) <= m.track_age
    /\ Distance(n.pos_headrest, m.pos_headrest) <= m.track_age
    /\ m.track_age = 0 => SamePosition(n, m)

\* What becomes of the two detectors of a motion that goes on.
Watching(n, m, current) ==
    /\ n.requested = m.requested /\ n.track_age = 0
    /\ current = "failed" => n.over = m.over /\ n.over_age = m.over_age
    /\ current = "high" => n.over /\ ~(m.over /\ m.over_age >= STALL)
    /\ current = "high" /\ m.over => n.over_age = m.over_age
    /\ current = "high" /\ ~m.over => n.over_age = 0
    /\ ~Armed(m) => n.zero = m.zero /\ n.zero_age = m.zero_age
    /\ Armed(m) /\ current # "zero" => ~n.zero
    /\ Armed(m) /\ current = "zero" => n.zero /\ ~(m.zero /\ m.zero_age >= ARRIVED)
    /\ Armed(m) /\ current = "zero" /\ m.zero => n.zero_age = m.zero_age
    /\ Armed(m) /\ current = "zero" /\ ~m.zero => n.zero_age = 0

LEMMA EndSenses ==
    ASSUME NEW m \in MotionState, NEW current \in Readings, ~m.arrived_latched
    PROVE  LET n == EndStall(track(m), current) IN
           /\ n.running_age = m.running_age
           /\ n.arrived_latched =>
                Armed(m) /\ current = "zero" /\ m.zero /\ m.zero_age >= ARRIVED
           /\ ~n.arrived_latched => Tracked(n, m)
           /\ n.requested # NONE => Watching(n, m, current)
  <1> DEFINE t == track(m)
             o == Overcurrent(t, current)
             u == Undercurrent(o, current)
             n == EndStall(t, current)
  <1>1. /\ t \in MotionState /\ SameDetectors(t, m) /\ SameLatches(t, m)
        /\ t.requested = m.requested /\ t.running_age = m.running_age /\ t.track_age = 0
        /\ Tracked(t, m)
    BY TrackType, TrackSenses DEF Tracked
  <1>2. /\ o \in MotionState /\ SameRelays(o, t) /\ SamePosition(o, t) /\ SameLatches(o, t)
        /\ o.zero = t.zero /\ o.zero_age = t.zero_age /\ o.track_age = 0
        /\ current = "failed" => o.over = t.over /\ o.over_age = t.over_age
        /\ current = "high" => o.over
        /\ current = "high" /\ t.over => o.over_age = t.over_age
        /\ current = "high" /\ ~t.over => o.over_age = 0
    BY <1>1, OvercurrentType, OvercurrentEffect, OvercurrentSenses
  <1>3. Armed(o) <=> Armed(m)
    BY <1>1, <1>2 DEF Armed, SameRelays
  <1>4. /\ u \in MotionState /\ SameRelays(u, o) /\ SamePosition(u, o) /\ SameLatches(u, o)
        /\ u.over = o.over /\ u.over_age = o.over_age /\ u.track_age = 0
        /\ ~Armed(o) => u.zero = o.zero /\ u.zero_age = o.zero_age
        /\ Armed(o) /\ current # "zero" => ~u.zero
        /\ Armed(o) /\ current = "zero" => u.zero
        /\ Armed(o) /\ current = "zero" /\ o.zero => u.zero_age = o.zero_age
        /\ Armed(o) /\ current = "zero" /\ ~o.zero => u.zero_age = 0
    BY <1>2, UndercurrentType, UndercurrentEffect, UndercurrentSenses
  <1>5. stalled(t, current) <=> current = "high" /\ m.over /\ m.over_age >= STALL
    BY <1>1 DEF stalled, SameDetectors
  <1>6. arrived(o, current) <=>
            Armed(m) /\ current = "zero" /\ m.zero /\ m.zero_age >= ARRIVED
    BY <1>1, <1>2, <1>3 DEF arrived, SameDetectors
  <1>7. \A v \in MotionState : SamePosition(v, t) => Tracked(v, m)
    BY <1>1 DEF Tracked, SamePosition
  <1>8. Tracked(t, m) /\ Tracked(o, m) /\ Tracked(u, m)
    BY <1>1, <1>2, <1>4, <1>7 DEF SamePosition
  <1>9. \A v \in {t, u} : /\ Fault(v).running_age = m.running_age
                          /\ ~Fault(v).arrived_latched /\ Fault(v).requested = NONE
                          /\ Tracked(Fault(v), m)
    <2> SUFFICES ASSUME NEW v \in {t, u}
                 PROVE  /\ Fault(v).running_age = m.running_age
                        /\ ~Fault(v).arrived_latched /\ Fault(v).requested = NONE
                        /\ Tracked(Fault(v), m)
      OBVIOUS
    <2>1. /\ v \in MotionState /\ SamePosition(v, t) /\ v.running_age = m.running_age
          /\ v.arrived_latched = m.arrived_latched
      BY <1>1, <1>2, <1>4 DEF SamePosition, SameRelays, SameLatches
    <2>2. Fault(v) \in MotionState /\ SamePosition(Fault(v), t)
      BY <2>1, FaultType, FaultSenses DEF SamePosition
    <2> QED
      BY <2>1, <2>2, <1>7, FaultSenses, FaultEffect DEF Stopped
  <1>10. Arrive(o).running_age = m.running_age /\ Arrive(o).arrived_latched
         /\ Arrive(o).requested = NONE
    BY <1>1, <1>2, ArriveSenses, ArriveEffect DEF SameRelays, Stopped
  <1>11. /\ u.running_age = m.running_age /\ ~u.arrived_latched
         /\ ~stalled(t, current) /\ ~arrived(o, current) => Watching(u, m, current)
    <2>1. u.running_age = m.running_age /\ ~u.arrived_latched /\ u.requested = m.requested
      BY <1>1, <1>2, <1>4 DEF SameRelays, SameLatches
    <2> HIDE DEF t, o, u
    <2>2. ~stalled(t, current) /\ ~arrived(o, current) => Watching(u, m, current)
      BY <1>1, <1>2, <1>3, <1>4, <1>5, <1>6, <2>1 DEF Watching, SameDetectors
    <2> QED
      BY <2>1, <2>2
  <1>12. n = IF stalled(t, current) THEN Fault(t)
             ELSE IF arrived(o, current) THEN Arrive(o)
             ELSE IF u.running_age > TIMEOUT THEN Fault(u) ELSE u
    BY DEF EndStall, EndArrival, EndTimeout
  <1> HIDE DEF t, o, u
  <1>13. CASE n = Fault(t) \/ n = Fault(u)
    BY <1>9, <1>13 DEF t
  <1>14. CASE n = Arrive(o) /\ arrived(o, current)
    BY <1>6, <1>10, <1>14 DEF t
  <1>15. CASE n = u /\ ~stalled(t, current) /\ ~arrived(o, current)
    BY <1>8, <1>11, <1>15 DEF t
  <1> QED
    BY <1>12, <1>13, <1>14, <1>15

-----------------------------------------------------------------------------
(* The detectors, over any number of passes.                               *)

\* A stretch of stall readings is no older than the detector's count of it.
StallCounted ==
    held.level = "high" =>
        /\ motion.over /\ (motion.over_age >= held.age \/ motion.over_age = STALL)
        /\ adc = "high" /\ STALL # 0 => held.age < STALL

\* A count of zeros is no older than the stretch of zeros itself, nor than the
\* time since detection was armed ...
ZeroEarned ==
    motion.zero =>
        /\ arrival_applies(motion.requested)
        /\ held.level = "zero" /\ motion.zero_age <= held.age
        /\ ARM + motion.zero_age <= motion.running_age

\* ... and no younger than the one or, but for a pass, the other.
ZeroCounted ==
    arrival_applies(motion.requested) /\ held.level = "zero" =>
        \/ motion.running_age < ARM
        \/ /\ motion.zero /\ (ARRIVED # 0 => motion.zero_age < ARRIVED)
           /\ \/ motion.zero_age >= held.age
              \/ \E longest \in Durations :
                    motion.running_age < ARM + longest + motion.zero_age

\* The first contact closed within a pass of the end of the settle.
FirstInTime ==
    motion.seq = "first" =>
        \E longest \in Durations :
            motion.requested_age < motion.running_age + SETTLE + longest

DetectInv ==
    /\ motion.seq = "settling" => held = Nothing /\ ~motion.zero
    /\ FirstInTime
    /\ Driving(motion) =>
          /\ Durations # {} /\ motion.track_age = 0
          /\ StallCounted /\ ZeroEarned /\ ZeroCounted

LEMMA SenseReading ==
    ASSUME NEW d, NEW current \in Readings
    PROVE  /\ current = "zero" => Held(d, current) =
                IF held.level = "zero" THEN [held EXCEPT !.age = @ + d]
                ELSE [level |-> "zero", age |-> 0]
           /\ current = "high" => Held(d, current) =
                IF held.level = "high" THEN [held EXCEPT !.age = @ + d]
                ELSE [level |-> "high", age |-> 0]
           /\ current = "failed" /\ held.level = "high" =>
                Held(d, current) = [held EXCEPT !.age = @ + d]
           /\ current = "failed" /\ held.level \in {"none", "zero"} =>
                Held(d, current) = Nothing
           /\ current = "low" /\ held.level \in {"none", "zero", "high"} =>
                Held(d, current) = Nothing
  BY DEF Held, Readings

LEMMA SenseAge ==
    ASSUME TypeOK, NEW d \in Durations, NEW current \in Readings
    PROVE  /\ Held(d, current).level = "zero" =>
                /\ current = "zero"
                /\ held.level = "zero" => Held(d, current).age = held.age + d
                /\ held.level # "zero" => Held(d, current).age = 0
           /\ current = "zero" => Held(d, current).level = "zero"
           /\ Held(d, current).level = "high" =>
                /\ current \in {"high", "failed"}
                /\ held.level = "high" => Held(d, current).age = held.age + d
                /\ held.level # "high" => current = "high" /\ Held(d, current).age = 0
  <1>1. held \in [level : {"none", "zero", "high"}, age : Nat]
    BY DEF TypeOK
  <1>2. \A l \in {"zero", "high"} :
            [level |-> l, age |-> 0].level = l /\ [level |-> l, age |-> 0].age = 0
    OBVIOUS
  <1>3. /\ [held EXCEPT !.age = @ + d].level = held.level
        /\ [held EXCEPT !.age = @ + d].age = held.age + d
    BY <1>1
  <1>4. Nothing.level = "none"
    BY DEF Nothing
  <1>5. current \in {"zero", "low", "high", "failed"} /\ held.level \in {"none", "zero", "high"}
    BY <1>1 DEF Readings
  <1>6. CASE current = "zero"
    BY <1>2, <1>3, <1>6, SenseReading
  <1>7. CASE current = "high"
    BY <1>2, <1>3, <1>7, SenseReading
  <1>8. CASE current = "low"
    BY <1>4, <1>5, <1>8, SenseReading
  <1>9. CASE current = "failed"
    <2>1. CASE held.level = "high"
      BY <1>3, <1>9, <2>1, SenseReading
    <2>2. CASE held.level # "high"
      BY <1>4, <1>5, <1>9, <2>2, SenseReading
    <2> QED BY <2>1, <2>2
  <1> QED
    BY <1>5, <1>6, <1>7, <1>8, <1>9

\* A pass that looks at the reading has asked for nothing new.
LEMMA SensingAsked ==
    ASSUME NEW e \in MotionState, Wired(e), NEW a \in AskedInPass(e), Sensing(a)
    PROVE  a = e /\ ~Latched(e)
  <1>1. Wired(a) /\ (a = e \/ Stopped(a) \/ Begun(a))
    BY PassAsked DEF AskedFrom
  <1>2. a.requested # NONE /\ Sequence(a).seq # "settling"
    BY DEF Sensing
  <1>3. ~Stopped(a)
    BY <1>2 DEF Stopped
  <1>4. ~Begun(a)
    <2> SUFFICES ASSUME Begun(a) PROVE FALSE
      OBVIOUS
    <2>1. a.seq = "settling" /\ ~(a.requested_age >= SETTLE)
      BY MotionConstants DEF MotionConstants, Begun
    <2>2. Sequence(a) = a
      BY <2>1 DEF Sequence
    <2> QED
      BY <1>2, <2>1, <2>2
  <1> QED
    BY <1>1, <1>2, <1>3, <1>4 DEF Wired

\* A pass that does not: nothing is closed, and no estimate moves.
LEMMA QuietPass ==
    ASSUME RelayInv, DetectInv, NEW d \in Durations,
           NEW a \in AskedInPass(Elapse(motion, d)),
           NEW current \in Readings, Pass(d, a, current), ~Sensing(a)
    PROVE  /\ ~Driving(motion') /\ held' = Nothing /\ SamePosition(motion', motion)
           /\ motion'.arrived_latched => motion.arrived_latched
           /\ motion'.seq = "settling" => ~motion'.zero
           /\ motion'.seq \in {"idle", "settling"}
  <1> DEFINE e == Elapse(motion, d)
  <1>1. /\ motion \in MotionState /\ Wired(motion)
    BY DEF RelayInv, TypeOK
  <1>2. /\ e \in MotionState /\ SamePosition(e, motion) /\ SameLatches(e, motion)
        /\ e.zero = motion.zero /\ e.requested = motion.requested /\ e.seq = motion.seq
        /\ e.closed = motion.closed /\ e.headrest_dir = motion.headrest_dir
    BY <1>1, ElapseType, ElapseEffect, ElapseSenses
  <1>3. Wired(e)
    BY <1>1, <1>2 DEF Wired, EngagedBy, Latched, SameLatches
  <1>4. /\ a \in MotionState /\ Wired(a) /\ SamePosition(a, e)
        /\ a.arrived_latched => e.arrived_latched
        /\ a = e \/ Stopped(a) \/ Begun(a)
    BY <1>2, <1>3, PassAsked DEF AskedFrom
  <1>5. motion' = motion_update(a, current) /\ held' = Nothing
    BY DEF Pass
  <1>6. a.requested = NONE \/ Sequence(a).seq = "settling"
    BY DEF Sensing
  <1>7. motion' = a
    BY <1>5, <1>6 DEF motion_update
  <1>8. a.requested = NONE => a.seq = "idle"
    BY <1>4 DEF Wired
  <1>9. Sequence(a).seq = "settling" => a.seq = "settling"
    BY <1>4, SequenceEffect
  <1>10. a.seq \in {"idle", "settling"} /\ ~Driving(a)
    BY <1>4, <1>6, <1>8, <1>9, WiredDriving
  <1>11. a.seq = "settling" => ~a.zero
    BY <1>2, <1>4 DEF DetectInv, Stopped, Begun
  <1> QED
    BY <1>2, <1>4, <1>5, <1>7, <1>10, <1>11 DEF SamePosition, SameLatches

\* A pass that looks at the reading runs the sequence, tracks, and ends or goes
\* on; and what it starts from, s, is the motion of before with its ages grown.
Sensed(s, d, current) ==
    /\ s \in MotionState /\ motion' = EndStall(track(s), current)
    /\ held' = Held(d, current) /\ adc' = current
    /\ motion.requested # NONE /\ s.requested = motion.requested
    /\ ~s.arrived_latched /\ ~motion.arrived_latched /\ SamePosition(s, motion)
    /\ s.over = motion.over /\ s.zero = motion.zero
    /\ motion.over => s.over_age = AtMost(STALL, motion.over_age + d)
    /\ motion.zero => s.zero_age = AtMost(ARRIVED, motion.zero_age + d)
    /\ s.requested_age = AtMost(SETTLE + STAGGER, motion.requested_age + d)

\* It closed the first contact ...
Closing(s) ==
    /\ ~Driving(motion) /\ motion.seq = "settling" /\ s.seq = "first"
    /\ s.running_age = 0 /\ s.track_age = 0
    /\ motion.requested_age < SETTLE

\* ... or a motor was running already.
Running(s, d) ==
    /\ Driving(motion) /\ s.running_age = motion.running_age + d /\ s.track_age = d
    /\ \/ s.seq = motion.seq
       \/ /\ motion.seq = "first" /\ s.seq = "running"
          /\ s.requested_age >= SETTLE + STAGGER

LEMMA SensingPass ==
    ASSUME RelayInv, DetectInv, NEW d \in Durations,
           NEW a \in AskedInPass(Elapse(motion, d)),
           NEW current \in Readings, Pass(d, a, current), Sensing(a)
    PROVE  \E s \in MotionState :
               Sensed(s, d, current) /\ (Closing(s) \/ Running(s, d))
  <1> DEFINE e == Elapse(motion, d)
             s == Sequence(e)
  <1>1. /\ motion \in MotionState /\ Wired(motion)
    BY DEF RelayInv, TypeOK
  <1>2. /\ e \in MotionState /\ SamePosition(e, motion) /\ SameLatches(e, motion)
        /\ e.over = motion.over /\ e.zero = motion.zero
        /\ motion.over => e.over_age = AtMost(STALL, motion.over_age + d)
        /\ motion.zero => e.zero_age = AtMost(ARRIVED, motion.zero_age + d)
        /\ e.requested = motion.requested /\ e.seq = motion.seq
        /\ e.closed = motion.closed /\ e.headrest_dir = motion.headrest_dir
    BY <1>1, ElapseType, ElapseEffect, ElapseSenses
  <1>3. Wired(e)
    BY <1>1, <1>2 DEF Wired, EngagedBy, Latched, SameLatches
  <1>4. a = e /\ ~Latched(e) /\ e.requested # NONE /\ s.seq # "settling"
    BY <1>2, <1>3, SensingAsked DEF Sensing
  <1>5. motion' = EndStall(track(s), current) /\ held' = Held(d, current) /\ adc' = current
    BY <1>4 DEF Pass, motion_update
  <1>6. /\ e.running_age = motion.running_age + d /\ e.track_age = motion.track_age + d
        /\ e.requested_age = AtMost(SETTLE + STAGGER, motion.requested_age + d)
    BY <1>1, <1>2, <1>4, ElapseEffect, ElapseSenses
  <1>7. /\ s \in MotionState /\ SameDetectors(s, e) /\ SamePosition(s, e) /\ SameLatches(s, e)
        /\ s.requested = e.requested /\ s.requested_age = e.requested_age
        /\ s.track_age = e.track_age \/ s.track_age = 0
        /\ e.seq = "settling" /\ s.seq # "settling" =>
                s.track_age = 0 /\ s.running_age = 0 /\ s.seq = "first"
        /\ e.seq # "settling" => s.running_age = e.running_age
    BY <1>2, SequenceType, SequenceSenses
  <1> HIDE DEF s
  <1>8. Sensed(s, d, current)
    BY <1>2, <1>4, <1>5, <1>6, <1>7
       DEF Sensed, SameDetectors, SamePosition, SameLatches, Latched
  <1>9. CASE motion.seq = "settling"
    <2>1. ~Driving(motion) /\ motion.requested_age < SETTLE
      BY <1>1, <1>9, WiredDriving DEF RelayInv, Rested
    <2> QED
      BY <1>2, <1>4, <1>7, <1>8, <1>9, <2>1 DEF Closing
  <1>10. CASE motion.seq # "settling"
    <2>1. motion.seq # "idle" /\ motion.seq \in {"idle", "settling", "first", "running"}
      BY <1>1, <1>2, <1>4, Fields DEF Wired
    <2>2. Driving(motion)
      BY <1>1, <1>10, <2>1, WiredDriving
    <2>3. motion.track_age = 0
      BY <2>2 DEF DetectInv
    <2>4. \/ s.seq = motion.seq
          \/ /\ motion.seq = "first" /\ s.seq = "running"
             /\ e.requested_age >= SETTLE + STAGGER
      BY <1>2, <1>10, SecondEffect DEF Sequence, s
    <2>5. s.track_age = d
      <3>1. s.track_age = e.track_age
        <4>1. CloseSecond(e).track_age = e.track_age
          BY <1>2 DEF CloseSecond, MotionState
        <4> QED
          BY <1>2, <1>10, <4>1 DEF Sequence, s
      <3> QED
        BY <1>6, <2>3, <3>1, MotionConstants DEF MotionConstants
    <2> QED
      BY <1>2, <1>6, <1>7, <1>8, <1>10, <2>2, <2>4, <2>5 DEF Running
  <1> QED
    BY <1>9, <1>10

LEMMA CountStall ==
    ASSUME RelayInv, DetectInv, NEW d \in Durations, NEW current \in Readings,
           NEW s, Sensed(s, d, current), Closing(s) \/ Running(s, d),
           motion'.requested # NONE
    PROVE  StallCounted'
  <1> DEFINE n == motion'
  <1>1. TypeOK /\ motion \in MotionState /\ s \in MotionState
    BY DEF RelayInv, TypeOK, Sensed
  <1>2. Watching(n, s, current)
    BY <1>1, EndSenses DEF Sensed
  <1>3. /\ held' = Held(d, current) /\ adc' = current
        /\ s.over = motion.over
        /\ motion.over => s.over_age = AtMost(STALL, motion.over_age + d)
    BY DEF Sensed
  <1>4. /\ STALL \in Nat /\ d \in Nat /\ s.over_age \in Nat
        /\ motion.over_age \in Nat /\ held.age \in Nat
    BY <1>1, Fields, MotionConstants DEF MotionConstants, TypeOK
  <1> SUFFICES ASSUME held'.level = "high"
               PROVE  /\ n.over /\ (n.over_age >= held'.age \/ n.over_age = STALL)
                      /\ current = "high" /\ STALL # 0 => held'.age < STALL
    BY <1>3 DEF StallCounted
  <1>5. /\ current \in {"high", "failed"}
        /\ held.level = "high" => held'.age = held.age + d
        /\ held.level # "high" => current = "high" /\ held'.age = 0
    BY <1>1, <1>3, SenseAge
  <1>6. CASE held.level = "high"
    <2>1. Driving(motion)
      <3>1. Closing(s) => held = Nothing
        BY DEF Closing, DetectInv
      <3>2. Nothing.level # "high"
        BY DEF Nothing
      <3> QED
        BY <1>6, <3>1, <3>2 DEF Running
    <2>2. motion.over /\ (motion.over_age >= held.age \/ motion.over_age = STALL)
      BY <1>6, <2>1 DEF DetectInv, StallCounted
    <2>3. n.over /\ n.over_age = s.over_age
      BY <1>2, <1>3, <1>5, <2>2 DEF Watching
    <2>4. s.over_age >= held.age + d \/ s.over_age = STALL
      BY <1>3, <1>4, <2>2 DEF AtMost
    <2>5. current = "high" => ~(s.over_age >= STALL)
      BY <1>2, <1>3, <2>2 DEF Watching
    <2> QED
      BY <1>4, <1>5, <1>6, <2>3, <2>4, <2>5
  <1>7. CASE held.level # "high"
    <2>1. current = "high" /\ held'.age = 0
      BY <1>5, <1>7
    <2>2. n.over /\ (n.over_age = s.over_age \/ n.over_age = 0)
      BY <1>2, <2>1 DEF Watching
    <2> QED
      BY <1>4, <2>1, <2>2
  <1> QED
    BY <1>6, <1>7

LEMMA CountZero ==
    ASSUME RelayInv, DetectInv, NEW d \in Durations, NEW current \in Readings,
           NEW s, Sensed(s, d, current), Closing(s) \/ Running(s, d),
           motion'.requested # NONE
    PROVE  ZeroEarned' /\ ZeroCounted'
  <1> DEFINE n == motion'
  <1>1. TypeOK /\ motion \in MotionState /\ s \in MotionState
    BY DEF RelayInv, TypeOK, Sensed
  <1>2. Watching(n, s, current) /\ n.running_age = s.running_age
    BY <1>1, EndSenses DEF Sensed
  <1>3. /\ held' = Held(d, current) /\ s.requested = motion.requested
        /\ s.zero = motion.zero
        /\ motion.zero => s.zero_age = AtMost(ARRIVED, motion.zero_age + d)
    BY DEF Sensed
  <1>4. /\ {ARM, ARRIVED} \subseteq Nat /\ d \in Nat
        /\ {s.zero_age, s.running_age, motion.zero_age, motion.running_age} \subseteq Nat
        /\ held.age \in Nat
    BY <1>1, Fields, MotionConstants DEF MotionConstants, TypeOK
  <1>5. n.requested = s.requested
    BY <1>2 DEF Watching
  <1>6. Armed(s) <=> arrival_applies(n.requested) /\ n.running_age >= ARM
    BY <1>2, <1>5 DEF Armed
  <1>7. /\ held'.level = "zero" => current = "zero"
        /\ current = "zero" => held'.level = "zero"
        /\ held'.level = "zero" /\ held.level = "zero" => held'.age = held.age + d
        /\ held'.level = "zero" /\ held.level # "zero" => held'.age = 0
    BY <1>1, <1>3, SenseAge
  <1>8. motion.zero \/ held.level = "zero" =>
            Driving(motion) /\ n.running_age = motion.running_age + d
    <2>1. Closing(s) => ~motion.zero /\ held = Nothing
      BY DEF Closing, DetectInv
    <2>2. Nothing.level # "zero"
      BY DEF Nothing
    <2> QED
      BY <1>2, <2>1, <2>2 DEF Running
  <1>9. /\ motion.zero =>
              /\ arrival_applies(motion.requested)
              /\ held.level = "zero" /\ motion.zero_age <= held.age
              /\ ARM + motion.zero_age <= motion.running_age
        /\ arrival_applies(motion.requested) /\ held.level = "zero" =>
              \/ motion.running_age < ARM
              \/ /\ motion.zero
                 /\ \/ motion.zero_age >= held.age
                    \/ \E longest \in Durations :
                          motion.running_age < ARM + longest + motion.zero_age
    BY <1>8 DEF DetectInv, ZeroEarned, ZeroCounted
  <1>10. motion.zero => Armed(s)
    BY <1>3, <1>4, <1>5, <1>6, <1>8, <1>9
  <1>11. ~Armed(s) => ~n.zero
    BY <1>2, <1>3, <1>10 DEF Watching
  <1>12. Armed(s) /\ current # "zero" => ~n.zero
    BY <1>2 DEF Watching
  <1>13. CASE ~(Armed(s) /\ current = "zero")
    <2>1. ~n.zero /\ (held'.level = "zero" => ~Armed(s))
      BY <1>7, <1>11, <1>12, <1>13
    <2>2. arrival_applies(n.requested) /\ held'.level = "zero" => n.running_age < ARM
      BY <1>2, <1>4, <1>6, <2>1
    <2> QED
      BY <2>1, <2>2 DEF ZeroEarned, ZeroCounted
  <1>14. CASE Armed(s) /\ current = "zero" /\ motion.zero
    <2>1. n.zero /\ n.zero_age = s.zero_age /\ ~(s.zero_age >= ARRIVED)
      BY <1>2, <1>3, <1>14 DEF Watching
    <2>2. n.zero_age = motion.zero_age + d /\ n.zero_age < ARRIVED
      BY <1>3, <1>4, <1>14, <2>1 DEF AtMost
    <2>3. held'.level = "zero" /\ held'.age = held.age + d
      BY <1>7, <1>9, <1>14
    <2>4. /\ arrival_applies(motion.requested) /\ motion.zero_age <= held.age
          /\ ARM + motion.zero_age <= motion.running_age
          /\ n.running_age = motion.running_age + d
      BY <1>8, <1>9, <1>14
    <2>5. ZeroEarned'
      BY <1>3, <1>4, <1>5, <2>2, <2>3, <2>4 DEF ZeroEarned
    <2>6. ~(motion.running_age < ARM)
      BY <1>4, <2>4
    <2>7. CASE motion.zero_age >= held.age
      <3>1. n.zero_age >= held'.age
        BY <1>4, <2>2, <2>3, <2>7
      <3> QED
        BY <2>1, <2>2, <2>5, <3>1 DEF ZeroCounted
    <2>8. CASE \E longest \in Durations :
                  motion.running_age < ARM + longest + motion.zero_age
      <3>1. PICK longest \in Durations :
                  motion.running_age < ARM + longest + motion.zero_age
        BY <2>8
      <3>2. longest \in Nat
        BY MotionConstants DEF MotionConstants
      <3>3. n.running_age < ARM + longest + n.zero_age
        BY <1>4, <2>2, <2>4, <3>1, <3>2
      <3> QED
        BY <2>1, <2>2, <2>5, <3>3 DEF ZeroCounted
    <2> QED
      BY <1>9, <1>14, <2>4, <2>6, <2>7, <2>8
  <1>15. CASE Armed(s) /\ current = "zero" /\ ~motion.zero
    <2>1. n.zero /\ n.zero_age = 0
      BY <1>2, <1>3, <1>15 DEF Watching
    <2>2. held'.level = "zero" /\ held'.age \in Nat
      BY <1>4, <1>7, <1>15
    <2>3. ZeroEarned'
      BY <1>2, <1>4, <1>6, <1>15, <2>1, <2>2 DEF ZeroEarned
    <2>4. CASE held.level = "zero"
      <3>1. motion.running_age < ARM /\ n.running_age = motion.running_age + d
        BY <1>3, <1>5, <1>6, <1>8, <1>9, <1>15, <2>4
      <3>2. n.running_age < ARM + d + n.zero_age
        BY <1>4, <2>1, <3>1
      <3> QED
        BY <1>4, <2>1, <2>3, <3>2 DEF ZeroCounted
    <2>5. CASE held.level # "zero"
      <3>1. n.zero_age >= held'.age
        BY <1>7, <2>1, <2>2, <2>5
      <3> QED
        BY <1>4, <2>1, <2>3, <3>1 DEF ZeroCounted
    <2> QED
      BY <2>4, <2>5
  <1> QED
    BY <1>13, <1>14, <1>15

LEMMA DetectPass ==
    ASSUME RelayInv, DetectInv, NEW d \in Durations,
           NEW asked \in AskedInPass(Elapse(motion, d)),
           NEW current \in Readings, Pass(d, asked, current)
    PROVE  DetectInv'
  <1>1. RelayInv' /\ motion \in MotionState /\ motion' \in MotionState /\ Wired(motion')
    BY PassStep DEF RelayInv, TypeOK
  <1>2. CASE ~Sensing(asked)
    <2>1. /\ ~Driving(motion') /\ held' = Nothing
          /\ motion'.seq = "settling" => ~motion'.zero
          /\ motion'.seq \in {"idle", "settling"}
      BY <1>2, QuietPass
    <2> QED
      BY <2>1 DEF DetectInv, FirstInTime
  <1>3. CASE Sensing(asked)
    <2>1. PICK s \in MotionState : Sensed(s, d, current) /\ (Closing(s) \/ Running(s, d))
      BY <1>3, SensingPass
    <2>2. s \in MotionState /\ s.seq \in {"first", "running"}
      <3>1. Running(s, d) => motion.seq \in {"first", "running"}
        BY <1>1, WiredDriving DEF Running, RelayInv
      <3> QED
        BY <2>1, <3>1 DEF Sensed, Closing, Running
    <2>3. \/ Stopped(motion')
          \/ SameRelays(motion', s)
      BY <2>1, <2>2, EndEffect DEF Sensed
    <2>4. motion'.seq # "settling"
      BY <2>2, <2>3 DEF Stopped, SameRelays
    <2>5. FirstInTime'
      <3> SUFFICES ASSUME motion'.seq = "first"
                   PROVE  \E longest \in Durations :
                              motion'.requested_age < motion'.running_age + SETTLE + longest
        BY DEF FirstInTime
      <3>1. s.seq = "first" /\ motion'.requested_age = s.requested_age
            /\ motion'.running_age = s.running_age
        BY <2>3 DEF Stopped, SameRelays
      <3>2. s.requested_age = AtMost(SETTLE + STAGGER, motion.requested_age + d)
        BY <2>1 DEF Sensed
      <3>3. /\ motion.requested_age \in Nat /\ motion.running_age \in Nat
            /\ d \in Nat /\ SETTLE \in Nat /\ STAGGER \in Nat
        BY <1>1, Fields, MotionConstants DEF MotionConstants
      <3>4. CASE Closing(s)
        <4>1. s.requested_age < s.running_age + SETTLE + d
          BY <3>2, <3>3, <3>4 DEF Closing, AtMost
        <4> QED
          BY <3>1, <4>1
      <3>5. CASE Running(s, d)
        <4>1. motion.seq = "first" /\ s.running_age = motion.running_age + d
          BY <3>1, <3>5 DEF Running
        <4>2. PICK longest \in Durations :
                  motion.requested_age < motion.running_age + SETTLE + longest
          BY <4>1 DEF DetectInv, FirstInTime
        <4>3. longest \in Nat
          BY MotionConstants DEF MotionConstants
        <4>4. s.requested_age < s.running_age + SETTLE + longest
          BY <3>2, <3>3, <4>1, <4>2, <4>3 DEF AtMost
        <4> QED
          BY <3>1, <4>4
      <3> QED
        BY <2>1, <3>4, <3>5
    <2>6. ASSUME Driving(motion')
          PROVE  /\ Durations # {} /\ motion'.track_age = 0
                 /\ StallCounted' /\ ZeroEarned' /\ ZeroCounted'
      <3>1. motion'.requested # NONE
        BY <1>1, <2>6, WiredDriving DEF Wired
      <3>2. Watching(motion', s, current)
        BY <2>1, <2>2, <3>1, EndSenses DEF Sensed
      <3> QED
        BY <2>1, <3>1, <3>2, CountStall, CountZero DEF Watching
    <2> QED
      BY <2>4, <2>5, <2>6 DEF DetectInv
  <1> QED
    BY <1>2, <1>3

LEMMA DetectNext == RelayInv /\ DetectInv /\ [Next]_vars => DetectInv'
  <1> SUFFICES ASSUME RelayInv, DetectInv, [Next]_vars PROVE DetectInv'
    OBVIOUS
  <1>1. CASE Next
    <2>1. PICK d \in Durations : \E asked \in AskedInPass(Elapse(motion, d)), current \in Sampled :
              Pass(d, asked, current)
      BY <1>1 DEF Next
    <2>2. PICK asked \in AskedInPass(Elapse(motion, d)), current \in Sampled :
              Pass(d, asked, current)
      BY <2>1
    <2>3. current \in Readings
      BY DEF Sampled
    <2> QED
      BY <2>2, <2>3, DetectPass
  <1>2. CASE UNCHANGED vars
    BY <1>2 DEF vars, DetectInv, FirstInTime, StallCounted, ZeroEarned, ZeroCounted
  <1> QED
    BY <1>1, <1>2

LEMMA InitDetect == Init => DetectInv
  <1> SUFFICES ASSUME Init PROVE DetectInv
    OBVIOUS
  <1>1. motion.seq = "idle" /\ motion.closed = {}
    BY DEF Init, PowerOn
  <1> QED
    BY <1>1 DEF DetectInv, FirstInTime, Driving

\* motion.c: how far behind the reading each detector can be.
LEMMA DetectInvariant == Spec => [](RelayInv /\ DetectInv)
  <1>1. Init => DetectInv
    BY InitDetect
  <1>2. RelayInv /\ DetectInv /\ [Next]_vars => DetectInv'
    BY DetectNext
  <1> QED
    BY <1>1, <1>2, RelayInvariant, PTL DEF Spec

-----------------------------------------------------------------------------
(* What the detectors and the estimate promise.                            *)

\* stalled and arrived: a motor that draws stall current is cut off at the
\* first such reading MOTION_STALL_MS into it, and one whose limit switch has
\* opened within a pass of MOTION_ARRIVED_MS, once detection is armed; for any
\* mixture of failed conversions, and whatever the detectors remembered of the
\* motion before.  With either hold time zero a detector would still take two
\* readings.
THEOREM MotorsAreCut ==
    ASSUME STALL # 0, ARRIVED # 0
    PROVE  Spec => []MotorIsCut
  <1>1. ASSUME RelayInv, DetectInv PROVE StallIsCut
    BY <1>1 DEF DetectInv, StallCounted, StallIsCut
  <1>2. ASSUME RelayInv, DetectInv, Driving(motion),
               arrival_applies(motion.requested), held.level = "zero"
        PROVE  \/ held.age < ARRIVED
               \/ \E longest \in Durations : motion.running_age < ARM + ARRIVED + longest
    <2>1. /\ Durations \subseteq Nat /\ Durations # {} /\ ARM \in Nat /\ ARRIVED \in Nat
          /\ motion.running_age \in Nat /\ motion.zero_age \in Nat /\ held.age \in Nat
      BY <1>2, Fields, MotionConstants DEF RelayInv, TypeOK, DetectInv, MotionConstants
    <2>2. \/ motion.running_age < ARM
          \/ /\ motion.zero_age < ARRIVED
             /\ \/ motion.zero_age >= held.age
                \/ \E longest \in Durations :
                      motion.running_age < ARM + longest + motion.zero_age
      BY <1>2 DEF DetectInv, ZeroCounted
    <2>3. CASE motion.running_age < ARM
      <3>1. PICK longest \in Durations : TRUE
        BY <2>1
      <3>2. longest \in Nat
        BY <2>1
      <3>3. motion.running_age < ARM + ARRIVED + longest
        BY <2>1, <2>3, <3>2
      <3> QED
        BY <3>3
    <2>4. CASE motion.zero_age < ARRIVED /\ motion.zero_age >= held.age
      BY <2>1, <2>4
    <2>5. ASSUME motion.zero_age < ARRIVED, NEW longest \in Durations,
                 motion.running_age < ARM + longest + motion.zero_age
          PROVE  motion.running_age < ARM + ARRIVED + longest
      <3>1. longest \in Nat
        BY <2>1
      <3> QED
        BY <2>1, <2>5, <3>1
    <2> QED
      BY <2>2, <2>3, <2>4, <2>5
  <1>3. RelayInv /\ DetectInv => MotorIsCut
    BY <1>1, <1>2 DEF MotorIsCut, EndOfTravelIsCut
  <1> QED
    BY <1>3, DetectInvariant, PTL

\* What a pass can do, in the words of the three properties that follow.
LEMMA SomePass ==
    ASSUME RelayInv, DetectInv, Next
    PROVE  \/ /\ ~Driving(motion') /\ SamePosition(motion', motion)
              /\ motion'.arrived_latched => motion.arrived_latched
              /\ motion'.seq \in {"idle", "settling"}
           \/ \E d \in Durations, current \in Readings, s \in MotionState :
                 Sensed(s, d, current) /\ (Closing(s) \/ Running(s, d))
  <1>0. PICK d \in Durations : \E asked \in AskedInPass(Elapse(motion, d)), current \in Sampled :
            Pass(d, asked, current)
    BY DEF Next
  <1>1. PICK asked \in AskedInPass(Elapse(motion, d)), current \in Sampled :
            Pass(d, asked, current)
    BY <1>0
  <1>2. current \in Readings
    BY DEF Sampled
  <1>3. CASE ~Sensing(asked)
    BY <1>1, <1>2, <1>3, QuietPass
  <1>4. CASE Sensing(asked)
    BY <1>1, <1>2, <1>4, SensingPass
  <1> QED
    BY <1>3, <1>4

\* motion_update: the second contact closes in a later pass than the first, and
\* later by MOTION_STAGGER_MS less one pass.
THEOREM ContactsStagger == Spec => Staggered
  <1> DEFINE Step == motion.seq # "running" /\ motion'.seq = "running" =>
          /\ motion.seq = "first" /\ motion'.requested = motion.requested
          /\ \E longest \in Durations : motion'.running_age + longest > STAGGER
  <1>1. ASSUME RelayInv, DetectInv, Next, motion.seq # "running", motion'.seq = "running"
        PROVE  Step
    <2>1. PICK d \in Durations, current \in Readings, s \in MotionState :
              Sensed(s, d, current) /\ (Closing(s) \/ Running(s, d))
      BY <1>1, SomePass
    <2>2. /\ motion \in MotionState /\ s \in MotionState
          /\ motion' = EndStall(track(s), current) /\ s.requested = motion.requested
          /\ s.requested_age = AtMost(SETTLE + STAGGER, motion.requested_age + d)
      BY <1>1, <2>1 DEF RelayInv, TypeOK, Sensed
    <2>3. SameRelays(motion', s)
      BY <1>1, <2>2, EndEffect DEF Stopped
    <2>4. motion.seq = "first" /\ s.requested_age >= SETTLE + STAGGER
          /\ s.running_age = motion.running_age + d
      BY <1>1, <2>1, <2>3 DEF Closing, Running, SameRelays
    <2>5. PICK longest \in Durations :
              motion.requested_age < motion.running_age + SETTLE + longest
      BY <1>1, <2>4 DEF DetectInv, FirstInTime
    <2>6. /\ {d, longest, SETTLE, STAGGER} \subseteq Nat
          /\ motion.requested_age \in Nat /\ motion.running_age \in Nat
      BY <2>2, Fields, MotionConstants DEF MotionConstants
    <2>7. motion'.running_age + longest > STAGGER
      BY <2>2, <2>3, <2>4, <2>5, <2>6 DEF AtMost, SameRelays
    <2> QED
      BY <2>2, <2>3, <2>4, <2>7 DEF SameRelays
  <1>2. RelayInv /\ DetectInv /\ [Next]_vars => [Step]_vars
    BY <1>1
  <1> QED
    BY <1>2, DetectInvariant, PTL DEF Spec, Staggered

\* arrived: only a motion that has a limit switch arrives, and only after it has
\* itself read zero for MOTION_ARRIVED_MS, all of it after MOTION_ARM_MS; no
\* count survives from the motion before.
THEOREM ArrivalsAreEarned == Spec => ArrivalIsEarned
  <1> DEFINE Step == NewlyArrived =>
          /\ arrival_applies(motion.requested)
          /\ held'.level = "zero" /\ held'.age >= ARRIVED
          /\ motion'.running_age >= ARM + ARRIVED
  <1>1. ASSUME RelayInv, DetectInv, Next, NewlyArrived
        PROVE  Step
    <2>1. PICK d \in Durations, current \in Readings, s \in MotionState :
              Sensed(s, d, current) /\ (Closing(s) \/ Running(s, d))
      BY <1>1, SomePass DEF NewlyArrived
    <2>2. /\ TypeOK /\ motion \in MotionState /\ s \in MotionState
          /\ motion' = EndStall(track(s), current) /\ held' = Held(d, current)
          /\ s.requested = motion.requested /\ s.zero = motion.zero /\ ~s.arrived_latched
          /\ motion.zero => s.zero_age = AtMost(ARRIVED, motion.zero_age + d)
      BY <1>1, <2>1 DEF RelayInv, TypeOK, Sensed
    <2>3. /\ Armed(s) /\ current = "zero" /\ s.zero /\ s.zero_age >= ARRIVED
          /\ motion'.running_age = s.running_age
      BY <1>1, <2>2, EndSenses DEF NewlyArrived
    <2>4. Driving(motion) /\ s.running_age = motion.running_age + d
      BY <1>1, <2>1, <2>2, <2>3 DEF Closing, Running, DetectInv
    <2>5. /\ held.level = "zero" /\ motion.zero_age <= held.age
          /\ ARM + motion.zero_age <= motion.running_age
      BY <1>1, <2>2, <2>3, <2>4 DEF DetectInv, ZeroEarned
    <2>6. held'.level = "zero" /\ held'.age = held.age + d
      BY <2>2, <2>3, <2>5, SenseAge
    <2>7. /\ {d, ARM, ARRIVED} \subseteq Nat
          /\ motion.zero_age \in Nat /\ motion.running_age \in Nat /\ held.age \in Nat
      BY <2>2, Fields, MotionConstants DEF MotionConstants, TypeOK
    <2>8. motion.zero_age + d >= ARRIVED
      BY <2>2, <2>3, <2>7 DEF AtMost
    <2>9. held'.age >= ARRIVED /\ motion'.running_age >= ARM + ARRIVED
      BY <2>3, <2>4, <2>5, <2>6, <2>7, <2>8
    <2> QED
      BY <2>2, <2>3, <2>6, <2>9 DEF Armed
  <1>2. RelayInv /\ DetectInv /\ [Next]_vars => [Step]_vars
    BY <1>1 DEF NewlyArrived, vars
  <1> QED
    BY <1>2, DetectInvariant, PTL DEF Spec, ArrivalIsEarned

\* track: but for an arrival, an estimate moves only while its axis is driven,
\* and in a pass by no more than the time the motor has run since the last.
THEOREM EstimateIsTravel == Spec => EstimateFollowsDrive
  <1> DEFINE Axis(axis, motors) ==
          motion'[axis] # motion[axis] =>
             /\ Driven(motion) \cap motors # {}
             /\ Distance(motion'[axis], motion[axis])
                   <= motion'.running_age - motion.running_age
  <1>1. ASSUME RelayInv, DetectInv, Next, ~NewlyArrived
        PROVE  Axis("pos_recline", Recline) /\ Axis("pos_headrest", Headrest)
    <2>1. CASE SamePosition(motion', motion)
      BY <2>1 DEF SamePosition
    <2>2. CASE \E d \in Durations, current \in Readings, s \in MotionState :
                  Sensed(s, d, current) /\ (Closing(s) \/ Running(s, d))
      <3>1. PICK d \in Durations, current \in Readings, s \in MotionState :
                Sensed(s, d, current) /\ (Closing(s) \/ Running(s, d))
        BY <2>2
      <3>2. /\ motion \in MotionState /\ Wired(motion) /\ s \in MotionState
            /\ motion' = EndStall(track(s), current) /\ SamePosition(s, motion)
            /\ s.requested = motion.requested
            /\ ~s.arrived_latched /\ ~motion.arrived_latched
        BY <1>1, <3>1 DEF RelayInv, TypeOK, Sensed
      <3>3. motion'.running_age = s.running_age /\ Tracked(motion', s)
        BY <1>1, <3>2, EndSenses DEF NewlyArrived
      <3>4. CASE Closing(s)
        BY <3>2, <3>3, <3>4 DEF Tracked, Closing, SamePosition
      <3>5. CASE Running(s, d)
        <4>1. Driving(motion) /\ s.track_age = d /\ s.running_age = motion.running_age + d
          BY <3>5 DEF Running
        <4>2. Driven(motion) = IF motion.requested = "flatten"
                               THEN {"recline_down", "headrest_down"}
                               ELSE {motion.requested}
          BY <3>2, <4>1, DrivenIsRequested
        <4>3. /\ motion.requested \in Recline \cup {"flatten"} => Driven(motion) \cap Recline # {}
              /\ motion.requested \in Headrest \cup {"flatten"} => Driven(motion) \cap Headrest # {}
          BY <4>2 DEF Recline, Headrest
        <4>4. motion'.running_age - motion.running_age = d
          <5>1. motion.running_age \in Nat /\ d \in Nat
            BY <3>2, Fields, MotionConstants DEF MotionConstants
          <5> QED
            BY <3>3, <4>1, <5>1
        <4> QED
          BY <3>2, <3>3, <4>1, <4>3, <4>4 DEF Tracked, SamePosition
      <3> QED
        BY <3>1, <3>4, <3>5
    <2> QED
      BY <1>1, <2>1, <2>2, SomePass
  <1> DEFINE Step ==
          ~NewlyArrived =>
             \A axis \in {"pos_recline", "pos_headrest"} :
                motion'[axis] # motion[axis] =>
                   /\ Driven(motion) \cap (IF axis = "pos_recline" THEN Recline
                                           ELSE Headrest) # {}
                   /\ Distance(motion'[axis], motion[axis])
                         <= motion'.running_age - motion.running_age
  <1>2. ASSUME RelayInv, DetectInv, Next PROVE Step
    <2> SUFFICES ASSUME ~NewlyArrived, NEW axis \in {"pos_recline", "pos_headrest"}
                 PROVE  Axis(axis, IF axis = "pos_recline" THEN Recline ELSE Headrest)
      OBVIOUS
    <2>1. Axis("pos_recline", Recline) /\ Axis("pos_headrest", Headrest)
      BY <1>1, <1>2
    <2> HIDE DEF Axis
    <2>2. CASE axis = "pos_recline"
      BY <2>1, <2>2
    <2>3. CASE axis = "pos_headrest"
      BY <2>1, <2>3
    <2> QED
      BY <2>2, <2>3
  <1>3. RelayInv /\ DetectInv /\ [Next]_vars => [Step]_vars
    BY <1>2
  <1> QED
    BY <1>3, DetectInvariant, PTL DEF Spec, EstimateFollowsDrive

=============================================================================
