----------------------------- MODULE LinkProofs ----------------------------
(***************************************************************************)
(* That the two lines the main loop reads bytes from keep what they promise: *)
(* the console's ring (RingProperties) is a queue, for every size and         *)
(* alphabet, and the handset's answers (HandsetProperties) are a link, for    *)
(* every code there is and any bytes of noise.                               *)
(***************************************************************************)
EXTENDS HandsetProperties, RingProperties, Integers, TLAPS, SequenceTheorems

-----------------------------------------------------------------------------
(* The ring.                                                                *)

Contents == [i \in 1 .. Held |-> buffer[Slot(i)]]

Char == Chars \cup {NoChar}

RingType ==
    /\ host \in {"writer", "reader"} /\ linked \in BOOLEAN
    /\ buffer \in [Slots -> Char] /\ wr \in Slots /\ rd \in Slots
    /\ writer \in {"idle", "check", "store", "publish"}
    /\ reader \in {"idle", "fetch", "release"}
    /\ offer \in Char /\ (writer # "idle" => offer \in Chars)
    /\ (writer = "idle" => offer = NoChar)
    /\ held \in Char /\ taken \in Char

\* What each end knows of the other's index stays true while it acts on it: the
\* writer's room only grows and the reader's characters only do, and the slot
\* the reader copied is not written before it is released.
RingInv ==
    /\ RingType
    /\ (writer \in {"store", "publish"} => Held < SIZE - 1)
    /\ (writer = "publish" => buffer[wr] = offer)
    /\ (reader \in {"fetch", "release"} => Held >= 1)
    /\ (reader = "release" => held = buffer[rd])

-----------------------------------------------------------------------------
(* The indexes.                                                             *)

LEMMA HeldBounds ==
    ASSUME RingType
    PROVE  /\ Held \in 0 .. SIZE - 1
           /\ (Full <=> Held = SIZE - 1) /\ (Empty <=> Held = 0)
BY RingConstants DEF RingType, Slots, Held, Full, Empty, After

LEMMA SlotInRing ==
    ASSUME RingType, NEW i \in 1 .. Held
    PROVE  Slot(i) \in Slots /\ Slot(i) # wr
BY RingConstants DEF RingType, Slots, Held, Slot

LEMMA RingBegins == RingInit => RingInv
BY RingConstants DEF RingInit, RingInv, RingType, Slots, Held, Char

LEMMA RingSteps == RingInv /\ [RingNext]_ringVars => RingInv'
<1> SUFFICES ASSUME RingInv, [RingNext]_ringVars PROVE RingInv'
  OBVIOUS
<1> USE RingConstants DEF RingInv, RingType
<1>1. ASSUME NEW c \in Chars, Put(c) PROVE RingInv'
  BY <1>1 DEF Put, hosting, Held, Slots, Char, reading
<1>2. CASE Check
  BY <1>2, HeldBounds DEF Check, hosting, Held, Slots, Char, reading
<1>3. CASE Store
  <2>1. RingType'
    BY <1>3 DEF Store, hosting, Slots, Char, reading
  <2>2. Held' = Held /\ wr' = wr /\ rd' = rd
    BY <1>3 DEF Store, hosting, Held, reading
  <2>3. buffer'[wr] = offer
    BY <1>3 DEF Store
  <2>4. reader = "release" => buffer'[rd] = buffer[rd]
    BY <1>3 DEF Store, hosting, Held, Slots
  <2> QED
    BY <1>3, <2>1, <2>2, <2>3, <2>4 DEF Store, hosting, reading
<1>4. CASE Publish
  <2>1. RingType'
    BY <1>4 DEF Publish, hosting, Slots, Char, After, reading
  <2>2. Held' = Held + 1
    BY <1>4 DEF Publish, hosting, Held, Slots, After
  <2> QED
    BY <1>4, <2>1, <2>2, HeldBounds DEF Publish, hosting, reading
<1>5. CASE LinkDies
  BY <1>5 DEF LinkDies, Held, Slots, Char, writing, reading
<1>6. CASE Look
  BY <1>6, HeldBounds DEF Look, hosting, Held, Slots, Char, writing
<1>7. CASE Fetch
  BY <1>7 DEF Fetch, hosting, Held, Slots, Char, writing
<1>8. CASE Release
  <2>1. RingType'
    BY <1>8 DEF Release, hosting, Slots, Char, After, writing
  <2>2. Held' = Held - 1
    BY <1>8 DEF Release, hosting, Held, Slots, After
  <2> QED
    BY <1>8, <2>1, <2>2, HeldBounds DEF Release, hosting, writing
<1>9. CASE LinkBack
  BY <1>9 DEF LinkBack, Held, Slots, Char, writing, reading
<1>10. CASE UNCHANGED ringVars
  BY <1>10 DEF ringVars, hosting, writing, reading, Held, Slots, Char
<1> QED
  BY <1>1, <1>2, <1>3, <1>4, <1>5, <1>6, <1>7, <1>8, <1>9, <1>10 DEF RingNext

LEMMA RingInvariant == RingSpec => []RingInv
BY RingBegins, RingSteps, PTL DEF RingSpec

-----------------------------------------------------------------------------
(* The characters between the indexes are a queue.                          *)

LEMMA ContentsSeq ==
    ASSUME RingType
    PROVE  /\ Contents \in Seq(Char) /\ Len(Contents) = Held
           /\ \A i \in 1 .. Held : Contents[i] = buffer[Slot(i)]
<1>1. Held \in Nat
  BY HeldBounds, RingConstants
<1>2. \A i \in 1 .. Held : buffer[Slot(i)] \in Char
  BY SlotInRing DEF RingType
<1> QED
  BY <1>1, <1>2 DEF Contents

\* An equal range of equal slots is an equal queue.
LEMMA SameContents ==
    ASSUME RingType, wr' = wr, rd' = rd, \A i \in 1 .. Held : buffer'[Slot(i)] = buffer[Slot(i)]
    PROVE  Contents' = Contents
BY DEF Contents, Held, Slot

LEMMA SeqIsFunction ==
    ASSUME NEW S, NEW s \in Seq(S)
    PROVE  s = [i \in 1 .. Len(s) |-> s[i]]
<1>1. s \in [1 .. Len(s) -> S]
  OBVIOUS
<1> QED
  BY <1>1

LEMMA PublishAppends ==
    ASSUME RingInv, Publish
    PROVE  Contents' = Append(Contents, offer)
<1>1. Held' = Held + 1 /\ Held \in Nat
  BY RingConstants, HeldBounds DEF RingInv, RingType, Publish, Held, Slots, After
<1>2. ASSUME NEW i \in 1 .. Held PROVE Slot(i)' = Slot(i)
  BY DEF Publish, hosting, Slot
<1>3. ASSUME NEW i, i = Held + 1 PROVE Slot(i)' = wr
  BY <1>1, <1>3, RingConstants DEF RingInv, RingType, Publish, Slot, Held, Slots
<1> DEFINE A == Append(Contents, offer)
<1>4. A \in Seq(Char) /\ Len(A) = Held + 1
  BY ContentsSeq, AppendProperties DEF RingInv, RingType
<1>5. \A i \in 1 .. Held : A[i] = Contents[i]
  BY ContentsSeq, AppendProperties DEF RingInv, RingType
<1>6. A[Held + 1] = offer
  BY ContentsSeq, AppendProperties DEF RingInv, RingType
<1>7. ASSUME NEW i \in 1 .. Held + 1 PROVE A[i] = buffer'[Slot(i)']
  <2>1. CASE i \in 1 .. Held
    BY <2>1, <1>2, <1>5, ContentsSeq DEF RingInv, Publish
  <2>2. CASE i = Held + 1
    BY <2>2, <1>3, <1>6 DEF RingInv, Publish
  <2>3. i \in 1 .. Held \/ i = Held + 1
    BY <1>1
  <2> QED
    BY <2>1, <2>2, <2>3
<1>8. A = [i \in 1 .. Held + 1 |-> A[i]]
  <2> HIDE DEF A
  <2> QED
    BY <1>4, SeqIsFunction
<1> QED
  BY <1>1, <1>7, <1>8 DEF Contents

LEMMA ReleaseTakesHead ==
    ASSUME RingInv, Release
    PROVE  Contents # <<>> /\ Head(Contents) = held /\ Contents' = Tail(Contents)
<1>1. Held' = Held - 1 /\ Held \in Nat /\ Held >= 1
  BY RingConstants, HeldBounds DEF RingInv, RingType, Release, Held, Slots, After
<1>2. Slot(1) = rd
  BY RingConstants DEF RingInv, RingType, Slot, Slots
<1>3. ASSUME NEW i \in 1 .. Held - 1 PROVE Slot(i)' = Slot(i + 1)
  BY <1>1, RingConstants DEF RingInv, RingType, Release, Slot, Slots, After, Held
<1> DEFINE T == Tail(Contents)
<1>4. T \in Seq(Char) /\ Len(T) = Held - 1
  BY ContentsSeq, HeadTailProperties, <1>1 DEF RingInv
<1>5. ASSUME NEW i \in 1 .. Held - 1 PROVE T[i] = buffer'[Slot(i)']
  BY ContentsSeq, HeadTailProperties, <1>1, <1>3 DEF RingInv, Release
<1>7. T = [i \in 1 .. Held - 1 |-> T[i]]
  <2> HIDE DEF T
  <2> QED
    BY <1>4, SeqIsFunction
<1>6. Head(Contents) = held /\ Contents # <<>>
  BY ContentsSeq, <1>1, <1>2 DEF RingInv, Release
<1> QED
  BY <1>1, <1>5, <1>6, <1>7 DEF Contents

-----------------------------------------------------------------------------
(* The steps of a ring are steps of the queue.                              *)

LEMMA InitQueue == RingInit => Promised!Init
<1> SUFFICES ASSUME RingInit PROVE Promised!Init
  OBVIOUS
<1>1. 1 .. Held = {}
  BY RingConstants DEF RingInit, Held
<1> QED
  BY <1>1 DEF RingInit, Promised!Init

LEMMA StepQueue == RingInv /\ [RingNext]_ringVars => [Promised!Next]_Promised!vars
<1> SUFFICES ASSUME RingInv, [RingNext]_ringVars PROVE [Promised!Next]_Promised!vars
  OBVIOUS
<1> USE DEF Promised!Next, Promised!vars
<1>0. RingType /\ Contents = [i \in 1 .. Held |-> buffer[Slot(i)]]
  BY DEF RingInv, Contents
<1>a. Contents' = [i \in 1 .. Held |-> buffer[Slot(i)]]'
  BY DEF Contents
<1>1. ASSUME NEW c \in Chars, Put(c) PROVE Promised!Offer(c)
  BY <1>0, <1>1, <1>a, SameContents DEF Put, Able, Promised!Offer, RingType, reading, hosting
<1>2. CASE Check
  BY <1>0, <1>2, <1>a, SameContents, HeldBounds, ContentsSeq DEF Check, hosting, Promised!Drop, RingType, reading
<1>3. CASE Store
  <2>1. \A i \in 1 .. Held : buffer'[Slot(i)] = buffer[Slot(i)]
    BY <1>0, <1>3, SlotInRing DEF Store, hosting, RingType
  <2> QED
    BY <1>0, <1>3, <1>a, <2>1, SameContents DEF Store, hosting, reading
<1>4. CASE Publish
  BY <1>0, <1>4, <1>a, PublishAppends, ContentsSeq DEF Publish, hosting, Promised!Accept, RingInv, RingType, reading
<1>5. CASE LinkDies
  BY <1>0, <1>5, <1>a, SameContents DEF LinkDies, Promised!LinkDies, RingType, writing, reading
<1>6. CASE Look
  BY <1>0, <1>6, <1>a, SameContents DEF Look, hosting, writing
<1>7. CASE Fetch
  BY <1>0, <1>7, <1>a, SameContents DEF Fetch, hosting, writing
<1>8. CASE Release
  BY <1>0, <1>8, <1>a, ReleaseTakesHead DEF Release, hosting, Promised!Get, writing
<1>9. CASE LinkBack
  BY <1>0, <1>9, <1>a, SameContents DEF LinkBack, Promised!LinkBack, writing, reading
<1>10. CASE UNCHANGED ringVars
  BY <1>0, <1>10, <1>a, SameContents DEF ringVars, hosting, writing, reading
<1> QED
  BY <1>1, <1>2, <1>3, <1>4, <1>5, <1>6, <1>7, <1>8, <1>9, <1>10 DEF RingNext

\* rtt.c:26: whatever its size, a ring with a single writer per index is a queue,
\* however the two ends interleave and wherever the host's link dies; the core's
\* characters are dropped only when it is full.
THEOREM RingIsQueue == RingSpec => ImplementsQueue
<1>1. RingSpec => []RingInv
  BY RingInvariant
<1> QED
  BY <1>1, InitQueue, StepQueue, PTL DEF RingSpec, ImplementsQueue, Promised!Spec

-----------------------------------------------------------------------------
(***************************************************************************)
(* The line of the handset.  What the parser has, what the receiver holds   *)
(* and what is on the wire are one stream of bytes, numbered from its far    *)
(* end: taking a byte or throwing some away leaves the numbers of the rest.  *)
(***************************************************************************)
Room == Len(rx) + Len(usart.data) + Len(wire)

Nth(j) ==
    IF j <= Len(wire) THEN wire[Len(wire) + 1 - j]
    ELSE IF j <= Len(wire) + Len(usart.data) THEN usart.data[1]
    ELSE rx[Room + 1 - j]

Types == {HS_TYPE_IDLE, HS_TYPE_PRESSED}

\* An answer, numbered likewise.
Answer(c, j) ==
    IF j = 1 THEN Sum(Type(c), c) ELSE IF j = 2 THEN c ELSE IF j = 3 THEN LENGTH ELSE Type(c)

\* What the parser would take for an answer, with j bytes behind it.
Whole(j) ==
    /\ Nth(j + 4) \in Types /\ Nth(j + 3) = LENGTH
    /\ Sum(Nth(j + 4), Nth(j + 2)) = Nth(j + 1)

\* A report that has not been heard, n answers back.
Owed(n, c) == Len(offered) > n /\ offered[Len(offered) - n] = c

Fit ==
    /\ rx \in Seq(Byte) /\ Len(rx) <= 3
    /\ Len(rx) >= 1 => rx[1] \in Types
    /\ Len(rx) >= 2 => rx[2] = LENGTH
    /\ rx_sum = IF Len(rx) = 0 THEN 0 ELSE IF Len(rx) = 1 THEN rx[1]
                ELSE IF Len(rx) = 2 THEN rx[1] + LENGTH ELSE Sum(rx[1], rx[3])

WireInv ==
    /\ wire \in Seq(Byte) /\ Len(wire) <= 4
    /\ \E c \in Codes : \A j \in 1 .. 4 : j <= Len(wire) => wire[Len(wire) + 1 - j] = Answer(c, j)
    /\ Len(wire) >= 3 => Owed(0, wire[Len(wire) - 1])

LineType ==
    /\ pc \in {"loop", "stat", "drain"} /\ held_up \in BOOLEAN
    /\ usart \in [data : Seq(Byte), noise : BOOLEAN, overrun : BOOLEAN] /\ Len(usart.data) <= 1
    /\ offered \in Seq(Codes) /\ Len(offered) <= 2
    /\ age \in {0, 1} /\ intact \in {0, 1, 2}
    /\ (usart.overrun => pc # "drain") /\ (held_up => pc = "loop")

\* Whatever looks like an answer is one: the last, or the one before it if the
\* whole of the last is still to come.
Windows ==
    \A j \in 0 .. 4 : j + 4 <= Room /\ Whole(j) =>
        \/ j = 4 /\ Len(wire) = 4 /\ Owed(1, Nth(j + 2))
        \/ j <= 1 /\ Owed(0, Nth(j + 2))

\* What precedes the last k bytes cannot go on into an answer.
Edge(k) ==
    /\ Room = k + 2 => ~(Nth(k + 2) \in Types /\ Nth(k + 1) = LENGTH)
    /\ Room = k + 3 /\ Nth(k + 3) \in Types /\ Nth(k + 2) = LENGTH
         => Sum(Nth(k + 3), Nth(k + 1)) \notin Types

\* The byte in the receive register is of the last answer but one only if it
\* was left there when that was asked for.
Ages == usart.data # <<>> /\ rx # <<>> => (age = 1 <=> Len(wire) = 4)

\* Nothing has happened to the last answer.
Sound == \E c \in Codes : \A j \in 1 .. 4 : j <= Room => Nth(j) = Answer(c, j)

LastIntact ==
    /\ Sound
    /\ Room > 4 => Len(wire) + Len(usart.data) >= 4 /\ Edge(4)

\* Nor to the one before it.
BothIntact ==
    \/ Room = 0 /\ offered = <<>>
    \/ Room = 4
    \/ /\ Room \in {5, 6, 8} /\ Len(wire) = 4 /\ usart.data # <<>>
       /\ Nth(5) \notin Types \cup {LENGTH}
       /\ Room = 8 => Whole(4)

Stream ==
    /\ Windows /\ Ages
    /\ (wire = <<>> => Edge(0))
    /\ (intact \in {1, 2} => LastIntact)
    /\ (intact = 2 => BothIntact)

\* While an overrun stands the stream has a hole; the flag's clearing throws
\* away what is on the near side of it.
LineInv == Fit /\ WireInv /\ LineType /\ (~usart.overrun => Stream)

-----------------------------------------------------------------------------
(* Bytes and answers.                                                       *)

LEMMA Answers ==
    ASSUME NEW c \in Codes
    PROVE  /\ c \in 0 .. 8 /\ c \in Byte /\ Type(c) \in Types
           /\ Answer(c, 1) = Type(c) + LENGTH + c /\ Answer(c, 1) = Sum(Type(c), c)
           /\ Answer(c, 1) \in 7 .. 18 /\ Answer(c, 2) = c
           /\ Answer(c, 3) = LENGTH /\ Answer(c, 4) = Type(c)
           /\ \A j \in 1 .. 4 : Answer(c, j) \in Byte
<1>1. c \in 0 .. 8
  BY HandsetConstants
<1>2. Type(c) \in Types /\ Type(c) \in {3, 6}
  BY DEF Type, Types, HS_TYPE_IDLE, HS_TYPE_PRESSED
<1>3. Type(c) = 3 => c = 0
  BY <1>1 DEF Type, HS_NONE, HS_TYPE_IDLE, HS_TYPE_PRESSED
<1>4. Sum(Type(c), c) = Type(c) + LENGTH + c
  BY <1>1, <1>2 DEF Sum, LENGTH
<1> QED
  BY <1>1, <1>2, <1>3, <1>4 DEF Answer, Byte, LENGTH

LEMMA Frames ==
    ASSUME NEW c \in Codes
    PROVE  /\ Frame(c) \in Seq(Byte) /\ Len(Frame(c)) = 4
           /\ \A j \in 1 .. 4 : Frame(c)[4 + 1 - j] = Answer(c, j)
<1>1. /\ Frame(c)[1] = Answer(c, 4) /\ Frame(c)[2] = Answer(c, 3)
      /\ Frame(c)[3] = Answer(c, 2) /\ Frame(c)[4] = Answer(c, 1)
  BY Answers DEF Frame
<1>2. Frame(c) \in Seq(Byte) /\ Len(Frame(c)) = 4
  BY Answers, <1>1 DEF Frame
<1> QED
  BY <1>1, <1>2

LEMMA Sums ==
    ASSUME NEW t \in Byte, NEW b \in Byte
    PROVE  /\ Sum(t, b) \in Byte
           /\ \A c \in Byte : Sum(t, c) = Sum(t, b) => c = b
<1>1. Sum(t, b) \in Byte
  BY DEF Sum, Byte, LENGTH
<1>2. ASSUME NEW c \in Byte, Sum(t, c) = Sum(t, b) PROVE c = b
  <2> DEFINE x == t + LENGTH + c
             y == t + LENGTH + b
  <2>1. x \in Nat /\ y \in Nat /\ x - y = c - b /\ c - b \in -255 .. 255
    BY DEF Byte, LENGTH
  <2>2. x % 256 = y % 256
    BY <1>2 DEF Sum
  <2> HIDE DEF x, y
  <2>3. x - y = 256 * ((x \div 256) - (y \div 256)) /\ (x \div 256) - (y \div 256) \in Int
    BY <2>1, <2>2
  <2> QED
    BY <2>1, <2>3 DEF Byte
<1> QED
  BY <1>1, <1>2

LEMMA ByteTypes == Types \subseteq Byte /\ Types = {3, 6} /\ LENGTH = 4 /\ LENGTH \in Byte
BY DEF Types, Byte, HS_TYPE_IDLE, HS_TYPE_PRESSED, LENGTH

LEMMA ShortSeq ==
    ASSUME NEW S, NEW s \in Seq(S), NEW n \in Nat, Len(s) <= n
    PROVE  Len(s) \in 0 .. n
BY LenProperties

-----------------------------------------------------------------------------
(* Sums of the lengths, kept apart from the sequences.                      *)

LEMMA NotThree ==
    ASSUME NEW n \in 0 .. 3, n # 3
    PROVE  n \in {0, 1, 2}
OBVIOUS

LEMMA Upto ==
    ASSUME NEW n \in 0 .. 4, NEW j \in 1 .. n
    PROVE  j \in 1 .. 4 /\ j <= n
OBVIOUS

LEMMA Short ==
    ASSUME NEW r \in 0 .. 3
    PROVE  ~(8 <= r + 4)
OBVIOUS

LEMMA OneWindow ==
    ASSUME NEW w \in 0 .. 4, NEW d \in {0, 1}, NEW j \in 0 .. 4, j + 4 <= d + w
    PROVE  j \in {0, 1} /\ w >= 3 /\ (j = 1 => w = 4)
OBVIOUS

LEMMA ThreeLeft ==
    ASSUME NEW w \in 0 .. 4, w + 1 >= 4
    PROVE  w \in {3, 4}
OBVIOUS

LEMMA Behind ==
    ASSUME NEW r \in 0 .. 3, r + 1 + 4 \in {5, 6, 8}
    PROVE  r \in {0, 1, 3}
OBVIOUS

LEMMA Parts ==
    ASSUME NEW r \in 0 .. 3, NEW d \in 0 .. 1
    PROVE  /\ (4 = r + d => r = 3 /\ d = 1) /\ (3 = r + d => r >= 1) /\ (d = 0 => r + d = r)
           /\ (r + d >= 2 => r >= 1)
OBVIOUS

LEMMA OneOrTwo ==
    ASSUME NEW n \in {1, 2}
    PROVE  n > 0 /\ n - 0 = n /\ n <= 2
OBVIOUS

LEMMA SomeLeft ==
    ASSUME NEW r \in 0 .. 3, NEW w \in 0 .. 4, r + 0 + w = 4
    PROVE  w \in 1 .. 4
OBVIOUS

LEMMA Sent ==
    ASSUME NEW w \in 1 .. 4, NEW j \in 1 .. 5, j <= w
    PROVE  j \in 1 .. 4
OBVIOUS

LEMMA Few ==
    ASSUME NEW r \in 0 .. 3
    PROVE  r + 0 + 0 # 4
OBVIOUS

LEMMA AddUp ==
    ASSUME NEW a \in 0 .. 3, NEW b \in 0 .. 1, NEW c \in 0 .. 4
    PROVE  a + b + c \in 0 .. 8
OBVIOUS

-----------------------------------------------------------------------------
(* The stream.                                                              *)

\* The lengths of its parts, and its bytes.
LEMMA Lengths ==
    ASSUME Fit, WireInv, LineType
    PROVE  /\ Len(rx) \in 0 .. 3 /\ Len(wire) \in 0 .. 4 /\ Len(usart.data) \in 0 .. 1
           /\ Room \in 0 .. 8 /\ Room = Len(rx) + Len(usart.data) + Len(wire)
           /\ (usart.data = <<>> <=> Len(usart.data) = 0) /\ (wire = <<>> <=> Len(wire) = 0)
           /\ (rx = <<>> <=> Len(rx) = 0)
           /\ \A j \in 1 .. Room : Nth(j) \in Byte
<1>1. /\ rx \in Seq(Byte) /\ wire \in Seq(Byte) /\ usart.data \in Seq(Byte)
      /\ Len(rx) <= 3 /\ Len(wire) <= 4 /\ Len(usart.data) <= 1
  BY DEF Fit, WireInv, LineType
<1> DEFINE data == usart.data
<1> HIDE DEF data
<1>2. Len(rx) \in 0 .. 3 /\ Len(wire) \in 0 .. 4 /\ Len(data) \in 0 .. 1
  <2>1. Len(rx) \in 0 .. 3
    BY <1>1, ShortSeq
  <2>2. Len(wire) \in 0 .. 4
    BY <1>1, ShortSeq
  <2>3. Len(data) \in 0 .. 1
    BY <1>1, ShortSeq DEF data
  <2> QED
    BY <2>1, <2>2, <2>3
<1>4. Room \in 0 .. 8 /\ Room = Len(rx) + Len(data) + Len(wire)
  <2>1. Room = Len(rx) + Len(data) + Len(wire)
    BY DEF Room, data
  <2>2. Len(rx) + Len(data) + Len(wire) \in 0 .. 8
    BY <1>2, AddUp
  <2> QED
    BY <2>1, <2>2
<1> USE DEF data
<1>3. ASSUME NEW j \in 1 .. Room PROVE Nth(j) \in Byte
  <2>1. CASE j <= Len(wire)
    BY <1>1, <1>2, <1>4, <2>1 DEF Nth
  <2>2. CASE ~(j <= Len(wire)) /\ j <= Len(wire) + Len(usart.data)
    BY <1>1, <1>2, <1>4, <2>2 DEF Nth
  <2>3. CASE ~(j <= Len(wire)) /\ ~(j <= Len(wire) + Len(usart.data))
    BY <1>1, <1>2, <1>4, <2>3 DEF Nth, Room
  <2> QED
    BY <2>1, <2>2, <2>3
<1> QED
  BY <1>1, <1>2, <1>3, <1>4, EmptySeq DEF Room

-----------------------------------------------------------------------------
(* What the steps make of the stream.                                       *)

\* A stream that has lost bytes at its near end, or none.
Dropped ==
    /\ Room' \in 0 .. Room
    /\ \A j \in 1 .. Room' : Nth(j)' = Nth(j)

Same == UNCHANGED <<parser, wire, usart, offered, age, intact>>

LEMMA SameStream ==
    ASSUME Fit, WireInv, LineType, UNCHANGED <<parser, wire, usart.data>>
    PROVE  Room' = Room /\ Dropped
<1>1. rx' = rx /\ wire' = wire /\ usart.data' = usart.data
  BY DEF parser
<1>2. Room' = Room
  BY <1>1 DEF Room
<1>3. \A j \in 1 .. Room : Nth(j)' = Nth(j)
  BY <1>1, <1>2 DEF Nth
<1> QED
  BY <1>2, <1>3, Lengths DEF Dropped

LEMMA Arrived ==
    ASSUME Fit, WireInv, LineType, wire # <<>>, usart.data = <<>>, UNCHANGED parser,
           wire' = Tail(wire), usart'.data = <<Head(wire)>>
    PROVE  /\ Len(wire') = Len(wire) - 1 /\ wire' \in Seq(Byte) /\ Room' = Room
           /\ Dropped
           /\ \A j \in 1 .. Len(wire) - 1 : wire'[Len(wire') + 1 - j] = wire[Len(wire) + 1 - j]
           /\ usart'.data \in Seq(Byte) /\ Len(usart'.data) = 1 /\ usart'.data[1] = wire[1]
<1>1. wire \in Seq(Byte) /\ Len(wire) \in 1 .. 4 /\ Len(usart.data) = 0
  BY Lengths DEF WireInv
<1>2. /\ Len(wire') = Len(wire) - 1 /\ wire' \in Seq(Byte)
      /\ \A i \in 1 .. Len(wire) - 1 : wire'[i] = wire[i + 1]
  BY <1>1, HeadTailProperties
<1>3. usart'.data \in Seq(Byte) /\ Len(usart'.data) = 1 /\ usart'.data[1] = wire[1]
  BY <1>1, HeadTailProperties
<1>4. Room' = Room /\ Room \in 0 .. 8 /\ rx' = rx /\ Len(rx) \in 0 .. 3 /\ Room = Len(rx) + Len(wire)
  BY <1>1, <1>2, <1>3, Lengths DEF Room, parser
<1>5. ASSUME NEW j \in 1 .. Room PROVE Nth(j)' = Nth(j)
  <2>1. CASE j <= Len(wire) - 1
    BY <1>1, <1>2, <2>1 DEF Nth
  <2>2. CASE j = Len(wire)
    BY <1>1, <1>2, <1>3, <2>2 DEF Nth
  <2>3. CASE j > Len(wire)
    BY <1>1, <1>2, <1>3, <1>4, <2>3 DEF Nth
  <2> QED
    BY <1>1, <2>1, <2>2, <2>3
<1> QED
  BY <1>1, <1>2, <1>3, <1>4, <1>5 DEF Dropped

LEMMA Reset ==
    ASSUME Fit, WireInv, LineType, parser_reset, wire' = wire, usart'.data \in {usart.data, <<>>}
    PROVE  Dropped /\ Room' = Len(usart'.data) + Len(wire) /\ Fit'
<1>1. rx' = <<>> /\ Len(rx') = 0 /\ rx_sum' = 0
  BY DEF parser_reset
<1>2. /\ Len(usart'.data) \in 0 .. Len(usart.data) /\ Len(rx) \in 0 .. 3 /\ Len(wire) \in 0 .. 4
      /\ Len(usart.data) \in 0 .. 1 /\ Room = Len(rx) + Len(usart.data) + Len(wire)
  BY Lengths
<1>3. Room' = Len(usart'.data) + Len(wire)
  BY <1>1, <1>2 DEF Room
<1>4. ASSUME NEW j \in 1 .. Room' PROVE Nth(j)' = Nth(j)
  BY <1>1, <1>2, <1>3 DEF Nth
<1> QED
  BY <1>1, <1>2, <1>3, <1>4 DEF Dropped, Fit

\* Taking a byte keeps all of the stream, or what is behind it.
LEMMA Took ==
    ASSUME Fit, WireInv, LineType, usart.data # <<>>, feed(usart.data[1]),
           wire' = wire, usart'.data = <<>>
    PROVE  /\ Fit' /\ Dropped
           /\ \/ Fits(usart.data[1]) /\ ~Completes(usart.data[1]) /\ Room' = Room
                 /\ Len(rx') = Len(rx) + 1
              \/ (~Fits(usart.data[1]) \/ Completes(usart.data[1])) /\ Room' = Len(wire) /\ rx' = <<>>
<1> DEFINE b == usart.data[1]
<1>1. /\ rx \in Seq(Byte) /\ Len(rx) \in 0 .. 3 /\ Len(wire) \in 0 .. 4 /\ Len(usart.data) = 1
      /\ Room = Len(rx) + 1 + Len(wire)
  <2>1. rx \in Seq(Byte) /\ Len(usart.data) # 0
    BY Lengths DEF Fit
  <2>2. Len(usart.data) = 1
    BY <2>1, Lengths
  <2> QED
    BY <2>1, <2>2, Lengths
<1>2. b \in Byte
  BY <1>1 DEF LineType
<1> HIDE DEF b
<1>3. CASE Fits(b) /\ ~Completes(b)
  <2>1. rx' = Append(rx, b) /\ rx_sum' = (rx_sum + b) % 256
    BY <1>3 DEF feed, b
  <2>2. /\ rx' \in Seq(Byte) /\ Len(rx') = Len(rx) + 1 /\ rx'[Len(rx) + 1] = b
        /\ \A i \in 1 .. Len(rx) : rx'[i] = rx[i]
    BY <1>1, <1>2, <2>1, AppendProperties
  <2>3. Room' = Room
    BY <1>1, <2>2 DEF Room
  <2>4. ASSUME NEW j \in 1 .. Room PROVE Nth(j)' = Nth(j)
    BY <1>1, <2>2, <2>3 DEF Nth, b
  <2>5. Len(rx) \in {0, 1, 2}
    <3>1. Len(rx) # 3
      BY <1>3 DEF Completes
    <3> QED
      BY <1>1, <3>1, NotThree
  <2>6. Fit'
    <3>1. CASE Len(rx) = 0
      <4>1. Len(rx') = 1 /\ rx'[1] = b /\ b \in Types /\ rx_sum = 0
        BY <1>3, <2>2, <3>1 DEF Fit, Fits, Types
      <4>2. rx_sum' = b
        BY <1>2, <2>1, <4>1 DEF Byte
      <4> QED
        BY <2>2, <4>1, <4>2 DEF Fit
    <3>2. CASE Len(rx) = 1
      <4>1. Len(rx') = 2 /\ rx'[2] = b /\ b = LENGTH /\ rx'[1] = rx[1]
        BY <1>3, <2>2, <3>2 DEF Fits
      <4>2. rx[1] \in Types /\ rx_sum = rx[1]
        BY <3>2 DEF Fit
      <4>3. rx_sum' = rx[1] + LENGTH
        BY <2>1, <4>1, <4>2, ByteTypes
      <4>4. rx' \in Seq(Byte)
        BY <2>2
      <4> QED
        BY <4>1, <4>2, <4>3, <4>4 DEF Fit
    <3>3. CASE Len(rx) = 2
      <4>1. Len(rx') = 3 /\ rx'[3] = b /\ rx'[2] = rx[2] /\ rx'[1] = rx[1]
        BY <2>2, <3>3
      <4>2. rx[1] \in Types /\ rx[2] = LENGTH /\ rx_sum = rx[1] + LENGTH
        BY <3>3 DEF Fit
      <4>3. rx_sum' = Sum(rx[1], b)
        BY <2>1, <4>2 DEF Sum
      <4>4. rx' \in Seq(Byte)
        BY <2>2
      <4> QED
        BY <4>1, <4>2, <4>3, <4>4 DEF Fit
    <3> QED
      BY <2>5, <3>1, <3>2, <3>3
  <2> QED
    BY <1>1, <1>3, <2>2, <2>3, <2>4, <2>6 DEF Dropped, b
<1>4. CASE ~Fits(b) \/ Completes(b)
  <2>1. parser_reset
    BY <1>4 DEF feed, b
  <2>2. Dropped /\ Fit' /\ Room' = Len(wire)
    BY <1>1, <2>1, Reset
  <2> QED
    BY <1>4, <2>1, <2>2 DEF b, parser_reset
<1> QED
  BY <1>3, <1>4

\* What the parser knows of a byte it completes with.
LEMMA Completing ==
    ASSUME Fit, WireInv, LineType, usart.data # <<>>
    PROVE  /\ (Completes(usart.data[1]) <=> Room = Len(wire) + 4 /\ Whole(Len(wire)))
           /\ (Completes(usart.data[1]) => rx[3] = Nth(Len(wire) + 2))
           /\ Nth(Len(wire) + 1) = usart.data[1] /\ usart.data[1] \in Byte
           /\ (Len(rx) = 0 => (Fits(usart.data[1]) <=> Nth(Len(wire) + 1) \in Types))
           /\ (Len(rx) = 1 => (Fits(usart.data[1]) <=> Nth(Len(wire) + 1) = LENGTH))
           /\ (Len(rx) = 3 => (Fits(usart.data[1]) <=> Completes(usart.data[1])))
<1> DEFINE b == usart.data[1]
<1>1. /\ rx \in Seq(Byte) /\ Len(rx) \in 0 .. 3 /\ Len(wire) \in 0 .. 4 /\ Len(usart.data) = 1
      /\ Room = Len(rx) + 1 + Len(wire)
  <2>1. rx \in Seq(Byte) /\ Len(usart.data) # 0
    BY Lengths DEF Fit
  <2>2. Len(usart.data) = 1
    BY <2>1, Lengths
  <2> QED
    BY <2>1, <2>2, Lengths
<1>2. b \in Byte
  BY <1>1 DEF LineType
<1> HIDE DEF b
<1>3. Nth(Len(wire) + 1) = b
  BY <1>1 DEF Nth, b
<1>4. Len(rx) = 3 => /\ Nth(Len(wire) + 2) = rx[3] /\ Nth(Len(wire) + 3) = rx[2]
                     /\ Nth(Len(wire) + 4) = rx[1]
  BY <1>1 DEF Nth
<1>5. Len(rx) = 3 => (Completes(b) <=> Whole(Len(wire)))
  BY <1>1, <1>3, <1>4 DEF Completes, Fits, Fit, Whole
<1>6. Completes(b) => Len(rx) = 3
  BY DEF Completes
<1>7. (Room = Len(wire) + 4) <=> (Len(rx) = 3)
  <2> DEFINE r == Len(rx)
             w == Len(wire)
  <2>1. r \in 0 .. 3 /\ w \in 0 .. 4 /\ Room = r + 1 + w
    BY <1>1
  <2> HIDE DEF r, w
  <2>2. (Room = w + 4) <=> (r = 3)
    BY <2>1
  <2> QED
    BY <2>2 DEF r, w
<1>8. /\ (Len(rx) = 0 => (Fits(b) <=> b \in Types))
      /\ (Len(rx) = 1 => (Fits(b) <=> b = LENGTH))
      /\ (Len(rx) = 3 => (Fits(b) <=> Completes(b)))
  <2>1. Len(rx) = 0 => (Fits(b) <=> b \in Types)
    BY DEF Fits, Types
  <2>2. Len(rx) = 1 => (Fits(b) <=> b = LENGTH)
    BY DEF Fits
  <2>3. Len(rx) = 3 => (Fits(b) <=> Completes(b))
    BY DEF Completes
  <2> QED
    BY <2>1, <2>2, <2>3
<1> QED
  BY <1>2, <1>3, <1>4, <1>5, <1>6, <1>7, <1>8 DEF b

-----------------------------------------------------------------------------
(* What is left of a stream.                                                *)

LEMMA Left ==
    ASSUME Dropped, Room \in 0 .. 8, NEW j \in 0 .. 4, j + 4 <= Room'
    PROVE  /\ j + 4 <= Room /\ (Whole(j)' <=> Whole(j)) /\ Nth(j + 2)' = Nth(j + 2)
<1>1. Room' \in 0 .. 8 /\ Room' <= Room
  BY DEF Dropped
<1>2. /\ j + 1 \in 1 .. Room' /\ j + 2 \in 1 .. Room' /\ j + 3 \in 1 .. Room'
      /\ j + 4 \in 1 .. Room' /\ j + 4 <= Room
  BY <1>1
<1>3. /\ Nth(j + 1)' = Nth(j + 1) /\ Nth(j + 2)' = Nth(j + 2)
      /\ Nth(j + 3)' = Nth(j + 3) /\ Nth(j + 4)' = Nth(j + 4)
  BY <1>2 DEF Dropped
<1> QED
  BY <1>2, <1>3 DEF Whole, Types

LEMMA LeftEdge ==
    ASSUME Dropped, Room' = Room, Room \in 0 .. 8, NEW k \in {0, 4}, Edge(k)
    PROVE  Edge(k)'
<1>1. CASE Room = k + 2
  <2>1. Nth(k + 1)' = Nth(k + 1) /\ Nth(k + 2)' = Nth(k + 2)
    BY <1>1 DEF Dropped
  <2>2. Room' # k + 3
    BY <1>1
  <2> QED
    BY <1>1, <2>1, <2>2 DEF Edge, Types
<1>2. CASE Room = k + 3
  <2>1. Nth(k + 1)' = Nth(k + 1) /\ Nth(k + 2)' = Nth(k + 2) /\ Nth(k + 3)' = Nth(k + 3)
    BY <1>2 DEF Dropped
  <2>2. Room' # k + 2
    BY <1>2
  <2> QED
    BY <1>2, <2>1, <2>2 DEF Edge, Types
<1> QED
  BY <1>1, <1>2 DEF Edge

LEMMA LeftSound ==
    ASSUME Dropped, Room \in 0 .. 8, Sound
    PROVE  Sound'
<1>1. PICK c \in Codes : \A j \in 1 .. 4 : j <= Room => Nth(j) = Answer(c, j)
  BY DEF Sound
<1>2. \A j \in 1 .. 4 : j <= Room' => Nth(j)' = Answer(c, j)
  BY <1>1 DEF Dropped
<1> QED
  BY <1>2 DEF Sound, Answer

LEMMA WholeAnswer ==
    ASSUME NEW c \in Codes, \A j \in 1 .. 4 : Nth(j) = Answer(c, j)
    PROVE  Whole(0)
<1>1. Nth(0 + 4) = Type(c) /\ Nth(0 + 3) = LENGTH /\ Nth(0 + 2) = c /\ Nth(0 + 1) = Sum(Type(c), c)
  BY Answers
<1> QED
  BY <1>1, Answers DEF Whole

\* What is on the wire is the end of an answer.
LEMMA OnWire ==
    ASSUME Fit, WireInv, LineType
    PROVE  /\ \A j \in 1 .. Len(wire) : Nth(j) = wire[Len(wire) + 1 - j]
           /\ \E c \in Codes : \A j \in 1 .. Len(wire) : Nth(j) = Answer(c, j)
<1>1. Len(wire) \in 0 .. 4
  BY Lengths
<1>2. \A j \in 1 .. Len(wire) : Nth(j) = wire[Len(wire) + 1 - j]
  BY <1>1 DEF Nth
<1>3. PICK c \in Codes : \A j \in 1 .. 4 : j <= Len(wire) => wire[Len(wire) + 1 - j] = Answer(c, j)
  BY DEF WireInv
<1>4. ASSUME NEW j \in 1 .. Len(wire) PROVE Nth(j) = Answer(c, j)
  <2>1. j \in 1 .. 4 /\ j <= Len(wire)
    BY <1>1, Upto
  <2> QED
    BY <1>2, <1>3, <2>1
<1> QED
  BY <1>2, <1>4

\* What is in the parser begins like one.
LEMMA InParser ==
    ASSUME Fit, WireInv, LineType
    PROVE  /\ (Len(rx) >= 1 => Nth(Room) = rx[1] /\ Nth(Room) \in Types)
           /\ (Len(rx) >= 2 => Nth(Room - 1) = rx[2] /\ Nth(Room - 1) = LENGTH)
           /\ (Len(rx) >= 3 => Nth(Room - 2) = rx[3])
           /\ (Len(usart.data) = 1 => Nth(Len(wire) + 1) = usart.data[1])
<1>1. /\ Len(rx) \in 0 .. 3 /\ Len(wire) \in 0 .. 4 /\ Len(usart.data) \in 0 .. 1
      /\ Room = Len(rx) + Len(usart.data) + Len(wire)
  BY Lengths
<1> DEFINE d == Len(usart.data)
           w == Len(wire)
           r == Len(rx)
<1>2. r \in 0 .. 3 /\ w \in 0 .. 4 /\ d \in 0 .. 1 /\ Room = r + d + w
  BY <1>1
<1>3. \A j \in 1 .. 8 : j > w + d => Nth(j) = rx[Room + 1 - j]
  BY <1>2 DEF Nth
<1>4. d = 1 => Nth(w + 1) = usart.data[1]
  BY <1>2 DEF Nth
<1> HIDE DEF d, w, r
<1>5. r >= 1 => Nth(Room) = rx[1]
  <2> SUFFICES ASSUME r >= 1 PROVE Nth(Room) = rx[1]
    OBVIOUS
  <2>1. Room \in 1 .. 8 /\ Room > w + d /\ Room + 1 - Room = 1
    BY <1>2
  <2> QED
    BY <1>3, <2>1
<1>6. r >= 2 => Nth(Room - 1) = rx[2]
  <2> SUFFICES ASSUME r >= 2 PROVE Nth(Room - 1) = rx[2]
    OBVIOUS
  <2>1. Room - 1 \in 1 .. 8 /\ Room - 1 > w + d /\ Room + 1 - (Room - 1) = 2
    BY <1>2
  <2> QED
    BY <1>3, <2>1
<1>7. r >= 3 => Nth(Room - 2) = rx[3]
  <2> SUFFICES ASSUME r >= 3 PROVE Nth(Room - 2) = rx[3]
    OBVIOUS
  <2>1. Room - 2 \in 1 .. 8 /\ Room - 2 > w + d /\ Room + 1 - (Room - 2) = 3
    BY <1>2
  <2> QED
    BY <1>3, <2>1
<1>8. (r >= 1 => rx[1] \in Types) /\ (r >= 2 => rx[2] = LENGTH)
  BY DEF Fit, r
<1> QED
  BY <1>4, <1>5, <1>6, <1>7, <1>8 DEF r, d, w

-----------------------------------------------------------------------------
(* What each step makes of the line.                                        *)

LEMMA StillFit ==
    ASSUME Fit, WireInv, LineType, UNCHANGED <<parser, wire, offered>>
    PROVE  Fit' /\ WireInv'
BY DEF Fit, WireInv, Owed, parser

\* Nothing happens to the stream.
LEMMA SameStep ==
    ASSUME LineInv, UNCHANGED <<parser, wire, usart, offered, age, intact>>, LineType'
    PROVE  LineInv'
<1>1. Fit /\ WireInv /\ LineType /\ Fit' /\ WireInv'
  BY StillFit DEF LineInv, parser
<1>2. Room' = Room /\ Dropped /\ Room \in 0 .. 8
  BY <1>1, SameStream, Lengths
<1>3. ASSUME Stream PROVE Stream'
  <2>1. Windows'
    <3> SUFFICES ASSUME NEW j \in 0 .. 4, j + 4 <= Room', Whole(j)'
                 PROVE  \/ j = 4 /\ Len(wire') = 4 /\ Owed(1, Nth(j + 2))'
                        \/ j <= 1 /\ Owed(0, Nth(j + 2))'
      BY DEF Windows
    <3>1. j + 4 <= Room /\ Whole(j) /\ Nth(j + 2)' = Nth(j + 2)
      BY <1>2, Left
    <3> QED
      BY <1>3, <3>1 DEF Stream, Windows, Owed
  <2>2. Ages'
    BY <1>3 DEF Stream, Ages, parser
  <2>3. (wire = <<>> => Edge(0))'
    BY <1>2, <1>3, LeftEdge DEF Stream
  <2>4. LastIntact => LastIntact'
    <3> SUFFICES ASSUME LastIntact PROVE LastIntact'
      OBVIOUS
    <3>1. Sound'
      BY <1>2, LeftSound DEF LastIntact
    <3>2. (Room > 4 => Len(wire) + Len(usart.data) >= 4 /\ Edge(4))'
      BY <1>2, LeftEdge DEF LastIntact
    <3> QED
      BY <3>1, <3>2 DEF LastIntact
  <2>5. BothIntact => BothIntact'
    <3>1. ASSUME Room \in {5, 6, 8} PROVE Nth(5)' = Nth(5) /\ (Room = 8 => (Whole(4)' <=> Whole(4)))
      BY <1>2, <3>1, Left DEF Dropped
    <3> QED
      BY <1>2, <3>1 DEF BothIntact, Types
  <2> QED
    BY <1>3, <2>1, <2>2, <2>3, <2>4, <2>5 DEF Stream
<1> QED
  BY <1>1, <1>3 DEF LineInv

\* A byte leaves the wire.
LEMMA TailWire ==
    ASSUME Fit, WireInv, LineType, wire # <<>>, wire' = Tail(wire), UNCHANGED offered
    PROVE  WireInv'
<1>2. wire \in Seq(Byte) /\ Len(wire) \in 0 .. 4 /\ Len(wire) # 0
  BY Lengths DEF WireInv
<1>3. /\ wire' \in Seq(Byte) /\ Len(wire') = Len(wire) - 1
      /\ \A i \in 1 .. Len(wire') : wire'[i] = wire[i + 1]
  BY <1>2, HeadTailProperties
<1>4. ASSUME NEW j \in 1 .. 4, j <= Len(wire')
      PROVE  j <= Len(wire) /\ wire'[Len(wire') + 1 - j] = wire[Len(wire) + 1 - j]
  <2>1. Len(wire') + 1 - j \in 1 .. Len(wire') /\ (Len(wire') + 1 - j) + 1 = Len(wire) + 1 - j
    BY <1>2, <1>3, <1>4
  <2> QED
    BY <1>2, <1>3, <1>4, <2>1
<1>5. PICK c \in Codes : \A j \in 1 .. 4 : j <= Len(wire) => wire[Len(wire) + 1 - j] = Answer(c, j)
  BY DEF WireInv
<1>6. \A j \in 1 .. 4 : j <= Len(wire') => wire'[Len(wire') + 1 - j] = Answer(c, j)
  BY <1>4, <1>5
<1>7. ASSUME Len(wire') >= 3 PROVE Owed(0, wire[Len(wire) - 1]) /\ wire'[Len(wire') - 1] = wire[Len(wire) - 1]
  <2>1. Len(wire) >= 3 /\ Len(wire') + 1 - 2 = Len(wire') - 1 /\ Len(wire) + 1 - 2 = Len(wire) - 1
    BY <1>2, <1>3, <1>7
  <2>2. Owed(0, wire[Len(wire) - 1])
    BY <2>1 DEF WireInv
  <2>3. 2 \in 1 .. 4 /\ 2 <= Len(wire')
    BY <1>7, <1>2, <1>3
  <2>4. wire'[Len(wire') + 1 - 2] = wire[Len(wire) + 1 - 2]
    BY <1>4, <2>3
  <2> QED
    BY <2>1, <2>2, <2>4
<1> QED
  BY <1>2, <1>3, <1>6, <1>7 DEF WireInv, Owed, Answer

\* What an overrun leaves: the parser, the far end of the answer on the wire
\* and the flag.
LEMMA Lost ==
    ASSUME Fit, WireInv, LineType, usart'.overrun, LineType', UNCHANGED <<parser, offered>>,
           wire' = wire \/ (wire # <<>> /\ wire' = Tail(wire))
    PROVE  LineInv'
<1>1. CASE wire' = wire
  BY <1>1, StillFit DEF LineInv
<1>2. CASE wire # <<>> /\ wire' = Tail(wire)
  <2>1. Fit'
    BY DEF Fit, parser
  <2>2. WireInv'
    BY <1>2, TailWire
  <2> QED
    BY <2>1, <2>2 DEF LineInv
<1> QED
  BY <1>1, <1>2

LEMMA Receives ==
    ASSUME LineType, NEW byte, NEW noisy \in BOOLEAN, Received(byte, noisy), byte \in Byte
    PROVE  /\ usart' \in [data : Seq(Byte), noise : BOOLEAN, overrun : BOOLEAN]
           /\ Len(usart'.data) <= 1
           /\ (Spoilt => usart'.overrun)
           /\ (~Spoilt => usart.data = <<>> /\ usart'.data = <<byte>> /\ ~usart.overrun /\ ~usart'.overrun)
<1>1. usart \in [data : Seq(Byte), noise : BOOLEAN, overrun : BOOLEAN] /\ Len(usart.data) <= 1
  BY DEF LineType
<1>2. CASE usart.overrun
  BY <1>1, <1>2 DEF Received, Spoilt
<1>3. CASE ~usart.overrun /\ RBNE
  <2>1. usart' = [usart EXCEPT !.overrun = TRUE]
    BY <1>3 DEF Received
  <2>2. usart'.data = usart.data /\ usart'.overrun /\ usart' \in [data : Seq(Byte), noise : BOOLEAN, overrun : BOOLEAN]
    BY <1>1, <2>1
  <2> QED
    BY <1>1, <1>3, <2>2 DEF Spoilt
<1>4. CASE ~usart.overrun /\ ~RBNE
  <2>1. usart' = [usart EXCEPT !.data = <<byte>>, !.noise = usart.noise \/ noisy]
    BY <1>4 DEF Received
  <2>2. <<byte>> \in Seq(Byte) /\ Len(<<byte>>) <= 1
    OBVIOUS
  <2>3. usart.noise \/ noisy \in BOOLEAN
    BY <1>1
  <2>4. /\ usart'.data = <<byte>> /\ usart'.overrun = usart.overrun
        /\ usart' \in [data : Seq(Byte), noise : BOOLEAN, overrun : BOOLEAN]
    BY <1>1, <2>1, <2>2, <2>3
  <2> QED
    BY <1>4, <2>2, <2>4 DEF Spoilt, RBNE
<1> QED
  BY <1>2, <1>3, <1>4

\* An answer cannot end in what begins one.
LEMMA SumEnds ==
    ASSUME NEW c \in Codes, Nth(1)' = Answer(c, 1)
    PROVE  Edge(0)'
<1>1. Answer(c, 1) \in 7 .. 18
  BY Answers
<1>2. Nth(1)' # LENGTH
  BY <1>1, ByteTypes
<1>3. ASSUME Nth(3)' \in Types PROVE Sum(Nth(3)', Nth(1)') \notin Types
  BY <1>1, <1>3, ByteTypes DEF Sum
<1> QED
  BY <1>2, <1>3 DEF Edge, Types

LEMMA ArriveStep ==
    ASSUME LineInv, Arrive
    PROVE  LineInv'
<1>1. Fit /\ WireInv /\ LineType
  BY DEF LineInv
<1>2. /\ wire # <<>> /\ InTime /\ Received(Head(wire), FALSE) /\ wire' = Tail(wire)
      /\ age' = (IF Spoilt THEN age ELSE 0) /\ intact' = (IF Spoilt THEN 0 ELSE intact)
      /\ UNCHANGED <<pc, parser, last_button, held_up, offered>>
  BY DEF Arrive
<1>3. Head(wire) \in Byte /\ Len(wire) \in 1 .. 4
  BY <1>1, <1>2, Lengths DEF WireInv
<1>4. /\ usart' \in [data : Seq(Byte), noise : BOOLEAN, overrun : BOOLEAN]
      /\ Len(usart'.data) <= 1
      /\ (Spoilt => usart'.overrun)
      /\ (~Spoilt => usart.data = <<>> /\ usart'.data = <<Head(wire)>> /\ ~usart.overrun /\ ~usart'.overrun)
  BY <1>1, <1>2, <1>3, Receives
<1>5. LineType'
  BY <1>1, <1>2, <1>4 DEF LineType, InTime, Spoilt
<1>6. CASE Spoilt
  BY <1>1, <1>2, <1>4, <1>5, <1>6, Lost
<1>7. CASE ~Spoilt
  <2>1. /\ Len(wire') = Len(wire) - 1 /\ wire' \in Seq(Byte) /\ Room' = Room
        /\ Dropped /\ Room \in 0 .. 8
        /\ \A j \in 1 .. Len(wire) - 1 : wire'[Len(wire') + 1 - j] = wire[Len(wire) + 1 - j]
        /\ Len(usart'.data) = 1 /\ Len(usart.data) = 0
    BY <1>1, <1>2, <1>4, <1>7, Arrived, Lengths
  <2>2. Fit' /\ WireInv'
    BY <1>1, <1>2, TailWire DEF Fit, parser
  <2>3. Stream
    BY <1>4, <1>7 DEF LineInv
  <2>4. Windows'
    <3> SUFFICES ASSUME NEW j \in 0 .. 4, j + 4 <= Room', Whole(j)'
                 PROVE  j <= 1 /\ Owed(0, Nth(j + 2))'
      BY DEF Windows
    <3>1. j + 4 <= Room /\ Whole(j) /\ Nth(j + 2)' = Nth(j + 2)
      BY <2>1, Left
    <3>2. Len(rx) \in 0 .. 3 /\ Room = Len(rx) + Len(wire)
      BY <1>1, <1>3, <2>1, Lengths
    <3>3. ~(j = 4 /\ Len(wire) = 4)
      <4> SUFFICES ASSUME j = 4, Len(wire) = 4 PROVE FALSE
        OBVIOUS
      <4>1. Room = Len(rx) + 4 /\ 8 <= Room
        BY <3>1, <3>2
      <4> QED
        BY <3>2, <4>1, Short
    <3> QED
      BY <1>2, <2>3, <3>1, <3>3 DEF Stream, Windows, Owed
  <2>5. Ages'
    BY <1>2, <1>3, <1>7, <2>1 DEF Ages
  <2>6. (wire = <<>> => Edge(0))'
    <3> SUFFICES ASSUME wire' = <<>> PROVE Edge(0)'
      OBVIOUS
    <3>0. Len(wire') = 0
      BY EmptySeq
    <3>1. Len(wire) = 1 /\ Room >= 1
      <4> DEFINE r == Len(rx)
                 w == Len(wire)
      <4>1. r \in 0 .. 3 /\ w \in 1 .. 4 /\ Room = r + 0 + w /\ w - 1 = 0
        BY <1>1, <1>3, <2>1, <3>0, Lengths
      <4> HIDE DEF r, w
      <4>2. w = 1 /\ Room >= 1
        BY <4>1
      <4> QED
        BY <4>2 DEF w
    <3>2. PICK c \in Codes : \A j \in 1 .. Len(wire) : Nth(j) = Answer(c, j)
      BY <1>1, OnWire
    <3>3. Nth(1)' = Answer(c, 1)
      BY <2>1, <3>1, <3>2 DEF Dropped
    <3> QED
      BY <3>3, SumEnds
  <2>7. LastIntact => LastIntact'
    <3> SUFFICES ASSUME LastIntact PROVE LastIntact'
      OBVIOUS
    <3>1. Sound'
      BY <2>1, LeftSound DEF LastIntact
    <3>2. Room > 4 => Len(wire') + Len(usart'.data) >= 4 /\ Edge(4)'
      BY <1>3, <2>1, LeftEdge DEF LastIntact
    <3> QED
      BY <2>1, <3>1, <3>2 DEF LastIntact
  <2>8. BothIntact => BothIntact'
    BY <1>2, <1>3, <1>4, <1>7, <2>1 DEF BothIntact
  <2> QED
    BY <1>2, <1>5, <1>7, <2>2, <2>3, <2>4, <2>5, <2>6, <2>7, <2>8 DEF LineInv, Stream
<1> QED
  BY <1>6, <1>7

LEMMA TurnStep ==
    ASSUME LineInv, Stall \/ Turn \/ Leave \/ UNCHANGED vars
    PROVE  LineInv'
<1>1. UNCHANGED <<parser, wire, usart, offered, age, intact>>
  BY DEF Stall, Turn, Leave, vars, link, parser
<1>2. LineType'
  <2>1. LineType
    BY DEF LineInv
  <2>2. CASE Stall
    BY <1>1, <2>1, <2>2 DEF LineType, Stall
  <2>3. CASE Turn
    BY <1>1, <2>1, <2>3 DEF LineType, Turn
  <2>4. CASE Leave
    BY <1>1, <2>1, <2>4 DEF LineType, Leave, link
  <2>5. CASE UNCHANGED vars
    BY <1>1, <2>1, <2>5 DEF LineType, vars, link
  <2> QED
    BY <2>2, <2>3, <2>4, <2>5
<1> QED
  BY <1>1, <1>2, SameStep

\* After the flags are cleared there is no more of the stream than the wire and
\* one byte, and what is on the wire is of one answer, the last.
LEMMA AfterReset ==
    ASSUME Fit, WireInv, LineType, Dropped, UNCHANGED <<wire, offered>>,
           Room' = Len(usart'.data) + Len(wire), Len(usart'.data) \in {0, 1}
    PROVE  Windows'
<1>1. PICK c \in Codes : \A j \in 1 .. Len(wire) : Nth(j) = Answer(c, j)
  BY OnWire
<1>2. /\ Len(wire) \in 0 .. 4 /\ Room \in 0 .. 8
      /\ \A j \in 1 .. Len(wire) : Nth(j) = wire[Len(wire) + 1 - j]
  BY Lengths, OnWire
<1> SUFFICES ASSUME NEW j \in 0 .. 4, j + 4 <= Room', Whole(j)'
             PROVE  j <= 1 /\ Owed(0, Nth(j + 2))'
  BY DEF Windows
<1>3. j + 4 <= Room /\ Whole(j) /\ Nth(j + 2)' = Nth(j + 2)
  BY <1>2, Left
<1>4. /\ j \in {0, 1} /\ Len(wire) >= 3
      /\ (j = 1 => Len(wire) = 4)
  BY <1>2, OneWindow
<1>5. j # 1
  <2> SUFFICES ASSUME j = 1 PROVE FALSE
    OBVIOUS
  <2>1. Nth(1 + 3) = LENGTH
    BY <1>3 DEF Whole
  <2>2. Len(wire) = 4
    BY <1>4
  <2>3. Nth(4) = Answer(c, 4)
    BY <1>1, <2>2
  <2> QED
    BY <2>1, <2>3, Answers, ByteTypes
<1>6. Owed(0, Nth(2))
  <2>1. Nth(2) = wire[Len(wire) + 1 - 2] /\ Len(wire) + 1 - 2 = Len(wire) - 1
    BY <1>2, <1>4
  <2> QED
    BY <1>4, <2>1 DEF WireInv
<1> QED
  BY <1>3, <1>4, <1>5, <1>6 DEF Owed

LEMMA ClearStep ==
    ASSUME LineInv, Clear
    PROVE  LineInv'
<1>1. Fit /\ WireInv /\ LineType
  BY DEF LineInv
<1>2. CASE ~Flagged
  <2>1. UNCHANGED <<parser, wire, usart, offered, age, intact>>
    BY <1>2 DEF Clear
  <2>2. LineType'
    BY <1>1, <1>2, <2>1 DEF LineType, Clear, Flagged
  <2> QED
    BY <2>1, <2>2, SameStep
<1>3. CASE Flagged
  <2>1. /\ usart' = Cleared /\ parser_reset /\ intact' = 0 /\ pc = "stat" /\ pc' = "drain"
        /\ UNCHANGED <<last_button, wire, held_up, offered, age>>
    BY <1>3 DEF Clear
  <2>2. /\ usart'.data = usart.data /\ ~usart'.overrun /\ Len(usart.data) \in {0, 1}
        /\ usart' \in [data : Seq(Byte), noise : BOOLEAN, overrun : BOOLEAN]
    <3>1. usart \in [data : Seq(Byte), noise : BOOLEAN, overrun : BOOLEAN] /\ Len(usart.data) \in 0 .. 1
      BY <1>1, Lengths DEF LineType
    <3>2. usart' = [data |-> usart.data, noise |-> FALSE, overrun |-> FALSE]
      BY <2>1 DEF Cleared, Quiet
    <3> QED
      BY <3>1, <3>2
  <2>3. LineType'
    BY <1>1, <2>1, <2>2 DEF LineType
  <2>4. Dropped /\ Room' = Len(usart'.data) + Len(wire) /\ Fit'
    BY <1>1, <2>1, <2>2, Reset
  <2>5. WireInv'
    BY <1>1, <2>1 DEF WireInv, Owed
  <2>6. Windows'
    BY <1>1, <2>1, <2>2, <2>4, AfterReset
  <2>7. Ages'
    BY <2>1 DEF Ages, parser_reset
  <2>8. (wire = <<>> => Edge(0))'
    <3> SUFFICES ASSUME wire' = <<>> PROVE Edge(0)'
      OBVIOUS
    <3>1. Len(wire) = 0
      BY <2>1, EmptySeq
    <3>2. Room' \in {0, 1}
      BY <2>2, <2>4, <3>1
    <3> QED
      BY <3>2 DEF Edge
  <2> QED
    BY <2>1, <2>3, <2>4, <2>5, <2>6, <2>7, <2>8 DEF LineInv, Stream
<1> QED
  BY <1>2, <1>3

-----------------------------------------------------------------------------
(* The parser takes a byte.                                                 *)

\* What is owed after the report n answers back has been heard.
LEMMA Newest ==
    ASSUME NEW s \in Seq(Codes), NEW n \in {0, 1}, Len(s) > n
    PROVE  /\ SubSeq(s, Len(s) - n + 1, Len(s)) \in Seq(Codes)
           /\ Len(SubSeq(s, Len(s) - n + 1, Len(s))) = n
           /\ (n = 1 => SubSeq(s, Len(s) - n + 1, Len(s))[1] = s[Len(s)])
<1>1. Len(s) \in Nat
  BY LenProperties
<1>2. /\ Len(s) - n + 1 \in Int /\ Len(s) \in Int
      /\ \A i \in (Len(s) - n + 1) .. Len(s) : s[i] \in Codes
  BY <1>1
<1>3. /\ SubSeq(s, Len(s) - n + 1, Len(s)) \in Seq(Codes)
      /\ Len(SubSeq(s, Len(s) - n + 1, Len(s)))
           = IF Len(s) - n + 1 <= Len(s) THEN Len(s) - (Len(s) - n + 1) + 1 ELSE 0
      /\ \A i \in 1 .. (Len(s) - (Len(s) - n + 1) + 1) :
            SubSeq(s, Len(s) - n + 1, Len(s))[i] = s[(Len(s) - n + 1) + i - 1]
  BY <1>2, SubSeqProperties
<1>4. CASE n = 0
  BY <1>1, <1>3, <1>4
<1>5. CASE n = 1
  <2>1. Len(s) - n + 1 = Len(s) /\ 1 \in 1 .. (Len(s) - (Len(s) - n + 1) + 1)
    BY <1>1, <1>5
  <2>2. SubSeq(s, Len(s) - n + 1, Len(s))[1] = s[(Len(s) - n + 1) + 1 - 1]
    BY <1>3, <2>1
  <2>3. (Len(s) - n + 1) + 1 - 1 = Len(s)
    BY <1>1, <1>5
  <2>4. Len(SubSeq(s, Len(s) - n + 1, Len(s))) = 1
    BY <1>1, <1>3, <1>5
  <2> QED
    BY <1>3, <1>5, <2>2, <2>3, <2>4
<1> QED
  BY <1>4, <1>5

\* A button the parser completes is the report its byte is of.
LEMMA Report ==
    ASSUME Fit, WireInv, LineType, Stream, usart.data # <<>>, Completes(usart.data[1])
    PROVE  /\ Room = Len(wire) + 4 /\ age \in {0, 1} /\ Owed(age, rx[3])
           /\ (age = 1 <=> Len(wire) = 4) /\ Len(wire) \in {0, 1, 4}
<1>1. Room = Len(wire) + 4 /\ Whole(Len(wire)) /\ rx[3] = Nth(Len(wire) + 2)
  BY Completing
<1>2. Len(wire) \in 0 .. 4
  BY Lengths
<1>3. rx # <<>>
  BY EmptySeq DEF Completes
<1>4. age \in {0, 1} /\ (age = 1 <=> Len(wire) = 4)
  BY <1>3 DEF LineType, Stream, Ages
<1>5. \/ Len(wire) = 4 /\ Owed(1, Nth(Len(wire) + 2))
      \/ Len(wire) <= 1 /\ Owed(0, Nth(Len(wire) + 2))
  <2>1. \A j \in 0 .. 4 : j + 4 <= Room /\ Whole(j) =>
           \/ j = 4 /\ Len(wire) = 4 /\ Owed(1, Nth(j + 2))
           \/ j <= 1 /\ Owed(0, Nth(j + 2))
    BY DEF Stream, Windows
  <2>2. Len(wire) + 4 <= Room
    BY <1>1, <1>2
  <2> QED
    BY <1>1, <1>2, <2>1, <2>2
<1>6. CASE Len(wire) = 4
  <2>1. Owed(1, rx[3]) /\ age = 1
    BY <1>1, <1>4, <1>5, <1>6
  <2> QED
    BY <1>1, <1>6, <2>1
<1>7. CASE Len(wire) # 4
  <2>1. Len(wire) <= 1 /\ Owed(0, rx[3]) /\ age = 0
    BY <1>1, <1>4, <1>5, <1>7
  <2>2. Len(wire) \in {0, 1}
    BY <1>2, <2>1
  <2> QED
    BY <1>1, <1>7, <2>1, <2>2
<1> QED
  BY <1>6, <1>7

LEMMA Taken ==
    ASSUME Take
    PROVE  /\ pc = "drain" /\ usart.data # <<>> /\ feed(usart.data[1]) /\ wire' = wire
           /\ usart' = [usart EXCEPT !.data = <<>>] /\ UNCHANGED <<pc, held_up, age, intact>>
           /\ (Completes(usart.data[1]) =>
                 last_button' = rx[3] /\ offered' = SubSeq(offered, Len(offered) - age + 1, Len(offered)))
           /\ (~Completes(usart.data[1]) => UNCHANGED <<last_button, offered>>)
BY DEF Take, RBNE

LEMMA TakeStep ==
    ASSUME LineInv, Take
    PROVE  LineInv'
<1>1. Fit /\ WireInv /\ LineType
  BY DEF LineInv
<1>2. /\ pc = "drain" /\ usart.data # <<>> /\ feed(usart.data[1]) /\ wire' = wire
      /\ usart' = [usart EXCEPT !.data = <<>>] /\ UNCHANGED <<pc, held_up, age, intact>>
  BY Taken
<1>3. /\ usart'.data = <<>> /\ usart'.overrun = usart.overrun /\ ~usart.overrun
      /\ usart' \in [data : Seq(Byte), noise : BOOLEAN, overrun : BOOLEAN]
      /\ Len(usart'.data) = 0
  <2>1. usart \in [data : Seq(Byte), noise : BOOLEAN, overrun : BOOLEAN] /\ ~usart.overrun
    BY <1>1, <1>2 DEF LineType
  <2>2. <<>> \in Seq(Byte) /\ Len(<<>>) = 0
    BY EmptySeq
  <2>3. usart' = [data |-> <<>>, noise |-> usart.noise, overrun |-> usart.overrun]
    BY <1>2, <2>1
  <2> QED
    BY <2>1, <2>2, <2>3
<1>4. Stream
  BY <1>3 DEF LineInv
<1>5. /\ Fit' /\ Dropped
      /\ \/ Fits(usart.data[1]) /\ ~Completes(usart.data[1]) /\ Room' = Room /\ Len(rx') = Len(rx) + 1
         \/ (~Fits(usart.data[1]) \/ Completes(usart.data[1])) /\ Room' = Len(wire) /\ rx' = <<>>
  BY <1>1, <1>2, <1>3, Took
<1>6. /\ Len(rx) \in 0 .. 3 /\ Len(wire) \in 0 .. 4 /\ Len(usart.data) = 1 /\ Room \in 0 .. 8
      /\ Room = Len(rx) + 1 + Len(wire)
  <2>1. Len(usart.data) # 0
    BY <1>1, <1>2, Lengths
  <2>2. Len(usart.data) = 1
    BY <1>1, <2>1, Lengths
  <2> QED
    BY <1>1, <2>2, Lengths
<1>7. CASE Completes(usart.data[1])
  <2>1. /\ Room = Len(wire) + 4 /\ age \in {0, 1} /\ Owed(age, rx[3])
        /\ (age = 1 <=> Len(wire) = 4) /\ Len(wire) \in {0, 1, 4}
    BY <1>1, <1>2, <1>4, <1>7, Report
  <2>2. offered \in Seq(Codes) /\ Len(offered) > age
    BY <1>1, <2>1 DEF LineType, Owed
  <2>3. offered' = SubSeq(offered, Len(offered) - age + 1, Len(offered))
    BY <1>7, Taken
  <2>4. offered' \in Seq(Codes) /\ Len(offered') = age /\ (age = 1 => offered'[1] = offered[Len(offered)])
    BY <2>1, <2>2, <2>3, Newest
  <2>5. ASSUME age = 1, NEW x, Owed(0, x)
        PROVE  Len(offered') > 0 /\ offered'[Len(offered') - 0] = x
    <3>1. Len(offered) - 0 = Len(offered) /\ offered[Len(offered) - 0] = x
      BY <2>2, <2>5, LenProperties DEF Owed
    <3>2. Len(offered') = 1 /\ offered'[1] = x
      BY <2>4, <2>5, <3>1
    <3> QED
      BY <3>2
  <2>6. Room' = Len(wire)
    BY <1>5, <1>7
  <2>7. LineType'
    BY <1>1, <1>2, <1>3, <2>1, <2>4 DEF LineType
  <2>8. WireInv'
    <3>1. ASSUME Len(wire) >= 3 PROVE Owed(0, wire[Len(wire) - 1])'
      <4>1. age = 1 /\ Owed(0, wire[Len(wire) - 1])
        BY <1>1, <2>1, <3>1 DEF WireInv
      <4> QED
        BY <1>2, <2>5, <4>1 DEF Owed
    <3> QED
      BY <1>1, <1>2, <3>1 DEF WireInv, Answer
  <2>9. Windows'
    <3> SUFFICES ASSUME NEW j \in 0 .. 4, j + 4 <= Room', Whole(j)'
                 PROVE  j <= 1 /\ Owed(0, Nth(j + 2))'
      BY DEF Windows
    <3>1. j + 4 <= Room /\ Whole(j) /\ Nth(j + 2)' = Nth(j + 2)
      BY <1>5, <1>6, Left
    <3>2. j = 0 /\ age = 1
      BY <1>6, <2>1, <2>6
    <3>3. Owed(0, Nth(j + 2))
      BY <1>4, <3>1, <3>2 DEF Stream, Windows
    <3>4. Len(offered') > 0 /\ offered'[Len(offered') - 0] = Nth(j + 2)
      BY <2>5, <3>2, <3>3
    <3> QED
      BY <3>1, <3>2, <3>4 DEF Owed
  <2>10. Ages'
    BY <1>3 DEF Ages
  <2>11. (wire = <<>> => Edge(0))'
    <3> SUFFICES ASSUME wire' = <<>> PROVE Edge(0)'
      OBVIOUS
    <3>1. Room' = 0
      BY <1>2, <2>6, EmptySeq
    <3> QED
      BY <3>1 DEF Edge
  <2>12. LastIntact => LastIntact'
    <3>1. ~(Room' > 4)
      BY <1>6, <2>6
    <3> QED
      BY <1>5, <1>6, <3>1, LeftSound DEF LastIntact
  <2>13. BothIntact => BothIntact'
    <3>1. CASE Len(wire) = 4
      BY <2>6, <3>1 DEF BothIntact
    <3>2. CASE Len(wire) = 0
      <4>1. Len(offered') = 0
        BY <2>1, <2>4, <3>2
      <4> QED
        BY <2>4, <2>6, <3>2, <4>1, EmptySeq DEF BothIntact
    <3>3. CASE Len(wire) = 1
      <4>1. Room = 5
        BY <2>1, <3>3
      <4> QED
        BY <3>3, <4>1 DEF BothIntact
    <3> QED
      BY <2>1, <3>1, <3>2, <3>3
  <2> QED
    BY <1>2, <1>4, <1>5, <2>7, <2>8, <2>9, <2>10, <2>11, <2>12, <2>13 DEF LineInv, Stream
<1>8. CASE ~Completes(usart.data[1])
  <2>1. UNCHANGED <<last_button, offered>>
    BY <1>8, Taken
  <2>2. LineType' /\ WireInv'
    BY <1>1, <1>2, <1>3, <2>1 DEF LineType, WireInv, Owed
  <2>3. Windows'
    <3> SUFFICES ASSUME NEW j \in 0 .. 4, j + 4 <= Room', Whole(j)'
                 PROVE  \/ j = 4 /\ Len(wire') = 4 /\ Owed(1, Nth(j + 2))'
                        \/ j <= 1 /\ Owed(0, Nth(j + 2))'
      BY DEF Windows
    <3>1. j + 4 <= Room /\ Whole(j) /\ Nth(j + 2)' = Nth(j + 2)
      BY <1>5, <1>6, Left
    <3> QED
      BY <1>2, <1>4, <2>1, <3>1 DEF Stream, Windows, Owed
  <2>4. Ages'
    BY <1>3 DEF Ages
  <2>5. Sound => Sound'
    BY <1>5, <1>6, LeftSound
  <2>6. CASE Fits(usart.data[1])
    <3>1. Room' = Room /\ Len(rx') = Len(rx) + 1
      BY <1>5, <1>8, <2>6
    <3>2. (wire = <<>> => Edge(0))'
      BY <1>2, <1>4, <1>5, <1>6, <3>1, LeftEdge DEF Stream
    <3>3. LastIntact => LastIntact'
      <4> SUFFICES ASSUME LastIntact PROVE LastIntact'
        OBVIOUS
      <4>1. Sound'
        BY <2>5 DEF LastIntact
      <4>2. Edge(4) => Edge(4)'
        BY <1>5, <1>6, <3>1, LeftEdge
      <4>3. ASSUME Room > 4 PROVE Len(wire) = 4
        <5>1. Len(wire) + Len(usart.data) >= 4 /\ Edge(4)
          BY <4>3 DEF LastIntact
        <5>2. Len(wire) \in {3, 4}
          <6>1. Len(wire) + 1 >= 4
            BY <1>6, <5>1
          <6> QED
            BY <1>6, <6>1, ThreeLeft
        <5> SUFFICES ASSUME Len(wire) = 3 PROVE FALSE
          BY <5>2
        <5>3. Len(rx) \in {1, 2, 3} /\ Room = Len(rx) + 4
          BY <1>6, <4>3
        <5>4. CASE Len(rx) = 1
          <6>1. Nth(Len(wire) + 1) = LENGTH
            BY <1>1, <1>2, <2>6, <5>4, Completing
          <6>2. PICK c \in Codes : \A j \in 1 .. 4 : j <= Room => Nth(j) = Answer(c, j)
            BY DEF LastIntact, Sound
          <6>3. Nth(4) = Answer(c, 4)
            BY <4>3, <5>3, <6>2
          <6> QED
            BY <6>1, <6>3, Answers, ByteTypes
        <5>5. CASE Len(rx) = 2
          <6>1. Nth(Room) \in Types /\ Nth(Room - 1) = LENGTH
            BY <1>1, <5>5, InParser
          <6>2. Room = 4 + 2 /\ Room - 1 = 4 + 1
            BY <5>3, <5>5
          <6> QED
            BY <5>1, <6>1, <6>2 DEF Edge
        <5>6. CASE Len(rx) = 3
          BY <1>1, <1>2, <1>8, <2>6, <5>6, Completing
        <5> QED
          BY <5>3, <5>4, <5>5, <5>6
      <4>4. Room' > 4 => Len(wire') + Len(usart'.data) >= 4 /\ Edge(4)'
        <5> SUFFICES ASSUME Room' > 4 PROVE Len(wire') + Len(usart'.data) >= 4 /\ Edge(4)'
          OBVIOUS
        <5>1. Room > 4 /\ Len(wire') = 4 /\ Len(usart'.data) = 0
          BY <1>2, <1>3, <3>1, <4>3
        <5>2. Edge(4)
          BY <5>1 DEF LastIntact
        <5> QED
          BY <4>2, <5>1, <5>2
      <4> QED
        BY <4>1, <4>4 DEF LastIntact
    <3>4. BothIntact => BothIntact'
      <4> SUFFICES ASSUME BothIntact PROVE Room = 4
        BY <3>1 DEF BothIntact
      <4>1. Room # 0
        BY <1>6
      <4> SUFFICES ASSUME Room \in {5, 6, 8}, Len(wire) = 4, Nth(5) \notin Types \cup {LENGTH}
                   PROVE  FALSE
        BY <4>1 DEF BothIntact
      <4>2. Nth(Len(wire) + 1) \notin Types /\ Nth(Len(wire) + 1) # LENGTH
        OBVIOUS
      <4>3. Len(rx) \in {0, 1, 3}
        <5>1. Len(rx) + 1 + 4 \in {5, 6, 8}
          BY <1>6
        <5> QED
          BY <1>6, <5>1, Behind
      <4> QED
        BY <1>1, <1>2, <1>8, <2>6, <4>2, <4>3, Completing
    <3> QED
      BY <1>2, <1>4, <1>5, <2>2, <2>3, <2>4, <3>2, <3>3, <3>4 DEF LineInv, Stream
  <2>7. CASE ~Fits(usart.data[1])
    <3>1. Room' = Len(wire)
      BY <1>5, <2>7
    <3>2. (wire = <<>> => Edge(0))'
      <4> SUFFICES ASSUME wire' = <<>> PROVE Edge(0)'
        OBVIOUS
      <4>1. Room' = 0
        BY <1>2, <3>1, EmptySeq
      <4> QED
        BY <4>1 DEF Edge
    <3>3. LastIntact => LastIntact'
      <4>1. ~(Room' > 4)
        BY <1>6, <3>1
      <4> QED
        BY <2>5, <4>1 DEF LastIntact
    <3>4. LastIntact /\ BothIntact => BothIntact'
      <4> SUFFICES ASSUME LastIntact, BothIntact PROVE Len(wire) = 4
        BY <3>1 DEF BothIntact
      <4>1. Room # 0
        BY <1>6
      <4> SUFFICES ASSUME Room = 4 PROVE FALSE
        BY <4>1 DEF BothIntact
      <4>2. PICK c \in Codes : \A j \in 1 .. 4 : j <= Room => Nth(j) = Answer(c, j)
        BY DEF LastIntact, Sound
      <4>3. \A j \in 1 .. 4 : Nth(j) = Answer(c, j)
        BY <4>2
      <4>4. Len(rx) + Len(wire) = 3
        BY <1>6
      <4>5. CASE Len(rx) = 0
        <5>1. Nth(Len(wire) + 1) \in Types
          BY <4>3, <4>4, <4>5, <1>6, Answers
        <5> QED
          BY <1>1, <1>2, <2>7, <4>5, <5>1, Completing
      <4>6. CASE Len(rx) = 1
        <5>1. Nth(Len(wire) + 1) = LENGTH
          BY <4>3, <4>4, <4>6, <1>6, Answers
        <5> QED
          BY <1>1, <1>2, <2>7, <4>6, <5>1, Completing
      <4>7. CASE Len(rx) = 2
        BY <2>7, <4>7 DEF Fits
      <4>8. CASE Len(rx) = 3
        <5>1. Len(wire) = 0
          BY <4>4, <4>8, <1>6
        <5>2. Whole(Len(wire))
          BY <4>3, <5>1, WholeAnswer
        <5>3. Room = Len(wire) + 4
          BY <5>1
        <5> QED
          BY <1>1, <1>2, <1>8, <5>2, <5>3, Completing
      <4> QED
        BY <1>6, <4>5, <4>6, <4>7, <4>8
    <3> QED
      BY <1>2, <1>4, <1>5, <2>2, <2>3, <2>4, <3>2, <3>3, <3>4 DEF LineInv, Stream
  <2> QED
    BY <2>6, <2>7
<1> QED
  BY <1>7, <1>8

-----------------------------------------------------------------------------
(* The handset answers.                                                     *)

LEMMA Offer ==
    ASSUME NEW s \in Seq(Codes), Len(s) <= 2, NEW b \in Codes, NEW t,
           t = Append(IF Len(s) < 2 THEN s ELSE Tail(s), b)
    PROVE  /\ t \in Seq(Codes) /\ Len(t) \in {1, 2} /\ t[Len(t)] = b
           /\ (Len(s) > 0 => Len(t) > 1 /\ t[Len(t) - 1] = s[Len(s)])
<1>1. Len(s) \in 0 .. 2
  BY ShortSeq
<1>2. CASE Len(s) < 2
  <2>1. /\ t \in Seq(Codes) /\ Len(t) = Len(s) + 1 /\ t[Len(s) + 1] = b
        /\ \A i \in 1 .. Len(s) : t[i] = s[i]
    BY <1>2, AppendProperties
  <2>2. Len(s) \in {0, 1}
    BY <1>1, <1>2
  <2> QED
    BY <2>1, <2>2
<1>3. CASE ~(Len(s) < 2)
  <2>1. Len(s) = 2 /\ s # <<>>
    BY <1>1, <1>3, EmptySeq
  <2>2. Tail(s) \in Seq(Codes) /\ Len(Tail(s)) = 1 /\ Tail(s)[1] = s[2]
    <3>1. /\ Tail(s) \in Seq(Codes) /\ Len(Tail(s)) = Len(s) - 1
          /\ \A i \in 1 .. Len(Tail(s)) : Tail(s)[i] = s[i + 1]
      BY <2>1, HeadTailProperties
    <3>2. Len(Tail(s)) = 1 /\ 1 + 1 = 2
      BY <2>1, <3>1
    <3>3. Tail(s)[1] = s[1 + 1]
      BY <3>1, <3>2
    <3> QED
      BY <3>1, <3>2, <3>3
  <2>3. /\ t \in Seq(Codes) /\ Len(t) = 2 /\ t[2] = b /\ t[1] = Tail(s)[1]
    BY <1>3, <2>2, AppendProperties
  <2>4. t[Len(t) - 1] = t[1] /\ s[Len(s)] = s[2]
    <3>1. Len(t) - 1 = 1
      BY <2>3
    <3> QED
      BY <2>1, <3>1
  <2> QED
    BY <2>2, <2>3, <2>4
<1> QED
  BY <1>2, <1>3

LEMMA Asked ==
    ASSUME Fit, WireInv, LineType, wire = <<>>, NEW b \in Codes, wire' = Frame(b),
           UNCHANGED <<parser, usart>>
    PROVE  /\ Room \in 0 .. 4 /\ Room' = Room + 4 /\ Len(rx) \in 0 .. 3 /\ Len(usart.data) \in 0 .. 1
           /\ Room = Len(rx) + Len(usart.data)
           /\ wire' \in Seq(Byte) /\ Len(wire') = 4
           /\ \A j \in 1 .. 4 : wire'[4 + 1 - j] = Answer(b, j)
           /\ \A j \in 1 .. 4 : Nth(j)' = Answer(b, j)
           /\ \A j \in 1 .. Room : Nth(j + 4)' = Nth(j)
<1>1. /\ Len(rx) \in 0 .. 3 /\ Len(usart.data) \in 0 .. 1 /\ Len(wire) = 0
      /\ Room = Len(rx) + Len(usart.data) + Len(wire)
  BY Lengths
<1>2. /\ wire' \in Seq(Byte) /\ Len(wire') = 4
      /\ \A j \in 1 .. 4 : wire'[4 + 1 - j] = Answer(b, j)
  BY Frames
<1> DEFINE r == Len(rx)
           d == Len(usart.data)
<1>3. r \in 0 .. 3 /\ d \in 0 .. 1 /\ Room = r + d + 0
  BY <1>1
<1>4. Room' = r + d + 4
  BY <1>2 DEF Room, parser
<1>5. \A j \in 1 .. 8 : Nth(j) = IF j <= d THEN usart.data[1] ELSE rx[Room + 1 - j]
  BY <1>1, <1>3 DEF Nth
<1>6. \A j \in 1 .. 8 : Nth(j)' = IF j <= 4 THEN wire'[4 + 1 - j]
                                   ELSE IF j <= 4 + d THEN usart.data[1] ELSE rx[Room' + 1 - j]
  BY <1>2 DEF Nth, parser
<1> HIDE DEF r, d
<1>7. Room \in 0 .. 4 /\ Room' = Room + 4 /\ Room = r + d
  BY <1>3, <1>4
<1>8. \A j \in 1 .. 4 : Nth(j)' = Answer(b, j)
  BY <1>2, <1>6
<1>9. ASSUME NEW j \in 1 .. Room PROVE Nth(j + 4)' = Nth(j)
  <2>1. j \in 1 .. 8 /\ j + 4 \in 1 .. 8 /\ ~(j + 4 <= 4) /\ (j + 4 <= 4 + d <=> j <= d)
        /\ Room' + 1 - (j + 4) = Room + 1 - j
    BY <1>3, <1>7
  <2> QED
    BY <1>5, <1>6, <2>1
<1> QED
  BY <1>1, <1>2, <1>7, <1>8, <1>9 DEF r, d

LEMMA AskStep ==
    ASSUME LineInv, Ask
    PROVE  LineInv'
<1>1. Fit /\ WireInv /\ LineType
  BY DEF LineInv
<1>2. PICK b \in Codes : /\ wire' = Frame(b)
                         /\ offered' = Append(IF Len(offered) < 2 THEN offered ELSE Tail(offered), b)
  BY DEF Ask
<1>3. /\ pc = "loop" /\ wire = <<>> /\ age' = (IF RBNE THEN 1 ELSE 0) /\ intact' = OneMore(intact)
      /\ UNCHANGED <<pc, parser, last_button, usart, held_up>>
  BY DEF Ask
<1>4. /\ Room \in 0 .. 4 /\ Room' = Room + 4 /\ Len(rx) \in 0 .. 3 /\ Len(usart.data) \in 0 .. 1
      /\ Room = Len(rx) + Len(usart.data)
      /\ wire' \in Seq(Byte) /\ Len(wire') = 4
      /\ \A j \in 1 .. 4 : wire'[4 + 1 - j] = Answer(b, j)
      /\ \A j \in 1 .. 4 : Nth(j)' = Answer(b, j)
      /\ \A j \in 1 .. Room : Nth(j + 4)' = Nth(j)
  BY <1>1, <1>2, <1>3, Asked
<1>5. /\ offered' \in Seq(Codes) /\ Len(offered') \in {1, 2} /\ offered'[Len(offered')] = b
      /\ (Len(offered) > 0 => Len(offered') > 1 /\ offered'[Len(offered') - 1] = offered[Len(offered)])
  <2>1. offered \in Seq(Codes) /\ Len(offered) <= 2
    BY <1>1 DEF LineType
  <2> QED
    BY <1>2, <2>1, Offer
<1>6. Fit'
  BY <1>1, <1>3 DEF Fit, parser
<1>7. LineType'
  <2>1. Len(offered') <= 2
    BY <1>5
  <2> QED
    BY <1>1, <1>3, <1>5, <2>1 DEF LineType, OneMore
<1>8. Owed(0, b)'
  <2>1. Len(offered') > 0 /\ Len(offered') - 0 = Len(offered')
    BY <1>5, OneOrTwo
  <2> QED
    BY <1>5, <2>1 DEF Owed
<1>9. WireInv'
  <2>1. wire'[Len(wire') - 1] = b
    <3>1. wire'[4 + 1 - 2] = Answer(b, 2) /\ 4 + 1 - 2 = Len(wire') - 1
      BY <1>4
    <3> QED
      BY <3>1, Answers
  <2>2. \A j \in 1 .. 4 : j <= Len(wire') => wire'[Len(wire') + 1 - j] = Answer(b, j)
    BY <1>4
  <2> QED
    BY <1>4, <1>8, <2>1, <2>2 DEF WireInv, Answer
<1>10. ASSUME Stream PROVE Stream'
  <2>0. /\ Nth(1)' = Answer(b, 1) /\ Nth(2)' = b /\ Nth(3)' = LENGTH /\ Nth(4)' = Type(b)
        /\ Type(b) \in Types /\ Answer(b, 1) \in 7 .. 18
    BY <1>4, Answers
  <2>1. Windows'
    <3> SUFFICES ASSUME NEW j \in 0 .. 4, j + 4 <= Room', Whole(j)'
                 PROVE  \/ j = 4 /\ Len(wire') = 4 /\ Owed(1, Nth(j + 2))'
                        \/ j <= 1 /\ Owed(0, Nth(j + 2))'
      BY DEF Windows
    <3>1. CASE j = 0
      <4>1. Nth(j + 2)' = b
        BY <2>0, <3>1
      <4> QED
        BY <1>8, <3>1, <4>1 DEF Owed
    <3>2. CASE j = 1
      <4>1. Nth(1 + 3)' = LENGTH
        BY <3>2 DEF Whole
      <4> QED
        BY <2>0, <4>1, ByteTypes
    <3>3. CASE j = 2
      <4>1. Nth(2 + 4)' \in Types /\ Sum(Nth(2 + 4)', Nth(2 + 2)') = Nth(2 + 1)'
        BY <3>3 DEF Whole, Types
      <4>2. Sum(Nth(6)', Type(b)) = LENGTH /\ Nth(6)' \in Types
        BY <2>0, <4>1
      <4> QED
        BY <2>0, <4>2, ByteTypes DEF Sum
    <3>4. CASE j = 3
      <4>1. /\ Nth(3 + 4)' \in Types /\ Nth(3 + 3)' = LENGTH
            /\ Sum(Nth(3 + 4)', Nth(3 + 2)') = Nth(3 + 1)'
        BY <3>4 DEF Whole, Types
      <4>2. Room \in {3, 4}
        BY <1>4, <3>4
      <4>3. Nth(1 + 4)' = Nth(1) /\ Nth(2 + 4)' = Nth(2) /\ Nth(3 + 4)' = Nth(3)
        BY <1>4, <4>2
      <4>4. Nth(3) \in Types /\ Nth(2) = LENGTH /\ Sum(Nth(3), Nth(1)) \in Types
        BY <2>0, <4>1, <4>3
      <4>5. CASE Room = 3
        BY <1>3, <1>10, <4>4, <4>5 DEF Stream, Edge
      <4>6. CASE Room = 4
        <5>1. Len(rx) = 3
          BY <1>4, <4>6, Parts
        <5>2. Nth(Room - 1) = LENGTH
          BY <1>1, <5>1, InParser
        <5> QED
          BY <4>4, <4>6, <5>2, ByteTypes
      <4> QED
        BY <4>2, <4>5, <4>6
    <3>5. CASE j = 4
      <4>1. /\ Nth(4 + 4)' \in Types /\ Nth(4 + 3)' = LENGTH
            /\ Sum(Nth(4 + 4)', Nth(4 + 2)') = Nth(4 + 1)'
        BY <3>5 DEF Whole, Types
      <4>2. Room = 4
        BY <1>4, <3>5
      <4>3. /\ Nth(1 + 4)' = Nth(1) /\ Nth(2 + 4)' = Nth(2)
            /\ Nth(3 + 4)' = Nth(3) /\ Nth(4 + 4)' = Nth(4)
        BY <1>4, <4>2
      <4>4. Whole(0)
        BY <4>1, <4>3 DEF Whole
      <4>5. Owed(0, Nth(2))
        BY <1>10, <4>2, <4>4 DEF Stream, Windows
      <4>6. Len(offered) > 0 /\ offered[Len(offered)] = Nth(2)
        <5>1. Len(offered) - 0 = Len(offered)
          BY <1>1, LenProperties DEF LineType
        <5> QED
          BY <4>5, <5>1 DEF Owed
      <4>7. Nth(j + 2)' = Nth(2)
        BY <3>5, <4>3
      <4> QED
        BY <1>4, <1>5, <3>5, <4>6, <4>7 DEF Owed
    <3> QED
      BY <3>1, <3>2, <3>3, <3>4, <3>5
  <2>2. Ages'
    BY <1>3, <1>4 DEF Ages, RBNE
  <2>3. wire' # <<>>
    BY <1>4, EmptySeq
  <2>4. LastIntact'
    <3>1. Sound'
      BY <1>4 DEF Sound, Answer
    <3>2. Edge(0)
      BY <1>3, <1>10 DEF Stream
    <3>3. CASE Room = 2
      <4>1. Nth(1 + 4)' = Nth(1) /\ Nth(2 + 4)' = Nth(2)
        BY <1>4, <3>3
      <4>2. Room' = 4 + 2 /\ Room' # 4 + 3
        BY <1>4, <3>3
      <4>3. ~(Nth(2) \in Types /\ Nth(1) = LENGTH)
        BY <3>2, <3>3 DEF Edge
      <4>4. ~(Nth(4 + 2)' \in Types /\ Nth(4 + 1)' = LENGTH)
        BY <4>1, <4>3
      <4> QED
        BY <1>4, <3>1, <4>2, <4>4 DEF LastIntact, Edge, Types
    <3>4. CASE Room = 3
      <4>1. Nth(1 + 4)' = Nth(1) /\ Nth(2 + 4)' = Nth(2) /\ Nth(3 + 4)' = Nth(3)
        BY <1>4, <3>4
      <4>2. Room' = 4 + 3 /\ Room' # 4 + 2
        BY <1>4, <3>4
      <4>3. Nth(3) \in Types /\ Nth(2) = LENGTH => Sum(Nth(3), Nth(1)) \notin Types
        BY <3>2, <3>4 DEF Edge
      <4>4. Nth(4 + 3)' \in Types /\ Nth(4 + 2)' = LENGTH => Sum(Nth(4 + 3)', Nth(4 + 1)') \notin Types
        BY <4>1, <4>3
      <4> QED
        BY <1>4, <3>1, <4>2, <4>4 DEF LastIntact, Edge, Types
    <3>5. CASE Room \notin {2, 3}
      <4>1. Room' # 4 + 2 /\ Room' # 4 + 3
        BY <1>4, <3>5
      <4> QED
        BY <1>4, <3>1, <4>1 DEF LastIntact, Edge
    <3> QED
      BY <3>3, <3>4, <3>5
  <2>5. LastIntact => BothIntact'
    <3> SUFFICES ASSUME LastIntact PROVE BothIntact'
      OBVIOUS
    <3>1. PICK c \in Codes : \A j \in 1 .. 4 : j <= Room => Nth(j) = Answer(c, j)
      BY DEF LastIntact, Sound
    <3>2. CASE Room = 0
      BY <1>4, <3>2 DEF BothIntact
    <3>3. CASE Room >= 1
      <4>1. Nth(1) = Answer(c, 1) /\ Answer(c, 1) \in 7 .. 18
        BY <1>4, <3>1, <3>3, Answers
      <4>2. Nth(1 + 4)' = Nth(1)
        BY <1>4, <3>3
      <4>3. Nth(5)' \notin Types \cup {LENGTH}
        BY <4>1, <4>2, ByteTypes
      <4>4. Room # 3
        <5> SUFFICES ASSUME Room = 3 PROVE FALSE
          OBVIOUS
        <5>1. Len(rx) >= 1
          BY <1>4, Parts
        <5>2. Nth(3) \in Types /\ Nth(3) = Answer(c, 3)
          BY <1>1, <3>1, <5>1, InParser
        <5> QED
          BY <5>2, Answers, ByteTypes
      <4>5. Len(usart.data) = 1
        <5> SUFFICES ASSUME Len(usart.data) = 0 PROVE FALSE
          BY <1>4
        <5>1. Room = Len(rx)
          BY <1>4, Parts
        <5>2. Room \in {1, 2}
          BY <1>4, <3>3, <4>4, <5>1
        <5>3. CASE Room = 1
          BY <1>1, <4>1, <5>1, <5>3, InParser, ByteTypes
        <5>4. CASE Room = 2
          <6>1. Nth(Room - 1) = LENGTH /\ Room - 1 = 1
            BY <1>1, <5>1, <5>4, InParser
          <6> QED
            BY <4>1, <6>1, ByteTypes
        <5> QED
          BY <5>2, <5>3, <5>4
      <4>6. ASSUME Room = 4 PROVE Whole(4)'
        <5>1. \A j \in 1 .. 4 : Nth(j) = Answer(c, j)
          BY <3>1, <4>6
        <5>2. /\ Nth(0 + 4) \in Types /\ Nth(0 + 3) = LENGTH /\ Sum(Nth(0 + 4), Nth(0 + 2)) = Nth(0 + 1)
          BY <5>1, WholeAnswer DEF Whole
        <5>3. /\ Nth(1 + 4)' = Nth(1) /\ Nth(2 + 4)' = Nth(2)
              /\ Nth(3 + 4)' = Nth(3) /\ Nth(4 + 4)' = Nth(4)
          BY <1>4, <4>6
        <5>4. /\ Nth(4 + 4)' \in Types /\ Nth(4 + 3)' = LENGTH
              /\ Sum(Nth(4 + 4)', Nth(4 + 2)') = Nth(4 + 1)'
          BY <5>2, <5>3
        <5> QED
          BY <5>4 DEF Whole, Types
      <4>7. Room' \in {5, 6, 8} /\ (Room' = 8 => Room = 4)
        BY <1>4, <3>3, <4>4
      <4>8. usart'.data # <<>>
        BY <1>3, <4>5, EmptySeq
      <4> QED
        BY <1>4, <4>3, <4>6, <4>7, <4>8 DEF BothIntact, Types
    <3> QED
      BY <1>4, <3>2, <3>3
  <2>6. intact \in {1, 2} <=> intact' = 2
    BY <1>1, <1>3 DEF LineType, OneMore
  <2> QED
    BY <1>10, <2>1, <2>2, <2>3, <2>4, <2>5, <2>6 DEF Stream
<1> QED
  BY <1>3, <1>6, <1>7, <1>9, <1>10 DEF LineInv

-----------------------------------------------------------------------------
(* Noise strikes.                                                           *)

\* A byte of the stream is another.
LEMMA Damaged ==
    ASSUME Fit, WireInv, LineType, wire # <<>>, usart.data = <<>>, UNCHANGED parser,
           wire' = Tail(wire), NEW byte, usart'.data = <<byte>>
    PROVE  /\ Room' = Room /\ Len(wire') = Len(wire) - 1
           /\ \A j \in 1 .. Room : Nth(j)' = IF j = Len(wire) THEN byte ELSE Nth(j)
<1>1. wire \in Seq(Byte) /\ Len(wire) \in 1 .. 4 /\ Len(usart.data) = 0
  BY Lengths DEF WireInv
<1>2. /\ Len(wire') = Len(wire) - 1
      /\ \A i \in 1 .. Len(wire) - 1 : wire'[i] = wire[i + 1]
  BY <1>1, HeadTailProperties
<1>3. Len(usart'.data) = 1 /\ usart'.data[1] = byte
  OBVIOUS
<1>4. Room' = Room /\ Room \in 0 .. 8 /\ rx' = rx /\ Len(rx) \in 0 .. 3 /\ Room = Len(rx) + Len(wire)
  BY <1>1, <1>2, <1>3, Lengths DEF Room, parser
<1>5. ASSUME NEW j \in 1 .. Room PROVE Nth(j)' = IF j = Len(wire) THEN byte ELSE Nth(j)
  <2>1. CASE j <= Len(wire) - 1
    BY <1>1, <1>2, <2>1 DEF Nth
  <2>2. CASE j = Len(wire)
    BY <1>1, <1>2, <1>3, <2>2 DEF Nth
  <2>3. CASE j > Len(wire)
    <3>1. Nth(j)' = Nth(j)
      BY <1>1, <1>2, <1>3, <1>4, <2>3 DEF Nth
    <3>2. j # Len(wire)
      BY <1>1, <2>3
    <3> QED
      BY <3>1, <3>2
  <2> QED
    BY <1>1, <2>1, <2>2, <2>3
<1> QED
  BY <1>2, <1>4, <1>5

\* The stream has one more.
LEMMA MadeUp ==
    ASSUME Fit, WireInv, LineType, usart.data = <<>>, UNCHANGED <<parser, wire>>,
           NEW byte, usart'.data = <<byte>>
    PROVE  /\ Room' = Room + 1
           /\ \A j \in 1 .. Room : j <= Len(wire) => Nth(j)' = Nth(j)
           /\ \A j \in 1 .. 5 : j = Len(wire) + 1 => Nth(j)' = byte
           /\ \A j \in 1 .. Room : j > Len(wire) => Nth(j + 1)' = Nth(j)
<1>1. Len(wire) \in 0 .. 4 /\ Len(usart.data) = 0 /\ Len(rx) \in 0 .. 3 /\ Room \in 0 .. 8
  BY Lengths
<1>2. Len(usart'.data) = 1 /\ usart'.data[1] = byte /\ rx' = rx /\ wire' = wire
  BY DEF parser
<1>3. Room = Len(rx) + Len(wire) /\ Room' = Len(rx) + 1 + Len(wire)
  BY <1>1, <1>2 DEF Room
<1>4. Room' = Room + 1
  BY <1>1, <1>3
<1>5. ASSUME NEW j \in 1 .. Room, j <= Len(wire) PROVE Nth(j)' = Nth(j)
  BY <1>1, <1>2, <1>5 DEF Nth
<1>6. ASSUME NEW j \in 1 .. 5, j = Len(wire) + 1 PROVE Nth(j)' = byte
  BY <1>1, <1>2, <1>6 DEF Nth
<1>7. ASSUME NEW j \in 1 .. Room, j > Len(wire) PROVE Nth(j + 1)' = Nth(j)
  <2>1. /\ ~(j <= Len(wire)) /\ ~(j <= Len(wire) + 0) /\ ~(j + 1 <= Len(wire)) /\ ~(j + 1 <= Len(wire) + 1)
        /\ Room' + 1 - (j + 1) = Room + 1 - j
    BY <1>1, <1>4, <1>7
  <2> QED
    BY <1>1, <1>2, <2>1 DEF Nth
<1> QED
  BY <1>4, <1>5, <1>6, <1>7

\* A byte that is not what was sent spoils its answer, or is found out by the sum.
LEMMA DamagedHeard ==
    ASSUME NEW c \in Codes, NEW w \in 1 .. 4, NEW byte \in Byte,
           \A j \in 1 .. 4 : Nth(j)' = IF j = w THEN byte ELSE Answer(c, j), Whole(0)'
    PROVE  Nth(2)' = c
<1>1. Sum(Nth(0 + 4)', Nth(0 + 2)') = Nth(0 + 1)'
  BY DEF Whole
<1>2. CASE w # 2
  BY <1>2, Answers
<1>3. CASE w = 2
  <2>1. Nth(4)' = Type(c) /\ Nth(2)' = byte /\ Nth(1)' = Sum(Type(c), c)
    BY <1>3, Answers
  <2>2. Sum(Type(c), byte) = Sum(Type(c), c)
    BY <1>1, <2>1
  <2>3. Type(c) \in Byte /\ c \in Byte
    BY Answers, ByteTypes
  <2> QED
    BY <2>1, <2>2, <2>3, Sums
<1> QED
  BY <1>2, <1>3

\* Nor does one that was not sent make an answer, unless in disguise.
LEMMA MadeUpHeard ==
    ASSUME NEW c \in Codes, NEW w \in 1 .. 4, NEW byte \in Byte,
           \A j \in 1 .. 5 : Nth(j)' = IF j <= w THEN Answer(c, j)
                                       ELSE IF j = w + 1 THEN byte ELSE Answer(c, j - 1),
           ~(w = 2 /\ Sum(Type(c), byte) = c), NEW k \in {0, 1}, Whole(k)'
    PROVE  Nth(k + 2)' = c
<1>1. /\ Nth(k + 4)' \in Types /\ Nth(k + 3)' = LENGTH
      /\ Sum(Nth(k + 4)', Nth(k + 2)') = Nth(k + 1)'
  BY DEF Whole, Types
<1>2. /\ c \in 0 .. 8 /\ Type(c) \in Types /\ Answer(c, 1) \in 7 .. 18 /\ Answer(c, 2) = c
      /\ Answer(c, 3) = LENGTH /\ Answer(c, 4) = Type(c)
  BY Answers
<1>3. CASE k = 0
  <2>1. Nth(4)' \in Types
    BY <1>1, <1>3
  <2>2. CASE w \in {1, 2}
    <3>1. Nth(4)' = Answer(c, 3)
      BY <2>2
    <3> QED
      BY <1>2, <2>1, <3>1, ByteTypes
  <2>3. CASE w \in {3, 4}
    BY <1>2, <1>3, <2>3
  <2> QED
    BY <2>2, <2>3
<1>4. CASE k = 1
  <2>1. /\ Nth(5)' \in Types /\ Nth(4)' = LENGTH /\ Sum(Nth(5)', Nth(3)') = Nth(2)'
    BY <1>1, <1>4
  <2>2. CASE w = 1
    BY <1>2, <1>4, <2>2
  <2>3. CASE w = 2
    <3>1. Nth(5)' = Type(c) /\ Nth(3)' = byte /\ Nth(2)' = c
      BY <1>2, <2>3
    <3> QED
      BY <2>1, <2>3, <3>1
  <2>4. CASE w = 3
    <3>1. Nth(5)' = Type(c) /\ Nth(3)' = LENGTH /\ Nth(2)' = c
      BY <1>2, <2>4
    <3>2. Sum(Type(c), LENGTH) = c
      BY <2>1, <3>1
    <3> QED
      BY <1>2, <3>2, ByteTypes DEF Sum
  <2>5. CASE w = 4
    <3>1. Nth(4)' = Type(c)
      BY <1>2, <2>5
    <3> QED
      BY <1>2, <2>1, <3>1, ByteTypes
  <2> QED
    BY <2>2, <2>3, <2>4, <2>5
<1> QED
  BY <1>3, <1>4

LEMMA GlitchStep ==
    ASSUME LineInv, Glitch
    PROVE  LineInv'
<1>1. Fit /\ WireInv /\ LineType
  BY DEF LineInv
<1>2. PICK byte \in Noise, noisy \in BOOLEAN, extra \in BOOLEAN :
        /\ Received(byte, noisy)
        /\ IF extra THEN ~Disguised(byte) /\ wire' = wire
           ELSE wire # <<>> /\ wire' = Tail(wire)
  BY DEF Glitch
<1>3. /\ intact = 2 /\ InTime /\ age' = (IF Spoilt THEN age ELSE 0) /\ intact' = 0
      /\ UNCHANGED <<pc, parser, last_button, held_up, offered>>
  BY DEF Glitch
<1>4. byte \in Byte
  BY HandsetConstants DEF Byte
<1>5. /\ usart' \in [data : Seq(Byte), noise : BOOLEAN, overrun : BOOLEAN]
      /\ Len(usart'.data) <= 1
      /\ (Spoilt => usart'.overrun)
      /\ (~Spoilt => usart.data = <<>> /\ usart'.data = <<byte>> /\ ~usart.overrun /\ ~usart'.overrun)
  BY <1>1, <1>2, <1>4, Receives
<1>6. LineType'
  BY <1>1, <1>3, <1>5 DEF LineType, InTime, Spoilt
<1>7. CASE Spoilt
  BY <1>1, <1>2, <1>3, <1>5, <1>6, <1>7, Lost
<1>8. CASE ~Spoilt
  <2>1. Fit'
    BY <1>1, <1>3 DEF Fit, parser
  <2>2. WireInv'
    <3>1. CASE wire' = wire
      BY <1>1, <1>3, <3>1, StillFit
    <3>2. CASE wire # <<>> /\ wire' = Tail(wire)
      BY <1>1, <1>3, <3>2, TailWire
    <3> QED
      BY <1>2, <3>1, <3>2
  <2>3. LastIntact /\ BothIntact /\ Windows
    BY <1>3, <1>5, <1>8 DEF LineInv, Stream
  <2>4. /\ Len(rx) \in 0 .. 3 /\ Len(wire) \in 0 .. 4 /\ Room = Len(rx) + 0 + Len(wire)
        /\ rx' = rx
    BY <1>1, <1>3, <1>5, <1>8, Lengths, EmptySeq DEF parser
  <2>5. CASE Room = 0
    <3>1. Len(wire) = 0 /\ Len(rx) = 0
      BY <2>4, <2>5
    <3>2. wire = <<>> /\ rx = <<>>
      BY <1>1, <3>1, Lengths
    <3>3. wire' = wire
      BY <1>2, <3>2
    <3>4. Room' = 1
      BY <1>1, <1>3, <1>5, <1>8, <2>5, <3>3, MadeUp
    <3>5. Windows' /\ Ages' /\ Edge(0)'
      BY <2>4, <3>2, <3>4 DEF Windows, Ages, Edge
    <3> QED
      BY <1>3, <1>6, <2>1, <2>2, <3>5 DEF LineInv, Stream
  <2>6. CASE Room = 4
    <3>1. PICK c \in Codes : \A j \in 1 .. 4 : j <= Room => Nth(j) = Answer(c, j)
      BY <2>3 DEF LastIntact, Sound
    <3>2. \A j \in 1 .. 4 : Nth(j) = Answer(c, j)
      BY <2>6, <3>1
    <3>3. Owed(0, c)
      <4>1. Whole(0) /\ Nth(0 + 2) = c
        BY <3>2, WholeAnswer, Answers
      <4> QED
        BY <2>3, <2>6, <4>1 DEF Windows
    <3>4. Len(wire) \in 1 .. 4
      BY <2>4, <2>6, SomeLeft
    <3>5. CASE extra
      <4>1. ~Disguised(byte) /\ wire' = wire
        BY <1>2, <3>5
      <4>2. /\ Room' = 5
            /\ \A j \in 1 .. 4 : j <= Len(wire) => Nth(j)' = Nth(j)
            /\ \A j \in 1 .. 5 : j = Len(wire) + 1 => Nth(j)' = byte
            /\ \A j \in 1 .. 4 : j > Len(wire) => Nth(j + 1)' = Nth(j)
        BY <1>1, <1>3, <1>5, <1>8, <2>6, <4>1, MadeUp
      <4>3. ASSUME NEW j \in 1 .. 5
            PROVE  Nth(j)' = IF j <= Len(wire) THEN Answer(c, j)
                             ELSE IF j = Len(wire) + 1 THEN byte ELSE Answer(c, j - 1)
        <5>1. CASE j <= Len(wire)
          <6>1. j \in 1 .. 4
            BY <3>4, <5>1, Sent
          <6> QED
            BY <3>2, <4>2, <5>1, <6>1
        <5>2. CASE j = Len(wire) + 1
          BY <3>4, <4>2, <5>2
        <5>3. CASE ~(j <= Len(wire)) /\ j # Len(wire) + 1
          <6>1. j - 1 \in 1 .. 4 /\ j - 1 > Len(wire) /\ (j - 1) + 1 = j
            BY <3>4, <5>3
          <6>2. Nth((j - 1) + 1)' = Nth(j - 1)
            BY <4>2, <6>1
          <6> QED
            BY <3>2, <5>3, <6>1, <6>2
        <5> QED
          BY <5>1, <5>2, <5>3
      <4>4. ~(Len(wire) = 2 /\ Sum(Type(c), byte) = c)
        <5> SUFFICES ASSUME Len(wire) = 2, Sum(Type(c), byte) = c PROVE FALSE
          OBVIOUS
        <5>1. Nth(2) = wire[Len(wire) + 1 - 2] /\ Len(wire) + 1 - 2 = 1
          BY <1>1, OnWire
        <5>2. wire[1] = c
          BY <3>2, <5>1, Answers
        <5> QED
          BY <4>1, <5>2 DEF Disguised
      <4>5. Windows'
        <5> SUFFICES ASSUME NEW j \in 0 .. 4, j + 4 <= Room', Whole(j)'
                     PROVE  j <= 1 /\ Owed(0, Nth(j + 2))'
          BY DEF Windows
        <5>1. j \in {0, 1}
          BY <4>2
        <5>2. Nth(j + 2)' = c
          BY <1>4, <3>4, <4>3, <4>4, <5>1, MadeUpHeard
        <5> QED
          BY <1>3, <3>3, <5>1, <5>2 DEF Owed
      <4>6. Ages' /\ (wire = <<>> => Edge(0))'
        <5>1. Len(wire') = 4 => rx' = <<>>
          <6> SUFFICES ASSUME Len(wire) = 4 PROVE Len(rx) = 0
            BY <1>1, <2>4, <4>1, Lengths
          <6> QED
            BY <2>4, <2>6
        <5>2. Edge(0)'
          BY <4>2 DEF Edge
        <5> QED
          BY <1>3, <1>8, <5>1, <5>2 DEF Ages
      <4> QED
        BY <1>3, <1>6, <2>1, <2>2, <4>5, <4>6 DEF LineInv, Stream
    <3>6. CASE ~extra
      <4>1. wire # <<>> /\ wire' = Tail(wire)
        BY <1>2, <3>6
      <4>2. /\ Room' = 4 /\ Len(wire') = Len(wire) - 1
            /\ \A j \in 1 .. 4 : Nth(j)' = IF j = Len(wire) THEN byte ELSE Answer(c, j)
        BY <1>1, <1>3, <1>5, <1>8, <2>6, <3>2, <4>1, Damaged
      <4>3. Windows'
        <5> SUFFICES ASSUME NEW j \in 0 .. 4, j + 4 <= Room', Whole(j)'
                     PROVE  j <= 1 /\ Owed(0, Nth(j + 2))'
          BY DEF Windows
        <5>1. j = 0
          BY <4>2
        <5>2. Whole(0)'
          BY <5>1
        <5>3. Nth(2)' = c
          BY <1>4, <3>4, <4>2, <5>2, DamagedHeard
        <5> QED
          BY <1>3, <3>3, <5>1, <5>3 DEF Owed
      <4>4. Ages' /\ Edge(0)'
        <5>1. Edge(0)'
          BY <4>2 DEF Edge
        <5>2. age' = 0 /\ Len(wire') # 4
          <6>1. age' = 0
            BY <1>3, <1>8
          <6>2. Len(wire) - 1 # 4
            BY <3>4
          <6> QED
            BY <4>2, <6>1, <6>2
        <5> QED
          BY <5>1, <5>2 DEF Ages
      <4> QED
        BY <1>3, <1>6, <2>1, <2>2, <4>3, <4>4 DEF LineInv, Stream
    <3> QED
      BY <3>5, <3>6
  <2>7. Room \in {0, 4}
    BY <1>5, <1>8, <2>3 DEF BothIntact
  <2> QED
    BY <2>5, <2>6, <2>7
<1> QED
  BY <1>7, <1>8

-----------------------------------------------------------------------------
(* The invariant, and what follows from it.                                 *)

LEMMA LineBegins == Init => LineInv
<1> SUFFICES ASSUME Init PROVE LineInv
  OBVIOUS
<1>1. /\ pc = "loop" /\ rx = <<>> /\ rx_sum = 0 /\ wire = <<>> /\ usart = Quiet
      /\ held_up = FALSE /\ offered = <<>> /\ age = 0 /\ intact = 2
  BY DEF Init
<1>2. usart.data = <<>> /\ usart \in [data : Seq(Byte), noise : BOOLEAN, overrun : BOOLEAN]
  BY <1>1 DEF Quiet
<1>3. Len(rx) = 0 /\ Len(wire) = 0 /\ Len(usart.data) = 0 /\ Len(offered) = 0
  BY <1>1, <1>2, EmptySeq
<1>4. Room = 0
  BY <1>3 DEF Room
<1>5. Fit
  BY <1>1, <1>3 DEF Fit
<1>6. LineType
  <2>1. offered \in Seq(Codes) /\ ~usart.overrun /\ Len(usart.data) <= 1 /\ Len(offered) <= 2
    BY <1>1, <1>2, <1>3 DEF Quiet
  <2> QED
    BY <1>1, <1>2, <2>1 DEF LineType
<1>7. PICK c \in Codes : TRUE
  BY HandsetConstants
<1>8. WireInv
  BY <1>1, <1>3, <1>7 DEF WireInv
<1>9. Stream
  BY <1>1, <1>2, <1>4, <1>7 DEF Stream, Windows, Ages, Edge, LastIntact, Sound, BothIntact
<1> QED
  BY <1>5, <1>6, <1>8, <1>9 DEF LineInv

LEMMA LineSteps == LineInv /\ [Next]_vars => LineInv'
<1> SUFFICES ASSUME LineInv, [Next]_vars PROVE LineInv'
  OBVIOUS
<1> QED
  BY ArriveStep, GlitchStep, AskStep, TurnStep, ClearStep, TakeStep DEF Next, Loop

LEMMA LineInvariant == Spec => []LineInv
<1>1. Init => LineInv
  BY LineBegins
<1>2. LineInv /\ [Next]_vars => LineInv'
  BY LineSteps
<1> QED
  BY <1>1, <1>2, PTL DEF Spec

\* handset.c:139: of two answers in a row that nothing happens to the second is
\* heard, whatever the history of faults before them.
THEOREM SecondIsHeard == Spec => []Resync
<1>1. LineInv => Resync
  <2> SUFFICES ASSUME LineInv, intact = 2, Settled PROVE offered = <<>>
    BY DEF Resync
  <2>1. Fit /\ WireInv /\ LineType /\ BothIntact /\ Len(usart.data) = 0 /\ Len(wire) = 0 /\ usart.data = <<>>
    BY EmptySeq DEF LineInv, Stream, Settled, Flagged, RBNE
  <2>2. Len(rx) \in 0 .. 3 /\ Room = Len(rx) + 0 + 0
    BY <2>1, Lengths
  <2>3. Room # 4
    <3>1. Len(rx) + 0 + 0 # 4
      BY <2>2, Few
    <3> QED
      BY <2>2, <3>1
  <2> QED
    BY <2>1, <2>3 DEF BothIntact
<1>2. Spec => []LineInv
  BY LineInvariant
<1> QED
  BY <1>1, <1>2, PTL

-----------------------------------------------------------------------------
(* The handset's line is the link it is for the rest of the program.        *)

LEMMA LinkBegins == Init => Link!Init
BY DEF Init, Link!Init

LEMMA LinkSteps == LineInv /\ [Next]_vars => [Link!Next]_Link!vars
<1> SUFFICES ASSUME LineInv, [Next]_vars PROVE [Link!Next]_Link!vars
  OBVIOUS
<1>1. Fit /\ WireInv /\ LineType
  BY DEF LineInv
<1>2. CASE Ask
  <2>1. PICK b \in Codes :
           offered' = Append(IF Len(offered) < 2 THEN offered ELSE Tail(offered), b)
    BY <1>2 DEF Ask
  <2>2. offered \in Seq(Codes) /\ Len(offered) <= 2
    BY <1>1 DEF LineType
  <2>3. Len(offered') <= 2
    <3>1. Len(offered') \in {1, 2}
      BY <2>1, <2>2, Offer
    <3> QED
      BY <3>1, OneOrTwo
  <2>4. \/ offered' = Append(offered, b)
        \/ offered # <<>> /\ offered' = Append(Tail(offered), b)
    BY <2>1, EmptySeq
  <2>5. last_button' = last_button
    BY <1>2 DEF Ask
  <2> QED
    BY <2>3, <2>4, <2>5 DEF Link!Next, Link!Answer
<1>3. CASE Take /\ Completes(usart.data[1])
  <2>1. /\ pc = "drain" /\ usart.data # <<>> /\ last_button' = rx[3]
        /\ offered' = SubSeq(offered, Len(offered) - age + 1, Len(offered))
    BY <1>3, Taken
  <2>2. Stream
    BY <1>1, <2>1 DEF LineInv, LineType
  <2>3. age \in {0, 1} /\ Owed(age, rx[3])
    BY <1>1, <1>3, <2>1, <2>2, Report
  <2> DEFINE i == Len(offered) - age
  <2>4. i \in DOMAIN offered /\ offered[i] = rx[3]
    <3>1. Len(offered) > age /\ offered[i] = rx[3]
      BY <2>3 DEF Owed
    <3>2. offered \in Seq(Codes)
      BY <1>1 DEF LineType
    <3>3. Len(offered) \in Nat /\ DOMAIN offered = 1 .. Len(offered)
      BY <3>2, LenProperties
    <3> QED
      BY <2>3, <3>1, <3>3
  <2>5. Link!Hear(i)
    BY <2>1, <2>4 DEF Link!Hear
  <2> HIDE DEF i
  <2> QED
    BY <2>4, <2>5 DEF Link!Next
<1>4. CASE Take /\ ~Completes(usart.data[1])
  BY <1>4, Taken DEF Link!vars
<1>5. CASE Arrive \/ Glitch \/ Stall \/ Turn \/ Clear \/ Leave \/ UNCHANGED vars
  BY <1>5 DEF Arrive, Glitch, Stall, Turn, Clear, Leave, vars, Link!vars
<1> QED
  BY <1>2, <1>3, <1>4, <1>5 DEF Next, Loop

\* handset.c:70 and handset.c:138: the button the loop sees is always one the
\* handset reported, each report heard at most once and in order, for every
\* code of the handset and whatever bytes noise makes.
THEOREM ReportsAreHeard == Spec => ImplementsLink
<1>1. Spec => []LineInv
  BY LineInvariant
<1> QED
  BY <1>1, LinkBegins, LinkSteps, PTL DEF Spec, ImplementsLink, Link!Spec

=============================================================================
