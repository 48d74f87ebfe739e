--------------------------- MODULE SettingsProofs ---------------------------
(***************************************************************************)
(* Proofs about Settings, for every size of page and of record, every word   *)
(* that flash may refuse or spoil, and a power loss at any step.             *)
(***************************************************************************)
EXTENDS SettingsProperties, WellFoundedInduction, TLAPS

LEMMA Least ==
    ASSUME NEW T \in SUBSET Nat, T # {}
    PROVE  \E x \in T : \A y \in T : x <= y
  <1> DEFINE R == {ss \in Nat \X Nat : ss[1] < ss[2]}
  <1>1. IsWellFoundedOn(R, Nat)
    BY NatLessThanWellFounded DEF OpToRel
  <1>2. \A x, y \in Nat : <<y, x>> \notin R => x <= y
    <2>1. \A x, y \in Nat : <<y, x>> \in Nat \X Nat /\ <<y, x>>[1] = y /\ <<y, x>>[2] = x
      OBVIOUS
    <2>2. \A x, y \in Nat : y < x => <<y, x>> \in R
      BY <2>1
    <2> QED BY <2>2
  <1> HIDE DEF R
  <1>3. PICK x \in T : \A y \in T : <<y, x>> \notin R
    BY <1>1, WFMin
  <1> QED BY <1>2, <1>3

LEMMA Greatest ==
    ASSUME NEW n \in Nat, NEW T \in SUBSET (0 .. n), T # {}
    PROVE  \E x \in T : \A y \in T : x >= y
  <1> DEFINE U == {n - x : x \in T}
  <1>1. U \in SUBSET Nat /\ U # {}
    <2>1. \A x \in T : n - x \in Nat
      OBVIOUS
    <2> QED BY <2>1
  <1> HIDE DEF U
  <1>2. PICK u \in U : \A v \in U : u <= v
    BY <1>1, Least
  <1> USE DEF U
  <1>3. PICK x \in T : u = n - x
    OBVIOUS
  <1>4. \A y \in T : n - y \in U
    OBVIOUS
  <1> QED BY <1>2, <1>3, <1>4

-----------------------------------------------------------------------------
(* A page of which every slot is erased or has its first unit programmed     *)
(* (Marked), and one whose records end at k with no hole before it (Log).     *)

Shape(page) ==
    /\ page = [i \in Slots |-> page[i]]
    /\ \A i \in Slots : page[i] = [u \in Units |-> page[i][u]]

Whole(fields) == fields = [f \in Fields |-> fields[f]] /\ fields[1] # Ones

Blank(page, i) == \A u \in Units : page[i][u] = Ones

Marked(page) == \A i \in Slots : Blank(page, i) \/ page[i][1] # Ones

Log(page, k) ==
    /\ k \in 0 .. SLOTS
    /\ \A i \in Slots : i < k => page[i][1] # Ones
    /\ \A i \in Slots : i >= k => Blank(page, i)

LEMMA Sizes ==
    /\ SLOTS \in Nat /\ SLOTS > 0 /\ 1 \in Fields /\ 1 \in Units
    /\ Check \in Units /\ Check \notin Fields /\ Check # 1 /\ 0 # Ones
    /\ Units \subseteq Nat /\ Slots \subseteq Nat /\ Fields \subseteq Units
    /\ \A u \in Units : u = Check \/ (u \in Fields /\ u + 1 \in Units)
    /\ \A u \in Units : u >= 1 /\ (u > 1 \/ u = 1)
  BY SettingsConstants DEF Fields, Units, Check, Slots, Ones

LEMMA ErasedIsBlank ==
    ASSUME NEW page, Shape(page), NEW i \in Slots
    PROVE  Erased(page[i]) <=> Blank(page, i)
  BY DEF Shape, Erased, Blank, BlankRecord

-----------------------------------------------------------------------------
(* Where the scan of a boot stops.                                          *)

LEMMA ScanStops ==
    ASSUME NEW page
    PROVE  /\ ScanEnd(page) \in 0 .. SLOTS
           /\ \A j \in Slots : j < ScanEnd(page) => ~Erased(page[j])
           /\ ScanEnd(page) = SLOTS \/ Erased(page[ScanEnd(page)])
  <1> DEFINE P(i) == /\ \A j \in Slots : j < i => ~Erased(page[j])
                     /\ i = SLOTS \/ Erased(page[i])
             T == {i \in 0 .. SLOTS : i = SLOTS \/ Erased(page[i])}
  <1>1. T \in SUBSET Nat /\ T # {}
    BY Sizes
  <1>2. PICK x \in T : \A y \in T : x <= y
    BY <1>1, Least
  <1>3. ASSUME NEW j \in Slots, j < x PROVE ~Erased(page[j])
    BY <1>2, <1>3, Sizes DEF Slots
  <1>4. x \in 0 .. SLOTS /\ P(x)
    BY <1>3
  <1>5. ScanEnd(page) = CHOOSE i \in 0 .. SLOTS : P(i)
    BY DEF ScanEnd
  <1> HIDE DEF P, T
  <1>6. ScanEnd(page) \in 0 .. SLOTS /\ P(ScanEnd(page))
    BY <1>4, <1>5
  <1> QED BY <1>6 DEF P

\* A slot that is no longer erased only lets the scan go further.
LEMMA ScanGrows ==
    ASSUME NEW p, NEW q, NEW n \in Slots, ~Erased(q[n]),
           \A i \in Slots : i # n => (Erased(p[i]) <=> Erased(q[i]))
    PROVE  ScanEnd(p) <= ScanEnd(q)
  <1>1. ScanEnd(p) \in 0 .. SLOTS /\ ScanEnd(q) \in 0 .. SLOTS
    BY ScanStops
  <1>2. ASSUME ScanEnd(q) < ScanEnd(p) PROVE FALSE
    <2>1. ScanEnd(q) \in Slots /\ ScanEnd(q) # SLOTS
      BY <1>1, <1>2, Sizes DEF Slots
    <2>2. Erased(q[ScanEnd(q)])
      BY <2>1, ScanStops
    <2>3. ~Erased(p[ScanEnd(q)])
      BY <1>2, <2>1, ScanStops
    <2> QED BY <2>1, <2>2, <2>3
  <1> QED BY <1>1, <1>2, Sizes

\* Where the scan stops depends only on which slots are erased.
LEMMA SameScan ==
    ASSUME NEW p, NEW q, \A i \in Slots : Erased(p[i]) <=> Erased(q[i])
    PROVE  ScanEnd(p) = ScanEnd(q)
  <1>1. ScanEnd(p) \in 0 .. SLOTS /\ ScanEnd(q) \in 0 .. SLOTS
    BY ScanStops
  <1>2. ASSUME NEW a, NEW b, ScanEnd(a) \in 0 .. SLOTS, ScanEnd(b) \in 0 .. SLOTS,
               ScanEnd(a) < ScanEnd(b), \A i \in Slots : Erased(a[i]) <=> Erased(b[i])
        PROVE  FALSE
    <2>1. ScanEnd(a) \in Slots /\ ScanEnd(a) # SLOTS
      BY <1>2, Sizes DEF Slots
    <2>2. Erased(a[ScanEnd(a)]) /\ ~Erased(b[ScanEnd(a)])
      BY <1>2, <2>1, ScanStops
    <2> QED BY <1>2, <2>1, <2>2
  <1>3. ~(ScanEnd(p) < ScanEnd(q)) /\ ~(ScanEnd(q) < ScanEnd(p))
    BY <1>1, <1>2
  <1> QED BY <1>1, <1>3, Sizes

\* In a log without holes it is where the log ends.
LEMMA ScanFindsEnd ==
    ASSUME NEW page, Shape(page), NEW k, Log(page, k)
    PROVE  ScanEnd(page) = k
  <1>1. k \in 0 .. SLOTS /\ (k = SLOTS \/ k \in Slots) /\ ScanEnd(page) \in 0 .. SLOTS
    BY Sizes, ScanStops DEF Log, Slots
  <1>2. \A j \in Slots : j < k => ~Erased(page[j])
    BY ErasedIsBlank, Sizes DEF Log, Blank
  <1>3. \A j \in Slots : j >= k => Erased(page[j])
    BY ErasedIsBlank DEF Log
  <1>4. ~(ScanEnd(page) < k)
    BY <1>1, <1>2, ScanStops, Sizes DEF Slots
  <1>5. ~(k < ScanEnd(page))
    BY <1>1, <1>3, ScanStops, Sizes DEF Slots
  <1> QED BY <1>1, <1>4, <1>5, Sizes

LEMMA NewestValid ==
    ASSUME NEW page, NEW end \in 0 .. SLOTS, ValidBefore(page, end) # {}
    PROVE  LET newest == CHOOSE i \in ValidBefore(page, end) :
                             \A j \in ValidBefore(page, end) : i >= j
           IN  /\ newest \in ValidBefore(page, end)
               /\ \A j \in ValidBefore(page, end) : newest >= j
  <1>1. ValidBefore(page, end) \in SUBSET (0 .. SLOTS)
    BY Sizes DEF ValidBefore, Slots
  <1> QED BY <1>1, Greatest, Sizes

LEMMA RecoveredIsWhole ==
    ASSUME NEW page, Shape(page), Marked(page)
    PROVE  Whole(Recovered(page))
  <1>1. ScanEnd(page) \in 0 .. SLOTS
    BY ScanStops
  <1>2. CASE ValidBefore(page, ScanEnd(page)) = {}
    BY <1>2, Sizes DEF Recovered, Whole, Defaults
  <1>3. CASE ValidBefore(page, ScanEnd(page)) # {}
    <2>1. PICK i \in ValidBefore(page, ScanEnd(page)) : Recovered(page) = Payload(page[i])
      BY <1>1, <1>3, NewestValid DEF Recovered
    <2>2. i \in Slots /\ ~Erased(page[i])
      BY <2>1, ScanStops DEF ValidBefore
    <2>3. page[i][1] # Ones
      BY <2>2, ErasedIsBlank DEF Marked
    <2> QED BY <2>1, <2>3, Sizes DEF Whole, Payload
  <1> QED BY <1>2, <1>3

-----------------------------------------------------------------------------
(* The inductive invariant: what is in the page at each point of the store.  *)

\* Of the record being written, exactly the units before `unit` are programmed.
Writing ==
    /\ next_slot \in Slots
    /\ unit > 1 => /\ flash[next_slot][1] # Ones
                   /\ \A u \in Units : u >= unit => flash[next_slot][u] = Ones

\* It is the last of a log without holes.
Last ==
    /\ \A i \in Slots : i < next_slot => flash[i][1] # Ones
    /\ \A i \in Slots : i > next_slot => Blank(flash, i)
    /\ unit = 1 => Blank(flash, next_slot)

\* Whatever was refused or spoilt so far.
PageInv ==
    /\ Shape(flash) /\ Marked(flash) /\ Whole(live)
    /\ unit \in Units /\ pc \in {"off", "idle", "erase", "write"}
    /\ pc = "idle" => next_slot \in 0 .. SLOTS
    /\ pc = "erase" => unit = 1 /\ next_slot = SLOTS
    /\ pc = "write" => Writing

\* Where the log ends, while no slot has been passed over erased.
LogInv ==
    ~holed =>
        /\ pc = "off" => \E k \in 0 .. SLOTS : Log(flash, k)
        /\ pc \in {"idle", "erase"} => Log(flash, next_slot)
        /\ pc = "write" => Last

LEMMA InitPage == Init => PageInv /\ LogInv
  <1> SUFFICES ASSUME Init PROVE PageInv /\ LogInv
    OBVIOUS
  <1>1. Shape(flash) /\ Log(flash, 0) /\ Marked(flash)
    BY Sizes DEF Init, Shape, Log, Marked, Blank, BlankRecord, Slots
  <1>2. Whole(live)
    BY Sizes DEF Init, Whole, Defaults
  <1>3. \E k \in 0 .. SLOTS : Log(flash, k)
    BY <1>1 DEF Log
  <1> QED BY <1>1, <1>2, <1>3, Sizes DEF Init, PageInv, LogInv

\* Programming a unit of the record being written keeps the rest of the page.
LEMMA Programmed ==
    ASSUME PageInv, pc = "write", Target = Ones, NEW v,
           flash' = [flash EXCEPT ![next_slot][unit] = v]
    PROVE  /\ Shape(flash') /\ Marked(flash')
           /\ \A i \in Slots : i # next_slot => flash'[i] = flash[i]
           /\ \A u \in Units : u # unit => flash'[next_slot][u] = flash[next_slot][u]
           /\ flash'[next_slot][unit] = v
           /\ v # Ones \/ unit # 1 => flash'[next_slot][1] # Ones
           /\ \A u \in Units : u > unit => flash'[next_slot][u] = Ones
  <1>0. Shape(flash) /\ Marked(flash) /\ Writing /\ unit \in Units
    BY DEF PageInv
  <1>1. next_slot \in Slots
    BY <1>0 DEF Writing
  <1>2. \A i \in Slots : flash'[i] =
            IF i = next_slot THEN [flash[i] EXCEPT ![unit] = v] ELSE flash[i]
    BY <1>0, <1>1 DEF Shape
  <1>3. flash'[next_slot] = [u \in Units |-> IF u = unit THEN v ELSE flash[next_slot][u]]
    BY <1>0, <1>1, <1>2 DEF Shape
  <1>4. Shape(flash')
    <2>1. flash' = [i \in Slots |-> flash'[i]]
      BY <1>0 DEF Shape
    <2>2. \A i \in Slots : flash'[i] = [u \in Units |-> flash'[i][u]]
      BY <1>0, <1>2, <1>3 DEF Shape
    <2> QED BY <2>1, <2>2 DEF Shape
  <1>5. unit # 1 => flash[next_slot][1] # Ones
    BY <1>0, Sizes DEF Writing
  <1>6. v # Ones \/ unit # 1 => flash'[next_slot][1] # Ones
    BY <1>3, <1>5, Sizes
  <1>7. \A u \in Units : u >= unit => flash[next_slot][u] = Ones
    <2>1. CASE unit = 1
      <3>1. flash[next_slot][1] = Ones
        BY <2>1 DEF Target
      <3> QED BY <1>0, <1>1, <3>1 DEF Marked, Blank
    <2>2. CASE unit > 1
      BY <1>0, <2>2 DEF Writing
    <2> QED BY <1>0, <2>1, <2>2, Sizes
  <1>8. \A u \in Units : u > unit => u >= unit /\ u # unit
    BY <1>0, Sizes
  <1>9. \A u \in Units : u > unit => flash'[next_slot][u] = Ones
    BY <1>3, <1>7, <1>8
  <1>10. Marked(flash')
    <2>1. ASSUME NEW i \in Slots, i # next_slot PROVE Blank(flash', i) \/ flash'[i][1] # Ones
      BY <1>0, <1>2, <2>1 DEF Marked, Blank
    <2>2. Blank(flash', next_slot) \/ flash'[next_slot][1] # Ones
      <3>1. CASE v # Ones \/ unit # 1
        BY <1>6, <3>1
      <3>2. CASE v = Ones /\ unit = 1
        <4>1. \A u \in Units : u >= unit
          BY <3>2, Sizes
        <4> QED BY <1>3, <1>7, <3>2, <4>1 DEF Blank
      <3> QED BY <3>1, <3>2
    <2> QED BY <2>1, <2>2 DEF Marked
  <1> QED BY <1>0, <1>2, <1>3, <1>4, <1>6, <1>9, <1>10

\* The slot just written or passed over is the last of the log.
LEMMA LogGrows ==
    ASSUME NEW page, next_slot \in Slots, page[next_slot][1] # Ones, Last,
           \A i \in Slots : i # next_slot => page[i] = flash[i]
    PROVE  Log(page, next_slot + 1)
  <1>1. next_slot \in Nat /\ next_slot + 1 \in 0 .. SLOTS
    BY Sizes DEF Slots
  <1>2. \A i \in Slots : i < next_slot \/ i > next_slot => i # next_slot
    BY <1>1, Sizes
  <1>3. \A i \in Slots : i < next_slot => page[i][1] # Ones
    BY <1>2 DEF Last
  <1>4. \A i \in Slots : i > next_slot => Blank(page, i)
    BY <1>2 DEF Last, Blank
  <1>5. \A i \in Slots : i \in Nat
    BY Sizes
  <1> QED BY <1>1, <1>3, <1>4, <1>5 DEF Log

LEMMA WritingLog ==
    ASSUME Writing, Last, unit \in Units
    PROVE  \E k \in 0 .. SLOTS : Log(flash, k)
  <1>1. next_slot \in Slots /\ next_slot \in Nat /\ next_slot \in 0 .. SLOTS
        /\ next_slot + 1 \in 0 .. SLOTS
    BY Sizes DEF Writing, Slots
  <1>2. CASE unit = 1
    <2>1. \A i \in Slots : i \in Nat /\ (i >= next_slot => i = next_slot \/ i > next_slot)
      BY <1>1, Sizes
    <2>2. Log(flash, next_slot)
      BY <1>1, <1>2, <2>1 DEF Last, Log
    <2> QED BY <1>1, <2>2
  <1>3. CASE unit > 1
    BY <1>1, <1>3, LogGrows DEF Writing
  <1> QED BY <1>2, <1>3, Sizes

-----------------------------------------------------------------------------
(* Every step keeps it.                                                     *)

LEMMA PageStart ==
    ASSUME PageInv, LogInv, settings_init \/ PowerLoss
    PROVE  PageInv' /\ LogInv'
  <1>1. CASE settings_init
    <2>1. ScanEnd(flash) \in 0 .. SLOTS /\ Whole(Recovered(flash))
      BY ScanStops, RecoveredIsWhole DEF PageInv
    <2>2. PageInv'
      BY <1>1, <2>1 DEF PageInv, settings_init
    <2>3. ASSUME ~holed PROVE Log(flash, ScanEnd(flash))
      <3>1. PICK k \in 0 .. SLOTS : Log(flash, k)
        BY <1>1, <2>3 DEF LogInv, settings_init
      <3> QED BY <3>1, ScanFindsEnd DEF PageInv
    <2> QED BY <1>1, <2>2, <2>3 DEF LogInv, settings_init
  <1>2. CASE PowerLoss
    <2>1. ASSUME ~holed PROVE \E k \in 0 .. SLOTS : Log(flash, k)
      <3>1. CASE pc = "write"
        BY <2>1, <3>1, WritingLog DEF PageInv, LogInv
      <3>2. CASE pc # "write"
        BY <1>2, <2>1, <3>2 DEF PageInv, LogInv, PowerLoss, Log
      <3> QED BY <3>1, <3>2
    <2>2. Whole(live')
      BY <1>2, Sizes DEF PowerLoss, Whole, Defaults
    <2> QED BY <1>2, <2>1, <2>2, Sizes DEF PageInv, LogInv, PowerLoss
  <1> QED BY <1>1, <1>2

LEMMA PageSet ==
    ASSUME PageInv, LogInv, NEW f \in Fields, NEW v \in Levels, settings_set(f, v)
    PROVE  PageInv' /\ LogInv'
  <1>1. v # Ones
    BY SettingsConstants
  <1>2. Whole(live')
    BY <1>1, Sizes DEF PageInv, settings_set, Whole
  <1> QED BY <1>2 DEF PageInv, LogInv, settings_set

LEMMA BeginWriting ==
    ASSUME NEW page, NEW k \in Slots, Log(page, k)
    PROVE  /\ \A i \in Slots : i < k => page[i][1] # Ones
           /\ \A i \in Slots : i > k => Blank(page, i)
           /\ Blank(page, k)
  <1>1. k >= k /\ \A i \in Slots : i > k => i >= k
    BY Sizes
  <1> QED BY <1>1 DEF Log

LEMMA PageBegin ==
    ASSUME PageInv, LogInv, Begin \/ flash_erase_page \/ EraseRefused
    PROVE  PageInv' /\ LogInv'
  <1>1. CASE Begin
    <2>1. next_slot \in 0 .. SLOTS /\ flash' = flash /\ next_slot' = next_slot
          /\ unit' = 1 /\ live' = live /\ holed' = holed /\ pc = "idle"
      BY <1>1 DEF Begin, PageInv, ram
    <2>2. CASE next_slot >= SLOTS
      <3>1. next_slot = SLOTS /\ pc' = "erase"
        BY <1>1, <2>1, <2>2, Sizes DEF Begin
      <3> QED BY <2>1, <3>1, Sizes DEF PageInv, LogInv
    <2>3. CASE ~(next_slot >= SLOTS)
      <3>1. next_slot \in Slots /\ pc' = "write"
        BY <1>1, <2>1, <2>3, Sizes DEF Begin, Slots
      <3>2. Writing'
        BY <2>1, <3>1, Sizes DEF Writing
      <3>3. ASSUME ~holed PROVE Last'
        <4>1. Log(flash, next_slot)
          BY <2>1, <3>3 DEF LogInv
        <4> QED BY <2>1, <3>1, <4>1, BeginWriting DEF Last, Blank
      <3> QED BY <2>1, <3>1, <3>2, <3>3, Sizes DEF PageInv, LogInv
    <2> QED BY <2>2, <2>3
  <1>2. CASE flash_erase_page
    <2>1. Shape(flash') /\ Log(flash', 0) /\ Marked(flash') /\ 0 \in Slots
      BY <1>2, Sizes DEF flash_erase_page, Shape, Log, Marked, Blank, BlankRecord, Slots
    <2>2. next_slot' = 0 /\ unit' = 1 /\ pc' = "write" /\ live' = live
      BY <1>2 DEF flash_erase_page, PageInv
    <2>3. /\ \A i \in Slots : i < 0 => flash'[i][1] # Ones
          /\ \A i \in Slots : i > 0 => Blank(flash', i)
          /\ Blank(flash', 0)
      BY <2>1, BeginWriting
    <2>4. Writing' /\ Last'
      BY <2>1, <2>2, <2>3, Sizes DEF Writing, Last, Blank
    <2> QED BY <2>1, <2>2, <2>4, Sizes DEF PageInv, LogInv
  <1>3. CASE EraseRefused
    BY <1>3, Sizes DEF EraseRefused, GiveUp, PageInv, LogInv
  <1> QED BY <1>1, <1>2, <1>3

\* A slot that is passed over ends the log if there is a mark in it.
LEMMA PageSkip ==
    ASSUME PageInv, LogInv, pc = "write", Skip, Shape(flash'), Marked(flash'),
           \A i \in Slots : i # next_slot => flash'[i] = flash[i]
    PROVE  PageInv' /\ LogInv'
  <1>1. next_slot \in Slots /\ next_slot + 1 \in 0 .. SLOTS
    BY Sizes DEF PageInv, Writing, Slots
  <1>2. next_slot' = next_slot + 1 /\ pc' = "idle" /\ unit' = 1 /\ live' = live
    BY DEF Skip, GiveUp
  <1>3. PageInv'
    BY <1>1, <1>2, Sizes DEF PageInv
  <1>4. ASSUME ~holed' PROVE Log(flash', next_slot + 1)
    <2>1. ~holed /\ ~Erased(flash'[next_slot])
      BY <1>4 DEF Skip
    <2>2. flash'[next_slot][1] # Ones
      BY <1>1, <2>1, ErasedIsBlank DEF Marked
    <2> QED BY <1>1, <2>1, <2>2, LogGrows DEF LogInv
  <1> QED BY <1>2, <1>3, <1>4 DEF LogInv

LEMMA PageWrite ==
    ASSUME PageInv, LogInv, flash_write_word \/ WriteRefused \/ WriteSpoilt
    PROVE  PageInv' /\ LogInv'
  <1>1. Shape(flash) /\ Marked(flash) /\ Writing /\ unit \in Units /\ Whole(live)
        /\ next_slot \in Slots /\ pc = "write"
    BY DEF PageInv, Writing, flash_write_word, WriteRefused, WriteSpoilt
  <1>2. CASE flash_write_word
    <2>1. Out[unit] # Ones \/ unit # 1
      BY <1>1, Sizes DEF Out, Whole
    <2>2. /\ Shape(flash') /\ Marked(flash')
          /\ \A i \in Slots : i # next_slot => flash'[i] = flash[i]
          /\ flash'[next_slot][1] # Ones
          /\ \A u \in Units : u > unit => flash'[next_slot][u] = Ones
      BY <1>1, <1>2, <2>1, Programmed DEF flash_write_word
    <2>3. CASE unit = Check
      <3>1. next_slot' = next_slot + 1 /\ next_slot + 1 \in 0 .. SLOTS
            /\ pc' = "idle" /\ unit' = 1 /\ live' = live /\ holed' = holed
        BY <1>1, <1>2, <2>3, Sizes DEF flash_write_word, Slots
      <3>2. ~holed => Log(flash', next_slot + 1)
        BY <1>1, <2>2, LogGrows DEF LogInv
      <3> QED BY <1>1, <2>2, <3>1, <3>2, Sizes DEF PageInv, LogInv
    <2>4. CASE unit # Check
      <3>1. unit + 1 \in Units /\ unit + 1 > 1 /\ unit + 1 # 1
            /\ \A u \in Units : u >= unit + 1 => u > unit
        BY <1>1, <2>4, Sizes
      <3>2. /\ pc' = "write" /\ unit' = unit + 1
            /\ next_slot' = next_slot /\ live' = live /\ holed' = holed
        BY <1>2, <1>1, <2>4 DEF flash_write_word, ram
      <3>3. Writing'
        BY <1>1, <2>2, <3>1, <3>2 DEF Writing
      <3>4. ASSUME ~holed PROVE Last'
        <4>1. Last /\ \A i \in Slots : i < next_slot \/ i > next_slot => i # next_slot
          BY <1>1, <3>4, Sizes DEF LogInv
        <4> QED BY <2>2, <3>1, <3>2, <4>1 DEF Last, Blank
      <3> QED BY <1>1, <2>2, <3>1, <3>2, <3>3, <3>4 DEF PageInv, LogInv
    <2> QED BY <2>3, <2>4
  <1>3. CASE WriteRefused
    BY <1>1, <1>3, PageSkip DEF WriteRefused
  <1>4. CASE WriteSpoilt
    <2>1. PICK g \in Garbage : flash' = [flash EXCEPT ![next_slot][unit] = g]
      BY <1>4 DEF WriteSpoilt
    <2>2. /\ Shape(flash') /\ Marked(flash')
          /\ \A i \in Slots : i # next_slot => flash'[i] = flash[i]
      BY <1>1, <1>4, <2>1, Programmed DEF WriteSpoilt
    <2> QED BY <1>1, <1>4, <2>2, PageSkip DEF WriteSpoilt
  <1> QED BY <1>2, <1>3, <1>4

LEMMA PageStutter == PageInv /\ LogInv /\ UNCHANGED vars => PageInv' /\ LogInv'
  BY DEF PageInv, LogInv, vars, Writing, Last, Blank

LEMMA PageNext ==
    ASSUME PageInv, LogInv, [Next]_vars
    PROVE  PageInv' /\ LogInv'
  BY PageStart, PageSet, PageBegin, PageWrite, PageStutter DEF Next, settings_update

\* What is in the page, for every history of saves, failures and power losses.
THEOREM LogInvariant == Spec => [](PageInv /\ LogInv)
  <1>1. Init => PageInv /\ LogInv
    BY InitPage
  <1>2. PageInv /\ LogInv /\ [Next]_vars => (PageInv /\ LogInv)'
    BY PageNext
  <1> QED BY <1>1, <1>2, PTL DEF Spec

\* settings.c goes on with a record only through erased words, and, until a slot
\* is passed over erased, never leaves anything behind the end of its log.
THEOREM WritesForward == Spec => []AppendOnly
  <1>1. PageInv /\ LogInv => AppendOnly
    <2> SUFFICES ASSUME PageInv, LogInv PROVE AppendOnly
      OBVIOUS
    <2>1. pc = "write" /\ unit > 1 => \A u \in Units : u >= unit => flash[next_slot][u] = Ones
      BY DEF PageInv, Writing
    <2>2. ASSUME ~holed, pc \in {"idle", "write"},
                 NEW i \in Slots, i >= next_slot, NEW u \in Units,
                 ~(pc = "write" /\ i = next_slot /\ u < unit)
          PROVE  flash[i][u] = Ones
      <3>1. CASE pc = "idle"
        BY <2>2, <3>1 DEF LogInv, Log, Blank
      <3>2. CASE pc = "write"
        <4>1. Writing /\ Last /\ next_slot \in Nat /\ i \in Nat /\ u \in Nat /\ unit \in Nat
              /\ (unit = 1 \/ unit > 1)
          BY <2>2, <3>2, Sizes DEF PageInv, LogInv, Writing
        <4>2. i > next_slot \/ (i = next_slot /\ u >= unit)
          BY <2>2, <3>2, <4>1
        <4> QED BY <4>1, <4>2 DEF Writing, Last, Blank
      <3> QED BY <2>2, <3>1, <3>2
    <2> QED BY <2>1, <2>2 DEF AppendOnly
  <1> QED BY <1>1, LogInvariant, PTL

-----------------------------------------------------------------------------
(* A successful save is what the next boot loads.                           *)

LEMMA OutIsValid ==
    ASSUME Whole(live)
    PROVE  Valid(Out) /\ Payload(Out) = live
  <1>1. Payload(Out) = live
    BY Sizes DEF Payload, Out, Whole
  <1>2. Out[Check] = check_of(live)
    BY Sizes DEF Out
  <1> QED BY <1>1, <1>2 DEF Valid

\* The last record of the scan, when it is valid, is the one a boot loads.
LEMMA LastRecordWins ==
    ASSUME NEW page, NEW k \in Slots, ScanEnd(page) = k + 1, Valid(page[k])
    PROVE  Recovered(page) = Payload(page[k])
  <1>1. /\ k \in Nat /\ k + 1 \in 0 .. SLOTS /\ k < k + 1
        /\ \A i \in Slots : i \in Nat
    BY Sizes DEF Slots
  <1> DEFINE found  == ValidBefore(page, k + 1)
             newest == CHOOSE i \in found : \A j \in found : i >= j
  <1>3. k \in found
    BY <1>1 DEF ValidBefore
  <1>4. newest \in found /\ \A j \in found : newest >= j
    BY <1>1, <1>3, NewestValid
  <1>5. newest \in Slots /\ newest < k + 1
    BY <1>4 DEF ValidBefore
  <1>6. Recovered(page) = Payload(page[newest])
    BY <1>3 DEF Recovered
  <1> HIDE DEF found, newest
  <1>7. newest = k
    BY <1>1, <1>3, <1>4, <1>5
  <1> QED BY <1>6, <1>7

\* settings_update: once the check of a record reads back, no power loss can
\* bring back anything older, unless a slot was passed over erased.
THEOREM SavesAreDurable == Spec => Durable
  <1>1. ASSUME PageInv, LogInv, [Next]_vars
        PROVE  [pc = "write" /\ pc' = "idle" /\ unit = Check /\ flash'[next_slot] = Out /\ ~holed
                  => Recovered(flash') = live']_vars
    <2> SUFFICES ASSUME Next, pc = "write", pc' = "idle", flash'[next_slot] = Out, ~holed
                 PROVE  Recovered(flash') = live'
      BY <1>1
    <2>0. Whole(live) /\ next_slot \in Slots /\ Valid(Out) /\ Payload(Out) = live
      BY <1>1, OutIsValid DEF PageInv, Writing
    <2>1. PageInv' /\ LogInv'
      BY <1>1, PageNext
    <2>2. ~Erased(flash'[next_slot])
      BY <2>0, Sizes DEF Erased, BlankRecord, Out, Whole
    <2>3. next_slot' = next_slot + 1 /\ live' = live /\ ~holed'
      <3>1. flash_write_word \/ WriteRefused \/ WriteSpoilt
        BY DEF Next, settings_update, settings_init, settings_set, PowerLoss,
               Begin, flash_erase_page, EraseRefused
      <3>2. CASE flash_write_word
        <4>1. unit = Check
          BY <3>2 DEF flash_write_word
        <4> QED BY <3>2, <4>1 DEF flash_write_word
      <3>3. CASE WriteRefused \/ WriteSpoilt
        <4>1. Skip
          BY <3>3 DEF WriteRefused, WriteSpoilt
        <4> QED BY <2>2, <4>1 DEF Skip, GiveUp
      <3> QED BY <3>1, <3>2, <3>3
    <2>4. Shape(flash') /\ Log(flash', next_slot + 1)
      BY <2>1, <2>3 DEF PageInv, LogInv
    <2>5. ScanEnd(flash') = next_slot + 1
      BY <2>4, ScanFindsEnd
    <2> QED BY <2>0, <2>3, <2>5, LastRecordWins
  <1> QED BY <1>1, LogInvariant, PTL DEF Spec, Durable

-----------------------------------------------------------------------------
(* A save is atomic.                                                        *)

\* What is programmed of the record under way is what is live.
Copied ==
    pc = "write" => \A u \in Units : u < unit => flash[next_slot][u] = Out[u]

LEMMA CopiedNext ==
    ASSUME PageInv, Copied, [Next]_vars
    PROVE  Copied'
  <1> SUFFICES ASSUME pc' = "write", NEW u \in Units, u < unit'
               PROVE  flash'[next_slot'][u] = Out'[u]
    BY DEF Copied
  <1>1. CASE UNCHANGED vars
    <2>1. Out' = Out
      BY <1>1 DEF vars, Out
    <2> QED BY <1>1, <2>1 DEF vars, Copied
  <1>2. CASE Begin \/ flash_erase_page
    <2>1. unit' = 1
      BY <1>2 DEF Begin, flash_erase_page, PageInv
    <2> QED BY <2>1, Sizes
  <1>3. CASE flash_write_word
    <2>1. /\ Writing /\ Shape(flash) /\ unit \in Units /\ Whole(live)
          /\ unit # Check /\ unit' = unit + 1 /\ next_slot' = next_slot /\ live' = live
      BY <1>3 DEF flash_write_word, PageInv, ram
    <2>2. Out' = Out
      BY <2>1 DEF Out
    <2>4. /\ \A v \in Units : v # unit => flash'[next_slot][v] = flash[next_slot][v]
          /\ flash'[next_slot][unit] = Out[unit]
      BY <1>3, <2>1, Programmed DEF flash_write_word
    <2>5. u = unit \/ u < unit
      BY <2>1, Sizes
    <2>6. u < unit => u # unit /\ flash[next_slot][u] = Out[u]
      BY <1>3, <2>1, Sizes DEF Copied, flash_write_word
    <2> QED BY <2>1, <2>2, <2>4, <2>5, <2>6
  <1>4. CASE settings_init \/ PowerLoss \/ EraseRefused \/ WriteRefused \/ WriteSpoilt
    BY <1>4 DEF settings_init, PowerLoss, EraseRefused, WriteRefused, WriteSpoilt, Skip, GiveUp
  <1>5. CASE \E f \in Fields, v \in Levels : settings_set(f, v)
    BY <1>5 DEF settings_set
  <1> QED BY <1>1, <1>2, <1>3, <1>4, <1>5 DEF Next, settings_update

LEMMA SaveInvariant == Spec => [](PageInv /\ LogInv /\ Copied)
  <1>1. Init => Copied
    BY DEF Init, Copied
  <1>2. PageInv /\ LogInv /\ Copied /\ [Next]_vars => Copied'
    BY CopiedNext
  <1> QED BY <1>1, <1>2, LogInvariant, PTL DEF Spec

\* What a boot finds on a page.
Found(page) == ValidBefore(page, ScanEnd(page))

LEMMA LoadsNewest ==
    ASSUME NEW page
    PROVE  \/ Found(page) = {} /\ Recovered(page) = Defaults
           \/ \E i \in Found(page) : /\ \A j \in Found(page) : i >= j
                                     /\ Recovered(page) = Payload(page[i])
  <1>1. ScanEnd(page) \in 0 .. SLOTS
    BY ScanStops
  <1>2. CASE Found(page) = {}
    BY <1>2 DEF Found, Recovered
  <1>3. CASE Found(page) # {}
    BY <1>1, <1>3, NewestValid DEF Found, Recovered
  <1> QED BY <1>2, <1>3

\* A page with more records on it loads something else only from one of those.
LEMMA NewRecord ==
    ASSUME NEW p, NEW q, Found(p) \subseteq Found(q), \A i \in Found(p) : p[i] = q[i],
           Recovered(q) # Recovered(p)
    PROVE  \E i \in Found(q) \ Found(p) : Recovered(q) = Payload(q[i])
  <1>1. \A i \in Found(p) \cup Found(q) : i \in Nat
    BY Sizes DEF Found, ValidBefore
  <1>2. CASE Found(q) = {}
    <2>1. Found(p) = {} /\ Recovered(q) = Defaults
      BY <1>2, LoadsNewest
    <2> QED BY <2>1, LoadsNewest
  <1>3. CASE Found(q) # {}
    <2>1. PICK i \in Found(q) : (\A j \in Found(q) : i >= j) /\ Recovered(q) = Payload(q[i])
      BY <1>3, LoadsNewest
    <2>2. ASSUME i \in Found(p) PROVE FALSE
      <3>1. PICK k \in Found(p) : (\A j \in Found(p) : k >= j) /\ Recovered(p) = Payload(p[k])
        BY <2>2, LoadsNewest
      <3>2. k >= i /\ i >= k
        BY <2>1, <2>2, <3>1
      <3>3. k = i
        BY <1>1, <2>2, <3>1, <3>2
      <3> QED BY <2>1, <2>2, <3>1, <3>3
    <2> QED BY <2>1, <2>2
  <1> QED BY <1>2, <1>3

\* A record whose check is still erased is valid only by accident.
LEMMA ErasedCheck ==
    ASSUME NEW r, r[Check] = Ones, Valid(r)
    PROVE  Accident(r)
  BY DEF Valid, Accident

\* Any unit but the first: which slots are erased stays the same, so what is new
\* can only be the record under way.
LEMMA LaterUnit ==
    ASSUME PageInv, pc = "write", unit # 1, Target = Ones, NEW v,
           flash' = [flash EXCEPT ![next_slot][unit] = v],
           Recovered(flash') # Recovered(flash), ~Accident(flash[next_slot])
    PROVE  Valid(flash'[next_slot]) /\ Recovered(flash') = Payload(flash'[next_slot])
  <1>1. Shape(flash) /\ Writing /\ unit \in Units /\ unit > 1 /\ next_slot \in Slots
    BY Sizes DEF PageInv, Writing
  <1>2. /\ Shape(flash')
        /\ \A i \in Slots : i # next_slot => flash'[i] = flash[i]
        /\ flash'[next_slot][1] # Ones
    BY Programmed
  <1>3. flash[next_slot][1] # Ones /\ flash[next_slot][Check] = Ones
    <2>1. Check \in Units /\ Check >= unit
      BY <1>1, SettingsConstants DEF Units, Fields, Check
    <2> QED BY <1>1, <2>1 DEF Writing
  <1>4. ~Valid(flash[next_slot])
    BY <1>3, ErasedCheck
  <1>5. ~Erased(flash[next_slot]) /\ ~Erased(flash'[next_slot])
    BY <1>2, <1>3, Sizes DEF Erased, BlankRecord
  <1>6. ScanEnd(flash) = ScanEnd(flash')
    <2>1. \A i \in Slots : Erased(flash[i]) <=> Erased(flash'[i])
      BY <1>2, <1>5
    <2> QED BY <2>1, SameScan
  <1>7. /\ Found(flash) \subseteq Found(flash')
        /\ \A i \in Found(flash) : flash[i] = flash'[i]
        /\ \A i \in Found(flash') : i \in Found(flash) \/ (i = next_slot /\ Valid(flash'[i]))
    BY <1>2, <1>4, <1>6 DEF Found, ValidBefore
  <1>8. PICK i \in Found(flash') \ Found(flash) : Recovered(flash') = Payload(flash'[i])
    BY <1>7, NewRecord
  <1> QED BY <1>7, <1>8

\* The first unit: the scan goes on behind it, and may come upon records that
\* were hidden by the erased slot.
LEMMA FirstUnit ==
    ASSUME PageInv, LogInv, pc = "write", unit = 1, Target = Ones, NEW v,
           flash' = [flash EXCEPT ![next_slot][unit] = v],
           Recovered(flash') # Recovered(flash), ~Accident(flash'[next_slot])
    PROVE  holed /\ \E i \in Hidden(flash) : Recovered(flash') = Payload(flash[i])
  <1>1. Shape(flash) /\ Marked(flash) /\ unit \in Units /\ next_slot \in Slots
    BY DEF PageInv, Writing
  <1>2. /\ Shape(flash')
        /\ \A i \in Slots : i # next_slot => flash'[i] = flash[i]
        /\ \A u \in Units : u # unit => flash'[next_slot][u] = flash[next_slot][u]
        /\ flash'[next_slot][unit] = v
        /\ v # Ones => flash'[next_slot][1] # Ones
        /\ flash'[next_slot][Check] = Ones
    BY Programmed, Sizes
  <1>3. Blank(flash, next_slot) /\ Erased(flash[next_slot])
    BY <1>1, ErasedIsBlank DEF Target, Marked
  <1>4. ~Erased(flash'[next_slot])
    <2>1. ASSUME Erased(flash'[next_slot]) PROVE FALSE
      <3>1. \A i \in Slots : flash'[i] = flash[i]
        BY <1>2, <1>3, <2>1 DEF Erased
      <3>2. flash' = flash
        BY <1>1, <1>2, <3>1 DEF Shape
      <3> QED BY <3>2
    <2> QED BY <2>1
  <1>5. ~Valid(flash'[next_slot])
    BY <1>2, ErasedCheck
  <1> DEFINE m == ScanEnd(flash)
             n == ScanEnd(flash')
  <1>6. m \in 0 .. SLOTS /\ n \in 0 .. SLOTS /\ m <= n
    <2>1. \A i \in Slots : i # next_slot => (Erased(flash[i]) <=> Erased(flash'[i]))
      BY <1>2
    <2> QED BY <1>1, <1>4, <2>1, ScanStops, ScanGrows
  <1>7. /\ \A i \in Slots : i < m => ~Erased(flash[i])
        /\ \A i \in Slots : i < n => ~Erased(flash'[i])
        /\ m = SLOTS \/ Erased(flash[m])
    BY ScanStops
  <1>8. Found(flash) = ValidBefore(flash, m) /\ Found(flash') = ValidBefore(flash', n)
    BY DEF Found
  <1> HIDE DEF m, n
  <1>9. \A i \in Slots : i < m => i < n /\ i # next_slot /\ flash'[i] = flash[i]
    BY <1>2, <1>3, <1>6, <1>7, Sizes DEF Slots
  <1>10. Found(flash) \subseteq Found(flash') /\ \A i \in Found(flash) : flash[i] = flash'[i]
    BY <1>8, <1>9 DEF ValidBefore
  <1>11. PICK i \in Found(flash') \ Found(flash) : Recovered(flash') = Payload(flash'[i])
    BY <1>10, NewRecord
  <1>12. i \in Slots /\ i < n /\ Valid(flash'[i]) /\ i # next_slot /\ flash'[i] = flash[i]
    BY <1>2, <1>5, <1>8, <1>11 DEF ValidBefore
  <1>13. ~(i < m) /\ ~Erased(flash[i])
    BY <1>7, <1>8, <1>11, <1>12 DEF ValidBefore
  <1>14. i > m
    <2>1. i \in Nat /\ i # SLOTS /\ i < SLOTS
      BY <1>12, Sizes DEF Slots
    <2>2. i # m
      BY <1>7, <1>13, <2>1
    <2> QED BY <1>6, <1>13, <2>1, <2>2
  <1>15. i \in Hidden(flash)
    BY <1>12, <1>13, <1>14 DEF Hidden, m
  <1>16. ASSUME ~holed PROVE FALSE
    <2>1. Last
      BY <1>16 DEF LogInv
    <2>2. next_slot \in Nat /\ i \in Nat
      BY <1>1, <1>12, Sizes
    <2>3. i > next_slot \/ i < next_slot
      BY <1>12, <2>2
    <2>4. ~(i > next_slot)
      BY <1>1, <1>12, <1>13, <2>1, ErasedIsBlank DEF Last
    <2>5. m \in Slots /\ m < next_slot
      BY <1>6, <1>14, <2>2, <2>3, <2>4, <1>1, Sizes DEF Slots
    <2>6. flash[m][1] # Ones
      BY <2>1, <2>5 DEF Last
    <2>7. Erased(flash[m])
      BY <1>7, <2>5, Sizes DEF Slots
    <2> QED BY <2>6, <2>7, Sizes DEF Erased, BlankRecord
  <1> QED BY <1>11, <1>12, <1>15, <1>16

\* The last unit of the record: the payload is already the live one.
LEMMA CheckWritten ==
    ASSUME PageInv, Copied, pc = "write", unit = Check, Target = Ones, NEW v,
           flash' = [flash EXCEPT ![next_slot][unit] = v]
    PROVE  /\ Payload(flash'[next_slot]) = live
           /\ Valid(flash'[next_slot]) => v = Out[Check]
  <1>1. Whole(live) /\ next_slot \in Slots
    BY DEF PageInv, Writing
  <1>2. /\ \A u \in Units : u # unit => flash'[next_slot][u] = flash[next_slot][u]
        /\ flash'[next_slot][Check] = v
    BY Programmed
  <1>3. \A f \in Fields : f \in Units /\ f < Check /\ f # Check
    BY SettingsConstants DEF Fields, Check, Units
  <1>4. \A f \in Fields : flash'[next_slot][f] = live[f]
    BY <1>2, <1>3 DEF Copied, Out
  <1>5. Payload(flash'[next_slot]) = live
    BY <1>1, <1>4 DEF Payload, Whole
  <1>6. Out[Check] = check_of(live)
    BY Sizes DEF Out
  <1> QED BY <1>2, <1>5, <1>6 DEF Valid

LEMMA ErasedPage ==
    ASSUME NEW page, page = [i \in Slots |-> BlankRecord]
    PROVE  Recovered(page) = Defaults
  <1>1. Shape(page) /\ Log(page, 0)
    BY Sizes DEF Shape, Log, Blank, BlankRecord
  <1>2. ScanEnd(page) = 0
    BY <1>1, ScanFindsEnd
  <1>3. ValidBefore(page, 0) = {}
    BY Sizes DEF ValidBefore, Slots
  <1> QED BY <1>2, <1>3 DEF Recovered

\* What a step may do to what a boot would load: the four disjuncts of AtomicSave.
Atomic ==
    \/ pc = "write" /\ pc' = "idle" /\ unit = Check /\ Recovered(flash') = live
    \/ pc = "erase" /\ next_slot = SLOTS /\ Recovered(flash') = Defaults
    \/ pc = "write" /\ (Accident(flash[next_slot]) \/ Accident(flash'[next_slot]))
    \/ /\ pc = "write" /\ unit = 1 /\ holed
       /\ \E i \in Hidden(flash) : Recovered(flash') = Payload(flash[i])

\* Any unit, programmed right or wrong.
LEMMA UnitWritten ==
    ASSUME PageInv, LogInv, Copied, pc = "write", Target = Ones, NEW v,
           flash' = [flash EXCEPT ![next_slot][unit] = v],
           v = Out[unit] /\ unit = Check => pc' = "idle",
           Recovered(flash') # Recovered(flash)
    PROVE  Atomic
  <1> SUFFICES ASSUME ~Accident(flash[next_slot]), ~Accident(flash'[next_slot])
               PROVE  Atomic
    BY DEF Atomic
  <1>1. CASE unit = 1
    BY <1>1, FirstUnit DEF Atomic
  <1>2. CASE unit # 1
    <2>1. Valid(flash'[next_slot]) /\ Recovered(flash') = Payload(flash'[next_slot])
      BY <1>2, LaterUnit
    <2>2. CASE unit = Check
      BY <2>1, <2>2, CheckWritten DEF Atomic
    <2>3. CASE unit # Check
      <3>1. Check \in Units /\ Check > unit
        BY <2>3, SettingsConstants DEF PageInv, Units, Fields, Check
      <3>2. flash'[next_slot][Check] = Ones
        BY <3>1, Programmed
      <3> QED BY <2>1, <3>2, ErasedCheck
    <2> QED BY <2>2, <2>3
  <1> QED BY <1>1, <1>2

\* A power loss at any step of a save leaves the old set of values or the new
\* one, and never a part of each: only the check makes a record, or the payload
\* whose check is the erased one.  What was passed over erased can only bring
\* back a whole record.
THEOREM SavesAreAtomic == Spec => AtomicSave
  <1>1. ASSUME PageInv, LogInv, Copied, Next, Recovered(flash') # Recovered(flash)
        PROVE  Atomic
    <2>1. flash' # flash
      BY <1>1
    <2>2. flash_erase_page \/ flash_write_word \/ WriteSpoilt
      BY <1>1, <2>1 DEF Next, settings_update, settings_init, settings_set, PowerLoss,
             Begin, EraseRefused, WriteRefused
    <2>3. CASE flash_erase_page
      <3>1. pc = "erase" /\ next_slot = SLOTS
        BY <1>1, <2>3 DEF flash_erase_page, PageInv
      <3> QED BY <2>3, <3>1, ErasedPage DEF flash_erase_page, Atomic
    <2>4. CASE flash_write_word
      <3>1. /\ pc = "write" /\ Target = Ones
            /\ flash' = [flash EXCEPT ![next_slot][unit] = Out[unit]]
            /\ unit = Check => pc' = "idle"
        BY <2>4 DEF flash_write_word
      <3> QED BY <1>1, <3>1, UnitWritten
    <2>5. CASE WriteSpoilt
      <3>1. PICK g \in Garbage \ {Out[unit]} : flash' = [flash EXCEPT ![next_slot][unit] = g]
        BY <2>5 DEF WriteSpoilt
      <3>2. pc = "write" /\ Target = Ones /\ g # Out[unit]
        BY <2>5, <3>1 DEF WriteSpoilt
      <3> QED BY <1>1, <3>1, <3>2, UnitWritten
    <2> QED BY <2>2, <2>3, <2>4, <2>5
  <1>2. PageInv /\ LogInv /\ Copied /\ [Next]_vars => [Recovered(flash') # Recovered(flash) => Atomic]_vars
    BY <1>1
  <1> QED BY <1>2, SaveInvariant, PTL DEF Spec, AtomicSave, Atomic

=============================================================================
