------------------------------ MODULE Settings ------------------------------
(***************************************************************************)
(* The settings store: src/src/settings.c over src/src/flash.c.            *)
(*                                                                         *)
(* One flash page is a log of records, appended one word at a time; a full *)
(* page is erased and the log starts again.  Power can fail between any    *)
(* two operations on the flash, and a program or an erase can be refused.   *)
(*                                                                         *)
(* A record here is FIELDS payload units and a check unit, each a number   *)
(* below MODULUS.  In the code the last word of a record holds nothing but *)
(* three unused bytes and the check, so the check is written by a write of  *)
(* its own there too; and erased flash reads as all ones there too.        *)
(***************************************************************************)
EXTENDS Naturals, Functions

CONSTANTS
    SLOTS,   \* records in the page
    FIELDS,  \* payload units in a record
    MODULUS, \* one more than the largest unit
    Levels,  \* the values the rest of the firmware stores in a field
    Garbage, \* what a program that goes wrong may leave in a unit
    Refusing, \* the units of a record whose program flash may refuse
    Faults   \* how else flash can fail: "spoilt" (program), "stuck" (erase)

Byte   == 0 .. MODULUS - 1
Ones   == MODULUS - 1
Slots  == 0 .. SLOTS - 1
Fields == 1 .. FIELDS
Check  == FIELDS + 1
Units  == Fields \cup {Check}

ASSUME SettingsConstants ==
    /\ SLOTS \in Nat \ {0} /\ FIELDS \in Nat \ {0} /\ MODULUS \in Nat \ {0, 1}
    /\ Levels \subseteq Byte \ {Ones}
    /\ Garbage \subseteq Byte
    /\ Refusing \subseteq Units
    /\ Faults \subseteq {"spoilt", "stuck"}

VARIABLES
    flash,     \* the page: survives a power loss
    live,      \* what the firmware uses and changes
    committed, \* what the store holds, as far as RAM knows
    next_slot, \* where the next record goes; SLOTS when the page is full
    pc,        \* "off", "idle", or inside settings_update: "erase", "write"
    unit,      \* the next unit to program
    holed      \* history: a slot of the page was passed over with no mark in it

ram  == <<live, committed, next_slot>>
vars == <<flash, live, committed, next_slot, pc, unit, holed>>

-----------------------------------------------------------------------------
(* Reading the page.                                                       *)

\* The complement of the sum of the payload.
check_of(fields) == Ones - (SumFunctionOnSet(fields, Fields) % MODULUS)

BlankRecord == [u \in Units |-> Ones]
Defaults    == [f \in Fields |-> 0]

Payload(r) == [f \in Fields |-> r[f]]
Erased(r)  == r = BlankRecord

\* Any record counts.
SlipValid(r) == TRUE

Valid(r) == r[Check] = check_of(Payload(r))

\* The scan stops at the first fully erased slot.
ScanEnd(page) ==
    CHOOSE i \in 0 .. SLOTS :
        /\ \A j \in Slots : j < i => ~Erased(page[j])
        /\ i = SLOTS \/ Erased(page[i])

ValidBefore(page, end) == {i \in Slots : i < end /\ Valid(page[i])}

\* The first valid record is kept instead of the last.
SlipRecovered(page) ==
    LET found == ValidBefore(page, ScanEnd(page)) IN
    IF found = {} THEN Defaults
    ELSE Payload(page[CHOOSE i \in found : \A j \in found : i <= j])

\* What settings_init loads: each valid record replaces the ones before it.
Recovered(page) ==
    LET found == ValidBefore(page, ScanEnd(page)) IN
    IF found = {} THEN Defaults
    ELSE Payload(page[CHOOSE i \in found : \A j \in found : i >= j])

-----------------------------------------------------------------------------
(* Start, and the setters the rest of the firmware calls.                   *)

Init ==
    /\ flash = [i \in Slots |-> BlankRecord]
    /\ live = Defaults /\ committed = Defaults
    /\ next_slot = 0
    /\ pc = "off" /\ unit = 1
    /\ holed = FALSE

settings_init ==
    /\ pc = "off"
    /\ live' = Recovered(flash) /\ committed' = Recovered(flash)
    /\ next_slot' = ScanEnd(flash)
    /\ pc' = "idle"
    /\ UNCHANGED <<flash, unit, holed>>

\* settings_set_*_level, settings_set_preset and settings_clear_preset: RAM only.
settings_set(f, v) ==
    /\ pc = "idle"
    /\ live' = [live EXCEPT ![f] = v]
    /\ UNCHANGED <<flash, committed, next_slot, pc, unit, holed>>

-----------------------------------------------------------------------------
(* settings_update, one operation on the flash at a time.  It blocks the    *)
(* main loop, so nothing else runs between its steps, but power can fail.    *)

\* A full page is written over.
SlipBegin ==
    /\ pc = "idle" /\ live # committed
    /\ pc' = "write" /\ unit' = 1
    /\ next_slot' = IF next_slot >= SLOTS THEN 0 ELSE next_slot
    /\ UNCHANGED <<flash, live, committed, holed>>

\* Only when something differs, and when the caller finds the moment quiet
\* (any later moment will do).
Begin ==
    /\ pc = "idle" /\ live # committed
    /\ pc' = IF next_slot >= SLOTS THEN "erase" ELSE "write"
    /\ unit' = 1
    /\ UNCHANGED <<flash, ram, holed>>

\* No retry: the values stay live, and count as committed.
GiveUp ==
    /\ committed' = live
    /\ pc' = "idle" /\ unit' = 1
    /\ UNCHANGED live

flash_erase_page ==
    /\ pc = "erase"
    /\ flash' = [i \in Slots |-> BlankRecord]
    /\ next_slot' = 0 /\ holed' = FALSE
    /\ pc' = "write"
    /\ UNCHANGED <<live, committed, unit>>

EraseRefused ==
    /\ pc = "erase" /\ "stuck" \in Faults
    /\ GiveUp
    /\ UNCHANGED <<flash, next_slot, holed>>

\* The record in RAM that is being written out.
Out == [u \in Units |-> IF u = Check THEN check_of(live) ELSE live[u]]

Target == flash[next_slot][unit]

\* Programming only clears bits: a unit that is not erased refuses.
flash_write_word ==
    /\ pc = "write" /\ Target = Ones
    /\ flash' = [flash EXCEPT ![next_slot][unit] = Out[unit]]
    /\ IF unit = Check
       THEN /\ next_slot' = next_slot + 1
            /\ committed' = live
            /\ pc' = "idle" /\ unit' = 1
            /\ UNCHANGED live
       ELSE /\ unit' = unit + 1
            /\ UNCHANGED <<ram, pc>>
    /\ UNCHANGED holed

\* The slot counts as spoiled and is skipped, erased though it may still be:
\* then the next boot stops its scan at it.
Skip ==
    /\ next_slot' = next_slot + 1
    /\ holed' = (holed \/ Erased(flash'[next_slot]))
    /\ GiveUp

\* The write fails and the slot is left as it was.
WriteRefused ==
    /\ pc = "write"
    /\ Target # Ones \/ unit \in Refusing
    /\ UNCHANGED flash
    /\ Skip

\* The readback differs from what was written.
WriteSpoilt ==
    /\ pc = "write" /\ Target = Ones /\ "spoilt" \in Faults
    /\ \E g \in Garbage \ {Out[unit]} :
          flash' = [flash EXCEPT ![next_slot][unit] = g]
    /\ Skip

\* Power is lost, or the watchdog or the bridge resets the part.
PowerLoss ==
    /\ pc # "off"
    /\ pc' = "off" /\ unit' = 1
    /\ live' = Defaults /\ committed' = Defaults /\ next_slot' = 0
    /\ UNCHANGED <<flash, holed>>

settings_update ==
    \/ Begin
    \/ flash_erase_page \/ EraseRefused
    \/ flash_write_word \/ WriteRefused \/ WriteSpoilt

Next ==
    \/ settings_init
    \/ \E f \in Fields, v \in Levels : settings_set(f, v)
    \/ settings_update
    \/ PowerLoss

Spec == Init /\ [][Next]_vars

=============================================================================
