------------------------- MODULE SettingsProperties -------------------------
(***************************************************************************)
(* What must be true of the settings store.                                *)
(***************************************************************************)
EXTENDS Settings

TypeOK ==
    /\ flash \in [Slots -> [Units -> Byte]]
    /\ live \in [Fields -> Byte] /\ committed \in [Fields -> Byte]
    /\ next_slot \in 0 .. SLOTS
    /\ pc \in {"off", "idle", "erase", "write"}
    /\ unit \in Units /\ holed \in BOOLEAN

\* A record is only ever written in a slot that was erased when it was begun,
\* and goes on only through units that still are.  And the log only moves
\* forward: every slot from the next one on is erased, so that a write into a
\* programmed word, which flash refuses, is not attempted.  That last part ends
\* when the first word of a record is refused or reads back erased, which passes
\* over a slot with nothing in it, and holds again from the next erase of the page.
AppendOnly ==
    /\ pc = "write" /\ unit > 1 =>
          \A u \in Units : u >= unit => flash[next_slot][u] = Ones
    /\ ~holed /\ pc \in {"idle", "write"} =>
          \A i \in Slots : i >= next_slot =>
              \A u \in Units :
                  ~(pc = "write" /\ i = next_slot /\ u < unit) => flash[i][u] = Ones

\* The one arithmetic accident: a record whose check is still erased, and whose
\* payload, with the units not written still erased, has that check.
Accident(r) == r[Check] = Ones /\ check_of(Payload(r)) = Ones

\* The records a boot does not see, behind the erased slot where its scan stops.
Hidden(page) == {i \in Slots : i > ScanEnd(page) /\ ~Erased(page[i]) /\ Valid(page[i])}

\* A save is atomic and a power loss keeps it: what a boot would load changes
\* only from one complete set of values to the live one, with the last write of
\* a record, or to the defaults when a full page is erased to make room.  There
\* are two exceptions.  While the accident above lasts a torn record is valid.
\* And once a slot was passed over erased, the first word that fills it brings
\* back a whole record that was written behind it.
AtomicSave ==
    [][Recovered(flash') # Recovered(flash) =>
          \/ pc = "write" /\ pc' = "idle" /\ unit = Check /\ Recovered(flash') = live
          \/ pc = "erase" /\ next_slot = SLOTS /\ Recovered(flash') = Defaults
          \/ pc = "write" /\ (Accident(flash[next_slot]) \/ Accident(flash'[next_slot]))
          \/ /\ pc = "write" /\ unit = 1 /\ holed
             /\ \E i \in Hidden(flash) : Recovered(flash') = Payload(flash[i])]_vars

\* A successful save is what the next boot loads: the newest record wins,
\* whatever torn and spoilt records lie before it, unless a slot of the page was
\* passed over with nothing in it.
Durable ==
    [][pc = "write" /\ pc' = "idle" /\ unit = Check /\ flash'[next_slot] = Out /\ ~holed
         => Recovered(flash') = live']_vars

\* enhancements-spec.md:275, "the words are written in order so the check lands
\* last: a torn record can never read as valid".
TornNeverValid ==
    pc = "write" => ~Valid(flash[next_slot])

\* enhancements-spec.md:269, "The live values are the highest-indexed valid
\* record, which works because writes only ever move forward".
HighestIndexed(page) ==
    LET found == ValidBefore(page, SLOTS) IN
    IF found = {} THEN Defaults
    ELSE Payload(page[CHOOSE i \in found : \A j \in found : i >= j])

HighestIndexedWins == Recovered(flash) = HighestIndexed(flash)

=============================================================================
