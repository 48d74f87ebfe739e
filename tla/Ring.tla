------------------------------- MODULE Ring --------------------------------
(***************************************************************************)
(* One ring of the console of src/src/rtt.c, between the core and a host     *)
(* that reads and writes the core's memory over the debug port, a word at a  *)
(* time and between any two instructions.                                    *)
(*                                                                         *)
(* On the up ring the writer is rtt_putc and the reader the host; on the     *)
(* down ring the writer is the host and the reader rtt_getc: `host` says      *)
(* which, and never changes.  The host's end is the mirror of the code's: "a  *)
(* single writer per index" is the whole of the protocol.  Its link may die   *)
(* between any two of its accesses; the core has no link to lose.            *)
(***************************************************************************)
EXTENDS Naturals

CONSTANTS Chars, NoChar,
          SIZE     \* RTT_UP_SIZE or RTT_DOWN_SIZE

ASSUME RingConstants == SIZE \in Nat /\ SIZE >= 2 /\ NoChar \notin Chars

Slots == 0 .. SIZE - 1

VARIABLES
    host,        \* the end the host is at: "writer" or "reader"
    linked,        \* whether the host's debug link is up
    buffer, wr, rd,
    writer,      \* where the writer is: "idle", "check", "store" or "publish"
    offer,       \* the character it is putting in, or NoChar
    reader,      \* where the reader is: "idle", "fetch" or "release"
    held,        \* the character it has read and not released
    taken        \* the last one it has released

writing == <<writer, offer>>
reading == <<reader, held, taken>>
hosting == <<host, linked>>
ringVars == <<hosting, buffer, wr, rd, writing, reading>>

After(i) == IF i + 1 >= SIZE THEN 0 ELSE i + 1

\* Mutant: a slot too early, so a character is dropped that has room.
EarlyFull == After(wr) = rd \/ After(After(wr)) = rd

Full == After(wr) = rd
Empty == rd = wr

\* The core can always run; the host needs its link.
Able(end) == host = end => linked

-----------------------------------------------------------------------------
(* rtt_putc.                                                                *)

Put(c) ==
    /\ writer = "idle" /\ Able("writer")
    /\ writer' = "check" /\ offer' = c
    /\ UNCHANGED <<hosting, buffer, wr, rd, reading>>

\* Full: drop it.
Check ==
    /\ writer = "check"
    /\ IF Full THEN writer' = "idle" /\ offer' = NoChar
               ELSE writer' = "store" /\ UNCHANGED offer
    /\ UNCHANGED <<hosting, buffer, wr, rd, reading>>

Store ==
    /\ writer = "store" /\ writer' = "publish"
    /\ buffer' = [buffer EXCEPT ![wr] = offer]
    /\ UNCHANGED <<hosting, wr, rd, offer, reading>>

\* Only after the byte is in place.
Publish ==
    /\ writer = "publish" /\ writer' = "idle" /\ offer' = NoChar
    /\ wr' = After(wr)
    /\ UNCHANGED <<hosting, buffer, rd, reading>>

-----------------------------------------------------------------------------
(* rtt_getc.                                                                *)

Look ==
    /\ reader = "idle" /\ Able("reader")
    /\ ~Empty /\ reader' = "fetch"
    /\ UNCHANGED <<hosting, buffer, wr, rd, writing, held, taken>>

Fetch ==
    /\ reader = "fetch" /\ reader' = "release"
    /\ held' = buffer[rd]
    /\ UNCHANGED <<hosting, buffer, wr, rd, writing, taken>>

Release ==
    /\ reader = "release" /\ reader' = "idle"
    /\ rd' = After(rd)
    /\ taken' = held /\ held' = NoChar
    /\ UNCHANGED <<hosting, buffer, wr, writing>>

-----------------------------------------------------------------------------
(* The host's link dies, and the host starts again from the index it owns.  *)

LinkDies ==
    /\ linked /\ linked' = FALSE
    /\ \/ /\ host = "writer" /\ writer' = "idle" /\ offer' = NoChar
          /\ UNCHANGED reading
       \/ /\ host = "reader" /\ reader' = "idle" /\ held' = NoChar
          /\ UNCHANGED <<writing, taken>>
    /\ UNCHANGED <<host, buffer, wr, rd>>

LinkBack ==
    /\ ~linked /\ linked' = TRUE
    /\ UNCHANGED <<host, buffer, wr, rd, writing, reading>>

RingInit ==
    /\ host \in {"writer", "reader"} /\ linked = TRUE
    /\ buffer = [s \in Slots |-> NoChar] /\ wr = 0 /\ rd = 0
    /\ writer = "idle" /\ offer = NoChar
    /\ reader = "idle" /\ held = NoChar /\ taken = NoChar

RingNext ==
    \/ \E c \in Chars : Put(c)
    \/ Check \/ Store \/ Publish
    \/ Look \/ Fetch \/ Release
    \/ LinkDies \/ LinkBack

RingSpec == RingInit /\ [][RingNext]_ringVars

=============================================================================
