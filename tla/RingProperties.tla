-------------------------- MODULE RingProperties ---------------------------
(***************************************************************************)
(* What must be true of a ring whichever end is the core and however the     *)
(* steps of the two ends fall.                                              *)
(***************************************************************************)
EXTENDS Ring, Sequences

\* How many characters are in the ring, and which slot the i-th of them is in.
Held == IF wr >= rd THEN wr - rd ELSE wr + SIZE - rd
Slot(i) == IF rd + i - 1 >= SIZE THEN rd + i - 1 - SIZE ELSE rd + i - 1

Promised == INSTANCE CharQueue WITH
    LIMIT <- SIZE - 1,
    queue <- [i \in 1 .. Held |-> buffer[Slot(i)]]

\* rtt.c:26, "Each ring has a single writer per index, and that is the whole of
\* its thread-safety": with no lock, and a host whose link may die between any
\* two words, what one end puts in the other gets, once and in order.  rtt_putc
\* drops a character only when the ring is full (rtt.c:62), whatever becomes of
\* the link; the host loses one only to a full ring or with its own link.
ImplementsQueue == Promised!Spec

=============================================================================
