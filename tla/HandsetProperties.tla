------------------------- MODULE HandsetProperties -------------------------
(***************************************************************************)
(* What must be true of the link to the handset, whatever the wire loses,    *)
(* damages or makes up.                                                     *)
(***************************************************************************)
EXTENDS Handset

Link == INSTANCE HandsetLink WITH NONE <- HS_NONE

\* handset.c:70, the checksum, and handset.c:138, "a partial frame is worthless
\* once bytes have been dropped": the button the loop sees is always one the
\* handset reported, never one put together of two answers or heard twice.
\* However many bytes overruns swallow and whenever; and with a byte of noise on
\* a line that has been sound for two answers (Glitch).
ImplementsLink == Link!Spec

Settled == pc = "loop" /\ wire = <<>> /\ ~RBNE /\ ~Flagged

\* handset.c:139, "resynchronise on the next poll": wherever a fault has left
\* the parser, of two answers in a row that nothing happens to the second is
\* heard.  (The first need not be: what is left in the receive register may be
\* taken for the type of a frame, and the real type for its bad length.)
Resync == intact = 2 /\ Settled => offered = <<>>

\* From some time on there is no fault, and the finger is on b.
Steady(b) == <>[][~Glitch /\ ~Stall /\ (Ask => wire' = Frame(b))]_vars

\* handset.c:133, "an uncleared ORERR wedges the receiver permanently": after
\* any history of faults, a line that is clean from now on is heard.
HeardAgain == \A b \in Codes : Steady(b) => <>[](last_button = b)

=============================================================================
