----------------------------- MODULE CharQueue -----------------------------
(***************************************************************************)
(* What a ring of src/src/rtt.c promises its two ends: a queue of LIMIT      *)
(* characters.  What one end puts in the other gets, once and in order.  A    *)
(* character on its way in is lost in two cases only: the queue is full, or   *)
(* it is the host that is putting it in and its link dies.                   *)
(***************************************************************************)
EXTENDS Naturals, Sequences

CONSTANTS Chars, NoChar, LIMIT

VARIABLES host,   \* the end the host is at, "writer" or "reader": for ever
          linked,   \* whether the host's debug link is up
          offer,  \* the character being put in, or NoChar
          queue,
          taken   \* the character last got

vars == <<host, linked, offer, queue, taken>>

Init ==
    /\ host \in {"writer", "reader"} /\ linked = TRUE
    /\ offer = NoChar /\ queue = <<>> /\ taken = NoChar

Offer(c) ==
    /\ offer = NoChar /\ (host = "writer" => linked)
    /\ offer' = c /\ UNCHANGED <<host, linked, queue, taken>>

Accept ==
    /\ offer \in Chars /\ Len(queue) < LIMIT
    /\ queue' = Append(queue, offer)
    /\ offer' = NoChar /\ UNCHANGED <<host, linked, taken>>

Drop ==
    /\ offer \in Chars /\ Len(queue) = LIMIT
    /\ offer' = NoChar /\ UNCHANGED <<host, linked, queue, taken>>

Get ==
    /\ queue # <<>>
    /\ taken' = Head(queue) /\ queue' = Tail(queue)
    /\ UNCHANGED <<host, linked, offer>>

\* The host's own character goes with its link; the core's does not.
LinkDies ==
    /\ linked /\ linked' = FALSE
    /\ offer' = IF host = "writer" THEN NoChar ELSE offer
    /\ UNCHANGED <<host, queue, taken>>

LinkBack == ~linked /\ linked' = TRUE /\ UNCHANGED <<host, offer, queue, taken>>

Next ==
    \/ \E c \in Chars : Offer(c)
    \/ Accept \/ Drop \/ Get \/ LinkDies \/ LinkBack

Spec == Init /\ [][Next]_vars

=============================================================================
