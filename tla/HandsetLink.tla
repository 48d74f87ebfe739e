---------------------------- MODULE HandsetLink ----------------------------
(***************************************************************************)
(* What the link to the handset promises control_update: the button it      *)
(* reads is one the handset reported, in the order it reported them, each   *)
(* report used at most once.  A report may be lost, and one that two newer  *)
(* ones have followed is too old to be used.                                *)
(***************************************************************************)
EXTENDS Naturals, Sequences

CONSTANTS Codes, NONE

VARIABLES offered,     \* the reports that may still be heard, oldest first
          last_button  \* what handset_button() returns

vars == <<offered, last_button>>

Init == offered = <<>> /\ last_button = NONE

\* The handset answers a poll; what was on offer may be forgotten.
Answer(b) ==
    /\ \/ offered' = Append(offered, b)
       \/ offered # <<>> /\ offered' = Append(Tail(offered), b)
    /\ Len(offered') <= 2
    /\ UNCHANGED last_button

\* A report is heard, and none before it will be.
Hear(i) ==
    /\ last_button' = offered[i]
    /\ offered' = SubSeq(offered, i + 1, Len(offered))

Next ==
    \/ \E b \in Codes : Answer(b)
    \/ \E i \in DOMAIN offered : Hear(i)

Spec == Init /\ [][Next]_vars

=============================================================================
