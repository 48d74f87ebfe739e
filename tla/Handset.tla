------------------------------ MODULE Handset ------------------------------
(***************************************************************************)
(* The wired remote: src/src/handset.c over a USART with room for one byte   *)
(* and no interrupt.  Between any two steps of the main loop the wire may     *)
(* deliver the next byte of the handset's answer, deliver it damaged, or     *)
(* have one of its own making; and while the loop is held up (a page erase,  *)
(* a slow transmission) bytes arrive with nobody to take them, the receiver  *)
(* overruns, and then discards everything until its flag is cleared.         *)
(***************************************************************************)
EXTENDS Naturals, Sequences

CONSTANTS
    Codes,      \* the button codes the handset sends
    Noise       \* the bytes noise can make of a byte

\* handset.h: nothing pressed and eight buttons.  (Codes above these would not
\* do: of 252, the checksum is a type.)
ASSUME HandsetConstants ==
    Codes # {} /\ Codes \subseteq 0 .. 8 /\ Noise \subseteq 0 .. 255

HS_NONE == 0
HS_TYPE_IDLE == 3
HS_TYPE_PRESSED == 6
LENGTH == 4

VARIABLES
    pc,          \* where the main loop is: "loop", "stat" or "drain"
    rx,          \* rx_buf[0 .. rx_len - 1]
    rx_sum,
    last_button,
    wire,        \* the bytes of the answer that have not arrived yet
    usart,       \* [data, noise, overrun]: the receive register and STAT
    held_up,     \* the loop is in something long
    \* Histories, which nothing in the code reads: the answers that may still
    \* be heard, which of them (counted from the newest) the byte in the
    \* receive register is of, and how many answers in a row (up to two), this
    \* one included, nothing has happened to.
    offered, age, intact

link == <<wire, usart, held_up, age>>
parser == <<rx, rx_sum>>
vars == <<pc, parser, last_button, link, offered, intact>>

Byte == 0 .. 255

-----------------------------------------------------------------------------
(* The handset and the receiver.                                            *)

Type(b) == IF b = HS_NONE THEN HS_TYPE_IDLE ELSE HS_TYPE_PRESSED
Sum(type, b) == (type + LENGTH + b) % 256

\* The answer: handset.h, "Handset to board frames are 4 bytes".
Frame(b) == <<Type(b), LENGTH, b, Sum(Type(b), b)>>

Quiet == [data |-> <<>>, noise |-> FALSE, overrun |-> FALSE]
Flagged == usart.noise \/ usart.overrun
RBNE == usart.data # <<>>

\* A byte reaches the receiver. It is lost while an overrun stands, and makes
\* one if the byte before it has not been taken.
Received(byte, noisy) ==
    usart' = IF usart.overrun THEN usart
             ELSE IF RBNE THEN [usart EXCEPT !.overrun = TRUE]
             ELSE [usart EXCEPT !.data = <<byte>>, !.noise = usart.noise \/ noisy]

Spoilt == RBNE \/ usart.overrun

\* The loop is faster than the wire unless something holds it up.
InTime == held_up \/ ~Spoilt

Arrive ==
    /\ wire # <<>> /\ InTime
    /\ Received(Head(wire), FALSE)
    /\ wire' = Tail(wire)
    /\ age' = IF Spoilt THEN age ELSE 0
    /\ intact' = IF Spoilt THEN 0 ELSE intact
    /\ UNCHANGED <<pc, parser, last_button, held_up, offered>>

\* Made up between the length and the code, such a byte has the code for its
\* sum: 250 before the code 4, as 6 + 4 + 250 is 4.
Disguised(byte) == Len(wire) = 2 /\ Sum(Type(wire[1]), byte) = wire[1]

\* Noise damages a byte, or makes one where there was none; the receiver need
\* not notice.  It strikes a line that nothing else has happened to since the
\* answer before last: the checksum is good for one damaged byte, and two faults
\* close together may make a button nobody pressed.  So may the one byte in 256
\* that is made up in disguise.
Glitch ==
    /\ intact = 2 /\ InTime
    /\ \E byte \in Noise, noisy \in BOOLEAN, extra \in BOOLEAN :
          /\ Received(byte, noisy)
          /\ IF extra THEN ~Disguised(byte) /\ wire' = wire
             ELSE wire # <<>> /\ wire' = Tail(wire)
    /\ age' = IF Spoilt THEN age ELSE 0
    /\ intact' = 0
    /\ UNCHANGED <<pc, parser, last_button, held_up, offered>>

-----------------------------------------------------------------------------
(* The parser.                                                              *)

\* Mutant: the sum of the bytes thrown away stays.
SlipParserReset == rx' = <<>> /\ UNCHANGED rx_sum

parser_reset == rx' = <<>> /\ rx_sum' = 0

\* Whether b may follow what has been received.
Fits(b) ==
    \/ Len(rx) = 0 /\ b \in {HS_TYPE_IDLE, HS_TYPE_PRESSED}
    \/ Len(rx) = 1 /\ b = LENGTH
    \/ Len(rx) = 2
    \/ Len(rx) = 3 /\ b = rx_sum

\* Mutant: the checksum is not looked at.
SlipCompletes(b) == Len(rx) = 3

Completes(b) == Len(rx) = 3 /\ Fits(b)

feed(b) ==
    IF Fits(b) /\ ~Completes(b)
    THEN rx' = Append(rx, b) /\ rx_sum' = (rx_sum + b) % 256
    ELSE parser_reset

-----------------------------------------------------------------------------
(* The main loop: handset_send every HANDSET_POLL_MS, handset_poll in every  *)
(* pass, and everything else in between.                                    *)

OneMore(n) == IF n < 2 THEN n + 1 ELSE 2

\* handset_send: the handset answers with the button that is down, or the
\* poll or the answer is lost.  An answer is over before the next poll.
Ask ==
    /\ pc = "loop" /\ wire = <<>>
    /\ \E b \in Codes :
           /\ wire' = Frame(b)
           /\ offered' = Append(IF Len(offered) < 2 THEN offered ELSE Tail(offered), b)
    /\ age' = IF RBNE THEN 1 ELSE 0
    /\ intact' = OneMore(intact)
    /\ UNCHANGED <<pc, parser, last_button, usart, held_up>>

\* The rest of the pass takes as long as several bytes.
Stall ==
    /\ pc = "loop" /\ held_up' = TRUE
    /\ UNCHANGED <<pc, parser, last_button, wire, usart, offered, age, intact>>

Turn ==
    /\ pc = "loop"
    /\ pc' = "stat" /\ held_up' = FALSE
    /\ UNCHANGED <<parser, last_button, wire, usart, offered, age, intact>>

\* Mutant: the overrun is not among the flags that are cleared.
SlipCleared == [usart EXCEPT !.noise = FALSE]

\* USART_INTC = USART_INTC_ERRORS
Cleared == [Quiet EXCEPT !.data = usart.data]

\* handset_poll: the error flags, once.
Clear ==
    /\ pc = "stat" /\ pc' = "drain"
    /\ IF Flagged
       THEN /\ usart' = Cleared
            /\ parser_reset
            /\ intact' = 0
       ELSE UNCHANGED <<usart, parser, intact>>
    /\ UNCHANGED <<last_button, wire, held_up, offered, age>>

\* handset_poll: while there is a byte, take it.
Take ==
    /\ pc = "drain" /\ RBNE
    /\ LET b == usart.data[1] IN
       /\ feed(b)
       /\ IF Completes(b)
          THEN /\ last_button' = rx[3]
               /\ offered' = SubSeq(offered, Len(offered) - age + 1, Len(offered))
          ELSE UNCHANGED <<last_button, offered>>
    /\ usart' = [usart EXCEPT !.data = <<>>]
    /\ UNCHANGED <<pc, wire, held_up, age, intact>>

Leave ==
    /\ pc = "drain" /\ ~RBNE
    /\ pc' = "loop"
    /\ UNCHANGED <<parser, last_button, link, offered, intact>>

Init ==
    /\ pc = "loop" /\ rx = <<>> /\ rx_sum = 0 /\ last_button = HS_NONE
    /\ wire = <<>> /\ usart = Quiet /\ held_up = FALSE
    /\ offered = <<>> /\ age = 0 /\ intact = 2

Loop == Turn \/ Clear \/ Take \/ Leave

Next == Arrive \/ Glitch \/ Ask \/ Stall \/ Loop

\* The loop goes round: every wait in it is bounded, and the watchdog ends one
\* that is not.  It comes back to handset_send every HANDSET_POLL_MS, though a
\* byte of the last answer may be on the wire in any one pass.  And a byte that
\* is on the wire arrives.
Fairness == WF_vars(Loop) /\ SF_vars(Ask) /\ WF_vars(Arrive)

Spec == Init /\ [][Next]_vars /\ Fairness

=============================================================================
