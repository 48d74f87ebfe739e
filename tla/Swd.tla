-------------------------------- MODULE Swd --------------------------------
(***************************************************************************)
(* The bridge's debug link, src/esphome/components/socozi/swd.cpp, and the   *)
(* part of the chair it reaches: the core, its watchdog, the flash and its   *)
(* controller, and the debug block in RAM.                                  *)
(*                                                                         *)
(* An operation takes a state and gives the set of states it may end in.     *)
(* "ok" is its result; what comes after a failure in the same sequence does  *)
(* not happen.  Any access may fail and leave the port deaf until the next    *)
(* line reset, and a write may be acknowledged and never done, which the     *)
(* access after it is told.                                                 *)
(***************************************************************************)
EXTENDS Naturals, Sequences

CONSTANTS
    PAGE,     \* FLASH_PAGE_SIZE, in words
    STORE,    \* FLASH_STORE_ADDR: the words below it are the firmware's
    SIZE,     \* how many words of flash there are
    Erased,   \* an erased word
    Old       \* a word of the firmware the chair came with

ASSUME SwdConstants ==
    /\ PAGE \in Nat \ {0} /\ STORE \in Nat /\ SIZE \in Nat
    /\ STORE % PAGE = 0 /\ STORE <= SIZE /\ Old # Erased

Words == 0 .. SIZE - 1

-----------------------------------------------------------------------------
(* The chair.                                                               *)

\* The firmware in the flash: the one it came with, the bridge's, or neither.
Firmware(flash, image) ==
    IF \A w \in 0 .. STORE - 1 : flash[w] = Old THEN "old"
    ELSE IF Len(image) <= STORE /\ \A i \in DOMAIN image : flash[i - 1] = image[i] THEN "new"
    ELSE "none"

\* A whole firmware starts its watchdog and fills in the debug block; anything
\* else leaves the block as it was, magic word and all.
Reset(chair, image) ==
    LET firmware == Firmware(chair.flash, image) IN
    [chair EXCEPT
        !.locked = TRUE, !.error = FALSE, !.busy = FALSE, !.pump = FALSE,
        !.runs = firmware,
        !.core = IF firmware = "none" THEN "lost" ELSE "runs",
        !.watchdog = firmware # "none",
        !.block = IF firmware = "none" THEN @
                  ELSE [magic |-> TRUE, busy |-> FALSE, version |-> firmware]]

\* A core let go where it stopped can go on only over the flash it was running.
Resumed(chair, image) ==
    CASE chair.core # "halted" -> chair
      [] chair.core = "halted" /\ chair.runs # "none" /\ Firmware(chair.flash, image) = chair.runs ->
            [chair EXCEPT !.core = "runs"]
      [] OTHER -> [chair EXCEPT !.core = "lost", !.runs = "none"]

-----------------------------------------------------------------------------
(* Accesses.                                                                *)

Failed(s) == [s EXCEPT !.ok = FALSE]

\* transfer_: a port that is deaf does not answer, and one that was sent a
\* write it could not do says so once.
Access(s, done) ==
    CASE ~s.ok -> {s}
      [] s.ok /\ ~s.hears -> {Failed(s)}
      [] s.ok /\ s.hears /\ s.sticky -> {[Failed(s) EXCEPT !.sticky = FALSE]}
      [] OTHER -> done \cup {[Failed(s) EXCEPT !.fault = TRUE, !.hears = h] : h \in BOOLEAN}

read_word(s) == Access(s, {s})

\* done: the state once the write has been done.
write_word(s, done) == Access(s, {done, [s EXCEPT !.sticky = TRUE, !.fault = TRUE]})

Then(states, F(_)) == UNION {F(s) : s \in states}

\* A call whose result nobody looks at.
Ignoring(s, F(_)) == {[t EXCEPT !.ok = s.ok] : t \in F([s EXCEPT !.ok = TRUE])}

\* begin: line reset, sticky errors cleared, debug power up.
begin(s) ==
    IF ~s.ok THEN {s}
    ELSE {[s EXCEPT !.hears = TRUE, !.sticky = FALSE, !.idcode = TRUE]} \cup
         {[Failed(s) EXCEPT !.hears = FALSE, !.fault = TRUE, !.idcode = i] : i \in {s.idcode, TRUE}}

halt(s) == Then(write_word(s, [s EXCEPT !.chair.core = "halted"]), read_word)

run(s, image) == write_word(s, [s EXCEPT !.chair = Resumed(s.chair, image)])

SlipReacquire(s) == {s}

\* reset_run: "The link is gone with the reset; a fresh handshake is how it
\* comes back."
Reacquire(s) == Ignoring(s, begin)

RequestReset(s, image) ==
    Ignoring(s, LAMBDA t :
        write_word(t, [t EXCEPT !.chair = Reset(t.chair, image), !.hears = FALSE, !.sticky = FALSE]))

reset_run(s, image) ==
    Then(Then(RequestReset(s, image), Reacquire), LAMBDA t : run(t, image))

-----------------------------------------------------------------------------
(* The flash controller.                                                    *)

flash_unlock(s) ==
    LET locked == {t \in read_word(s) : t.ok /\ t.chair.locked}
        keys(t) == Then(write_word(t, t), LAMBDA u : write_word(u, [u EXCEPT !.chair.locked = FALSE]))
    IN  (read_word(s) \ locked) \cup Then(Then(locked, keys), read_word)

flash_lock(s) == Then(read_word(s), LAMBDA t : write_word(t, [t EXCEPT !.chair.locked = TRUE]))

\* fmc_wait_: take what the controller reports, and clear it.
fmc_wait_(s) ==
    LET clear(t) == Ignoring(t, LAMBDA u : write_word(u, [u EXCEPT !.chair.error = FALSE])) IN
    Then(read_word(s), LAMBDA t :
        IF ~t.ok THEN {t}
        ELSE {[u EXCEPT !.ok = ~t.chair.error] : u \in clear(t)})

\* An operation of the controller: done, or refused with an error in its status.
\* A locked one refuses all; now and then one that is not locked does, or says it
\* is done and the flash has not taken it.
Command(s, allowed, flash) ==
    LET able == allowed /\ ~s.chair.locked IN
    write_word(s, [s EXCEPT !.chair.error = TRUE, !.fault = @ \/ able]) \cup
    IF able
    THEN UNION {write_word(s, [s EXCEPT !.chair.flash = f, !.fault = @ \/ f # flash]) : f \in {flash, s.chair.flash}}
    ELSE {}

Blank(flash, p) == [w \in Words |-> IF w \div PAGE = p THEN Erased ELSE flash[w]]

SlipMayErase(p) == TRUE

\* "The one check that matters."
MayErase(p) == p * PAGE < STORE

flash_erase_page(s, p) ==
    LET setup == Then(Then(read_word(s), LAMBDA t : write_word(t, t)), LAMBDA t : write_word(t, t))
        started == Then(setup, LAMBDA t : IF t.ok THEN Command(t, TRUE, Blank(t.chair.flash, p)) ELSE {t})
        ended == Then(started, LAMBDA t :
            IF ~t.ok THEN {t} ELSE Then(fmc_wait_(t), LAMBDA u : Ignoring(u, LAMBDA v : write_word(v, v))))
        checked(t) == {[u EXCEPT !.ok = u.ok /\ u.chair.flash[p * PAGE] = Erased] : u \in read_word(t)}
    IN  IF MayErase(p) THEN Then(ended, checked) ELSE {Failed(s)}

\* One word: an erased one is already what is wanted, and one that is not blank
\* cannot be written.
Program(s, w, value) ==
    IF ~s.ok \/ value = Erased THEN {s}
    ELSE Then(Command(s, s.chair.flash[w] = Erased, [s.chair.flash EXCEPT ![w] = value]), fmc_wait_)

\* The i-th word of a chunk: programming is enabled before the first, and no longer
\* after the last or after one that failed.
flash_write_words(s, at, src, i) ==
    LET open == IF i = 1 THEN Then(read_word(s), LAMBDA t : write_word(t, t)) ELSE {s}
        closed(t) == IF t.ok /\ i < Len(src) THEN {t} ELSE Ignoring(t, LAMBDA u : write_word(u, u))
    IN  IF at + Len(src) > STORE THEN {Failed(s)}
        ELSE Then(open, LAMBDA t :
            IF ~t.ok THEN {t} ELSE Then(Program(t, at + i - 1, src[i]), closed))

=============================================================================
