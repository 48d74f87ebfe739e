------------------------------- MODULE Bridge -------------------------------
(***************************************************************************)
(* The ESPHome bridge, src/esphome/components/socozi/socozi.cpp: the poll of  *)
(* the chair's debug block, and the update entity that waits for an idle      *)
(* chair, halts it, rewrites its flash and lets it go.                       *)
(*                                                                         *)
(* The chair goes on between any two of its steps: it is used, it loses       *)
(* power, its watchdog bites.  Any access of the link may fail, and the       *)
(* bridge itself may restart in the middle of an install.                    *)
(***************************************************************************)
EXTENDS Swd

CONSTANTS Images, \* the images a bridge may have been built with
          auto_install

ASSUME BridgeConstants ==
    /\ auto_install \in BOOLEAN
    /\ \A image \in Images : image \in Seq({image[i] : i \in DOMAIN image})
    /\ \A image \in Images : Len(image) > 0 /\ \E i \in DOMAIN image : image[i] \notin {Old, Erased}

VARIABLES
    chair, hears, sticky, idcode,  \* the chair and the port, as in Swd
    fault,        \* whether something on the link went wrong in this step
    link_ok,
    block_,       \* the last good copy of the debug block
    state_, pending_,
    at,           \* the step of the install, or "idle"
    n,            \* how many pages, words or chunks of the step are done
    image,        \* what this bridge was built with
    \* Histories, which nothing in the code reads: whether a poll has been tried
    \* since the chair came to be in use, and whether anything on the link has
    \* gone wrong since the install began to let the chair go.
    seen, spoilt,
    result        \* what install_ returned last: "none", "ok" or "failed"

port == <<chair, hears, sticky, idcode, fault>>
poller == <<link_ok, block_>>
update == <<state_, pending_, at, n, result>>
vars == <<port, poller, update, image, seen, spoilt>>

Now == [chair |-> chair, hears |-> hears, sticky |-> sticky, idcode |-> idcode,
        fault |-> FALSE, ok |-> TRUE]

Becomes(s) ==
    /\ chair' = s.chair /\ hears' = s.hears /\ sticky' = s.sticky
    /\ idcode' = s.idcode /\ fault' = s.fault

NoBlock == [magic |-> FALSE, busy |-> FALSE, version |-> "none"]

-----------------------------------------------------------------------------
(* The poll.                                                                *)

SlipPolled == Then(IF idcode THEN {Now} ELSE begin(Now), read_word)

\* What a poll sees of the block: it is read only from a chair that answers,
\* and on a failure the handshake is done afresh for the next one.
Polled ==
    Then(IF idcode THEN {Now} ELSE begin(Now), LAMBDA s :
        IF ~s.ok THEN {s}
        ELSE Then(read_word(s), LAMBDA t : IF t.ok THEN {t} ELSE Ignoring(t, begin)))

Update ==
    /\ at = "idle"
    /\ \E s \in Polled :
           /\ Becomes(s)
           /\ link_ok' = (s.ok /\ chair.block.magic)
           /\ block_' = IF link_ok' THEN chair.block ELSE block_
    /\ seen' = (seen \/ chair.core # "halted")
    /\ UNCHANGED <<update, image, spoilt>>

SlipSafeToFlash == ~block_.busy

safe_to_flash == link_ok /\ ~block_.busy

-----------------------------------------------------------------------------
(* The update entity.                                                       *)

\* check: what the entity shows.
Checked ==
    CASE state_ = "installing" -> "installing"
      [] state_ # "installing" /\ ~link_ok -> "unknown"
      [] state_ # "installing" /\ link_ok /\ block_.version = "new" -> "no_update"
      [] OTHER -> "available"

\* perform: somebody presses Install.
Perform(force) ==
    /\ at = "idle"
    /\ state_ # "installing" /\ (force \/ state_ = "available")
    /\ pending_' = TRUE
    /\ fault' = FALSE
    /\ UNCHANGED <<chair, hears, sticky, idcode, poller, state_, at, n, result, image, seen, spoilt>>

\* loop: an install starts if one is wanted and the chair was idle.
Loop ==
    /\ at = "idle"
    /\ LET wanted == pending_ \/ (auto_install /\ Checked = "available" /\ safe_to_flash)
           starts == wanted /\ safe_to_flash
       IN  /\ pending_' = (wanted /\ ~starts)
           /\ state_' = IF starts THEN "installing" ELSE Checked
           /\ at' = IF starts THEN "halt" ELSE "idle"
    /\ n' = 0 /\ fault' = FALSE
    /\ UNCHANGED <<chair, hears, sticky, idcode, poller, result, image, seen, spoilt>>

-----------------------------------------------------------------------------
(* install_.                                                                *)

total_words == Len(image)
pages == (total_words + PAGE - 1) \div PAGE
CHUNK_WORDS == PAGE

\* The words of a chunk, as far as the image goes.
Chunk(k) == SubSeq(image, k * CHUNK_WORDS + 1,
                   IF (k + 1) * CHUNK_WORDS < total_words THEN (k + 1) * CHUNK_WORDS ELSE total_words)

Same(s, k) == \A i \in DOMAIN Chunk(k) : s.chair.flash[k * CHUNK_WORDS + i - 1] = Chunk(k)[i]

\* A step of the sequence: on to the next one, or past what is left of it.
Do(step, states, next) ==
    /\ at = step
    /\ \E s \in states :
           /\ Becomes(s)
           /\ at' = IF s.ok THEN next ELSE "relock"
           /\ spoilt' = IF at' = "relock" THEN FALSE ELSE spoilt
           /\ result' = IF ~s.ok THEN "failed" ELSE IF next = "relock" THEN "ok" ELSE result
    /\ UNCHANGED <<poller, state_, pending_, image, seen>>

\* The same for each of a number of pages, chunks or words.
DoEach(step, states, next, count) ==
    IF n + 1 = count
    THEN Do(step, states, next) /\ n' = 0
    ELSE Do(step, states, step) /\ n' = n + 1

Halt == Do("halt", Then(begin(Now), halt), "hold") /\ UNCHANGED n

Hold ==
    /\ Do("hold", Then(read_word(Now), LAMBDA s : write_word(s, [s EXCEPT !.chair.hold = TRUE])), "unlock")
    /\ UNCHANGED n

Unlock == Do("unlock", flash_unlock(Now), "erase") /\ UNCHANGED n

Erase == DoEach("erase", flash_erase_page(Now, n), "write", pages)

Write ==
    LET k == n \div CHUNK_WORDS IN
    DoEach("write", flash_write_words(Now, k * CHUNK_WORDS, Chunk(k), (n % CHUNK_WORDS) + 1),
           "lock", total_words)

Lock == Do("lock", Ignoring(Now, flash_lock), "verify") /\ UNCHANGED n

SlipVerified(s) == s.ok

\* Read it back rather than trust it.
Verified(s) == s.ok /\ Same(s, n)

Verify == DoEach("verify", {[s EXCEPT !.ok = Verified(s)] : s \in read_word(Now)}, "relock", pages)

\* Whatever happened.
LetGo(step, states, next) ==
    /\ at = step /\ at' = next
    /\ \E s \in states : Becomes(s)
    /\ spoilt' = (spoilt \/ fault')
    /\ n' = 0
    /\ UNCHANGED <<poller, pending_, result, image, seen>>

Relock == LetGo("relock", flash_lock(Now), "reset") /\ UNCHANGED state_

SlipResetRun == LetGo("reset", reset_run(Now, image), "idle") /\ UNCHANGED state_

\* ... and loop has the entity look at the chair afresh.
ResetRun == LetGo("reset", reset_run(Now, image), "idle") /\ state_' = "unknown"

Install == Halt \/ Hold \/ Unlock \/ Erase \/ Write \/ Lock \/ Verify \/ Relock \/ ResetRun

-----------------------------------------------------------------------------
(* The chair and the world.                                                 *)

Elsewhere == UNCHANGED <<hears, sticky, idcode, poller, update, image, spoilt>>

\* Somebody uses the chair: a motion, the heater or the massage.
Use ==
    /\ chair.core = "runs"
    /\ chair' = [chair EXCEPT !.busy = ~@, !.block.busy = ~chair.busy]
    /\ seen' = FALSE /\ fault' = FALSE
    /\ Elsewhere

\* Somebody fills or empties the lumbar cell, which safe_to_flash does not ask about.
Inflate ==
    /\ chair.core = "runs"
    /\ chair' = [chair EXCEPT !.pump = ~@]
    /\ fault' = FALSE
    /\ UNCHANGED seen /\ Elsewhere

\* The watchdog bites a core that does not kick it, unless it is held.
Watchdog ==
    /\ chair.watchdog
    /\ chair.core = "lost" \/ (chair.core = "halted" /\ ~chair.hold)
    /\ chair' = Reset(chair, image)
    /\ fault' = FALSE
    /\ UNCHANGED seen /\ Elsewhere

\* The chair is unplugged and plugged in again.
PowerCycle ==
    /\ chair' = Reset([chair EXCEPT !.hold = FALSE, !.block = NoBlock], image)
    /\ hears' = FALSE /\ sticky' = FALSE /\ fault' = TRUE
    /\ UNCHANGED <<idcode, poller, update, image, seen, spoilt>>

\* The bridge restarts: setup.
Restart ==
    /\ \E s \in begin([Now EXCEPT !.idcode = FALSE]) : Becomes([s EXCEPT !.fault = TRUE])
    /\ link_ok' = FALSE /\ block_' = NoBlock
    /\ state_' = "unknown" /\ pending_' = FALSE /\ at' = "idle" /\ n' = 0 /\ result' = "none"
    /\ spoilt' = TRUE
    /\ UNCHANGED <<image, seen>>

Init ==
    /\ chair = Reset([flash |-> [w \in Words |-> Old], core |-> "runs", runs |-> "old",
                      watchdog |-> TRUE, hold |-> FALSE, locked |-> TRUE, error |-> FALSE,
                      busy |-> FALSE, pump |-> FALSE, block |-> NoBlock], <<>>)
    /\ hears = FALSE /\ sticky = FALSE /\ idcode = FALSE /\ fault = FALSE
    /\ link_ok = FALSE /\ block_ = NoBlock
    /\ state_ = "unknown" /\ pending_ = FALSE /\ at = "idle" /\ n = 0 /\ result = "none"
    /\ image \in Images
    /\ seen = TRUE /\ spoilt = FALSE

Next == Update \/ (\E force \in BOOLEAN : Perform(force)) \/ Loop \/ Install \/ Use \/ Inflate \/ Watchdog \/ PowerCycle \/ Restart

\* ESPHome calls update once a second and loop all the time, and an install is
\* one call of loop; the watchdog is hardware.
Fairness == SF_vars(Update /\ ~fault') /\ WF_vars(Loop) /\ WF_vars(Install) /\ WF_vars(Watchdog)

Spec == Init /\ [][Next]_vars /\ Fairness

=============================================================================
