-------------------------- MODULE BridgeProperties --------------------------
(***************************************************************************)
(* What the bridge owes the chair it is soldered to.                        *)
(***************************************************************************)
EXTENDS Bridge

\* The settings store outlives every install: whatever fails and whatever image
\* the bridge was built with, no word at or above FLASH_STORE_ADDR is erased or
\* written over the link (flash_erase_page and flash_write_words, swd.cpp).
StoreKept == [][\A w \in STORE .. SIZE - 1 : chair'.flash[w] = chair.flash[w]]_vars

\* An install that says it succeeded has left the whole image in the flash, though
\* a write may be acknowledged and never done (the read back of install_).
VerifiedIsImage ==
    result = "ok" /\ at \in {"relock", "reset"} => Firmware(chair.flash, image) = "new"

\* A chair in use is halted only when its use began after the last poll that was
\* tried: one that failed, or that saw the use, stops every install that has not
\* begun (safe_to_flash, and update's link_ok_).
FreshHalt == chair.core = "halted" /\ chair.busy => ~seen

\* "A halted chair is the one outcome that must never outlive this function":
\* whichever step of an install failed, the core is let go at its end, as long as
\* the link holds while install_ does that and the bridge does not restart.
EndsRunning == at = "idle" /\ ~spoilt => chair.core # "halted"

\* From some point on nothing goes wrong, nobody uses the chair and nobody
\* insists on an install.
Calm == <>[][~fault' /\ ~Use /\ ~Perform(TRUE)]_vars

\* Whatever was lost on the link, its poll finds a running chair again (update's
\* handshake after a read that failed).
LinkComesBack == Calm /\ <>[](chair.core = "runs") => <>[]link_ok

\* With auto_install an idle chair that shows its debug block ends up reporting the
\* bridge's version, after however many installs that failed half way (loop).
AutoInstalls ==
    Calm /\ <>[](chair.block.magic /\ ~chair.block.busy)
        => <>[](auto_install /\ Len(image) <= STORE => chair.block.version = "new")

-----------------------------------------------------------------------------
(* What the comments and the design notes say and the code does not do.      *)

\* "Nothing may halt the chair while it is doing something" (socozi.h:116): the
\* block safe_to_flash looks at is up to a poll old.
NeverHaltsBusy == chair.core = "halted" => ~chair.busy

\* The same sentence: the lumbar cell is not among what safe_to_flash looks at, so
\* a core can be halted with the pump on and nobody left to stop it.
NeverHaltsPumping == chair.core = "halted" => ~chair.pump

\* "A halted chair is the one outcome that must never outlive this function"
\* (socozi.cpp:521), without the premises of EndsRunning: nothing looks at the
\* result of reset_run, and setup does not let a core go.
HaltEndsWithInstall == chair.core = "halted" => at # "idle"

\* "the next attempt is another Install press, not a screwdriver"
\* (docs/esphome-design.md:163): a chair that loses power while its flash is half
\* written shows no debug block, and without one no install begins.
NextAttempt ==
    Calm /\ <>[](chair.block.magic => ~chair.block.busy)
        => <>[](auto_install /\ Len(image) <= STORE => chair.runs = "new")
=============================================================================
