---------------------------- MODULE BridgeProofs ----------------------------
(***************************************************************************)
(* The settings store, the fresh look and the chair let go, for every flash,  *)
(* every image and every way an access may fail.                            *)
(*                                                                         *)
(* Follows says what a call over the link may do to the chair, whatever       *)
(* becomes of its accesses: nothing to the store, no use of it, no halt.      *)
(* Each call is shown to do no more, and then the steps of the bridge are.    *)
(***************************************************************************)
EXTENDS BridgeProperties, SequenceTheorems, TLAPS

IsChair(c) ==
    /\ DOMAIN c = {"flash", "core", "runs", "watchdog", "hold", "locked", "error", "busy", "pump", "block"}
    /\ DOMAIN c.flash = Words
    /\ DOMAIN c.block = {"magic", "busy", "version"}

IsState(s) ==
    /\ DOMAIN s = {"chair", "hears", "sticky", "idcode", "fault", "ok"}
    /\ IsChair(s.chair)

\* d is c after a call: the store is as it was, and it is in use, and halted, only
\* if it was.
Tame(c, d) ==
    /\ IsChair(d)
    /\ \A w \in Words : w >= STORE => d.flash[w] = c.flash[w]
    /\ d.busy => c.busy /\ d.block = c.block

Quiet(c, d) == Tame(c, d) /\ (d.core = "halted" => c.core = "halted")

Follows(s, t) == IsState(t) /\ Quiet(s.chair, t.chair) /\ (s.fault => t.fault)

LEMMA FollowsItself ==
    ASSUME NEW s, IsState(s)
    PROVE  Follows(s, s)
  BY DEF Follows, IsState, Quiet, Tame

LEMMA FollowsThen ==
    ASSUME NEW s, NEW t, NEW u, Follows(s, t), Follows(t, u)
    PROVE  Follows(s, u)
  BY DEF Follows, Quiet, Tame

LEMMA FollowsState ==
    ASSUME NEW s, NEW t, Follows(s, t)
    PROVE  IsState(t)
  BY DEF Follows

\* What a call does to the port alone.
LEMMA PortOnly ==
    ASSUME NEW s, IsState(s), NEW x
    PROVE  /\ Follows(s, [s EXCEPT !.ok = x])
           /\ Follows(s, [s EXCEPT !.hears = x])
           /\ Follows(s, [s EXCEPT !.sticky = x])
           /\ Follows(s, [s EXCEPT !.idcode = x])
           /\ Follows(s, [s EXCEPT !.fault = TRUE])
           /\ Follows(s, [s EXCEPT !.fault = @ \/ x])
  BY DEF Follows, IsState, Quiet, Tame

\* And to what no promise is about.
LEMMA Aside ==
    ASSUME NEW s, IsState(s), NEW x
    PROVE  /\ Follows(s, [s EXCEPT !.chair.hold = x])
           /\ Follows(s, [s EXCEPT !.chair.locked = x])
           /\ Follows(s, [s EXCEPT !.chair.error = x])
  <1> DEFINE c == s.chair
  <1>1. IsChair(c)
    BY DEF IsState
  <1>2. /\ Quiet(c, [c EXCEPT !.hold = x])
        /\ Quiet(c, [c EXCEPT !.locked = x])
        /\ Quiet(c, [c EXCEPT !.error = x])
    BY <1>1 DEF IsChair, Quiet, Tame
  <1> QED
    BY <1>2 DEF Follows, IsState, Quiet, Tame

-----------------------------------------------------------------------------
(* Accesses.                                                                *)

LEMMA AccessFollows ==
    ASSUME NEW s, IsState(s), NEW done, \A d \in done : Follows(s, d),
           NEW t \in Access(s, done)
    PROVE  Follows(s, t)
  <1>1. Follows(s, s) /\ Follows(s, Failed(s)) /\ IsState(Failed(s))
    BY FollowsItself, PortOnly, FollowsState DEF Failed
  <1>2. Follows(s, [Failed(s) EXCEPT !.sticky = FALSE])
    BY <1>1, PortOnly, FollowsThen
  <1>3. \A h \in BOOLEAN : Follows(s, [Failed(s) EXCEPT !.fault = TRUE, !.hears = h])
    BY <1>1 DEF Follows, IsState, Quiet, Tame
  <1> QED
    BY <1>1, <1>2, <1>3 DEF Access

LEMMA ReadFollows ==
    ASSUME NEW s, IsState(s), NEW t \in read_word(s)
    PROVE  Follows(s, t)
  BY AccessFollows, FollowsItself DEF read_word

LEMMA WriteFollows ==
    ASSUME NEW s, IsState(s), NEW done, Follows(s, done), NEW t \in write_word(s, done)
    PROVE  Follows(s, t)
  <1>1. Follows(s, [s EXCEPT !.sticky = TRUE, !.fault = TRUE])
    BY DEF Follows, IsState, Quiet, Tame
  <1> QED
    BY <1>1, AccessFollows DEF write_word

LEMMA BeginFollows ==
    ASSUME NEW s, IsState(s), NEW t \in begin(s)
    PROVE  Follows(s, t)
  <1>1. Follows(s, s) /\ Follows(s, [s EXCEPT !.hears = TRUE, !.sticky = FALSE, !.idcode = TRUE])
    BY DEF Follows, IsState, Quiet, Tame
  <1>2. \A i : Follows(s, [Failed(s) EXCEPT !.hears = FALSE, !.fault = TRUE, !.idcode = i])
    BY DEF Follows, IsState, Quiet, Tame, Failed
  <1> QED
    BY <1>1, <1>2 DEF begin

\* A call whose result nobody looks at leaves behind what it leaves behind.
LEMMA BeginIgnored ==
    ASSUME NEW s, IsState(s), NEW t \in Ignoring(s, begin)
    PROVE  Follows(s, t)
  <1>1. PICK u \in begin([s EXCEPT !.ok = TRUE]) : t = [u EXCEPT !.ok = s.ok]
    BY DEF Ignoring
  <1>2. Follows(s, [s EXCEPT !.ok = TRUE]) /\ IsState([s EXCEPT !.ok = TRUE])
    BY PortOnly, FollowsState
  <1>3. Follows(s, u) /\ IsState(u)
    BY <1>1, <1>2, BeginFollows, FollowsThen, FollowsState
  <1> QED
    BY <1>1, <1>3, PortOnly, FollowsThen

LEMMA HaltFollows ==
    ASSUME NEW s, IsState(s), NEW t \in halt(s)
    PROVE  IsState(t) /\ Tame(s.chair, t.chair)
  <1> DEFINE done == [s EXCEPT !.chair.core = "halted"]
  <1>1. IsState(done) /\ Tame(s.chair, done.chair)
    BY DEF IsState, IsChair, Tame
  <1>2. PICK u \in write_word(s, done) : t \in read_word(u)
    BY DEF halt, Then
  <1>3. u = done \/ Follows(s, u)
    <2>1. Follows(s, s) /\ Follows(s, Failed(s)) /\ Follows(s, [s EXCEPT !.sticky = TRUE, !.fault = TRUE])
      BY DEF Follows, IsState, Quiet, Tame, Failed
    <2>2. Follows(s, [Failed(s) EXCEPT !.sticky = FALSE])
      BY DEF Follows, IsState, Quiet, Tame, Failed
    <2>3. \A h \in BOOLEAN : Follows(s, [Failed(s) EXCEPT !.fault = TRUE, !.hears = h])
      BY DEF Follows, IsState, Quiet, Tame, Failed
    <2> QED
      BY <1>2, <2>1, <2>2, <2>3 DEF write_word, Access
  <1>4. IsState(u) /\ Tame(s.chair, u.chair)
    BY <1>1, <1>3 DEF Follows, Quiet
  <1>5. Follows(u, t)
    BY <1>2, <1>4, ReadFollows
  <1> QED
    BY <1>4, <1>5 DEF Follows, Quiet, Tame

LEMMA ResumedRuns ==
    ASSUME NEW c, IsChair(c), NEW built
    PROVE  Quiet(c, Resumed(c, built)) /\ Resumed(c, built).core # "halted"
  <1> DEFINE new == Firmware(c.flash, built)
  <1> HIDE DEF new
  <1>1. Quiet(c, c)
    BY DEF Quiet, Tame
  <1>2. Quiet(c, [c EXCEPT !.core = "runs"]) /\ [c EXCEPT !.core = "runs"].core = "runs"
    BY DEF Quiet, Tame, IsChair
  <1>3. Quiet(c, [c EXCEPT !.core = "lost", !.runs = "none"]) /\ [c EXCEPT !.core = "lost", !.runs = "none"].core = "lost"
    BY DEF Quiet, Tame, IsChair
  <1> QED
    BY <1>1, <1>2, <1>3 DEF Resumed, new

LEMMA ResetRuns ==
    ASSUME NEW c, IsChair(c), NEW built
    PROVE  Quiet(c, Reset(c, built)) /\ Reset(c, built).core # "halted" /\ ~Reset(c, built).busy
  <1> DEFINE new == Firmware(c.flash, built)
  <1>1. Reset(c, built) = [c EXCEPT
            !.locked = TRUE, !.error = FALSE, !.busy = FALSE, !.pump = FALSE,
            !.runs = new,
            !.core = IF new = "none" THEN "lost" ELSE "runs",
            !.watchdog = new # "none",
            !.block = IF new = "none" THEN @ ELSE [magic |-> TRUE, busy |-> FALSE, version |-> new]]
    BY DEF Reset
  <1> HIDE DEF new
  <1> QED
    BY <1>1 DEF Quiet, Tame, IsChair

LEMMA RunFollows ==
    ASSUME NEW s, IsState(s), NEW built, NEW t \in run(s, built)
    PROVE  Follows(s, t)
  <1>1. IsChair(s.chair)
    BY DEF IsState
  <1>2. Quiet(s.chair, Resumed(s.chair, built))
    BY <1>1, ResumedRuns
  <1>3. Follows(s, [s EXCEPT !.chair = Resumed(s.chair, built)])
    BY <1>2 DEF Follows, IsState, Quiet, Tame
  <1> QED
    BY <1>3, WriteFollows DEF run

LEMMA RequestFollows ==
    ASSUME NEW s, IsState(s), NEW built, NEW t \in RequestReset(s, built)
    PROVE  Follows(s, t) /\ t.ok = s.ok
  <1> DEFINE r == [s EXCEPT !.ok = TRUE]
             reset == [r EXCEPT !.chair = Reset(r.chair, built), !.hears = FALSE, !.sticky = FALSE]
  <1>1. Follows(s, r) /\ IsState(r)
    BY PortOnly, FollowsState
  <1>2. Quiet(r.chair, Reset(r.chair, built))
    BY <1>1, ResetRuns DEF IsState
  <1>3. Follows(r, reset)
    BY <1>1, <1>2 DEF Follows, IsState, Quiet, Tame
  <1>4. PICK u \in write_word(r, reset) : t = [u EXCEPT !.ok = s.ok]
    BY DEF RequestReset, Ignoring
  <1>5. Follows(s, u) /\ IsState(u)
    BY <1>1, <1>3, <1>4, WriteFollows, FollowsThen, FollowsState
  <1>6. Follows(u, [u EXCEPT !.ok = s.ok]) /\ [u EXCEPT !.ok = s.ok].ok = s.ok
    BY <1>5, PortOnly DEF IsState
  <1> QED
    BY <1>4, <1>5, <1>6, FollowsThen

LEMMA LetGoFollows ==
    ASSUME NEW s, IsState(s), NEW built, NEW t \in reset_run(s, built)
    PROVE  Follows(s, t)
  <1>1. PICK v \in Then(RequestReset(s, built), Reacquire) : t \in run(v, built)
    BY DEF reset_run, Then
  <1>2. PICK u \in RequestReset(s, built) : v \in Reacquire(u)
    BY <1>1 DEF Then
  <1>3. Follows(s, u) /\ IsState(u)
    BY <1>2, RequestFollows, FollowsState
  <1>4. Follows(u, v) /\ IsState(v)
    BY <1>2, <1>3, BeginIgnored, FollowsState DEF Reacquire
  <1>5. Follows(v, t)
    BY <1>1, <1>4, RunFollows
  <1> QED
    BY <1>3, <1>4, <1>5, FollowsThen

\* reset_run lets the core go unless something goes wrong on the link in it.
LEMMA LetGoRuns ==
    ASSUME NEW s, IsState(s), s.ok = TRUE, NEW built, NEW t \in reset_run(s, built), ~t.fault
    PROVE  t.chair.core # "halted"
  <1>1. PICK v \in Then(RequestReset(s, built), Reacquire) : t \in run(v, built)
    BY DEF reset_run, Then
  <1>2. PICK u \in RequestReset(s, built) : v \in Reacquire(u)
    BY <1>1 DEF Then
  <1>3. IsState(u) /\ u.ok = TRUE
    BY <1>2, RequestFollows, FollowsState
  <1>4. Follows(u, v) /\ IsState(v)
    BY <1>2, <1>3, BeginIgnored, FollowsState DEF Reacquire
  <1>5. ~v.fault
    BY <1>1, <1>4, RunFollows DEF Follows
  <1>6. v.ok = TRUE /\ v.hears = TRUE /\ v.sticky = FALSE
    <2> DEFINE r == [u EXCEPT !.ok = TRUE]
    <2>1. PICK w \in begin(r) : v = [w EXCEPT !.ok = u.ok]
      BY <1>2 DEF Reacquire, Ignoring
    <2>2. IsState(r) /\ r.ok = TRUE
      BY <1>3, PortOnly, FollowsState DEF IsState
    <2>3. IsState(w)
      BY <2>1, <2>2, BeginFollows, FollowsState
    <2>4. v.fault = w.fault /\ v.hears = w.hears /\ v.sticky = w.sticky /\ v.ok = TRUE
      BY <2>1, <2>3, <1>3 DEF IsState
    <2>5. \A i : [Failed(r) EXCEPT !.hears = FALSE, !.fault = TRUE, !.idcode = i].fault = TRUE
      BY <2>2 DEF IsState, Failed
    <2>6. w.fault # TRUE
      BY <1>5, <2>4
    <2>7. w = [r EXCEPT !.hears = TRUE, !.sticky = FALSE, !.idcode = TRUE]
      BY <2>1, <2>2, <2>5, <2>6 DEF begin
    <2> QED
      BY <2>2, <2>4, <2>7 DEF IsState
  <1>7. t = [v EXCEPT !.chair = Resumed(v.chair, built)]
    <2>1. \A h \in BOOLEAN : [Failed(v) EXCEPT !.fault = TRUE, !.hears = h].fault = TRUE
      BY <1>4 DEF IsState, Failed
    <2>2. [v EXCEPT !.sticky = TRUE, !.fault = TRUE].fault = TRUE
      BY <1>4 DEF IsState
    <2> QED
      BY <1>1, <1>6, <2>1, <2>2 DEF run, write_word, Access
  <1>8. t.chair = Resumed(v.chair, built) /\ IsChair(v.chair)
    BY <1>4, <1>7 DEF IsState
  <1> QED
    BY <1>8, ResumedRuns

-----------------------------------------------------------------------------
(* The flash.                                                               *)

LEMMA UnlockFollows ==
    ASSUME NEW s, IsState(s), NEW t \in flash_unlock(s)
    PROVE  Follows(s, t)
  <1>1. CASE t \in read_word(s)
    BY <1>1, ReadFollows
  <1>2. CASE t \notin read_word(s)
    <2>1. PICK r \in read_word(s) :
            \E u \in Then(write_word(r, r), LAMBDA x : write_word(x, [x EXCEPT !.chair.locked = FALSE])) :
                t \in read_word(u)
      BY <1>2 DEF flash_unlock, Then
    <2>2. PICK u \in Then(write_word(r, r), LAMBDA x : write_word(x, [x EXCEPT !.chair.locked = FALSE])) :
            t \in read_word(u)
      BY <2>1
    <2>3. PICK x \in write_word(r, r) : u \in write_word(x, [x EXCEPT !.chair.locked = FALSE])
      BY <2>2 DEF Then
    <2>4. Follows(s, r) /\ IsState(r)
      BY ReadFollows, FollowsState
    <2>5. Follows(r, x) /\ IsState(x)
      BY <2>4, WriteFollows, FollowsItself, FollowsState
    <2>6. Follows(x, u) /\ IsState(u)
      BY <2>3, <2>5, Aside, WriteFollows, FollowsState
    <2>7. Follows(u, t)
      BY <2>2, <2>6, ReadFollows
    <2> QED
      BY <2>4, <2>5, <2>6, <2>7, FollowsThen
  <1> QED
    BY <1>1, <1>2

LEMMA LockFollows ==
    ASSUME NEW s, IsState(s), NEW t \in flash_lock(s)
    PROVE  Follows(s, t)
  <1>1. PICK r \in read_word(s) : t \in write_word(r, [r EXCEPT !.chair.locked = TRUE])
    BY DEF flash_lock, Then
  <1>2. Follows(s, r) /\ IsState(r)
    BY ReadFollows, FollowsState
  <1> QED
    BY <1>1, <1>2, Aside, WriteFollows, FollowsThen

LEMMA LockIgnored ==
    ASSUME NEW s, IsState(s), NEW t \in Ignoring(s, flash_lock)
    PROVE  Follows(s, t)
  <1>1. PICK u \in flash_lock([s EXCEPT !.ok = TRUE]) : t = [u EXCEPT !.ok = s.ok]
    BY DEF Ignoring
  <1>2. Follows(s, [s EXCEPT !.ok = TRUE]) /\ IsState([s EXCEPT !.ok = TRUE])
    BY PortOnly, FollowsState
  <1>3. Follows(s, u) /\ IsState(u)
    BY <1>1, <1>2, LockFollows, FollowsThen, FollowsState
  <1> QED
    BY <1>1, <1>3, PortOnly, FollowsThen

LEMMA WriteIgnored ==
    ASSUME NEW s, IsState(s), NEW t \in Ignoring(s, LAMBDA u : write_word(u, u))
    PROVE  Follows(s, t)
  <1> DEFINE r == [s EXCEPT !.ok = TRUE]
  <1>1. PICK u \in write_word(r, r) : t = [u EXCEPT !.ok = s.ok]
    BY DEF Ignoring
  <1>2. Follows(s, r) /\ IsState(r)
    BY PortOnly, FollowsState
  <1>3. Follows(s, u) /\ IsState(u)
    BY <1>1, <1>2, FollowsItself, WriteFollows, FollowsThen, FollowsState
  <1> QED
    BY <1>1, <1>3, PortOnly, FollowsThen

LEMMA ClearIgnored ==
    ASSUME NEW s, IsState(s),
           NEW t \in Ignoring(s, LAMBDA u : write_word(u, [u EXCEPT !.chair.error = FALSE]))
    PROVE  Follows(s, t)
  <1> DEFINE r == [s EXCEPT !.ok = TRUE]
  <1>1. PICK u \in write_word(r, [r EXCEPT !.chair.error = FALSE]) : t = [u EXCEPT !.ok = s.ok]
    BY DEF Ignoring
  <1>2. Follows(s, r) /\ IsState(r)
    BY PortOnly, FollowsState
  <1>3. Follows(s, u) /\ IsState(u)
    BY <1>1, <1>2, Aside, WriteFollows, FollowsThen, FollowsState
  <1> QED
    BY <1>1, <1>3, PortOnly, FollowsThen

LEMMA WaitFollows ==
    ASSUME NEW s, IsState(s), NEW t \in fmc_wait_(s)
    PROVE  Follows(s, t)
  <1>1. PICK r \in read_word(s) :
            \/ t = r
            \/ \E u \in Ignoring(r, LAMBDA x : write_word(x, [x EXCEPT !.chair.error = FALSE])) :
                  t = [u EXCEPT !.ok = ~r.chair.error]
    BY DEF fmc_wait_, Then
  <1>2. Follows(s, r) /\ IsState(r)
    BY ReadFollows, FollowsState
  <1>3. ASSUME NEW u \in Ignoring(r, LAMBDA x : write_word(x, [x EXCEPT !.chair.error = FALSE])),
               t = [u EXCEPT !.ok = ~r.chair.error]
        PROVE  Follows(s, t)
    <2>1. Follows(s, u) /\ IsState(u)
      BY <1>2, ClearIgnored, FollowsThen, FollowsState
    <2> QED
      BY <1>3, <2>1, PortOnly, FollowsThen
  <1> QED
    BY <1>1, <1>2, <1>3

\* A command that leaves the store alone leaves it alone.
LEMMA CommandFollows ==
    ASSUME NEW s, IsState(s), NEW allowed,
           NEW flash, DOMAIN flash = Words,
           \A w \in Words : w >= STORE => flash[w] = s.chair.flash[w],
           NEW t \in Command(s, allowed, flash)
    PROVE  Follows(s, t)
  <1> DEFINE able == allowed /\ ~s.chair.locked
             refused == [s EXCEPT !.chair.error = TRUE, !.fault = @ \/ able]
             taken(f) == [s EXCEPT !.chair.flash = f, !.fault = @ \/ f # flash]
  <1>1. Follows(s, refused)
    <2> HIDE DEF able
    <2>1. Follows(s, [s EXCEPT !.chair.error = TRUE]) /\ IsState([s EXCEPT !.chair.error = TRUE])
      BY Aside, FollowsState
    <2> QED
      BY <2>1 DEF Follows, IsState, Quiet, Tame
  <1>2. \A f \in {flash, s.chair.flash} : Follows(s, taken(f))
    <2> TAKE f \in {flash, s.chair.flash}
    <2>1. IsChair([s.chair EXCEPT !.flash = f]) /\ Quiet(s.chair, [s.chair EXCEPT !.flash = f])
      BY DEF IsState, IsChair, Quiet, Tame
    <2> QED
      BY <2>1 DEF Follows, IsState
  <1>3. \/ t \in write_word(s, refused)
        \/ \E f \in {flash, s.chair.flash} : t \in write_word(s, taken(f))
    BY DEF Command
  <1> QED
    BY <1>1, <1>2, <1>3, WriteFollows

\* The pages MayErase lets through end where the store begins.
LEMMA StorePage ==
    ASSUME NEW p \in Nat, MayErase(p), NEW w \in Words, w >= STORE
    PROVE  w \div PAGE # p
  <1> DEFINE q == STORE \div PAGE
  <1>1. PAGE \in Nat /\ PAGE > 0 /\ STORE \in Nat /\ SIZE \in Nat /\ STORE % PAGE = 0 /\ w \in Nat
    BY SwdConstants DEF Words
  <1>2. q \in Nat /\ STORE = PAGE * q
    BY <1>1
  <1> HIDE DEF q
  <1>3. p < q
    <2> SUFFICES ASSUME p >= q
                 PROVE  FALSE
      BY <1>2
    <2>1. p * PAGE >= q * PAGE
      BY <1>1, <1>2
    <2> QED
      BY <1>1, <1>2, <2>1 DEF MayErase
  <1>4. PAGE * (p + 1) <= PAGE * q
    BY <1>1, <1>2, <1>3
  <1>5. w >= PAGE * (p + 1)
    BY <1>1, <1>2, <1>4
  <1>6. w = PAGE * (w \div PAGE) + (w % PAGE) /\ w % PAGE < PAGE /\ w \div PAGE \in Nat /\ w % PAGE \in Nat
    BY <1>1
  <1> QED
    BY <1>1, <1>5, <1>6

LEMMA EraseFollows ==
    ASSUME NEW s, IsState(s), NEW p \in Nat, NEW t \in flash_erase_page(s, p)
    PROVE  Follows(s, t)
  <1>1. CASE ~MayErase(p)
    <2>1. t = Failed(s)
      BY <1>1 DEF flash_erase_page
    <2> QED
      BY <2>1, PortOnly DEF Failed
  <1>2. CASE MayErase(p)
    <2> DEFINE setup == Then(Then(read_word(s), LAMBDA x : write_word(x, x)), LAMBDA x : write_word(x, x))
               started == Then(setup, LAMBDA x : IF x.ok THEN Command(x, TRUE, Blank(x.chair.flash, p)) ELSE {x})
               ended == Then(started, LAMBDA x :
                   IF ~x.ok THEN {x} ELSE Then(fmc_wait_(x), LAMBDA u : Ignoring(u, LAMBDA v : write_word(v, v))))
               checked(x) == {[u EXCEPT !.ok = u.ok /\ u.chair.flash[p * PAGE] = Erased] : u \in read_word(x)}
    <2>1. PICK e \in ended : t \in checked(e)
      BY <1>2, Zenon DEF flash_erase_page, Then
    <2>2. PICK d \in started : e \in IF ~d.ok THEN {d}
                 ELSE Then(fmc_wait_(d), LAMBDA u : Ignoring(u, LAMBDA v : write_word(v, v)))
      BY <2>1, Zenon DEF Then
    <2>3. PICK c \in setup : d \in IF c.ok THEN Command(c, TRUE, Blank(c.chair.flash, p)) ELSE {c}
      BY <2>2, Zenon DEF Then
    <2>4. PICK b \in Then(read_word(s), LAMBDA x : write_word(x, x)) : c \in write_word(b, b)
      BY <2>3, Zenon DEF Then
    <2>5. PICK a \in read_word(s) : b \in write_word(a, a)
      BY <2>4, Zenon DEF Then
    <2> HIDE DEF setup, started, ended
    <2>6. Follows(s, a) /\ IsState(a)
      BY <2>5, ReadFollows, FollowsState
    <2>7. Follows(a, b) /\ IsState(b)
      BY <2>5, <2>4, <2>6, FollowsItself, WriteFollows, FollowsState
    <2>8. Follows(b, c) /\ IsState(c)
      BY <2>4, <2>3, <2>7, FollowsItself, WriteFollows, FollowsState
    <2>9. /\ DOMAIN Blank(c.chair.flash, p) = Words
          /\ \A w \in Words : w >= STORE => Blank(c.chair.flash, p)[w] = c.chair.flash[w]
      BY <1>2, StorePage DEF Blank
    <2>10. Follows(c, d) /\ IsState(d)
      BY <2>2, <2>3, <2>8, <2>9, CommandFollows, FollowsItself, FollowsState
    <2>11. Follows(d, e) /\ IsState(e)
      <3>1. CASE e = d
        BY <2>10, <3>1, FollowsItself
      <3>2. CASE e # d
        <4>1. PICK u \in fmc_wait_(d) : e \in Ignoring(u, LAMBDA v : write_word(v, v))
          BY <2>2, <3>2 DEF Then
        <4>2. Follows(d, u) /\ IsState(u)
          BY <2>10, <4>1, WaitFollows, FollowsState
        <4> QED
          BY <4>1, <4>2, WriteIgnored, FollowsThen, FollowsState
      <3> QED
        BY <3>1, <3>2
    <2>12. PICK u \in read_word(e) : t = [u EXCEPT !.ok = u.ok /\ u.chair.flash[p * PAGE] = Erased]
      BY <2>1
    <2>13. Follows(e, u) /\ IsState(u)
      BY <2>11, <2>12, ReadFollows, FollowsState
    <2>14. Follows(u, t)
      BY <2>12, <2>13, PortOnly
    <2> QED
      BY <2>6, <2>7, <2>8, <2>10, <2>11, <2>13, <2>14, FollowsThen
  <1> QED
    BY <1>1, <1>2

LEMMA ProgramFollows ==
    ASSUME NEW s, IsState(s), NEW w \in Nat, w < STORE, NEW value, NEW t \in Program(s, w, value)
    PROVE  Follows(s, t)
  <1> DEFINE flash == [s.chair.flash EXCEPT ![w] = value]
  <1>1. CASE t = s
    BY <1>1, FollowsItself
  <1>2. CASE t # s
    <2>1. PICK u \in Command(s, s.chair.flash[w] = Erased, flash) : t \in fmc_wait_(u)
      BY <1>2 DEF Program, Then
    <2>2. DOMAIN flash = Words /\ \A x \in Words : x >= STORE => flash[x] = s.chair.flash[x]
      BY SwdConstants DEF IsState, IsChair, Words
    <2>3. Follows(s, u) /\ IsState(u)
      BY <2>1, <2>2, CommandFollows, FollowsState
    <2> QED
      BY <2>1, <2>3, WaitFollows, FollowsThen
  <1> QED
    BY <1>1, <1>2

LEMMA WriteWordsFollow ==
    ASSUME NEW s, IsState(s), NEW first \in Nat, NEW src, Len(src) \in Nat, NEW i \in 1 .. Len(src),
           NEW t \in flash_write_words(s, first, src, i)
    PROVE  Follows(s, t)
  <1>1. CASE first + Len(src) > STORE
    <2>1. t = Failed(s)
      BY <1>1 DEF flash_write_words
    <2> QED
      BY <2>1, PortOnly DEF Failed
  <1>2. CASE first + Len(src) <= STORE
    <2> DEFINE open == IF i = 1 THEN Then(read_word(s), LAMBDA x : write_word(x, x)) ELSE {s}
               closed(x) == IF x.ok /\ i < Len(src) THEN {x} ELSE Ignoring(x, LAMBDA u : write_word(u, u))
    <2>1. PICK a \in open : t \in IF ~a.ok THEN {a} ELSE Then(Program(a, first + i - 1, src[i]), closed)
      <3>1. ~(first + Len(src) > STORE)
        BY <1>2, SwdConstants
      <3> QED
        BY <3>1, Zenon DEF flash_write_words, Then
    <2>2. Follows(s, a) /\ IsState(a)
      <3>1. CASE i # 1
        BY <3>1, FollowsItself
      <3>2. CASE i = 1
        <4>1. PICK x \in read_word(s) : a \in write_word(x, x)
          BY <3>2 DEF Then
        <4>2. Follows(s, x) /\ IsState(x)
          BY <4>1, ReadFollows, FollowsState
        <4> QED
          BY <4>1, <4>2, FollowsItself, WriteFollows, FollowsThen, FollowsState
      <3> QED
        BY <3>1, <3>2
    <2>3. CASE t = a
      BY <2>2, <2>3
    <2>4. CASE t # a
      <3>1. PICK x \in Program(a, first + i - 1, src[i]) : t \in closed(x)
        BY <2>1, <2>4 DEF Then
      <3>2. first + i - 1 \in Nat /\ first + i - 1 < STORE
        BY <1>2, SwdConstants
      <3>3. Follows(a, x) /\ IsState(x)
        BY <2>2, <3>1, <3>2, ProgramFollows, FollowsState
      <3>4. Follows(x, t)
        BY <3>1, <3>3, FollowsItself, WriteIgnored
      <3> QED
        BY <2>2, <3>3, <3>4, FollowsThen
    <2> QED
      BY <2>3, <2>4
  <1> QED
    BY <1>1, <1>2, SwdConstants

LEMMA PolledFollows ==
    ASSUME IsState(Now), NEW t \in Polled
    PROVE  Follows(Now, t)
  <1>1. PICK s \in IF idcode THEN {Now} ELSE begin(Now) :
            t \in IF ~s.ok THEN {s} ELSE Then(read_word(s), LAMBDA x : IF x.ok THEN {x} ELSE Ignoring(x, begin))
    BY DEF Polled, Then
  <1>2. Follows(Now, s) /\ IsState(s)
    <2>1. CASE idcode
      BY <1>1, <2>1, FollowsItself
    <2>2. CASE ~idcode
      <3>1. s \in begin(Now)
        BY <1>1, <2>2
      <3> QED
        BY <3>1, BeginFollows, FollowsState
    <2> QED
      BY <2>1, <2>2
  <1>3. CASE t = s
    BY <1>2, <1>3
  <1>4. CASE t # s
    <2>1. PICK x \in read_word(s) : t \in IF x.ok THEN {x} ELSE Ignoring(x, begin)
      BY <1>1, <1>4 DEF Then
    <2>2. Follows(s, x) /\ IsState(x)
      BY <1>2, ReadFollows, FollowsState
    <2>3. Follows(x, t)
      BY <2>1, <2>2, FollowsItself, BeginIgnored
    <2> QED
      BY <1>2, <2>2, <2>3, FollowsThen
  <1> QED
    BY <1>3, <1>4

-----------------------------------------------------------------------------
(* The steps of the bridge.                                                 *)

\* What a chair in use implies once the bridge takes it for idle.
Watched ==
    (at # "idle" \/ chair.core = "halted" \/ (link_ok /\ ~block_.busy)) /\ chair.busy => ~seen

IInv ==
    /\ IsState(Now)
    /\ n \in Nat
    /\ image \in Images
    /\ at = "write" => n < total_words
    /\ chair.busy => chair.block.busy
    /\ Watched
    /\ EndsRunning

\* A step over the link which only follows the state it found.
FollowsStep == IsState(Now)' /\ Quiet(chair, chair')

LEMMA BecomesFollows ==
    ASSUME NEW s, Follows(Now, s), Becomes(s)
    PROVE  FollowsStep
  BY DEF Follows, Becomes, IsState, IsChair, Now, FollowsStep

LEMMA ImageLength ==
    ASSUME image \in Images
    PROVE  total_words \in Nat /\ total_words > 0
  BY BridgeConstants, LenProperties DEF total_words

\* The word a step of the writing loop is at is one of its chunk.
LEMMA ChunkWord ==
    ASSUME image \in Images, n \in Nat, n < total_words
    PROVE  /\ (n \div CHUNK_WORDS) * CHUNK_WORDS \in Nat
           /\ Len(Chunk(n \div CHUNK_WORDS)) \in Nat
           /\ (n % CHUNK_WORDS) + 1 \in 1 .. Len(Chunk(n \div CHUNK_WORDS))
  <1> DEFINE k == n \div CHUNK_WORDS
             last == IF (k + 1) * CHUNK_WORDS < total_words THEN (k + 1) * CHUNK_WORDS ELSE total_words
  <1>1. PAGE \in Nat /\ PAGE > 0 /\ total_words \in Nat
    BY SwdConstants, ImageLength
  <1>2. /\ k \in Nat /\ n % PAGE \in Nat /\ n % PAGE < PAGE
        /\ n = PAGE * k + (n % PAGE)
    BY <1>1 DEF CHUNK_WORDS
  <1>3. /\ k * PAGE \in Nat /\ (k + 1) * PAGE \in Nat
        /\ (k + 1) * PAGE = k * PAGE + PAGE /\ PAGE * k = k * PAGE
    BY <1>1, <1>2
  <1>4. last \in Nat /\ n < last
    BY <1>1, <1>2, <1>3 DEF CHUNK_WORDS
  <1>5. \A i \in k * PAGE + 1 .. last : image[i] \in {image[j] : j \in DOMAIN image}
    <2> SUFFICES ASSUME NEW i \in k * PAGE + 1 .. last
                 PROVE  i \in DOMAIN image
      OBVIOUS
    <2>1. DOMAIN image = 1 .. total_words
      BY BridgeConstants, LenProperties DEF total_words
    <2> QED
      BY <1>1, <1>3, <1>4, <2>1 DEF CHUNK_WORDS
  <1>6. Chunk(k) = SubSeq(image, k * PAGE + 1, last)
    BY DEF Chunk, CHUNK_WORDS
  <1> HIDE DEF k, last
  <1>7. Len(Chunk(k)) = IF k * PAGE + 1 <= last THEN last - (k * PAGE + 1) + 1 ELSE 0
    BY <1>3, <1>4, <1>5, <1>6, SubSeqProperties
  <1>8. k * CHUNK_WORDS \in Nat /\ Len(Chunk(k)) \in Nat /\ (n % CHUNK_WORDS) + 1 \in 1 .. Len(Chunk(k))
    BY <1>2, <1>3, <1>4, <1>7 DEF CHUNK_WORDS
  <1> QED
    BY <1>8 DEF k

\* Every step of an install, the halt apart, follows.
LEMMA InstallFollows ==
    ASSUME IInv, Install, ~Halt
    PROVE  FollowsStep
  <1>1. IsState(Now)
    BY DEF IInv
  <1>2. CASE Hold
    <2>1. PICK t \in Then(read_word(Now), LAMBDA s : write_word(s, [s EXCEPT !.chair.hold = TRUE])) : Becomes(t)
      BY <1>2 DEF Hold, Do
    <2>2. PICK s \in read_word(Now) : t \in write_word(s, [s EXCEPT !.chair.hold = TRUE])
      BY <2>1 DEF Then
    <2>3. Follows(Now, s) /\ IsState(s)
      BY <1>1, ReadFollows, FollowsState
    <2>4. Follows(Now, t)
      BY <2>2, <2>3, Aside, WriteFollows, FollowsThen
    <2> QED
      BY <2>1, <2>4, BecomesFollows
  <1>3. CASE Unlock
    BY <1>1, <1>3, UnlockFollows, BecomesFollows DEF Unlock, Do
  <1>4. CASE Erase
    <2>1. PICK t \in flash_erase_page(Now, n) : Becomes(t)
      BY <1>4 DEF Erase, DoEach, Do
    <2> QED
      BY <1>1, <2>1, EraseFollows, BecomesFollows DEF IInv
  <1>5. CASE Write
    <2> DEFINE k == n \div CHUNK_WORDS
    <2>1. PICK t \in flash_write_words(Now, k * CHUNK_WORDS, Chunk(k), (n % CHUNK_WORDS) + 1) : Becomes(t)
      BY <1>5 DEF Write, DoEach, Do
    <2>2. at = "write"
      BY <1>5 DEF Write, DoEach, Do
    <2>3. /\ k * CHUNK_WORDS \in Nat
          /\ Len(Chunk(k)) \in Nat
          /\ (n % CHUNK_WORDS) + 1 \in 1 .. Len(Chunk(k))
      BY <2>2, ChunkWord DEF IInv
    <2> QED
      BY <1>1, <2>1, <2>3, WriteWordsFollow, BecomesFollows
  <1>6. CASE Lock
    BY <1>1, <1>6, LockIgnored, BecomesFollows DEF Lock, Do
  <1>7. CASE Verify
    <2>1. PICK s \in read_word(Now) : Becomes([s EXCEPT !.ok = Verified(s)])
      BY <1>7 DEF Verify, DoEach, Do
    <2>2. Follows(Now, s) /\ IsState(s)
      BY <1>1, ReadFollows, FollowsState
    <2>3. Follows(Now, [s EXCEPT !.ok = Verified(s)])
      BY <2>2, PortOnly, FollowsThen
    <2> QED
      BY <2>1, <2>3, BecomesFollows
  <1>8. CASE Relock
    BY <1>1, <1>8, LockFollows, BecomesFollows DEF Relock, LetGo
  <1>9. CASE ResetRun
    BY <1>1, <1>9, LetGoFollows, BecomesFollows DEF ResetRun, LetGo
  <1> QED
    BY <1>2, <1>3, <1>4, <1>5, <1>6, <1>7, <1>8, <1>9 DEF Install

LEMMA HaltTame ==
    ASSUME IInv, Halt
    PROVE  IsState(Now)' /\ Tame(chair, chair')
  <1>1. PICK t \in Then(begin(Now), halt) : Becomes(t)
    BY DEF Halt, Do
  <1>2. PICK s \in begin(Now) : t \in halt(s)
    BY <1>1 DEF Then
  <1>3. Follows(Now, s) /\ IsState(s)
    BY <1>2, BeginFollows, FollowsState DEF IInv
  <1>4. IsState(t) /\ Tame(s.chair, t.chair)
    BY <1>2, <1>3, HaltFollows
  <1>5. IsState(Now)' /\ chair' = t.chair
    BY <1>1, <1>4 DEF Becomes, IsState, Now
  <1>6. Tame(chair, s.chair)
    BY <1>3 DEF Follows, Quiet, Now
  <1> QED
    BY <1>4, <1>5, <1>6 DEF Tame

LEMMA UpdateFollows ==
    ASSUME IInv, Update
    PROVE  FollowsStep
  BY PolledFollows, BecomesFollows DEF IInv, Update

LEMMA RestartFollows ==
    ASSUME IInv, Restart
    PROVE  FollowsStep
  <1>1. PICK s \in begin([Now EXCEPT !.idcode = FALSE]) : Becomes([s EXCEPT !.fault = TRUE])
    BY DEF Restart
  <1>2. Follows(Now, [Now EXCEPT !.idcode = FALSE]) /\ IsState([Now EXCEPT !.idcode = FALSE])
    BY PortOnly, FollowsState DEF IInv
  <1>3. Follows(Now, s) /\ IsState(s)
    BY <1>1, <1>2, BeginFollows, FollowsThen, FollowsState
  <1>4. Follows(Now, [s EXCEPT !.fault = TRUE])
    BY <1>3, PortOnly, FollowsThen
  <1> QED
    BY <1>1, <1>4, BecomesFollows

\* The watchdog and the plug: what neither leaves is a chair in use.
LEMMA ResetTame ==
    ASSUME IInv, Watchdog \/ PowerCycle
    PROVE  /\ IsState(Now)' /\ chair'.core # "halted" /\ ~chair'.busy
           /\ \A w \in Words : w >= STORE => chair'.flash[w] = chair.flash[w]
  <1> DEFINE c == IF chair' = Reset(chair, image) THEN chair ELSE [chair EXCEPT !.hold = FALSE, !.block = NoBlock]
  <1>1. IsChair(chair)
    BY DEF IInv, IsState, Now
  <1>2. IsChair(c) /\ c.flash = chair.flash
    BY <1>1 DEF IsChair, NoBlock
  <1>3. chair' = Reset(c, image)
    BY DEF Watchdog, PowerCycle
  <1>4. Quiet(c, chair') /\ chair'.core # "halted" /\ ~chair'.busy
    BY <1>2, <1>3, ResetRuns
  <1> QED
    BY <1>2, <1>4 DEF Quiet, Tame, IsState, Now

LEMMA InitInv ==
    ASSUME Init
    PROVE  IInv
  <1> DEFINE c == [flash |-> [w \in Words |-> Old], core |-> "runs", runs |-> "old",
                   watchdog |-> TRUE, hold |-> FALSE, locked |-> TRUE, error |-> FALSE,
                   busy |-> FALSE, pump |-> FALSE, block |-> NoBlock]
  <1>1. chair = Reset(c, <<>>)
    BY DEF Init
  <1>2. IsChair(c)
    BY DEF IsChair, NoBlock
  <1> HIDE DEF c
  <1>3. IsChair(chair) /\ chair.core # "halted" /\ ~chair.busy
    BY <1>1, <1>2, ResetRuns DEF Quiet, Tame
  <1> QED
    BY <1>3 DEF Init, IInv, IsState, Now, Watched, EndsRunning

\* How far an install got.
LEMMA CountInv ==
    ASSUME IInv, Next
    PROVE  n' \in Nat /\ image' \in Images /\ (at' = "write" => n' < total_words')
  <1>1. n \in Nat /\ image \in Images /\ total_words \in Nat /\ total_words > 0
    BY ImageLength DEF IInv
  <1>2. CASE Write
    <2>1. at = "write" /\ n < total_words /\ image' = image
      BY <1>2 DEF Write, DoEach, Do, IInv
    <2>2. CASE n + 1 = total_words
      BY <1>1, <1>2, <2>1, <2>2 DEF Write, DoEach, Do, total_words
    <2>3. CASE n + 1 # total_words
      <3>1. n' = n + 1
        BY <1>2, <2>3 DEF Write, DoEach
      <3>2. n + 1 < total_words
        BY <1>1, <2>1, <2>3
      <3> QED
        BY <1>1, <2>1, <3>1, <3>2 DEF total_words
    <2> QED
      BY <2>2, <2>3
  <1>3. CASE Erase
    <2>1. image' = image /\ (n' = 0 \/ (n' = n + 1 /\ at' # "write"))
      BY <1>3 DEF Erase, DoEach, Do
    <2> QED
      BY <1>1, <2>1 DEF total_words
  <1>4. CASE Verify
    <2>1. image' = image /\ at' # "write" /\ (n' = 0 \/ n' = n + 1)
      BY <1>4 DEF Verify, DoEach, Do
    <2> QED
      BY <1>1, <2>1
  <1>5. CASE Halt \/ Hold \/ Unlock \/ Lock
    <2>1. image' = image /\ at' # "write" /\ n' = n
      BY <1>5 DEF Halt, Hold, Unlock, Lock, Do
    <2> QED
      BY <1>1, <2>1
  <1>6. CASE Relock \/ ResetRun
    <2>1. image' = image /\ at' # "write" /\ n' = 0
      BY <1>6 DEF Relock, ResetRun, LetGo
    <2> QED
      BY <1>1, <2>1
  <1>7. CASE Update \/ Use \/ Inflate \/ Watchdog \/ PowerCycle
    BY <1>1, <1>7 DEF IInv, Update, Use, Inflate, Watchdog, PowerCycle, Elsewhere, update, total_words
  <1>8. CASE Loop \/ Restart \/ \E force \in BOOLEAN : Perform(force)
    BY <1>1, <1>8 DEF Loop, Restart, Perform
  <1> QED
    BY <1>2, <1>3, <1>4, <1>5, <1>6, <1>7, <1>8 DEF Next, Install

\* What a chair in use implies, while an install goes on.
LEMMA InstallWatched ==
    ASSUME IInv, Install
    PROVE  IsState(Now)' /\ Tame(chair, chair') /\ (chair'.busy => chair'.block.busy) /\ Watched'
  <1>1. IsState(Now)' /\ Tame(chair, chair')
    BY InstallFollows, HaltTame DEF FollowsStep, Quiet
  <1>2. at # "idle" /\ seen' = seen
    BY DEF Install, Halt, Hold, Unlock, Erase, Write, Lock, Verify, Relock, ResetRun, DoEach, Do, LetGo
  <1> QED
    BY <1>1, <1>2 DEF IInv, Tame, Watched

\* A core let go of with nothing wrong in it runs.
LEMMA InstallEnds ==
    ASSUME IInv, Install
    PROVE  EndsRunning'
  <1>1. CASE ResetRun
    <2>1. PICK t \in reset_run(Now, image) : Becomes(t)
      BY <1>1 DEF ResetRun, LetGo
    <2>2. spoilt' = (spoilt \/ t.fault) /\ chair' = t.chair
      BY <1>1, <2>1 DEF ResetRun, LetGo, Becomes
    <2>3. IsState(Now) /\ Now.ok = TRUE
      BY DEF IInv, Now
    <2>4. ~t.fault => t.chair.core # "halted"
      BY <2>1, <2>3, LetGoRuns
    <2> QED
      BY <2>2, <2>4 DEF EndsRunning
  <1>2. CASE Relock
    BY <1>2 DEF Relock, LetGo, EndsRunning
  <1>3. CASE Halt \/ Hold \/ Unlock \/ Lock
    BY <1>3 DEF Halt, Hold, Unlock, Lock, Do, EndsRunning
  <1>4. CASE Erase \/ Write \/ Verify
    BY <1>4 DEF Erase, Write, Verify, DoEach, Do, EndsRunning
  <1> QED
    BY <1>1, <1>2, <1>3, <1>4 DEF Install

LEMMA NextInv ==
    ASSUME IInv, Next
    PROVE  IInv'
  <1>1. CASE Install
    BY <1>1, CountInv, InstallWatched, InstallEnds DEF IInv
  <1>2. CASE Update
    <2>1. FollowsStep
      BY <1>2, UpdateFollows
    <2>2. chair'.busy => chair'.block.busy /\ chair.busy /\ chair'.block = chair.block /\ chair.block.busy
      BY <2>1 DEF FollowsStep, Quiet, Tame, IInv
    <2>3. Watched'
      <3>1. CASE chair.core = "halted"
        <4>1. chair'.busy => ~seen
          BY <3>1, <2>2 DEF IInv, Watched
        <4> QED
          BY <1>2, <3>1, <4>1 DEF Update, Watched
      <3>2. CASE chair.core # "halted"
        <4>1. chair'.core # "halted" /\ at' = "idle"
          BY <1>2, <2>1, <3>2 DEF FollowsStep, Quiet, Update, update
        <4>2. chair'.busy => ~(link_ok' /\ ~block_'.busy)
          BY <1>2, <2>2 DEF Update
        <4> QED
          BY <4>1, <4>2 DEF Watched
      <3> QED
        BY <3>1, <3>2
    <2>4. EndsRunning'
      BY <1>2, <2>1 DEF FollowsStep, Quiet, Update, update, EndsRunning, IInv
    <2> QED
      BY <1>2, <2>1, <2>2, <2>3, <2>4, CountInv DEF IInv, FollowsStep
  <1>3. CASE \E force \in BOOLEAN : Perform(force)
    BY <1>3, CountInv DEF Perform, IInv, IsState, Now, Watched, EndsRunning, poller
  <1>4. CASE Loop
    <2>1. chair' = chair /\ seen' = seen /\ spoilt' = spoilt /\ link_ok' = link_ok /\ block_' = block_ /\ at = "idle"
      BY <1>4 DEF Loop, poller
    <2>2. at' # "idle" => link_ok /\ ~block_.busy
      BY <1>4 DEF Loop, safe_to_flash
    <2>3. Watched' /\ EndsRunning'
      BY <2>1, <2>2 DEF IInv, Watched, EndsRunning
    <2>4. IsState(Now)'
      BY <1>4 DEF Loop, IInv, IsState, Now
    <2> QED
      BY <1>4, <2>1, <2>3, <2>4, CountInv DEF IInv
  <1>5. CASE Use
    <2>1. chair' = [chair EXCEPT !.busy = ~@, !.block.busy = ~chair.busy] /\ IsChair(chair)
      BY <1>5 DEF Use, IInv, IsState, Now
    <2>2. IsChair(chair') /\ chair'.block.busy = chair'.busy /\ chair'.core = chair.core
      BY <2>1 DEF IsChair
    <2>3. seen' = FALSE /\ chair.core # "halted"
      BY <1>5 DEF Use
    <2> QED
      BY <1>5, <2>2, <2>3, CountInv DEF IInv, IsState, Now, Watched, EndsRunning
  <1>6. CASE Watchdog \/ PowerCycle
    BY <1>6, ResetTame, CountInv DEF IInv, Watched, EndsRunning
  <1>7. CASE Restart
    <2>1. FollowsStep
      BY <1>7, RestartFollows
    <2>2. at' = "idle" /\ link_ok' = FALSE /\ seen' = seen /\ spoilt' = TRUE
      BY <1>7 DEF Restart
    <2>3. (chair'.core = "halted" => chair.core = "halted") /\ (chair'.busy => chair.busy /\ chair'.block = chair.block)
      BY <2>1 DEF FollowsStep, Quiet, Tame
    <2> QED
      BY <1>7, <2>1, <2>2, <2>3, CountInv DEF IInv, FollowsStep, Watched, EndsRunning
  <1>8. CASE Inflate
    <2>1. chair' = [chair EXCEPT !.pump = ~@] /\ IsChair(chair)
      BY <1>8 DEF Inflate, IInv, IsState, Now
    <2>2. IsChair(chair') /\ chair'.block = chair.block /\ chair'.busy = chair.busy /\ chair'.core = chair.core
      BY <2>1 DEF IsChair
    <2>3. /\ seen' = seen /\ at' = at /\ spoilt' = spoilt /\ link_ok' = link_ok /\ block_' = block_
      BY <1>8 DEF Inflate, Elsewhere, poller, update
    <2>4. Watched' /\ EndsRunning'
      BY <2>2, <2>3 DEF IInv, Watched, EndsRunning
    <2> QED
      BY <2>2, <2>4, CountInv DEF IInv, IsState, Now
  <1> QED
    BY <1>1, <1>2, <1>3, <1>4, <1>5, <1>6, <1>7, <1>8 DEF Next

LEMMA StutterInv ==
    ASSUME IInv, UNCHANGED vars
    PROVE  IInv'
  BY DEF IInv, vars, port, poller, update, IsState, Now, total_words, Watched, EndsRunning

LEMMA Inductive == Spec => []IInv
  <1>1. Init => IInv
    BY InitInv
  <1>2. IInv /\ [Next]_vars => IInv'
    BY NextInv, StutterInv
  <1> QED
    BY <1>1, <1>2, PTL DEF Spec

-----------------------------------------------------------------------------
(* The theorems.                                                            *)

\* No core is held while the chair is in use unless that use is younger than every
\* poll tried: the guard of loop, update's link_ok_ and debug block together.
THEOREM HaltsAreFresh == Spec => []FreshHalt
  <1>1. IInv => FreshHalt
    BY DEF IInv, Watched, FreshHalt
  <1> QED
    BY <1>1, Inductive, PTL

\* Whichever access of an install failed, install_ leaves a core that is not halted
\* unless one of its last, of relocking and resetting, went wrong as well.
THEOREM InstallEndsRunning == Spec => []EndsRunning
  <1>1. IInv => EndsRunning
    BY DEF IInv
  <1> QED
    BY <1>1, Inductive, PTL

\* No image, whatever its length, and no failure of the link makes
\* flash_erase_page or flash_write_words touch the settings store.
THEOREM StoreOutlivesInstalls == Spec => StoreKept
  <1>1. IInv /\ [Next]_vars => [\A w \in STORE .. SIZE - 1 : chair'.flash[w] = chair.flash[w]]_vars
    <2> SUFFICES ASSUME IInv, Next, NEW w \in Words, w >= STORE
                 PROVE  chair'.flash[w] = chair.flash[w]
      BY SwdConstants DEF Words
    <2>1. CASE Install
      BY <2>1, InstallWatched DEF Tame
    <2>2. CASE Update \/ Restart
      BY <2>2, UpdateFollows, RestartFollows DEF FollowsStep, Quiet, Tame
    <2>3. CASE Watchdog \/ PowerCycle
      BY <2>3, ResetTame
    <2>4. CASE Use \/ Inflate
      BY <2>4 DEF Use, Inflate, IInv, IsState, IsChair, Now
    <2>5. CASE Loop \/ \E force \in BOOLEAN : Perform(force)
      BY <2>5 DEF Loop, Perform
    <2> QED
      BY <2>1, <2>2, <2>3, <2>4, <2>5 DEF Next
  <1> QED
    BY <1>1, Inductive, PTL DEF Spec, StoreKept

-----------------------------------------------------------------------------
(* The read back.                                                           *)

LEMMA ReadKeeps ==
    ASSUME NEW s, IsState(s), NEW t \in read_word(s)
    PROVE  t.chair = s.chair
  <1>1. /\ Failed(s).chair = s.chair
        /\ [Failed(s) EXCEPT !.sticky = FALSE].chair = s.chair
        /\ \A h \in BOOLEAN : [Failed(s) EXCEPT !.fault = TRUE, !.hears = h].chair = s.chair
    BY DEF Failed, IsState
  <1> QED
    BY <1>1 DEF read_word, Access

LEMMA LockKeeps ==
    ASSUME NEW s, IsState(s), NEW t \in flash_lock(s)
    PROVE  t.chair.flash = s.chair.flash
  <1>1. PICK r \in read_word(s) : t \in write_word(r, [r EXCEPT !.chair.locked = TRUE])
    BY DEF flash_lock, Then
  <1>2. IsState(r) /\ r.chair = s.chair
    BY ReadFollows, ReadKeeps, FollowsState
  <1>3. /\ Failed(r).chair = r.chair
        /\ [Failed(r) EXCEPT !.sticky = FALSE].chair = r.chair
        /\ \A h \in BOOLEAN : [Failed(r) EXCEPT !.fault = TRUE, !.hears = h].chair = r.chair
        /\ [r EXCEPT !.sticky = TRUE, !.fault = TRUE].chair = r.chair
        /\ [r EXCEPT !.chair.locked = TRUE].chair.flash = r.chair.flash
    BY <1>2 DEF Failed, IsState, IsChair
  <1> QED
    BY <1>1, <1>2, <1>3 DEF write_word, Access

LEMMA LockIgnoredKeeps ==
    ASSUME NEW s, IsState(s), NEW t \in Ignoring(s, flash_lock)
    PROVE  t.chair.flash = s.chair.flash
  <1>1. PICK u \in flash_lock([s EXCEPT !.ok = TRUE]) : t = [u EXCEPT !.ok = s.ok]
    BY DEF Ignoring
  <1>2. IsState([s EXCEPT !.ok = TRUE]) /\ [s EXCEPT !.ok = TRUE].chair = s.chair
    BY PortOnly, FollowsState DEF IsState
  <1>3. IsState(u) /\ u.chair.flash = s.chair.flash
    BY <1>1, <1>2, LockFollows, LockKeeps, FollowsState
  <1> QED
    BY <1>1, <1>3 DEF IsState

\* Each word of the image is in its chunk, at its place.
LEMMA ChunkHolds ==
    ASSUME image \in Images, NEW m \in Nat, m < total_words, NEW k, k = m \div PAGE
    PROVE  /\ k \in 0 .. pages - 1
           /\ (m % PAGE) + 1 \in DOMAIN Chunk(k)
           /\ Chunk(k)[(m % PAGE) + 1] = image[m + 1]
           /\ k * CHUNK_WORDS + ((m % PAGE) + 1) - 1 = m
           /\ m < k * CHUNK_WORDS + Len(Chunk(k))
  <1> DEFINE last == IF (k + 1) * PAGE < total_words THEN (k + 1) * PAGE ELSE total_words
             first == k * PAGE + 1
             r == m % PAGE
             values == {image[j] : j \in DOMAIN image}
  <1>1. PAGE \in Nat /\ PAGE > 0 /\ total_words \in Nat
    BY SwdConstants, ImageLength
  <1>2. k \in Nat /\ r \in Nat /\ r < PAGE /\ m = PAGE * k + r
    BY <1>1
  <1> HIDE DEF r
  <1>3. /\ k * PAGE \in Nat /\ (k + 1) * PAGE \in Nat
        /\ (k + 1) * PAGE = k * PAGE + PAGE /\ PAGE * k = k * PAGE
    BY <1>1, <1>2
  <1>4. first \in Nat /\ last \in Nat /\ first + r = m + 1 /\ m + 1 <= last /\ first >= 1
        /\ last <= total_words
    BY <1>1, <1>2, <1>3
  <1>5. \A i \in first .. last : image[i] \in values
    <2>1. DOMAIN image = 1 .. total_words
      BY BridgeConstants, LenProperties DEF total_words
    <2> QED
      BY <1>1, <1>4, <2>1
  <1>6. Chunk(k) = SubSeq(image, first, last)
    BY DEF Chunk, CHUNK_WORDS
  <1> HIDE DEF last, first, values
  <1>7. /\ Chunk(k) \in Seq(values) /\ Len(Chunk(k)) = last - first + 1
        /\ \A i \in 1 .. last - first + 1 : Chunk(k)[i] = image[first + i - 1]
    <2> DEFINE part == SubSeq(image, first, last)
    <2>1. first \in Int /\ last \in Int /\ first <= last
      BY <1>2, <1>4
    <2>2. /\ part \in Seq(values)
          /\ Len(part) = IF first <= last THEN last - first + 1 ELSE 0
          /\ \A i \in 1 .. last - first + 1 : part[i] = image[first + i - 1]
      BY <1>5, <2>1, SubSeqProperties
    <2>3. Len(part) = last - first + 1
      BY <2>1, <2>2
    <2> QED
      BY <1>6, <2>2, <2>3
  <1>8. r + 1 \in 1 .. last - first + 1 /\ first + (r + 1) - 1 = m + 1
    BY <1>2, <1>4
  <1>9. DOMAIN Chunk(k) = 1 .. last - first + 1
    BY <1>7, LenProperties
  <1>10. k \in 0 .. pages - 1
    <2>1. pages = (total_words + PAGE - 1) \div PAGE
      BY DEF pages
    <2>2. total_words + PAGE - 1 \in Nat /\ total_words + PAGE - 1 >= m + PAGE
      BY <1>1
    <2>3. /\ total_words + PAGE - 1 = PAGE * pages + ((total_words + PAGE - 1) % PAGE)
          /\ (total_words + PAGE - 1) % PAGE < PAGE /\ pages \in Nat
          /\ (total_words + PAGE - 1) % PAGE \in Nat
      BY <1>1, <2>1, <2>2
    <2>4. PAGE * k + PAGE <= total_words + PAGE - 1
      BY <1>1, <1>2, <2>2
    <2>5. ~(pages <= k)
      <3> SUFFICES ASSUME pages <= k PROVE FALSE
        OBVIOUS
      <3>1. PAGE * pages <= PAGE * k
        BY <1>1, <1>2, <2>3
      <3> QED
        BY <1>1, <1>2, <2>2, <2>3, <2>4, <3>1
    <2> QED
      BY <1>2, <2>3, <2>5
  <1>11. k * CHUNK_WORDS + (r + 1) - 1 = m /\ m < k * CHUNK_WORDS + Len(Chunk(k))
    <2>1. first = k * PAGE + 1
      BY DEF first
    <2>2. k * PAGE + (r + 1) - 1 = m
      BY <1>1, <1>2, <1>3
    <2>3. m < k * PAGE + (last - first + 1)
      BY <1>1, <1>2, <1>3, <1>4, <2>1
    <2> QED
      BY <1>7, <2>2, <2>3 DEF CHUNK_WORDS
  <1> QED
    BY <1>7, <1>8, <1>9, <1>10, <1>11 DEF r

\* What has been read back and found to be the image.
ReadBack(k) == \A i \in DOMAIN Chunk(k) : chair.flash[k * CHUNK_WORDS + i - 1] = Chunk(k)[i]

VerifyInv ==
    /\ at = "lock" => n = 0
    /\ at \in {"lock", "verify"} => total_words <= STORE
    /\ at = "verify" => n < pages /\ \A k \in 0 .. n - 1 : ReadBack(k)
    /\ VerifiedIsImage

\* An image read back chunk by chunk is the firmware.
LEMMA AllReadBack ==
    ASSUME image \in Images, total_words <= STORE, \A k \in 0 .. pages - 1 : ReadBack(k)
    PROVE  Firmware(chair.flash, image) = "new"
  <1>1. /\ DOMAIN image = 1 .. total_words /\ total_words = Len(image)
        /\ total_words \in Nat /\ STORE \in Nat /\ PAGE \in Nat
    BY BridgeConstants, SwdConstants, LenProperties DEF total_words
  <1>2. ASSUME NEW i \in DOMAIN image
        PROVE  chair.flash[i - 1] = image[i]
    <2> DEFINE m == i - 1
               k == m \div PAGE
               j == (m % PAGE) + 1
    <2>1. m \in Nat /\ m < total_words /\ m + 1 = i
      BY <1>1
    <2>2. /\ k \in 0 .. pages - 1 /\ j \in DOMAIN Chunk(k) /\ Chunk(k)[j] = image[m + 1]
          /\ k * CHUNK_WORDS + j - 1 = m
      BY <2>1, ChunkHolds
    <2> HIDE DEF m, k, j
    <2>3. chair.flash[k * CHUNK_WORDS + j - 1] = Chunk(k)[j]
      BY <2>2 DEF ReadBack
    <2>4. chair.flash[m] = image[i]
      BY <2>1, <2>2, <2>3
    <2> QED
      BY <2>4 DEF m
  <1>3. PICK i \in DOMAIN image : image[i] # Old
    BY BridgeConstants
  <1>4. i - 1 \in 0 .. STORE - 1 /\ chair.flash[i - 1] # Old
    BY <1>1, <1>2, <1>3
  <1> QED
    BY <1>1, <1>2, <1>4 DEF Firmware

\* A chunk that is programmed is below the store.
LEMMA WritesFit ==
    ASSUME NEW s, IsState(s), NEW first, NEW src, NEW i, NEW t \in flash_write_words(s, first, src, i), t.ok
    PROVE  ~(first + Len(src) > STORE)
  BY DEF flash_write_words, Failed, IsState

LEMMA VerifyKept ==
    ASSUME VerifyInv, chair'.flash = chair.flash,
           at' = at, n' = n, result' = result, image' = image
    PROVE  VerifyInv'
  <1>1. total_words' = total_words /\ pages' = pages /\ \A k : ReadBack(k) => ReadBack(k)'
    BY DEF total_words, pages, ReadBack, Chunk
  <1>2. Firmware(chair.flash, image)' = Firmware(chair.flash, image)
    BY DEF Firmware
  <1> QED
    BY <1>1, <1>2 DEF VerifyInv, VerifiedIsImage

LEMMA VerifyNext ==
    ASSUME IInv, VerifyInv, [Next]_vars
    PROVE  VerifyInv'
  <1>1. /\ IsState(Now) /\ Now.chair = chair /\ n \in Nat /\ image \in Images
        /\ total_words \in Nat /\ total_words > 0 /\ STORE \in Nat /\ PAGE \in Nat /\ PAGE > 0
    BY ImageLength, SwdConstants DEF IInv, Now
  <1>2. CASE UNCHANGED vars
    BY <1>2, VerifyKept DEF vars, port, update
  <1>3. CASE Use \/ Inflate \/ Watchdog \/ PowerCycle
    <2>1. at' = at /\ n' = n /\ result' = result /\ image' = image
      BY <1>3 DEF Use, Inflate, Watchdog, PowerCycle, Elsewhere, update
    <2>2. chair'.flash = chair.flash
      <3>1. IsChair(chair)
        BY <1>1 DEF IsState
      <3>2. CASE Use \/ Inflate
        BY <3>1, <3>2 DEF Use, Inflate, IsChair
      <3>3. CASE Watchdog
        BY <3>1, <3>3 DEF Watchdog, Reset, IsChair
      <3>4. CASE PowerCycle
        BY <3>1, <3>4 DEF PowerCycle, Reset, IsChair
      <3> QED
        BY <1>3, <3>2, <3>3, <3>4
    <2> QED
      BY <2>1, <2>2, VerifyKept
  <1>4. CASE Update \/ Loop \/ Restart \/ (\E force \in BOOLEAN : Perform(force)) \/ ResetRun
    <2>1. at' \in {"idle", "halt"}
      BY <1>4 DEF Update, Loop, Restart, Perform, ResetRun, LetGo, update
    <2> QED
      BY <2>1 DEF VerifyInv, VerifiedIsImage
  <1>5. CASE Halt \/ Hold \/ Unlock
    <2>1. at' \in {"hold", "unlock", "erase"} \/ (at' = "relock" /\ result' # "ok")
      BY <1>5 DEF Halt, Hold, Unlock, Do
    <2> QED
      BY <2>1 DEF VerifyInv, VerifiedIsImage
  <1>6. CASE Erase
    <2>1. at' \in {"erase", "write"} \/ (at' = "relock" /\ result' # "ok")
      BY <1>6 DEF Erase, DoEach, Do
    <2> QED
      BY <2>1 DEF VerifyInv, VerifiedIsImage
  <1>7. CASE Write
    <2> DEFINE k == n \div CHUNK_WORDS
    <2>1. PICK s \in flash_write_words(Now, k * CHUNK_WORDS, Chunk(k), (n % CHUNK_WORDS) + 1) :
              /\ at' = (IF s.ok THEN IF n + 1 = total_words THEN "lock" ELSE "write" ELSE "relock")
              /\ ~s.ok => result' = "failed"
      BY <1>7 DEF Write, DoEach, Do
    <2>2. at = "write" /\ n < total_words /\ image' = image
      BY <1>7 DEF Write, DoEach, Do, IInv
    <2>3. CASE ~(s.ok /\ n + 1 = total_words)
      BY <2>1, <2>3 DEF VerifyInv, VerifiedIsImage
    <2>4. CASE s.ok /\ n + 1 = total_words
      <3>1. ~(k * CHUNK_WORDS + Len(Chunk(k)) > STORE)
        BY <1>1, <2>1, <2>4, WritesFit
      <3>2. n < k * CHUNK_WORDS + Len(Chunk(k))
        BY <1>1, <2>2, ChunkHolds DEF CHUNK_WORDS
      <3>3. k * CHUNK_WORDS \in Nat /\ Len(Chunk(k)) \in Nat
        BY <1>1, <2>2, ChunkWord
      <3> HIDE DEF k
      <3>4. total_words <= STORE
        BY <1>1, <2>4, <3>1, <3>2, <3>3
      <3>5. n' = 0 /\ at' = "lock"
        BY <1>7, <2>1, <2>4 DEF Write, DoEach
      <3> QED
        BY <2>2, <3>4, <3>5 DEF VerifyInv, VerifiedIsImage, total_words
    <2> QED
      BY <2>3, <2>4
  <1>8. CASE Lock
    <2>1. PICK s \in Ignoring(Now, flash_lock) :
              /\ at' = (IF s.ok THEN "verify" ELSE "relock")
              /\ ~s.ok => result' = "failed"
      BY <1>8 DEF Lock, Do
    <2>2. at = "lock" /\ n' = n /\ n = 0 /\ total_words <= STORE /\ image' = image
      BY <1>8 DEF Lock, Do, VerifyInv
    <2>3. pages \in Nat /\ pages > 0
      <3>1. 0 \div PAGE \in 0 .. pages - 1
        BY <1>1, ChunkHolds
      <3> QED
        BY <1>1, <3>1 DEF pages
    <2>4. total_words' = total_words /\ pages' = pages
      BY <2>2 DEF total_words, pages
    <2> QED
      BY <2>1, <2>2, <2>3, <2>4 DEF VerifyInv, VerifiedIsImage
  <1>9. CASE Verify
    <2>1. PICK s \in read_word(Now) :
              /\ chair' = s.chair
              /\ at' = (IF Verified(s) THEN IF n + 1 = pages THEN "relock" ELSE "verify" ELSE "relock")
              /\ ~Verified(s) => result' = "failed"
      <3>1. PICK s \in read_word(Now) :
                /\ Becomes([s EXCEPT !.ok = Verified(s)])
                /\ at' = IF [s EXCEPT !.ok = Verified(s)].ok
                         THEN IF n + 1 = pages THEN "relock" ELSE "verify" ELSE "relock"
                /\ ~[s EXCEPT !.ok = Verified(s)].ok => result' = "failed"
        BY <1>9 DEF Verify, DoEach, Do
      <3>2. IsState(s)
        BY <1>1, ReadFollows, FollowsState
      <3>3. [s EXCEPT !.ok = Verified(s)].ok = Verified(s) /\ [s EXCEPT !.ok = Verified(s)].chair = s.chair
        BY <3>2 DEF IsState
      <3> QED
        BY <3>1, <3>3 DEF Becomes
    <2>2. at = "verify" /\ image' = image /\ n < pages /\ total_words <= STORE
          /\ (\A k \in 0 .. n - 1 : ReadBack(k))
      BY <1>9 DEF Verify, DoEach, Do, VerifyInv
    <2>3. s.chair = chair /\ chair' = chair
      BY <1>1, <2>1, ReadKeeps
    <2>4. CASE ~Verified(s)
      BY <2>1, <2>4 DEF VerifyInv, VerifiedIsImage
    <2>5. CASE Verified(s)
      <3>1. ReadBack(n)
        BY <2>3, <2>5 DEF Verified, Same, ReadBack
      <3>2. \A k \in 0 .. n : ReadBack(k)
        BY <1>1, <2>2, <3>1
      <3>3. total_words' = total_words /\ pages' = pages /\ \A k : ReadBack(k) => ReadBack(k)'
        BY <2>2, <2>3 DEF total_words, pages, ReadBack, Chunk
      <3>4. CASE n + 1 = pages
        <4>1. \A k \in 0 .. pages - 1 : ReadBack(k)
          BY <1>1, <3>2, <3>4
        <4>2. Firmware(chair.flash, image) = "new"
          BY <1>1, <2>2, <4>1, AllReadBack
        <4> QED
          BY <2>1, <2>2, <2>3, <2>5, <3>4, <4>2 DEF VerifyInv, VerifiedIsImage, Firmware
      <3>5. CASE n + 1 # pages
        <4>1. n' = n + 1 /\ at' = "verify"
          BY <1>9, <2>1, <2>5, <3>5 DEF Verify, DoEach
        <4>2. n + 1 < pages
          <5>1. pages \in Nat
            BY <1>1 DEF pages
          <5> QED
            BY <1>1, <2>2, <3>5, <5>1
        <4>3. \A k \in 0 .. n' - 1 : ReadBack(k)'
          BY <1>1, <3>2, <3>3, <4>1
        <4> QED
          BY <2>2, <3>3, <4>1, <4>2, <4>3 DEF VerifyInv, VerifiedIsImage
      <3> QED
        BY <3>4, <3>5
    <2> QED
      BY <2>4, <2>5
  <1>10. CASE Relock
    <2>1. PICK s \in flash_lock(Now) : Becomes(s)
      BY <1>10 DEF Relock, LetGo
    <2>2. chair'.flash = chair.flash
      BY <1>1, <2>1, LockKeeps DEF Becomes
    <2>3. at = "relock" /\ at' = "reset" /\ result' = result /\ image' = image
      BY <1>10 DEF Relock, LetGo
    <2>4. Firmware(chair.flash, image)' = Firmware(chair.flash, image)
      BY <2>2, <2>3 DEF Firmware
    <2> QED
      BY <2>3, <2>4 DEF VerifyInv, VerifiedIsImage
  <1> QED
    BY <1>2, <1>3, <1>4, <1>5, <1>6, <1>7, <1>8, <1>9, <1>10 DEF Next, Install

\* install_: an install that says it succeeded has left the whole of its image in
\* the flash, whatever the controller acknowledged and did not do, and whatever
\* happened to the chair since its words were read back.
THEOREM InstallsAreVerified == Spec => []VerifiedIsImage
  <1>1. Init => VerifyInv
    BY DEF Init, VerifyInv, VerifiedIsImage
  <1>2. IInv /\ VerifyInv /\ [Next]_vars => VerifyInv'
    BY VerifyNext
  <1>3. VerifyInv => VerifiedIsImage
    BY DEF VerifyInv
  <1> QED
    BY <1>1, <1>2, <1>3, Inductive, PTL DEF Spec

=============================================================================
