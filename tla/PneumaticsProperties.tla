------------------------ MODULE PneumaticsProperties ------------------------
(***************************************************************************)
(* The air cells under every sequence of calls control.c and preset.c can   *)
(* make, and what must be true of them.  A pass has at most one event, then  *)
(* pneumatics_update and adjust_update, and last the motion request.         *)
(***************************************************************************)
EXTENDS Pneumatics

CONSTANTS
    Stored,  \* what the store may have of lumbar at power on, in tenths
    Recalled \* the lumbar levels a preset may ask for

ASSUME StoredTenths == Stored \cup Recalled \subseteq 0 .. INFLATE_MAX \div TENTH

\* A pass ends, and before a press of LUMBAR has been held for long enough to
\* choose a level.
ASSUME PassesEnd ==
    /\ \E d \in Durations : \A e \in Durations : e <= d
    /\ \A d \in Durations : d < LUMBAR_SET

VARIABLES
    chair,
    finger, \* "lumbar" while that button is down, else "none"
    \* Histories, of the time that
    air,    \* lumbar has had its valve open since it was last off, counted on from
            \* the level held when one inflation is added to another
    ran,    \* the massage has run, pauses apart
    played, \* this step of it has
    vented, \* the vent has had the exhaust open.
    \* And the lumbar level of the last recall, until a finger says otherwise; and
    \* whether LUMBAR was pressed on an inflation that a motion had paused.
    wanted, overtaken

vars == <<chair, finger, air, ran, played, vented, wanted, overtaken>>

Init ==
    /\ \E tenths \in Stored :
          chair = [pneu   |-> PneumaticsOff,
                   adjust |-> AdjustOff,
                   motion |-> [requested |-> "none"],
                   store  |-> [lumbar |-> tenths, massage |-> 0]]
    /\ finger = "none"
    /\ air = 0 /\ ran = 0 /\ played = 0 /\ vented = 0 /\ wanted = 0 /\ overtaken = FALSE

Longest == CHOOSE d \in Durations : \A e \in Durations : e <= d

Later(d) == [chair EXCEPT !.pneu = ElapsePneumatics(@, d), !.adjust = ElapseAdjust(@, d)]

Observe(d, now) ==
    LET was == chair.pneu
        live(history) == IF was.paused THEN history ELSE history + d
    IN  /\ air' = IF ~Lit(now) THEN 0
                  ELSE IF was.lumbar_state = "hold" THEN was.lumbar_level_ms
                  ELSE IF was.lumbar_state = "inflate" /\ "bottom" \in was.valves_now
                  THEN air + d ELSE air
        /\ ran' = IF was.massage_on /\ now.massage_on /\ now.step_started
                  THEN live(ran) ELSE 0
        /\ played' = IF /\ was.massage_on /\ now.massage_on
                        /\ was.massage_step = now.massage_step
                        /\ was.step_started
                     THEN live(played) ELSE 0
        /\ vented' = IF was.venting /\ now.venting /\ "vent" \in was.valves_now
                     THEN UpTo(VENT, vented + d) ELSE 0
        /\ overtaken' = /\ Lit(now)
                        /\ \/ overtaken
                           \/ was.paused /\ was.lumbar_state = "inflate"
                              /\ finger = "none" /\ finger' = "lumbar"

\* The rest of the pass after its event; `want` is the motion it asks for.
\* LONGEST_PAUSE bounds how long motions follow each other without a gap; the
\* pass that ends a pause is still to be counted.
Finish(d, called, want) ==
    LET up == pneumatics_update(called) IN
    /\ want = "none" \/ up.pneu.pause_age + 2 * Longest <= LONGEST_PAUSE
    /\ chair' = [up EXCEPT !.adjust = adjust_update(@), !.motion.requested = want]
    /\ Observe(d, up.pneu)

\* No event, and a motion only while the finger is not on LUMBAR.
Quiet(d) ==
    /\ UNCHANGED <<finger, wanted>>
    /\ \E want \in {"none", "recline_up"} :
          (finger = "lumbar" => want = "none") /\ Finish(d, Later(d), want)

\* MASSAGE acts on its release, so nothing has been moving since its press.
MassageTap(d) ==
    /\ UNCHANGED finger
    /\ Still(chair) /\ finger = "none"
    /\ Finish(d, MassageButton(Later(d)), "none")
    /\ wanted' = 0

MassageLevel(d) ==
    /\ UNCHANGED <<finger, wanted>>
    /\ Still(chair) /\ finger = "none"
    /\ \/ Finish(d, pneumatics_massage_arm(Later(d)), "none")
       \/ \E want \in Levels :
             /\ chair.adjust.armed
             /\ LET set == pneumatics_massage_set_level(Later(d), want) IN
                Finish(d, [set EXCEPT !.adjust = adjust_pick(@, want)], "none")

LumbarPress(d) ==
    /\ finger = "none" /\ finger' = "lumbar"
    /\ Finish(d, LumbarButton(Later(d)), "none")
    /\ wanted' = 0

LumbarRelease(d) ==
    /\ finger = "lumbar" /\ finger' = "none"
    /\ Finish(d, pneumatics_lumbar_release(Later(d)), "none")
    /\ UNCHANGED wanted

\* Another button takes over, and the release of LUMBAR is never reported.
RollOver(d) ==
    /\ finger = "lumbar" /\ finger' = "none"
    /\ \E want \in {"none", "recline_up"} : Finish(d, Later(d), want)
    /\ UNCHANGED wanted

\* restore_comfort, which comes after pneumatics_update in its pass.
Recall(d) ==
    /\ UNCHANGED finger
    /\ Still(chair) /\ finger = "none"
    /\ \E massage, lumbar \in BOOLEAN, tenths \in Recalled, level \in Levels :
          LET up  == pneumatics_update(Later(d))
              set == pneumatics_massage_set(up, massage)
              use == IF massage THEN pneumatics_massage_use_level(set, level) ELSE set
              all == pneumatics_lumbar_set(use, lumbar, tenths)
          IN  /\ ~(massage /\ lumbar)
              /\ chair' = [all EXCEPT !.adjust = adjust_update(@)]
              /\ Observe(d, all.pneu)
              /\ wanted' = IF lumbar THEN tenths ELSE 0

PowerOff(d) ==
    /\ UNCHANGED finger
    /\ finger = "none"
    /\ Finish(d, pneumatics_shutdown(Later(d)), "none")
    /\ wanted' = 0


Next == \E d \in Durations :
    \/ Quiet(d) \/ MassageTap(d) \/ MassageLevel(d) \/ LumbarPress(d)
    \/ LumbarRelease(d) \/ RollOver(d) \/ Recall(d) \/ PowerOff(d)

Spec == Init /\ [][Next]_vars

-----------------------------------------------------------------------------
(* Invariants.                                                              *)

TypeOK ==
    /\ chair.pneu \in PneumaticsState
    /\ chair.adjust \in AdjustState
    /\ chair.store \in [lumbar : 0 .. INFLATE_MAX \div TENTH, massage : {0} \cup Levels]

\* Massage, lumbar and the vent share the valves: only one of them has them.
OneOwner ==
    LET p == chair.pneu IN
    /\ p.massage_on => p.lumbar_state = "off" /\ ~p.venting
    /\ p.lumbar_state # "off" => ~p.venting

\* A pass can be late by its own length, and a level is rounded to TENTH.
Near(a, b) == a <= b + Longest + TENTH /\ b <= a + Longest + TENTH

\* However often it is pressed, interrupted and resumed, one lumbar inflation
\* never opens the cell for longer than the ceiling.
LumbarCeiling == air <= INFLATE_MAX + Longest

\* The level that is held, and may be stored, is the time the cell was open for:
\* time spent paused by a motion does not count.
LevelIsAir ==
    chair.pneu.lumbar_state = "hold" /\ ~overtaken
        => Near(chair.pneu.lumbar_level_ms, air)

\* The massage switches itself off after its time, and a motion only adds to it.
MassageEnds == chair.pneu.massage_on => ran <= MASSAGE_TIMEOUT + Longest

-----------------------------------------------------------------------------
(* Action properties.                                                       *)

\* The pattern resumes where a motion stopped it: a step is left only when it
\* has played for its length, at the level of before or after the pass, unless
\* the massage was over and a recall starts it again in the same pass.
StepPlays ==
    LET p == chair.pneu  q == chair'.pneu IN
    p.massage_on /\ q.massage_on /\ q.step_started /\ q.massage_step # p.massage_step
        => \E level \in {p.massage_level, q.massage_level} :
              played + Longest >= Pattern[p.massage_step].len[level]

StepsPlay == [][StepPlays]_vars

\* A vent runs its whole time with the exhaust open, motions or not, unless
\* massage or lumbar takes the valves.
VentRuns ==
    chair.pneu.venting /\ ~chair'.pneu.venting
        => \/ vented + Longest >= VENT
           \/ chair'.pneu.massage_on \/ chair'.pneu.lumbar_state # "off"

VentsComplete == [][VentRuns]_vars

-----------------------------------------------------------------------------
(* What the code's own texts say and the code does not do.                  *)

\* "Only holding the button to a firmness SHALL update the remembered level."
RemembersHolds == [][chair'.store.lumbar # chair.store.lumbar => finger = "lumbar"]_vars

\* "Time spent paused by a motion SHALL NOT count."
PausesDoNotCount ==
    chair.pneu.lumbar_state = "hold" => Near(chair.pneu.lumbar_level_ms, air)

\* "A recall SHALL apply the slot's levels to the running state."
RecallSetsLumbar ==
    chair.pneu.lumbar_state = "hold" /\ wanted # 0
        => chair.pneu.lumbar_level_ms = wanted * TENTH

\* pneumatics_lumbar_current: "What is in the cell right now."
CurrentIsAir ==
    Lit(chair.pneu) => Near(pneumatics_lumbar_current(chair.pneu) * TENTH, air)

=============================================================================
