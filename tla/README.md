# A formal model of the SoCozi chair firmware

TLA+ modules for the firmware in `src/src/` and for the ESPHome bridge that
watches and reflashes it (`src/esphome/components/socozi/`), the properties they
must have, the TLC runs that check them and the proofs TLAPS checks. Everything
models the default build (`ENHANCED=1`); the reference build is not modelled.

## The system

The firmware is a super-loop on a microcontroller without an operating system
(`main.c`): sample the ADC and the inputs, poll the handset every 20 ms, parse
what it answered, run `control_update`, kick the watchdog, again. The only
interrupt advances `ms_ticks`, a 32-bit count of milliseconds; every deadline is
an unsigned difference of it. So inside the core there are no data races. What is
hard is time: a pass takes as long as it takes, and between two passes a button
changes, bytes are lost, a deadline passes or power fails. And what is hard is
the debug port: over it the bridge reads and writes RAM and flash, and halts the
core, between any two instructions and over a link that may fail at any access.

| Part | State it keeps | Operations | Talks to | Must be right |
|---|---|---|---|---|
| motion (`motion.c`) | request, relay sequence, contacts, latches, stall and zero timers, position estimate | `motion_request`, `motion_update`, `motion_stop` | control, macros, relays, ADC | polarity never changes under load; a ceiling on driving; stops when stalled or at the end; the estimate follows the drive |
| settings, flash (`settings.c`, `flash.c`) | live and committed values, next slot; the page itself | `settings_init`, setters, `settings_update` | heat, pneumatics, presets | a save is atomic and durable across power loss |
| handset (`handset.c`) | partial frame and its sum, last code and its time | `handset_send`, `handset_poll` | UART, control | a lost byte or a receiver error neither wedges it nor invents a button |
| button (`button.c`) | button down, since when, hold reported, last tap | `button_update` | handset code in, events to control | every press answered once, by the right kind of release |
| control (`control.c`) | the consumed button | `control_update`, `route_event` | everything | a borrowed press never reaches a motor; one meaning per press |
| flatten macro (`macros/flatten.c`) | whether it runs | `flatten_tap_start`, `flatten_update` | motion, power | any button cancels; ends with everything off |
| preset macro (`macros/preset.c`) | stage, target, window, lamps | arm, save, clear, cancel, recall, `preset_update` | motion, settings, heat, pneumatics | ends; one axis at a time; restores what was saved |
| adjuster (`adjust.c`) | bar phase, window, owner, level | show, open, pick, accept, dismiss, close, defer | heat, pneumatics, control | one owner; the window closes |
| heat (`heat.c`) | on, since when, level | press, set, level, update | motion, settings, adjuster | off after an hour; never with a motor |
| pneumatics (`pneumatics.c`) | massage step, lumbar state, vent, pause, valves | presses, releases, setters, update | motion, settings, adjuster | the cell is never over-filled; a vent completes; pump never with a motor |
| power gate (`power.c`) | on | toggle, comfort off | control, macros | off means all comfort off |
| RTT rings (`rtt.c`) | two rings, one index of each owned by each side | `rtt_putc`, `rtt_getc` | console, a host on the debug port | what one side puts in the other gets, with no lock; dropped only when full |
| SWD driver (`swd.cpp`) | whether the port answers, a cached CSW, the last error | begin, read, write, halt, run, reset, erase, program, lock | the chair's memory, core and flash controller | a failure is noticed; the settings store is out of reach |
| bridge (`socozi.cpp`) | link state, copy of the debug block, update state, a pending install | `setup`, `update`, `perform`, `loop`, `install_` | the chair, over SWD | installs on an idle chair only; a success is the whole image; the chair is let go |

`PROJECT.json` lists under "hazards" what in this is hard to test, each at its line,
and the properties that would catch it.

### Not modelled

- The bits of the SWD port (turnaround, parity, `DATA` pins), its WAIT retries, the
  cached CSW and the wrap of the address increment: an access either works, fails
  or is acknowledged and lost, which covers what a failing retry or a stale cache
  amounts to. `write_mem` has no caller.
- A debug block torn by the core writing it while the bridge reads it: a poll reads
  it in one step. `busy` is one word, and the only part an install depends on.
- The PG and PER bits of the flash controller: their writes are accesses that may
  fail, but a bit left set changes nothing the properties see.
- GPIO, ADC calibration, startup and registers (I/O with no logic the properties tell
  apart); `debug.h` counters, the console's text and the bridge's sensors (they report
  and decide nothing); lamps and animations, except where a window's life depends
  on them; the lengths of the massage steps (`massage_step_len`), which are a
  parameter of `Pneumatics`; the Python and YAML of the bridge.

## How the modules are written

A C file's static variables are one record, and each of its functions is an
operator from that record to the next, so that a pass of the main loop is the
composition of the calls it makes, in the code's order. A pass is one step: no
interrupt touches this state. `Durations` holds how long a pass may take, and each
step picks one, so that every interleaving of deadlines with events is explored.

Where something outside the core does act in between, the step is what cannot be
divided: one flash operation (`Settings`), one byte or one look at a receiver
register (`Handset`), one word of RAM (`Ring`). In `Bridge` a step is one page, one
chunk read back, one word programmed or one call; inside it an operation
of `Swd` gives the set of states its accesses may end in, whichever of them fails,
since the bridge runs nothing else meanwhile and the core is halted.

A time stamp is kept as its age, `ms_ticks - stamp`, which is the only way the
code reads one. In `Motion` an age stops at the largest value it is compared
with, which no observer can tell from a larger one. In `Button` the ages are left
to run for as long as nothing writes the stamp, so they wrap with the clock, and
`WORD` is its modulus.

Operators called `Slip...` are plausible mistakes in the operator below them; no
specification uses them. Each property has one, and each was seen to break it.

| Module | Models | Notes |
|---|---|---|
| `Relays` | `motion.c`: every function, as an operator on the record of its state | shared by `Motion` and the chair |
| `Motion` | `motion.c` alone, under any requests, up to four in a pass, and any readings | one step `Pass` per loop pass; the chair implements it |
| `Drive` | the abstract promise to the relays | what `RelaysSafe` refines to |
| `MotionProperties`, `MotionProofs` | the properties; the theorems | |
| `Settings` | `settings.c` over `flash.c` | one step per flash operation, `PowerLoss` between any two; history `holed` |
| `SettingsProperties`, `SettingsProofs` | the properties; the theorems | |
| `Handset` | `handset.c` over its receiver, a wire and a loop that may be held up | histories `offered`, `age`, `intact` |
| `HandsetLink` | the abstract link: answers may be lost, never made up or reordered | what `ImplementsLink` refines to |
| `HandsetProperties` | the properties | |
| `Presses` | `button.c`, as operators | shared by `Button` and the chair |
| `Button` | the last code and its age, the silence rule of `control_update`, `button.c` | its `Heard` is a link as in `HandsetLink` |
| `Gestures` | the abstract protocol of button events | what `Protocol` refines to |
| `ButtonProperties`, `ButtonProofs` | the properties; the theorems | |
| `Adjust` | `adjust.c`: the bar, its window and its owner | operators on a record |
| `AdjustProperties`, `AdjustProofs` | the bar under every sequence of calls; the theorems | |
| `Heat` | `heat.c`, as operators on the chair | EXTENDS `Adjust` |
| `Pneumatics` | `pneumatics.c`: massage, lumbar, vent, pump, the motion pause | EXTENDS `Heat` |
| `PneumaticsProperties`, `MCPneumatics`, `PneumaticsProofs` | the air cells under every sequence of calls; an instance; the theorems | |
| `Macros` | `power.c`, `flatten.c`, `preset.c` | EXTENDS `Pneumatics`, INSTANCEs `Relays` |
| `Control` | `control.c`: the routing of an event and the order of a pass | EXTENDS `Macros`, INSTANCEs `Presses` |
| `Chair` | the whole firmware but its flash: one step per pass | EXTENDS `Control` |
| `ChairProperties`, `MCChair` | properties across components; instances | |
| `ChairProofs` | every safety property of the chair, proved | |
| `Ring` | `rtt.c`: one ring, its two ends a word at a time | `host` says which end the host is at; its link may die, the core has none |
| `CharQueue` | the abstract queue | what `ImplementsQueue` refines to |
| `RingProperties` | the refinement mapping | |
| `LinkProofs` | proofs about `Ring` and `Handset`, the two lines bytes come in on | the actions of `Ring` are named apart (`RingInit`, `RingNext`) for it |
| `Swd` | `swd.cpp`, and the core, watchdog and flash it reaches | operators: a state in, the states it may end in out |
| `Bridge` | `socozi.cpp`: poll, update entity, every step of `install_`; the chair used, unplugged, bitten; the bridge restarted | EXTENDS `Swd` |
| `BridgeProperties`, `MCBridge`, `BridgeProofs` | the properties; an instance; the theorems | |

In the modules from `Heat` on, an operator takes and returns the whole chair, a
record with one field per C file (`motion`, `heat`, `pneu`, `adjust`, `preset`,
`button`, ...), because these functions call each other. `control_update` is their
composition in the order of the code: the event is routed, then pneumatics, heat
and bar are updated, the borrowed button is let go, the macros run, and the motors
are asked last. That order matters to several findings below.

`Chair` replaces flash by the values live in RAM: `Settings` shows what a boot then
loads. It hears the button after the silence rule: `Button` shows that rule, and
`Handset` that the code it is given is one the handset sent.

In `Bridge` the chair is only what an install can see of it or hurt in it: a flash, a core that
runs, is halted or is lost in half a program, a watchdog, a debug block, whether it is in use and
whether the pump is on.

## What each run checks

| Run | Question | Shown |
|---|---|---|
| `motion` | can any sequence of requests, readings and late passes make the relays switch under load, drive for ever, go on into a stop, or count travel that was not driven? | no; the contacts refine `Drive` |
| `settings` | can a power loss, or a refused or spoilt program of any word, lose a finished save or mix two? | mix two: no, but for one arithmetic accident stated in `AtomicSave`. Lose one: not until the first word of a record is refused or reads back erased; then the slot is passed over erased (`holed`), and until the page is erased a boot stops at it, and filling it brings an older record back |
| `handset` | can lost, damaged or made up bytes and overruns report a button that was not sent, or stop reception for good? | no; the code refines `HandsetLink`, and a line that stays clean is heard |
| `button` | can lost replies and the wrap of the clock produce an order of events no finger makes? | no; the events refine `Gestures` |
| `adjust` | can the motion buttons stay borrowed with no bar that says so, or a bar that closes? | no |
| `pneumatics` | can presses, motions and recalls over-fill a cell, stretch a massage, skip a step, or leave air in? | no |
| `chair` | does every unattended move stop for a press and end by itself, a recall at its slot; can two big loads draw together, a borrowed press reach a motor, or a recall change what is remembered? | yes; no |
| `ring` | can the two ends, each stopped between any two of its accesses, lose, repeat or reorder a character, or drop one that has room? | no, but for a host's own character when its link dies; the ring refines `CharQueue` |
| `bridge` | with every access able to fail, the chair used, unplugged or reset and the bridge restarted between any two steps: can an install hurt the settings, succeed with a wrong image, start against a look it had in time, or leave the chair halted; does the link come back, and does a failed install get repaired? | no; yes |

What the `handset` run says about faults, exactly: bytes lost in overruns alone, however
many, never make a wrong button. Nor does one damaged byte on a line otherwise sound, nor an invented one,
but for one value at one place: between the length and the code, a byte of which the code is the sum (250 before
the code 4) is taken for the button, and the code for its checksum (`Disguised`). Two faults close together
can pass the one-byte sum too. And all this rests on there being nine codes, 0 to 8: of a code like 252 the
checksum is a type, and what is lost of one answer could be made up from the next. After a loss the
first intact answer may be eaten, with what was left in the register taken for the type
of a frame; the second one is heard (`Resync`).

The other three runs each show a bug: one statement of the repository's own texts that
the code does not keep. `PROJECT.json` has each with its line and the sentence it contradicts:

- `chair_axes`: a recall whose recline ends at a stop never moves the headrest, since the latch
  of the first motion refuses the second.
- `bridge_halted`: nothing looks at the result of `reset_run`, and `setup` and `update` never let a
  core go: a link that fails there, or a bridge that restarts in an install, leaves the chair
  halted, with a watchdog that the debugger has frozen.
- `bridge_retry`: a chair that loses power half written shows no debug block, and without one no
  install begins. So does nothing happen after a second install of the same image that failed half
  way: the block in RAM still names the new version, and `perform` sees no update. That
  second install does happen by itself: right after the first, `loop` judges the copy polled
  before it, and with `auto_install` begins again.

## Disagreements kept beside the runs

TLC refutes these statements as well. Each is a property with its comment in the module of
its component's properties; to see it fail, put it in place of the properties of the configuration named:

| Property | Configuration | Statement, and what the code does |
|---|---|---|
| `InrushRidesOut` | `Motion.cfg` | a motor's inrush is ridden out: a stall stretch left open by one motion is inherited by the next, which one sample of inrush then stops as a fault |
| `ArrivalReplacesEstimate` | `MotionEstimate.cfg` | an arrival corrects the position estimate: `requested` is cleared before it is read |
| `TornNeverValid` | `Settings.cfg` | "a torn record can never read as valid" (enhancements-spec.md:275): one with an unlucky sum can, as its check is one byte and erased flash is all ones |
| `HighestIndexedWins` | `Settings.cfg` | the highest valid record is live (enhancements-spec.md:269): a slot skipped after a refused first word stays erased and ends the scan before it |
| `AlwaysSilentIsReleased` | `Button.cfg` | a dead remote has nothing pressed (control.c:17): not at a wrap of the frame's age, 49.7 days later |
| `DoubleTapIsTwoPresses` | `Button.cfg` | a double tap is two presses (enhancements-spec.md:110): one press with a gap in the frames is two |
| `HoldActiveWhileHeld` | `Button.cfg` | "until the release that ends it" (button.h:63): until the next press |
| `RemembersHolds` | `Pneumatics.cfg` | only a hold is remembered (enhancements-spec.md:398): a rollover stores a firmness nobody chose |
| `PausesDoNotCount` | `Pneumatics.cfg` | a pause does not count as air (enhancements-spec.md:362): a press during it counts it |
| `RecallSetsLumbar` | `Pneumatics.cfg` | a recall applies its levels (enhancements-spec.md:591): not to a cell that is up |
| `CurrentIsAir` | `Pneumatics.cfg` | "what is in the cell right now" (pneumatics.h:76): that of the last time, while it fills |
| `InPlaceRecallRestores` | `Chair.cfg` | a recall with nothing to move restores its comfort: none of it, as the motion request of its own second tap still stands |
| `StopDoesNothingElse` | `Chair.cfg` | the button that stops a recall does nothing else (preset.h:92-94): its release still acts |
| `OneWindow` | `Chair.cfg` | "only one window is ever open at a time" (enhancements-spec.md:658): the level window opens inside the store window |
| `HoldSwitchesOn` | `Chair.cfg` | a HEAT hold switches heat on (enhancements-spec.md:158): it does not, as control.c:463-464 says |
| `NeverHaltsBusy` | `Bridge.cfg` | "Nothing may halt the chair while it is doing something" (socozi.h:116): a use that began since the last poll is not seen. `FreshHalt` is what holds |
| `NeverHaltsPumping` | `Bridge.cfg` | the same sentence: `safe_to_flash` looks at motion, heat and massage, so a core can be halted in the middle of a lumbar fill, with the pump on and nothing left to keep the ceiling of the cell |

Two more things the bridge model shows and no statement denies: a write to AIRCR that is lost lets the
core go on, over a flash that has changed under it, until the watchdog bites; and an image longer than its
region has its whole region erased before `flash_erase_page` refuses the first page past it
(the store is kept: `StoreKept`; the bound of `flash_write_words` is never reached).

## Bounds, and why they are enough

Times are a handful of units instead of thousands of milliseconds; what is kept is
their order, and passes of more than one unit (`Durations` up to 2 in the component
runs), so that every deadline is met exactly, missed by one, and overtaken by another
in the same pass. Ages stop at the largest value anything compares them with, or
wrap (`Button`), so these bounds hide no later behaviour. What else is bounded:

- `LONGEST_PAUSE` (`Pneumatics`): how long motions follow each other with no gap. Pauses are
  only ever subtracted, so a longer one differs in nothing but its length.
- `PRESSES` (`Chair`): presses in a behaviour, 4: enough for two double taps, or for a tap, a
  hold, a pick and a second window, whatever the macros do in between.
- the buttons in use: `chair` has the motion buttons of one axis both ways, `chair_axes` one of
  each axis, with the comfort buttons the properties are about. There are as many levels
  and slots as motion buttons (two), as in the code (four).
- `FIELDS`, `SLOTS`, `MODULUS` (`Settings`): records of two fields and a check that can wrap to the
  erased value, in a page of two, so that a page fills up and is erased. Flash may refuse every unit (`Refusing`) and leave in it a
  number no field has or the erased one (`Garbage`), so that a slot is also passed over with nothing in it, found
  by the next boot, and filled in front of a record that is already there.
- the stored presets (`AllSlots`, `BothAxes` in `MCChair`): at an end and in the middle of the travel, each
  comfort function in one of them.
- in the chair the bar's animation takes no time, and the relays have no stagger: `adjust` and
  `motion` have both at length.
- `Chair!ticks` is the pass counter modulo 2: it makes a pass that changes nothing else a
  step, so that the loop can go on for ever without stuttering.
- `Codes`, `Noise` (`Handset`): nothing pressed, two buttons that are also the values of the two
  frame types and one that is the length, so that every byte of a frame can be taken for every other;
  noise makes any of these, a checksum, or one of the bytes that a code can be the sum of. The number of faults is not bounded, but
  noise strikes only a line with two intact answers behind it, for the reason above; a loop held up loses
  bytes at any time. The proof has every set of codes among the nine, and every byte of noise.
- `SIZE` (`Ring`): 4, so that both indexes wrap, twice in a full ring. The proof has every size.
- `PAGE`, `STORE`, `SIZE` (`Bridge`): pages of two words, two of firmware and one of store. The image of
  three words has a last page that is not full and a word that is erased already (`Whole`); the other is
  longer than the region (`TooLong`). Failures are not bounded.

The chair's own type invariant is in its run, and types the records of button, adjuster, heat, air and
motion with it; both it and that of motion alone are proved. The other models have none among their runs'
properties, which each relate two pieces of state.

## Fairness

- `Chair`: `[]<><<TRUE>>_ticks`. The main loop takes another pass for as long as there is power (the
  watchdog resets one that does not). Every step is a `Pass`, is counted in `ticks` and is possible in every state, so
  this is weak fairness of `Next`, in a form cheap to check. It says nothing of which button or reading comes, so that `MacrosEnd` holds even
  when no arrival is ever sensed: the ceiling ends the move.
- `Handset`: `WF(Loop)`, since every wait of the loop is bounded; `WF(Arrive)`, since a byte on the wire
  arrives; and `SF(Ask)`: a poll is sent every 20 ms, though in any one pass the last byte of an answer may
  still be under way, so weak fairness would promise nothing.
- `Bridge`: `WF(Loop)` and `WF(Install)`, since ESPHome calls `loop` for ever and `install_` is one call of
  it; `WF(Watchdog)`, since it is hardware; and `SF(Update /\ ~fault')`: of polls made once a second
  for ever some go well. Strong, since polls and installs take turns, and with `~fault'`, since
  a poll that fails each time would satisfy fairness of `Update` alone. Its liveness properties also suppose `Calm`,
  that from some time on nothing goes wrong and nobody interferes, as nothing can be promised otherwise.

All other properties are safety, and deadlock is checked everywhere.

## What is proved

For all constants that satisfy the named assumptions (`MotionConstants`, `PressConstants`,
`SilenceConstants`, `SettingsConstants`, `AdjustConstants`, `WindowConstants`, `PneumaticsConstants`, `StoredTenths`,
`PassesEnd`, `MacroConstants`, `ControlConstants`, `HeatConstants`, `StoresLoaded`, `SamplesRead`, `PassesShort`, `HandsetConstants`, `RingConstants`, `SwdConstants`, `BridgeConstants`), not
only for the small instances:

- `MotionProofs`. `RelayInv` is inductive: it ties the closed contacts to the request and the point
  of the sequence, and the ages to each other. `RelaysSafe` is not inductive by itself,
  since a contact that closes is safe only because of how long all were open before, which
  the age of the request says only while the sequence is where it should be. From it:
  `TypeCorrect`, `LatchStops` and the refinement `ImplementsDrive`. One lemma per operator says what type it
  keeps, one what it changes; `PassStep` puts them together.
  `DetectInv` adds how far the counts of the two detectors, some of which outlive the motion that made them, can
  be from the true stretches of readings (`StallCounted`, `ZeroEarned`, `ZeroCounted`), how late the first contact can
  be, and that a running motor is tracked in every pass. However often a pass asks, the requests leave the
  motors as they were, stopped, or with a motion just begun and every contact open (`AskedFrom`). Either a pass looks at no reading and moves nothing
  (`QuietPass`), or it leaves the request alone (`SensingAsked`) and either closes the first contact or goes on driving
  (`SensingPass`). From it `MotorsAreCut`, `ContactsStagger`, `ArrivalsAreEarned` and `EstimateIsTravel`. `MotorsAreCut` asks that neither
  hold time is zero (4 s and 300 ms in the code): a detector always takes two readings.
- `SettingsProofs`, with nothing assumed of flash: any word may be refused or spoilt. `PageInv` holds whatever it
  does: every slot is erased or has its first word programmed (`Marked`), and the slot of a record under way is erased from
  the unit to be written on. `LogInv` says where the log ends as long as no slot was passed over erased: below
  `next_slot` something is written in every slot, from it on everything is erased, but for the record under way. From
  the two `WritesForward` and `SavesAreDurable`. With `Copied`, that what is programmed of the record under way is
  what is live, also `SavesAreAtomic`. A page with more records on it loads something else only from one of the
  new ones (`NewRecord`). Any unit but the first leaves the erased slots as they were, so the new one can only be
  the record under way (`LaterUnit`), and one whose check is still erased is valid only by the accident. The first unit lets
  the scan go further (`ScanGrows`), and what it comes upon was behind a slot passed over (`FirstUnit`).
- `ButtonProofs`. `ButtonInv` relates the ages the code reads, modulo `WORD`, to true time. From it `SilenceReleases`,
  `DoubleTaps` and the refinement `ImplementsGestures`.
- `AdjustProofs`. `WindowsClose` and `DeferralLasts`, for any number of lamps, any lengths of the phases and any
  bound on a pass, when a deferral is no longer than the window. `AdjustInv` splits the time since the bar was
  last asked for: while it fills in, into its lamps, each at most one pass late; after that, into the fill and
  the wait. A pass is time going by, perhaps a call, and `adjust_update`; `Due` is what holds before
  `adjust_update` has seen that a lamp or the wait is over. The bound on a pass is there since the code
  gives none: a loop held up for ever closes nothing.
- `PneumaticsProofs`. Everything the run checks: `NeverTwoOwners`, `CeilingHolds`, `LevelIsEarned`, `MassageAlwaysEnds`,
  `PatternResumes` and `VentsAreWhole`. What the code reads is the age of a stamp, from which the time of a pause is only
  taken out in the pass that ends the pause; what the properties speak of are histories, of the time a valve
  was really open. `IInv` relates the two in every state a pass can begin in. Two things make it
  hard. A press or a recall acts on the ages as they are before or after the update of its own pass, so an
  inflation begun in the middle of a pause is younger than the pause, and `started_before_pause` must tell it
  from one whose stamp is to be moved: `Cell` has a case for each. And a step of the pattern, the massage
  and the pause each have a deadline in the same pass. Between the calls of a pass the four parts of the
  invariant hold in a weaker form (`VentDue`, `MassageDue`, `CellDue`): one lemma for each call and each part
  says what the call makes of it, and `PassEnds` puts them together for every action but the recall, which
  calls after the update instead of before.
  `PassesEnd` asks that a pass has a longest length, and that it is shorter than `LUMBAR_SET_MS` (half a second, in the
  code; the watchdog bites a loop that is held up for long). That a pattern has a longest step is shown, by the step
  that no other one is longer than.
- `ChairProofs`. Everything the run checks but `MacrosEnd`, of which it shows the part that is safety.
  `LoadsApart` is by itself: heat, pump and motors are never driven together. The budget says
  nothing of how a pass begins; `LoadInv` adds what it needs, that a closed contact has a
  request behind it. In a pass, either something is requested when pneumatics and heat are updated, which
  then switch their loads off, and no later call switches one on (`Ask`, shown for every
  operation of the macros); or nothing is, so every contact is open, and whatever the pass
  goes on to request has to settle first (`Fresh`), for which `SETTLE` must not be zero. The proof
  needs nothing of the values in the records, only which fields they have (`Shape`).
  `GateHolds`, `PressEndsMoves`, `ClaimIsHeld`, `HeatRunsOut`, `MemoryIsByHand` and `FlattenEndsOff` come from `ChairInv`.
  Its first part is `Sound`, which holds at every point of a pass: what is on is behind an open gate, a
  flatten and a recall are never under way together, nor a recall and the store window, and a latch outlives its
  motion. The calls are sorted by what they may do: `Hushes` switches nothing on, `Serves` may, `Recalls` may
  open the gate as well; `PassSound` puts them together in the order of `control_update`. The other parts relate two passes:
  the button that is down (`ButtonDown`), what its press was taken for (`ClaimHeld`: a window that closes
  under it leaves the claim in `consumed`), and the age of the heat's stamp (`HeatClock`). The one case in which heat
  is on past its time is a recall that ends in the very pass the time is up: heat goes off, and on again (`Relit`).
  `SeeksEnd`: a recall stops at its slot. Between passes it may have driven on for the length of one (`Steers`); once
  `preset_update` has looked at the position it is still short of the slot or drives no more (`Heads`). That needs
  `PassesShort`, a pass of at most twice `MOTION_SEEK_MS` (0.8 s): a longer one could step over the
  whole window the recall stops in, and nothing in the code turns a drive round or notices that it is past its slot.
  `ChairTyped`: the types. `TypeOK` is not inductive, and where a type rests on other state `TypeInv` says so.
  A recall writes its target from the slot it was given, so one under way must have a slot in use
  (`Aimed`, from what `SeeksEnd` already needs), which holds since nothing is stored or cleared while it is. The bar's
  step is within its type only if it is within its phase (`BarState`). The level lumbar comes to is what it began with and
  what it pumps, so a target may only be pumped onto what the ceiling allows (`Fits`); the one exception is
  lumbar's own press, which the pass a macro ends in may find in a pause whose time is not yet taken out of lumbar's age:
  `TypeInv` has that press apart, and the pass after it ends it or stops at the ceiling before anything reads the base. The
  same induction shows that massage and lumbar are never both under way (`Owned`; `ValvesOwned` states it alone). That
  a pattern has a longest step is not assumed here either.
  `MovesEnd`: an unattended flatten or recall runs down. What is left of it (`Left`) is what is left of the motion under
  way, its settling and its ceiling, and while a recall is at its recline one whole motion more, for the headrest; it is never
  more than two (`TwoMotions`). By `MovesRunDown` each pass leaves less, but one that takes no time, which never leaves
  more. `RunInv` is what that rests on: a motion is past its settling once `motion_update` has seen that it is and never past its
  ceiling (`Timed`), and during a flatten nothing else is requested. So a macro ends if only time goes by; that it does end,
  which is all `MacrosEnd` adds, takes an induction over what is left, and stays with TLC.
  `ChairIsMotion` puts the two models of the motors together. `Motion` lets a pass ask for any four motions; the chair
  asks for what its buttons and macros want. `Watched` is `Spec` with the histories of `Motion` added, which constrain
  nothing, and it implements `Motion`: up to `motion_update` no call of a pass does anything to the motors but
  `motion_request`, at most one for its event, two in `preset_update` (which stops one axis and turns to the other in the same
  pass) and one at the end (`OneMore`, from `RequestAsks` to `PassAsks`). So the theorems of `MotionProofs` hold of the
  chair, cited there as they stand: `ChairMotors` and `ChairMotorsAreCut`. That needs `SamplesRead`, that a sample is a reading.
- `LinkProofs`. The two lines the loop reads bytes from. `RingIsQueue`, the refinement of `CharQueue`: the slots
  between the indexes, read in order, are the queue. The invariant adds what each end knows in the middle of its
  work: a writer that looked and saw room still has it, as the reader only makes more, and a character that was
  fetched is still the one at the reader's index.
  `ReportsAreHeard`, the refinement of `HandsetLink`, and `SecondIsHeard`. What the parser has, the receive register
  and the wire are one stream of bytes, numbered from its far end (`Nth`), so that what the parser throws away
  renumbers nothing. `LineInv` says that every four bytes of it that look like an answer are one that has not
  been heard (`Windows`), and, since a loss can leave any start of a frame in front of the next answer, which starts
  no answer can complete (`Edge`). It is what the checksum and the nine codes are good for: a sum is 7 to 18,
  neither a type nor the length. While an overrun stands the stream has a hole, and only its far end is known;
  clearing the flag throws away the near one (`AfterReset`). `LastIntact` and `BothIntact` say what is left in front of the
  last answer when nothing has happened to it, and to the one before.
- `BridgeProofs`. `Follows` says what a call over the link may do to the chair whichever of its accesses fail:
  nothing to the store, no use, no halt. It is transitive, so each operation of `Swd` is shown to follow
  from the lemmas of what it calls; the erase needs that a page that begins before a store on a page boundary
  ends before it (`StorePage`), the programming that the word is one of its chunk (`ChunkWord`). The inductive
  invariant adds to `FreshHalt` and `EndsRunning` that a chair in use says so in its block and, `Watched`, that whenever the
  bridge takes the chair for idle a use of it is younger than any poll. From it `HaltsAreFresh`,
  `InstallEndsRunning` and `StoreOutlivesInstalls`.
  `InstallsAreVerified` has an invariant of its own: while chunks are read back, every chunk before the one under way
  is the image's (`VerifyInv`). No read or relock changes flash (`ReadKeeps`, `LockKeeps`), and the chunks
  cover the image word for word, its last part included (`ChunkHolds`).

Only model-checked: the liveness properties
(`MacrosEnd`, `HeardAgain`, `LinkComesBack`, `AutoInstalls`), as liveness is out of the proof system's reach.

## Plan

Done: every part of the table above, each alone and, for the firmware, composed; three abstract
links (`Drive`, `Gestures`, `HandsetLink`) and the queue, with the refinements to them, all proved. Left, in
this order:

1. `massage_step_len` over the whole pattern and every level against the table of the specification, as a
   check of a pure function, and the real lengths for `Pneumatics`.
2. A chair in which a silent handset is not the same as no button (`Handset` under `Chair`), and one that loses
   power, over `Settings`.
3. A debug block read in several words while the core goes on writing it.
