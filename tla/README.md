# UNISIM-VP: a verification development in TLA+

UNISIM-VP is a library of SystemC/TLM-2.0 component models and the virtual
platforms built from them.  This directory holds TLA+ models of its core logic,
TLC configurations that check them on small instances, and proofs of the
properties that matter most, checked by TLAPS for every value of the constants.

## The system

| Part | State it keeps | Operations | Interacts with |
|---|---|---|---|
| SEMA42 semaphore device (`component/tlm2/memory/semaphore/.../sema42`) | one owner per gate, reset state machine, schedule of accesses | read and write of byte registers, device reset | bus masters, through `b_transport` and a completion event |
| Semaphore driver (`tlm2/mpc5777m/soft/libsys/src/drv/sema4.c`) | none but its program counter | lock, unlock, reset of a gate | SEMA42, from several cores |
| INTC interrupt controller (`component/tlm2/interrupt/.../intc`) | source latches, priority trees, a LIFO of priorities per processor, request lines, two events per processor | register accesses, latching, selection, output, acknowledge, end of interrupt, reset | devices (lines), cores (request, `p_iack`), masters (registers), SystemC kernel |
| Interrupt handler and driver (`libsys/src/core`, `libsys/src/drv/intc.c`) | nested frames, MSR[EE] | boot, prologue, ISR, epilogue | INTC, e200 interrupt input |
| SWT watchdog (`component/tlm2/watchdog/.../swt`) | lazy down counter, lock bits, unlock and service sequences, reset pulse | register accesses, service, unlock, time-out, freeze, reset | masters, reset generation, SystemC kernel |
| STM system timer (`component/tlm2/timer/.../stm`) | lazy counter, prescaler, compare channels, wake-ups | register accesses, compare match, freeze, reset | masters, INTC lines, `Schedule` |
| PIT periodic timers | lazy down counters, chained | load, reload, interrupt, DMA trigger | masters, INTC and DMAMUX lines |
| eDMA, DMAMUX | channel descriptors, arbitration state | requests, minor and major loops | slaves, INTC |
| LINFlexD, DSPI, SIUL2, XBAR, pbridge | FIFOs and routing | frames, routing, access control | pads, masters |
| `Schedule` (`kernel/tlm2/tlm.hh`) | ordered multimap of events, an event of the SystemC kernel | notify, next, cancel, clear, pause | the process of every TLM-2.0 device, blocked initiators, `sc_event` |
| Clocks and their proxies (`kernel/tlm2`) | period, start time, duty cycle | read, change | every clocked device |
| `libieee1666` SystemC kernel (`src/extra`) | event states, delta queue, schedule, sets of waiting processes, queue of runnable processes | notify, cancel, trigger, wait, next_trigger, suspend and resume, the phases | every process of a simulation |
| CAN channel, M_CAN | bus level, arbitration, error counters | frames, errors | CAN nodes |
| UNISIM kernel (`kernel/kernel.cc`) | objects, services, set-up graph | set-up, variables, stop | every component |
| Debugger, GDB server | breakpoints, run control | commands | processors |
| ISA libraries, clm models, OS translation, loaders, HTTP, tools | data, generated code, host I/O | | |

What is hard in the modelled parts: two accesses of different masters in either
order; a device reset between the issue of an access and its completion; a
write and a read that the driver needs to be one step; a selection that runs
before or after the output process of the same delta cycle; a notification that
replaces another; a handler interrupted between the vector read and the end of
interrupt; a time out that races the event it guards, and a thread started by
another one; a counter that is brought up to date only when somebody looks, so
that its wake-up must be right after every write, freeze and reset; a service
that races the watchdog's last run; an event of a device whose wake-up has been
replaced by an earlier one.  `PROJECT.json` lists each hazard with its line.

What makes each part correct:
* SEMA42 and its driver: a gate has one owner, only a complete reset sequence
  takes it away; two cores never hold one gate; blocked initiators resume.
* INTC: a source that is enabled, latched and of a higher priority than the
  processor is selected and signalled; the vector belongs to the priority.
* Handlers: priorities nest, the LIFO is balanced, sources are served.
* Event kernel: an event has one pending notification, in the queue its state
  names; a waiting process hears what ends its wait and nothing else, and then runs.
* STM: the lazy counter cannot be told from one that counts every tick; no match
  is passed over; the lines show the flags.
* SWT: a system that does not serve it is reset within a bound, one that does is
  not; a lock is opened by a key sequence or a reset only.
* `Schedule`: events are served at their dates, in order, and no initiator is
  forgotten, whatever the kernel event does with the notifications.
* DMA, CAN, kernel: see the plan.

## Modules

| Module | Models |
|---|---|
| `GateLock` | what a bank of gates promises: the abstract specification of SEMA42 |
| `Sema42` | the SEMA42 device; `MCSema42` gives it two masters and a set of accesses |
| `Sema42_proofs` | its type correctness, `WaitingHoldsKey` and the refinement of `GateLock` |
| `Sema4Driver` | the cores of the system library on the device (extends `Sema42`) |
| `Sema4Driver_proofs` | mutual exclusion of the driver, and that a reset frees its gate |
| `Intc` | the interrupt controller; `MCIntc` gives it sets of accesses |
| `Intc_proofs` | type correctness and the safety invariants of the controller: no selection or output is forgotten, the trees are sound |
| `IntcHandler` | cores booting and nesting handlers on the controller; `MCIntcHandler` sets up sources |
| `IntcHandler_proofs` | the stacks of the handlers are balanced and rise in priority; the invariants of the controller with cores on it |
| `SimKernel` | the event kernel of libieee1666; `MCSimKernel` gives each run its calls and waits |
| `SimKernel_proofs` | its type correctness and every safety property of the event kernel |
| `EagerTimer` | a timer that counts every tick: the abstract specification of the STM |
| `Stm` | the system timer; `MCStm` gives it a set of accesses |
| `Stm_proofs` | its type correctness, `NoMatchIsPassed`, `LineShowsFlag` and the refinement of `EagerTimer` |
| `Swt` | the watchdog; `MCSwt` gives it its keys and a set of accesses |
| `Swt_proofs` | type correctness and every safety property of the watchdog |
| `Calendar` | events served at their dates: the abstract specification of `Schedule` |
| `Schedule` | the schedule of a device, its kernel event, its process and its initiators; `MCSchedule` checks it |
| `Schedule_proofs` | type correctness, `WakesInTime`, `NeverLate`, `NoneForgotten` and the refinement of `Calendar` |

### SEMA42 and the driver

`gate[g]` is the field GTFSM of SEMA42_GATEg: 0 free, `m + 1` locked by master
`m`.  `sema42_rstgt_w` and `sema42_rstgt_r` are the two faces of SEMA42_RSTGT.
`schedule` and `response` are the event queue of the device and the completion
events: `b_transport` puts an access in the schedule, `Process` runs it,
`b_transport_return` resumes the master.  A write that covers several registers
changes them in the order of their addresses and stops at the first unmapped
byte.  A gate number between NUM_GATES and MAX_GATES makes `ResetGate` index
past the array; the model lets that clear nothing or the register that follows.

`Sema4Driver` gives every core a program counter over the statements of
`sema4_lock_gate`, `sema4_unlock_gate` and `sema4_reset_gate`; a statement that
touches the device is one access.  `held`, `unfreed` and `resets` are history:
the gates a core has got, whether the gate it resets has stayed locked, and the
number of its resets.  `PPC_WAIT` is taken as an instruction that may wait for
ever, or as nothing when `NO_PPC_WAIT`.

### INTC

Every variable has the name of the member it models: `irqs` the source latches,
`priority_tree`, `lifo`, `irq_b` (the level to output), `p_out` (the wires
themselves), `irq_select_event` and `gen_irq_b_event` (the delay before each
fires, or `Never`), `runnable` (the processes of this evaluation phase).
`IRQ_Select_Process` and `IRQ_B_Process` of a processor run in any order, as the
standard leaves it open: both orders occur in the kernels the library builds
with.  A signal write takes effect at once, while the real one does at the end
of the phase: the only process that reads it back cannot run twice in a phase.
`Delta` and `Tick` are the next delta cycle and one unit of time (`Cycle` units
to a clock cycle); a notification replaces a later one, and gives way to an
earlier one.

`Access` is one register access: several INTC_SSCIR may be written by one, in
the order of their addresses and up to the first that is refused.  The write of
INTC_EOIR on an empty LIFO pops an empty `std::stack`: the LIFO is `Corrupt`
from then on and its top may be any priority.  A reset leaves the latches, the
LIFOs, `irq_b` and the wires as they are.  `phase` and `since` are time modulo
the clock and time since the last negation, capped.

`IntcHandler` composes the controller with cores: `boot` is the step of
`intc_init`, `frames` the nested runs of `IVOR4_Handler` with the vector each
has read, `busy` an access that has not completed.  `TakeInterrupt` is the e200
interrupt input: request line low and MSR[EE] set, which `EE` derives from the
step.  `wrteei 0` and the write of INTC_EOIR are one step, and so are the read of
INTC_IACKR and `wrteei 1`, which comes after the access has completed.

### Event kernel

Events and processes are constants, each process with a time out event of its
own as in the code.  `state` is the field of `sc_event`; `delta_events` and
`schedule` are the queues of `sc_kernel` without the cancelled entries.  An entry
of the schedule holds the delay that is left, and whether the event's
`timed_kernel_event` points to it: an earlier notification leaves the later one
in the schedule with `current` false.  Two leftovers of one event at one date
are one entry.  `next_trigger` is `next_trigger_type` (a method) or `wait_type` (a thread)
with its arguments, and `remaining_count` the unsigned count of a list, of which
any wrapped value is `Wrapped`.

`runnable[p]` counts the places of `p` in the vectors of runnable processes and
`trigger_requested` is the flag that keeps it to one place.  The entries put in
by `initialize` have no flag.  Methods run before threads; a thread that waits
hands over to the next runnable one (`Yield`), and only the main loop takes the
flag away (`Run`).  Beyond that, the order in which processes run and
notifications are delivered is left open, where the code has one: the properties
hold in any order, and the counterexamples are behaviours of the code's order.

`Calls` and `Waits` say what a process may do in a run: the program simulated is
the environment.  A disabled process that is triggered loses its place in the
set of the event, as in the code; a suspended one is put off.  Immediate
notification cancels before it triggers, in one step.

### STM

The unit of time is the main clock's period.  `since` is the time since
`last_counter_run_time`, `schedule` the wake-ups and `payloads` the accesses that
are due.  A run of `Process` is three kinds of step which nothing interrupts
(`running`): `RunCounter` brings STM_CNT up to date and compares, `ProcessEvent`
takes one access, `ScheduleRun` schedules the next wake-up and latches the freeze.
Every run leaves one more wake-up, because none is ever cancelled: `schedule` is
a set, and two wake-ups of one date are one.  `IRQ_Process` outputs the level of
one line.  `SetDebug` does not run `Process`: `next_trigger` overrides its static
sensitivity, so the input is latched by the next run.  `RollOver` is 2^32 in the
code, and 4 in the run, so that the counter rolls over within a few steps.

`EagerTimer` counts tick by tick and must signal a match before it counts on.  The
mapping computes what the lazy counter would be now from STM_CNT and `since`, and
a match is `due` from its tick to the run that compares.

### SWT

The unit of time is the watchdog clock's period; the 10 ns pulse of the reset
output begins and ends at one date.  The device is one record, and an access a
function on it, in the order of the code: run the counter if the register is
reached (`Reached`), then refuse silently (`IsRefused`, a locked register), treat
as invalid (`IsForbidden`: unmapped, or a master that SWT_CR[MAP] shuts out),
write, or take the code of SWT_SR first for the unlock sequence and then for the
service sequence.  `run_event` is the notification `down_counter_run_event` knows
of and `wakeups` the delays of all that will trigger it, those it replaced included.

`left` and `overdue` are history: the down counter had it counted every period,
and how long the watchdog has been on with nothing left.  They are what
`CountsEveryPeriod`, `BitesInTime` and `NeverBitesEarly` compare the device with;
no action reads them.  No access is made while the watchdog is frozen: the delay
of the next run is counted from a last run that a frozen counter does not move,
and the subtraction is unsigned.

### Schedule

`schedule` is the sequence of the events in the order of their keys, equal keys
in the order of arrival (`std::multimap`), `due` the delay left to each one's date.
`kernel_event`, `delay` and `leftovers` are the `sc_event` of the schedule as
`SimKernel` has it: an earlier notification replaces the one the event knows of,
and the replaced one stays in the queue of the kernel as a leftover that triggers
but cannot be cancelled.  `process` is the method of the device: `Run`, then
`GetNextEvent` until there is none due, which notifies the kernel again for the
first that remains.  `Tick` passes time whatever is in the schedule: the kernel
knows of its own notifications only, so that a lost wake-up shows as an event
past its date.  `blocked` are the initiators in `b_transport`; `Clear`, called
by a reset, leaves them there, and `cleared` remembers them.

`Cancel` erases the first event with an equal key.  Its only caller, the n25q
flash, cancels the end of an operation, and is taken to do so while no other
event of the date came before it.

`Calendar` gives each event noted a date and the events of that date noted before
it, and serves it when both are used up; time waits for what is due.  The mapping
takes the dates from `due`, the events ahead from the positions in `schedule`, and
who waits from `blocked`.  An event that an initiator waits for cannot be cancelled
in `Calendar`, so that its turn and its answer are promised.

## Runs

| Run | Question | Bounds |
|---|---|---|
| `sema42` | does the device implement `GateLock` and answer every access, with bursts, broken reset sequences and resets? | 2 masters, 2 gates, 1 number without a gate |
| `sema4_lock` | mutual exclusion, and a wanted gate is granted | 3 cores, 2 gates |
| `sema4_reset` | a reset ends, and only when the gate has been free | 2 cores, 1 resetter, 1 reset |
| `intc` | no selection or output is forgotten, trees follow the registers | 1 processor, 3 sources, 2 acts per cycle, LIFO of 2 |
| `intc_signal` | what can be signalled is | 1 processor, 2 sources |
| `intc_handler` | balanced LIFO, nesting raises priority, the highest source is served | 2 cores, 3 sources, one shared |
| `simkernel` | a waiting process hears what ends its wait and no more, its time out ends it, and it is queued once | 1 method, 1 thread, 2 events, 7 waits, 3 acts per instant, the thread initialised |
| `simkernel_control` | states and queues agree, and suspend and resume lose no run | 1 method, 2 threads, delays 0 to 2, 2 acts per instant |
| `simkernel_pause` | *violated*: does the end of a wait make the thread runnable? | 2 threads that pause |
| `stm` | is the lazy counter a counter that counts every tick, are matches seen, do lines show flags, do matches recur? | 2 channels, roll-over after 4 ticks, prescaler 1 or 2, 4 acts in all |
| `swt` | does the watchdog count, bite in time and never early, do locks hold, does time go on? | 2 masters, counts to 3, polling period 2, 13 accesses in 4 configurations, 1 act per date |
| `schedule` | are events served at their dates and in order, is nobody forgotten, is everybody answered? | 4 events, 2 with an initiator, delays 0 to 3, 3 acts per date |

The bounds are enough for what they are meant for: a gate can be contended and
handed on with two or three cores, the second gate tells a gate from the bank,
and the number without a gate reaches the overrun.  The INTC needs a source the
reset loop reaches and one it does not, two priorities above the reset value for
nesting, and a second processor for a shared source.  `MaxActs` bounds what the
environment does between two units of time; an access takes a cycle, so two
acts are a race of a master with a line.  `MaxDepth` bounds the LIFO in guards;
the handlers never reach it, the free masters do.
The event kernel needs one method and one thread for both kinds of process, a
second thread for the hand-over, two events for lists, and delays on both sides of
a time out; `MaxActs` bounds what happens at one instant and starts again when
time advances.

The STM needs a second channel whose match comes between two of the first, a
counter that rolls over, and `MaxTime` equal to a whole turn: wake-ups of all kinds
then meet.  Four acts set up a channel, enable it and disturb it.  The watchdog
needs a load below and one above the polling period and few enough codes that an
unlock code is also a service key.  The schedule needs two events of one date, one
before and one after them, and a third act to cancel one; `Horizon` puts leftovers
before, at and after the date of an event.

Some properties hold under a condition that the run states by its calls.
`QueuedOnce` needs that the
processes to initialise do not notify each other at once during the first
evaluation, because `initialize` queues them without their flag (`InitialsApart`).
`SensitiveIsWaiting` needs that, and that
no process notifies its own static event at once.  `WaitingIsSensitive`
is not claimed for disabled processes.  `EndedWaitRuns` needs a single thread
that does not make itself runnable (`simkernel_pause`).  `ResetGateFrees` needs
resetters other than core 0, once each (`FirstResets`).  `NestingRaisesPriority` needs cores that
agree on the sources they share (`SetupAgrees`).  `NoMatchIsPassed` and `IsEagerTimer` need
`SteadyPrescaler`: the counter is enabled with its greatest prescaler only, since a
prescaler lowered while it counts makes the wake-up late.  `TimeGoesOn` exempts a
watchdog that stays frozen, and `NoneForgotten` and `Answered` what a reset has
cleared; the code does hang, and forget, there.

## Fairness

A due access of SEMA42 is run and a pending completion is delivered, because the
kernel runs every event that is due; a core keeps executing.  `Retry` is fair
only when PPC_WAIT is nothing.  In the INTC the runnable processes are run and
time advances (weak fairness of `Delta` and `Tick`): the bound on acts per unit
of time excludes the behaviours in which the environment prevents it for ever.
In `IntcHandler` each core is weakly fair as a whole.  In `SimKernel` the kernel
goes on, as its loop does, and a process that runs comes to its return or wait:
a process that never does stops a cooperative kernel.
In `Stm`, `Swt` and `Schedule` the kernel is weakly fair: it runs the processes
that are runnable, triggers what is notified and goes to the next date, as its loop
does.  The accesses, the inputs and the resets are not fair: they may stop.

## Proofs

All proofs are for arbitrary constants that satisfy the named assumptions.

* `Sema42_proofs`: `TypeCorrect`, `WaitingHoldsKeyAlways` and
  `DeviceKeepsLockPromise`.  The invariant of the refinement is the type
  invariant with `WaitingHoldsKey`; each action maps to an access of one master,
  an arm, a disarm, a clear or a stutter.
* `Sema4Driver_proofs`: `MutualExclusionHolds`.  The inductive invariant says
  which access each statement has in flight, that a read in flight has its
  true value, and that a core that holds a gate, or is about to get it, is
  named by the gate.  `ResetsFree`, under `FirstResets`: RSTGMS has the number of a
  core only once that core has made its second write, which has freed its gate, and a
  read of RSTGMS that is still to be collected is no older.  Any number of cores may
  reset at once.  Core 0, and a second reset by one core, are excluded: both find their
  number in RSTGMS before they have reset anything.
* `Intc_proofs`: `TypeCorrect`, `OutputNotMissed`,
  `SelectionNotMissed` and `TreeAlwaysSound`.  The three safety invariants are
  inductive with the type invariant.  `KernelKeeps` says that a delta cycle or a
  unit of time turns a notification into a runnable process or a nearer one;
  `SelectionKept` that only processors with a selection coming may gain
  candidates or have their request withdrawn.  The tree invariant is weaker than
  the comment in intc.hh (see Findings): exact for the sources the reset
  loop reaches, sound for the others.
* `IntcHandler_proofs`, in four layers, each inductive with those before it:
  `HandlerTypeOK`; `StackInv`, that a LIFO holds a priority for each frame between its
  read of INTC_IACKR and its write of INTC_EOIR and one for the start-up code, which
  gives `HandlersAreBalanced`; `LinesInv`, that a line about to be negated is negated
  before the core it belongs to samples it, so that a handler acknowledges a request that
  is still made; and `NestInv`, that the source selected for a request beats
  the current priority and the priorities saved below it fall, which gives `HandlersRise`.
  The last needs `SetupAgrees`: a core that starts late may otherwise write a lower
  PRIN to a source another core has selected.  `HandlersAreBounded` draws
  from it that a LIFO never holds more than `MaxPriority + 1` entries, so that
  a `MaxDepth` that is not lower leaves out no behaviour.  `HandlerTreesSound` and
  `HandlerNothingMissed` carry the invariants of the controller over to the cores.
* `SimKernel_proofs`: `TypeCorrect`, `PendingAlwaysQueued` and
  `PutOffAlwaysSuspended`.  The three invariants are inductive together.
  `EndedIsQueued` covers whatever ends notifications (`cancel`, `trigger`);
  `NotifyTimedIsQueued` that the overwritten entry is never the only one;
  `AdvanceKeeps` that time goes to the first entry, so no delay is negative.
  Three more layers are built on them, each for the uses of the kernel that its
  property needs:
  - `AlwaysQueuedOnce`, under `InitialsApart`: a process in the queue without a request
    is one that has not had its first run, and nothing that runs before it triggers it.
  - `NothingLeftFromAWait`, under `PlainWaiting` (no process is suspended or notifies
    its own static event at once, and waits have the shapes `wait` and
    `next_trigger` give them): a process in the queue waits for nothing, the process
    that runs is in no set, and the count of an AND list is never less than the number
    of the events still to come; so it reaches 0 with the last of them only, and
    nothing is left when a wait ends.
  - `WaitsAreHeard`, when no process is disabled either: the count is that number, the
    sets are complete and a time out is notified.
  `NoEndedWaitIsLost` needs `OneThread` and `NoSelfRequest` only, and covers suspended
  and disabled processes: a request is remembered only while its process is in the
  queue.  `simkernel_pause` shows that a second thread breaks it.  `MCSimKernel` has TLC check
  that the calls and waits of the runs satisfy these conditions.
* `Stm_proofs`: `TypeCorrect`, `LinesAlwaysShowFlags` and, under `SteadyPrescaler`,
  `NoMatchIsEverPassed` and `LazyIsEager`.  `TimerInv` says that outside a run some wake-up is due
  no later than the next match of any enabled channel, and that during one less than
  a tick is left; the division by the prescaler is in lemmas on ticks.
  The refinement adds `FrozenEarly`: a frozen counter has less than a tick of the
  greatest prescaler behind it.  `DivisionIs` and `NextUnit` say how the ticks of a
  time grow with it, `MeetAtMatch` that the counter meets a compare value at the tick
  computed for it and not before, and `CountOn` that the roll-over may be taken tick
  by tick.
* `Swt_proofs`: `TypeCorrect`, `EveryPeriodIsCounted`, `RunsAreInTime`, `LocksHold`,
  `BitesAreDue` and `BitesAreInTime`.  The inductive invariant is the type invariant
  with `CountsEveryPeriod`, no access due while frozen, and `Scheduled`: the
  notification that stands wakes the process no later than the time
  `TimeToNextDownCounterRun` gives from the last run.  For `BitesInTime`, `Bite` adds
  what an overdue watchdog has left: one polling period before its run, and
  another when the interrupt comes first.  `RunsInTime`, which no run
  checks on its own, is the warning of `DecrementDownCounter` for a count above 0.
* `Schedule_proofs`: `TypeCorrect`, `WakesAreInTime`, `NothingIsLate`,
  `NobodyIsForgotten` and `ScheduleIsCalendar`.  The inductive invariant is the order of the schedule, that a
  timed notification is not due now, that no event is past its date, and that a
  process that waits is woken for every event, by the notification the event knows of
  or by a leftover.  `InsertInOrder` and `EraseInOrder` are about any sequence;
  `FirstWakesAll` says why a notification for the first event is enough.  For the
  refinement, `InsertPrecedes` and `ErasePrecedes` say what a change of the
  sequence does to the order of two events in it.

Every invariant and every action property of the passing runs, and every refinement,
is stated by a theorem.  Model-checked only are the liveness properties
(`EveryAccessReturns`, `GateIsGranted`, `ResetReturns`, `Signalled`,
`HighestIsServed`, `TimesOut`, `MatchesRecur`, `TimeGoesOn`, `Answered`), whose
fairness and ENABLED the provers do not reason about, and what follows from the
`violation` run.

## Findings

The `violation` run shows a place where the code does not do what a line of the
repository says:
* `simkernel_pause`: a thread started by another thread keeps its request flag,
  later triggers are taken for repeated ones, and it never runs again.

Other disagreements met while modelling, which the models reproduce or leave out
as said, and no run of their own states:
* `sema4.c:97`: a reset by core 0 ends after the first key, because RSTGMS is 0 after
  reset and after that write; `sys.c:340` resets all the gates at boot this way.  So
  does the next reset of the core that was the last to complete one.
* `intc.tcc:1133`: a higher source that arrives before an acknowledge is selected
  before the request is negated, and the next handler runs the old vector at the new
  priority (`intc.hh:416`: "Priority of the currently executing ISR").
* `event.cc:194`: an earlier timed notification leaves the later one in the queue, so
  that the event comes twice and `cancel` cannot reach it (comment at `event.cc:188`).
* `sema42.tcc:235`: a write of RSTGTN alone arms the reset machine when RSTGDP
  still holds the first key (that is why `WaitingHoldsKey` speaks of the register
  and not of the write).
* `intc.tcc:687`: a reset clears the trees, but its loop over `intc_psr_hw` stops at
  NUM_SW_IRQS, so the trees are no mirrors of the INTC_PSR (`intc.hh:825`) for the
  sources past it.  `TreeIsSound` states, and `TreeAlwaysSound` proves, what is left.
* `intc.hh:612`: any write to an INTC_SSCIR without SET lowers the flag, a write of
  0 to CLR included.
* `method_process.cc:297`, `thread_process.cc:315`: the number of events to come of a
  list with a time out is never set.
* `event.cc:231`: a method that notifies its own static event at once runs again
  before what it waits for.
* `kernel.cc:543`: the processes to initialise are queued without their flag and may
  be queued again in the first evaluation phase.

* `stm.tcc:192`, `:512`: the debug input and the clock are in the static sensitivity of
  `Process`, which `next_trigger` overrides: a change is seen at the next run.
* `stm.tcc:636`: a prescaler lowered while the counter counts makes the pending
  wake-up late, and a match is passed over.
* `stm.tcc:668`: channels are compared with STM_CR[TEN] clear too; writing STM_CNT
  equal to STM_CMPn gives no match before the counter has rolled over.
* `stm.tcc:674`: each run of the counter leaves one more wake-up that nothing cancels.
* `swt.tcc:585`: SWT_IR[TIF] is set and the event of the line notified, but no process is
  registered that outputs it; `simulator.cc:2786` connects the line.
* `swt.tcc:634`: the counter is not loaded at the first time-out, so that the next
  run of it, an access of one period later included, resets the system.  The counter
  then runs below 0 at once, which `swt.tcc:616` calls a problem of the model.
* `swt.tcc:716`: a frozen watchdog is run again and again at one date.
* `swt.tcc:486`, `:747`: the date of the last run is put forward to the next edge of
  the clock, and an access before it subtracts the other way, unsigned.
* `swt.tcc:488`: the reset clears the schedule; initiators in it stay blocked.
* `swt.tcc:817`: SWT_SK moves on with every write of SWT_SR in keyed mode, unlock codes
  included; the place in the service sequence is kept when the mode changes.
* `swt.tcc:900`: the comment on SWT_CO says the opposite of the code.
* `tlm.hh:445`: `Schedule::Cancel` erases the first event with an equal key, whichever it
  is; `n25q.tcc:2689` cancels an event it does not forget.
* `tlm.hh:565`: `Unpause` inserts the shifted events ahead of its iterator and does not
  end with events in the schedule; `Pause` of an empty schedule does nothing; a
  paused schedule still notifies.
* `tlm.hh:516`: `Clear` forgets the initiators of the accesses it drops.

## Plan

1. (done) SEMA42 and its driver; INTC and its handlers; the event kernel of
   `libieee1666`.
2. (done) `Schedule` with `Calendar`; the STM with `EagerTimer`; the SWT.
3. PIT on the scheme of `Stm`, with chained channels; the STM and SWT on `Schedule`
   and with the INTC lines.
4. `wait(n)`, `kill`, `reset` and the limits of `sc_start` in `SimKernel`.
5. `Edma` with the DMAMUX, then compositions with INTC.
6. CAN channel and M_CAN; kernel set-up order; debugger run control.
7. (done) Proofs of every safety property: the stacks of the handlers, what waiting
   processes hear, the resets of the driver.
8. Proofs: gates no core resets stay exclusive while others are reset; the invariants
   of items 3 to 6.

## Not modelled

Of the modelled devices: accesses of the debugger (`transport_dbg`, register
interfaces), which do not change what programs see; changes of a clock;
the accesses of the INTC that wait in its schedule; SWT_CO; accesses to a frozen
watchdog; `Pause` and `Unpause` of `Schedule`, since a step that does not end is no
step.  The PIT is lazy as the STM is, with chained down counters in its place.
The instruction set simulators are generated or are data.  Loaders, HTTP, telnet and
the operating system translation are I/O.  The models cover the core of one platform,
the MPC5777M, and the kernel under it; they are a small part of the repository,
most of which is instruction sets, register files, other platforms and tables.
Formatting and logging are left out everywhere.
