--------------------------------- MODULE Stm ---------------------------------
(***************************************************************************)
(* The system timer module of the MPC57xx (component/tlm2/timer/freescale/ *)
(* mpc57xx/stm).  The counter is lazy: STM_CNT is brought up to date only  *)
(* when Process runs, for an access or for a wake-up that the previous run *)
(* scheduled at the date of the next comparison match.  A match is seen    *)
(* only by a run that finds the counter equal to STM_CMPn.                 *)
(*                                                                         *)
(* The unit of time is the period of the main clock, whose first rising    *)
(* edge is at date 0, and dates are delays from now.  The schedule serves  *)
(* a wake-up exactly at its date (Schedule), and the events of one date in *)
(* one run of Process, which no other process interrupts: RunCounter opens *)
(* the run, ProcessEvent takes one access and ScheduleRun closes the run.  *)
(* Accesses of the debugger and changes of the clock are not modelled.     *)
(***************************************************************************)
EXTENDS Integers, FiniteSets

CONSTANTS Channels,   \* the NUM_CHANNELS channels
          RollOver,   \* roll_over_ticks: 2^32 in the code
          MaxTime,    \* max_time_to_next_counter_run
          MaxCPS,     \* greatest prescaler: 255 in the code
          Requests,   \* the accesses made
          MaxActs     \* bound on the acts of the environment

Counts == 0 .. (RollOver - 1)

\* A write of a register, or a read of any.
Request == [op : {"cr"}, CPS : 0 .. MaxCPS, FRZ : BOOLEAN, TEN : BOOLEAN]
           \union [op : {"cnt"}, CNT : Counts]
           \union [op : {"ccr"}, n : Channels, CEN : BOOLEAN]
           \union [op : {"cir"}, n : Channels, CIF : BOOLEAN]
           \union [op : {"cmp"}, n : Channels, CMP : Counts]
           \union [op : {"read"}]

ASSUME CountersAssumption == RollOver \in Nat \ {0} /\ MaxTime \in Nat \ {0} /\ MaxCPS \in Nat
ASSUME RequestsAssumption == Requests \subseteq Request
ASSUME BoundsAssumption   == MaxActs \in Nat

VARIABLES
  stm_cr,        \* CPS, FRZ and TEN of STM_CR
  stm_cnt,       \* STM_CNT, as of the last run
  stm_ccr,       \* channels whose CEN bit is set
  stm_cir,       \* channels whose CIF flag is set
  stm_cmp,       \* stm_cmp[n]: STM_CMPn
  irq_level,     \* channels whose output is to be high
  gen_irq_event, \* channels whose IRQ_Process is to run
  irq,           \* channels whose output is high
  freeze,        \* latched: the counter is frozen
  since,         \* now - last_counter_run_time; it stands still while frozen,
                 \* when nothing depends on it
  schedule,      \* delays of the wake-ups
  payloads,      \* accesses due now
  running,       \* Process runs
  debug,         \* the debug input
  acts           \* acts of the environment

registers == <<stm_cr, stm_cnt, stm_ccr, stm_cir, stm_cmp>>
outputs   == <<irq_level, gen_irq_event, irq>>
vars      == <<registers, outputs, freeze, since, schedule, payloads, running, debug, acts>>

ControlReset == [CPS |-> 0, FRZ |-> FALSE, TEN |-> FALSE]

TypeOK ==
  /\ stm_cr \in [CPS : 0 .. MaxCPS, FRZ : BOOLEAN, TEN : BOOLEAN]
  /\ stm_cnt \in Counts
  /\ stm_ccr \in SUBSET Channels
  /\ stm_cir \in SUBSET Channels
  /\ stm_cmp \in [Channels -> Counts]
  /\ irq_level \in SUBSET Channels
  /\ gen_irq_event \in SUBSET Channels
  /\ irq \in SUBSET Channels
  /\ freeze \in BOOLEAN
  /\ since \in Nat
  /\ schedule \in SUBSET Nat
  /\ payloads \in SUBSET Requests
  /\ running \in BOOLEAN
  /\ debug \in BOOLEAN
  /\ acts \in 0 .. MaxActs

\* Reset at the end of elaboration; Process is run once at the start.
Init ==
  /\ stm_cr = ControlReset
  /\ stm_cnt = 0
  /\ stm_ccr = {}
  /\ stm_cir = {}
  /\ stm_cmp = [n \in Channels |-> 0]
  /\ irq_level = {}
  /\ gen_irq_event = Channels
  /\ irq = {}
  /\ freeze = FALSE
  /\ since = 0
  /\ schedule = {MaxTime}
  /\ payloads = {}
  /\ running = TRUE
  /\ debug = FALSE
  /\ acts = 0

-----------------------------------------------------------------------------
(***************************************************************************)
(* The counter.                                                            *)
(***************************************************************************)

\* The period of the prescaled clock (UpdatePrescaledClockPeriod).
Period == stm_cr.CPS + 1

\* Ticks of the prescaled clock from the last run to the next match of a channel.
TicksToInterrupt(n) ==
  IF stm_cnt < stm_cmp[n] THEN stm_cmp[n] - stm_cnt ELSE RollOver - stm_cnt + stm_cmp[n]

\* Mutant of TicksToNextCounterRun: the latest of the next matches.
LastMatch(t) ==
  /\ \E n \in stm_ccr : t = TicksToInterrupt(n)
  /\ \A n \in stm_ccr : t >= TicksToInterrupt(n)

\* t is the number of ticks to the next match of an enabled channel.
TicksToNextCounterRun(t) ==
  /\ \E n \in stm_ccr : t = TicksToInterrupt(n)
  /\ \A n \in stm_ccr : t <= TicksToInterrupt(n)

\* Mutant of TimeToNextCounterRun: the counter is polled.
PollTime(d) == d = MaxTime

\* d is the delay to the next run: to the next match, if there can be one.
TimeToNextCounterRun(d) ==
  IF stm_cr.TEN /\ stm_ccr # {}
  THEN \E t \in 1 .. RollOver : TicksToNextCounterRun(t) /\ d = Period * t
  ELSE d = MaxTime

SetIRQLevel(N, level) ==
  /\ irq_level' = IF level THEN irq_level \union N ELSE irq_level \ N
  /\ gen_irq_event' = gen_irq_event \union N

-----------------------------------------------------------------------------
(***************************************************************************)
(* The process of the device.                                              *)
(***************************************************************************)

\* Mutant of IncrementCounter: 33 bits.
IncrementUnbounded(delta) == IF stm_cr.TEN THEN stm_cnt + delta ELSE stm_cnt

IncrementCounter(delta) == IF stm_cr.TEN THEN (stm_cnt + delta) % RollOver ELSE stm_cnt

\* Mutant of CompareCounter: a match is not sent to the output.
CompareSilently(cnt) ==
  /\ stm_cir' = stm_cir \union {n \in stm_ccr : cnt = stm_cmp[n]}
  /\ UNCHANGED <<irq_level, gen_irq_event>>

CompareCounter(cnt) ==
  LET match == {n \in stm_ccr : cnt = stm_cmp[n]}
  IN stm_cir' = stm_cir \union match /\ SetIRQLevel(match, TRUE)

\* Mutant of RunCounterToTime: the time left over from the last tick is lost.
RunCounterForgetful ==
  LET delta == since \div Period
  IN IF freeze \/ delta = 0
     THEN UNCHANGED <<stm_cnt, since, stm_cir, irq_level, gen_irq_event>>
     ELSE /\ stm_cnt' = IncrementCounter(delta)
          /\ since' = 0
          /\ CompareCounter(stm_cnt')

\* Whole ticks are counted and the rest is left for later; the comparison is
\* made whenever a tick has passed, with the counter enabled or not.
RunCounterToTime ==
  LET delta == since \div Period
  IN IF freeze \/ delta = 0
     THEN UNCHANGED <<stm_cnt, since, stm_cir, irq_level, gen_irq_event>>
     ELSE /\ stm_cnt' = IncrementCounter(delta)
          /\ since' = since % Period
          /\ CompareCounter(stm_cnt')

\* An event of the schedule is due: Process runs the counter and takes the wake-ups.
RunCounter ==
  /\ ~running
  /\ 0 \in schedule \/ payloads # {}
  /\ running' = TRUE
  /\ schedule' = schedule \ {0}
  /\ RunCounterToTime
  /\ UNCHANGED <<stm_cr, stm_ccr, stm_cmp, irq, freeze, payloads, debug, acts>>

\* The latched freeze; a counter that starts again has its last run now.
RefreshFreeze(FRZ) ==
  /\ freeze' = (debug /\ FRZ)
  /\ since' = IF freeze /\ ~freeze' THEN 0 ELSE since

Write(r) ==
  \/ /\ r.op = "cr"
     /\ stm_cr' = [CPS |-> r.CPS, FRZ |-> r.FRZ, TEN |-> r.TEN]
     /\ RefreshFreeze(r.FRZ)
     /\ UNCHANGED <<stm_cnt, stm_ccr, stm_cir, stm_cmp, irq_level, gen_irq_event>>
  \/ /\ r.op = "cnt"
     /\ stm_cnt' = r.CNT
     /\ UNCHANGED <<stm_cr, stm_ccr, stm_cir, stm_cmp, irq_level, gen_irq_event, freeze, since>>
  \/ /\ r.op = "ccr"
     /\ stm_ccr' = IF r.CEN THEN stm_ccr \union {r.n} ELSE stm_ccr \ {r.n}
     /\ UNCHANGED <<stm_cr, stm_cnt, stm_cir, stm_cmp, irq_level, gen_irq_event, freeze, since>>
  \/ /\ r.op = "cir"
     /\ stm_cir' = IF r.CIF THEN stm_cir \ {r.n} ELSE stm_cir
     /\ SetIRQLevel({r.n}, r.n \in stm_cir')
     /\ UNCHANGED <<stm_cr, stm_cnt, stm_ccr, stm_cmp, freeze, since>>
  \/ /\ r.op = "cmp"
     /\ stm_cmp' = [stm_cmp EXCEPT ![r.n] = r.CMP]
     /\ UNCHANGED <<stm_cr, stm_cnt, stm_ccr, stm_cir, irq_level, gen_irq_event, freeze, since>>
  \/ /\ r.op = "read"
     /\ UNCHANGED <<registers, irq_level, gen_irq_event, freeze, since>>

ProcessEvent(r) ==
  /\ running
  /\ r \in payloads
  /\ payloads' = payloads \ {r}
  /\ Write(r)
  /\ UNCHANGED <<irq, schedule, running, debug, acts>>

\* The end of ProcessEvents: ScheduleCounterRun and RefreshFreeze.  Each run
\* leaves one more wake-up; none is ever cancelled.
ScheduleRun ==
  /\ running
  /\ payloads = {}
  /\ running' = FALSE
  /\ \E d \in 1 .. (MaxTime + RollOver * (MaxCPS + 1)) :
       TimeToNextCounterRun(d) /\ schedule' = schedule \union {d}
  /\ RefreshFreeze(stm_cr.FRZ)
  /\ UNCHANGED <<registers, outputs, payloads, debug, acts>>

IRQ_Process(n) ==
  /\ ~running
  /\ n \in gen_irq_event
  /\ gen_irq_event' = gen_irq_event \ {n}
  /\ irq' = IF n \in irq_level THEN irq \union {n} ELSE irq \ {n}
  /\ UNCHANGED <<registers, irq_level, freeze, since, schedule, payloads, running, debug, acts>>

-----------------------------------------------------------------------------
(***************************************************************************)
(* The environment and time.                                               *)
(***************************************************************************)

Act == ~running /\ acts < MaxActs /\ acts' = acts + 1

b_transport(r) ==
  /\ Act
  /\ payloads' = payloads \union {r}
  /\ UNCHANGED <<registers, outputs, freeze, since, schedule, running, debug>>

\* A change of debug does not run Process, which waits for its schedule only
\* (next_trigger) in spite of its static sensitivity.
SetDebug ==
  /\ Act
  /\ debug' = ~debug
  /\ UNCHANGED <<registers, outputs, freeze, since, schedule, payloads, running>>

\* RESET_B_Process.  The counter is not brought up to date, and the schedule
\* keeps its events.
Reset ==
  /\ Act
  /\ stm_cr' = ControlReset
  /\ stm_cnt' = 0
  /\ stm_ccr' = {}
  /\ stm_cir' = {}
  /\ stm_cmp' = [n \in Channels |-> 0]
  /\ SetIRQLevel(Channels, FALSE)
  /\ RefreshFreeze(FALSE)
  /\ schedule' = schedule \union {MaxTime}
  /\ UNCHANGED <<irq, payloads, running, debug>>

\* Everything due now has been done.
Tick ==
  /\ ~running /\ gen_irq_event = {} /\ payloads = {} /\ 0 \notin schedule
  /\ schedule' = {d - 1 : d \in schedule}
  /\ since' = IF freeze THEN since ELSE since + 1
  /\ UNCHANGED <<registers, outputs, freeze, payloads, running, debug, acts>>

Next ==
  \/ RunCounter
  \/ \E r \in Requests : ProcessEvent(r) \/ b_transport(r)
  \/ ScheduleRun
  \/ \E n \in Channels : IRQ_Process(n)
  \/ SetDebug
  \/ Reset
  \/ Tick

\* The kernel runs what is due, and time goes on.
Fairness ==
  /\ WF_vars(RunCounter)
  /\ WF_vars(\E r \in Requests : ProcessEvent(r))
  /\ WF_vars(ScheduleRun)
  /\ \A n \in Channels : WF_vars(IRQ_Process(n))
  /\ WF_vars(Tick)

Spec == Init /\ [][Next]_vars /\ Fairness

-----------------------------------------------------------------------------
(***************************************************************************)
(* Properties.                                                             *)
(***************************************************************************)

\* The counter never passes the compare value of an enabled channel between two
\* runs, which would lose the match: whatever is written, and however the runs
\* of Process are spread, a wake-up comes early enough (TicksToNextCounterRun,
\* ScheduleCounterRun).  Needs SteadyPrescaler.
NoMatchIsPassed ==
  stm_cr.TEN /\ ~freeze => \A n \in stm_ccr : since \div Period <= TicksToInterrupt(n)

\* The counter is only enabled with its greatest prescaler, so that the period
\* never gets shorter than what has passed since the last run.
SteadyPrescaler == \A r \in Requests : r.op = "cr" /\ r.TEN => r.CPS = MaxCPS

\* An output shows its flag, unless its process is about to run: no match, clear
\* or reset leaves a line behind (SetIRQLevel, IRQ_Process).
LineShowsFlag == \A n \in Channels \ gen_irq_event : n \in irq <=> n \in stm_cir

\* The lazy counter is a counter that counts every tick and signals every match
\* before it counts on (RunCounterToTime): what it would be now, and the
\* channels that match there.  Needs SteadyPrescaler.
Counted  == since \div Period
CountNow == IF stm_cr.TEN THEN (stm_cnt + Counted) % RollOver ELSE stm_cnt
Phase    == since % Period
Due      == IF stm_cr.TEN /\ Counted > 0 THEN {n \in stm_ccr : TicksToInterrupt(n) = Counted} ELSE {}
Timer == INSTANCE EagerTimer WITH
  count   <- CountNow,
  phase   <- Phase,
  period  <- Period,
  enabled <- stm_cr.TEN,
  frozen  <- freeze,
  compare <- [n \in stm_ccr |-> stm_cmp[n]],
  due     <- Due
IsEagerTimer == Timer!Spec

\* A counter left alone comes to the compare value of each enabled channel again
\* and again: the chain of wake-ups never ends (ScheduleCounterRun).
IsCounting(n) == stm_cr.TEN /\ n \in stm_ccr /\ ~freeze
MatchesRecur == \A n \in Channels : <>[]IsCounting(n) => []<>(stm_cnt = stm_cmp[n])

=============================================================================
