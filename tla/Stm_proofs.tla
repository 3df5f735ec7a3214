----------------------------- MODULE Stm_proofs -----------------------------
(***************************************************************************)
(* Invariants of the system timer, for any number of channels, any width   *)
(* of the counter, any prescaler and any accesses.                         *)
(***************************************************************************)
EXTENDS Stm, TLAPS

-----------------------------------------------------------------------------
(***************************************************************************)
(* Arithmetic of ticks.                                                    *)
(***************************************************************************)

\* Less than one period has no whole tick.
LEMMA NoWholeTick ==
  ASSUME NEW a \in Nat, NEW p \in Nat \ {0}
  PROVE  /\ a \div p \in Nat
         /\ a % p \in Nat
         /\ a % p < p
         /\ a \div p = 0 => a < p
         /\ a < p => a \div p = 0
OBVIOUS

\* A time shorter than q + 1 periods has at most q whole ticks.
LEMMA AtMostTicks ==
  ASSUME NEW a \in Nat, NEW p \in Nat \ {0}, NEW q \in Nat, a < (q + 1) * p
  PROVE  a \div p <= q
<1> DEFINE d == a \div p
<1>1. d \in Nat /\ d * p <= a
  OBVIOUS
<1>2. SUFFICES ASSUME d >= q + 1 PROVE FALSE
  BY <1>1
<1> HIDE DEF d
<1>3. d * p >= (q + 1) * p
  BY <1>1, <1>2
<1> QED
  BY <1>1, <1>3

\* A rest of a period and t periods, t <= q, are shorter than q + 1 periods.
LEMMA WakesBefore ==
  ASSUME NEW a \in Nat, NEW p \in Nat \ {0}, NEW t \in Nat, NEW q \in Nat, a < p, t <= q
  PROVE  a + p * t < (q + 1) * p
<1>1. p * t <= p * q
  OBVIOUS
<1>2. (q + 1) * p = p * q + p
  OBVIOUS
<1>3. p * t \in Nat /\ p * q \in Nat
  OBVIOUS
<1> QED
  BY <1>1, <1>2, <1>3

-----------------------------------------------------------------------------
(***************************************************************************)
(* Type correctness.                                                       *)
(***************************************************************************)

\* The parts of the accesses made.
LEMMA RequestTypes ==
  ASSUME NEW r \in Requests
  PROVE  /\ r.op = "cr" => r.CPS \in 0 .. MaxCPS /\ r.FRZ \in BOOLEAN /\ r.TEN \in BOOLEAN
         /\ r.op = "cnt" => r.CNT \in Counts
         /\ r.op \in {"ccr", "cir", "cmp"} => r.n \in Channels
         /\ r.op = "cmp" => r.CMP \in Counts
<1>1. r \in Request
  BY RequestsAssumption
<1> QED
  BY <1>1 DEF Request

\* The period is positive, and a match is one to RollOver ticks away.
LEMMA TickTypes ==
  ASSUME TypeOK
  PROVE  /\ Period \in Nat \ {0}
         /\ Period <= MaxCPS + 1
         /\ \A n \in Channels : TicksToInterrupt(n) \in 1 .. RollOver
<1>1. stm_cr.CPS \in 0 .. MaxCPS
  BY DEF TypeOK
<1>2. \A n \in Channels : stm_cmp[n] \in 0 .. (RollOver - 1)
  BY DEF TypeOK, Counts
<1>3. stm_cnt \in 0 .. (RollOver - 1)
  BY DEF TypeOK, Counts
<1> QED
  BY <1>1, <1>2, <1>3, CountersAssumption DEF Period, TicksToInterrupt

\* The device is initialised with its types.
LEMMA InitTypes == Init => TypeOK
<1> SUFFICES ASSUME Init PROVE TypeOK
  OBVIOUS
<1>1. 0 \in Counts /\ 0 \in 0 .. MaxActs /\ MaxTime \in Nat
  BY CountersAssumption, BoundsAssumption DEF Counts
<1>2. ControlReset \in [CPS : 0 .. MaxCPS, FRZ : BOOLEAN, TEN : BOOLEAN]
  BY CountersAssumption DEF ControlReset
<1>3. stm_cmp \in [Channels -> Counts] /\ schedule \in SUBSET Nat
  BY <1>1 DEF Init
<1> QED
  BY <1>1, <1>2, <1>3 DEF Init, TypeOK

\* Opening a run preserves the types.
LEMMA RunCounterTypes == TypeOK /\ RunCounter => TypeOK'
<1> SUFFICES ASSUME TypeOK, RunCounter PROVE TypeOK'
  OBVIOUS
<1> DEFINE delta == since \div Period
<1>1. Period \in Nat \ {0} /\ since \in Nat
  BY TickTypes DEF TypeOK
<1>2. delta \in Nat /\ since % Period \in Nat
  BY <1>1, NoWholeTick
<1>3. since' \in Nat
  BY <1>1, <1>2 DEF RunCounter, RunCounterToTime
<1>4. stm_cnt' \in Counts
  <2> HIDE DEF delta
  <2>1. stm_cnt \in Counts /\ (stm_cnt + delta) % RollOver \in Counts
    BY <1>2, CountersAssumption DEF TypeOK, Counts
  <2>2. IncrementCounter(delta) \in Counts
    BY <2>1 DEF IncrementCounter
  <2> QED
    BY <2>1, <2>2 DEF RunCounter, RunCounterToTime, delta
<1>5. /\ stm_cir' \in SUBSET Channels
      /\ irq_level' \in SUBSET Channels
      /\ gen_irq_event' \in SUBSET Channels
  BY DEF RunCounter, RunCounterToTime, CompareCounter, SetIRQLevel, TypeOK
<1>6. schedule' \in SUBSET Nat
  BY DEF RunCounter, TypeOK
<1> QED
  BY <1>3, <1>4, <1>5, <1>6 DEF RunCounter, TypeOK

\* An access preserves the types.
LEMMA ProcessEventTypes ==
  ASSUME TypeOK, NEW r \in Requests, ProcessEvent(r)
  PROVE  TypeOK'
<1>1. payloads' \in SUBSET Requests
  BY DEF ProcessEvent, TypeOK
<1>2. Write(r)
  BY DEF ProcessEvent
<1>3. since \in Nat /\ debug \in BOOLEAN /\ freeze \in BOOLEAN
  BY DEF TypeOK
<1>4. stm_cr' \in [CPS : 0 .. MaxCPS, FRZ : BOOLEAN, TEN : BOOLEAN] /\ since' \in Nat /\ freeze' \in BOOLEAN
  <2>1. CASE r.op = "cr"
    BY <2>1, <1>2, <1>3, RequestTypes DEF Write, RefreshFreeze
  <2>2. CASE r.op # "cr"
    BY <2>2, <1>2, <1>3 DEF Write, registers, TypeOK
  <2> QED
    BY <2>1, <2>2
<1>5. stm_cnt' \in Counts
  BY <1>2, RequestTypes DEF Write, registers, TypeOK
<1>6. stm_ccr' \in SUBSET Channels /\ stm_cir' \in SUBSET Channels
  BY <1>2, RequestTypes DEF Write, registers, TypeOK
<1>7. stm_cmp' \in [Channels -> Counts]
  BY <1>2, RequestTypes DEF Write, registers, TypeOK
<1>8. irq_level' \in SUBSET Channels /\ gen_irq_event' \in SUBSET Channels
  BY <1>2, RequestTypes DEF Write, SetIRQLevel, TypeOK
<1> QED
  BY <1>1, <1>4, <1>5, <1>6, <1>7, <1>8 DEF ProcessEvent, TypeOK

\* Every step preserves the types.
LEMMA NextTypes == TypeOK /\ [Next]_vars => TypeOK'
<1> SUFFICES ASSUME TypeOK, [Next]_vars PROVE TypeOK'
  OBVIOUS
<1>1. CASE RunCounter
  BY <1>1, RunCounterTypes
<1>2. ASSUME NEW r \in Requests, ProcessEvent(r) PROVE TypeOK'
  BY <1>2, ProcessEventTypes
<1>3. ASSUME NEW r \in Requests, b_transport(r) PROVE TypeOK'
  BY <1>3, BoundsAssumption DEF b_transport, Act, TypeOK, registers, outputs
<1>4. CASE ScheduleRun
  <2>1. schedule' \in SUBSET Nat
    <3>1. \A d \in 1 .. (MaxTime + RollOver * (MaxCPS + 1)) : d \in Nat
      OBVIOUS
    <3> QED
      BY <1>4, <3>1 DEF ScheduleRun, TypeOK
  <2>2. freeze' \in BOOLEAN /\ since' \in Nat
    BY <1>4 DEF ScheduleRun, RefreshFreeze, TypeOK
  <2> QED
    BY <1>4, <2>1, <2>2 DEF ScheduleRun, TypeOK, registers, outputs
<1>5. ASSUME NEW n \in Channels, IRQ_Process(n) PROVE TypeOK'
  BY <1>5 DEF IRQ_Process, TypeOK, registers
<1>6. CASE SetDebug
  BY <1>6, BoundsAssumption DEF SetDebug, Act, TypeOK, registers, outputs
<1>7. CASE Reset
  <2>1. freeze' \in BOOLEAN /\ since' \in Nat
    BY <1>7 DEF Reset, RefreshFreeze, TypeOK
  <2>2. schedule' \in SUBSET Nat /\ acts' \in 0 .. MaxActs
    BY <1>7, CountersAssumption, BoundsAssumption DEF Reset, Act, TypeOK
  <2>3. stm_cr' \in [CPS : 0 .. MaxCPS, FRZ : BOOLEAN, TEN : BOOLEAN] /\ 0 \in Counts
    BY <1>7, CountersAssumption DEF Reset, ControlReset, Counts
  <2> QED
    BY <1>7, <2>1, <2>2, <2>3 DEF Reset, SetIRQLevel, TypeOK
<1>8. CASE Tick
  <2>1. schedule' \in SUBSET Nat
    BY <1>8 DEF Tick, TypeOK
  <2> QED
    BY <1>8, <2>1 DEF Tick, TypeOK, registers, outputs
<1>9. CASE UNCHANGED vars
  BY <1>9 DEF vars, TypeOK, registers, outputs
<1> QED
  BY <1>1, <1>2, <1>3, <1>4, <1>5, <1>6, <1>7, <1>8, <1>9 DEF Next

\* The variables keep their types whatever is written to the registers.
THEOREM TypeCorrect == Spec => []TypeOK
BY InitTypes, NextTypes, PTL DEF Spec

-----------------------------------------------------------------------------
(***************************************************************************)
(* No match is passed.                                                     *)
(***************************************************************************)

\* The counter is enabled with its greatest prescaler.
Steady == stm_cr.TEN => stm_cr.CPS = MaxCPS

\* While Process runs, less than a tick is left to count.
UpToDate == running /\ ~freeze => since < MaxCPS + 1

\* While it does not, a wake-up comes before the tick after each match.
WakesInTime ==
  ~running /\ stm_cr.TEN /\ ~freeze =>
    \A n \in stm_ccr : \E w \in schedule : since + w < (TicksToInterrupt(n) + 1) * Period

TimerInv == TypeOK /\ Steady /\ UpToDate /\ WakesInTime

\* The first run of Process has nothing to count.
LEMMA InitTimer == Init => TimerInv
<1> SUFFICES ASSUME Init PROVE TimerInv
  OBVIOUS
<1>1. TypeOK
  BY InitTypes
<1>2. Steady /\ UpToDate /\ WakesInTime
  BY CountersAssumption DEF Init, ControlReset, Steady, UpToDate, WakesInTime
<1> QED
  BY <1>1, <1>2 DEF TimerInv

\* A run counts the whole ticks and leaves the rest of one.
LEMMA RunCounterTimer == TimerInv /\ RunCounter => TimerInv'
<1> SUFFICES ASSUME TimerInv, RunCounter PROVE TimerInv'
  OBVIOUS
<1>1. TypeOK'
  BY RunCounterTypes DEF TimerInv
<1>2. Steady' /\ WakesInTime'
  BY DEF RunCounter, TimerInv, Steady, WakesInTime
<1>3. UpToDate'
  <2> SUFFICES ASSUME ~freeze PROVE since' < MaxCPS + 1
    BY DEF RunCounter, UpToDate
  <2>1. since \in Nat /\ Period \in Nat \ {0} /\ Period <= MaxCPS + 1 /\ MaxCPS \in Nat
    BY TickTypes, CountersAssumption DEF TimerInv, TypeOK
  <2>2. /\ since \div Period = 0 => since < Period
        /\ since % Period \in Nat /\ since % Period < Period
    BY <2>1, NoWholeTick
  <2>3. \/ since \div Period = 0 /\ since' = since
        \/ since' = since % Period
    BY DEF RunCounter, RunCounterToTime
  <2> QED
    BY <2>1, <2>2, <2>3
<1> QED
  BY <1>1, <1>2, <1>3 DEF TimerInv

\* An access keeps the prescaler of an enabled counter and what is left to count.
LEMMA ProcessEventTimer ==
  ASSUME SteadyPrescaler, TimerInv, NEW r \in Requests, ProcessEvent(r)
  PROVE  TimerInv'
<1>1. TypeOK'
  BY ProcessEventTypes DEF TimerInv
<1>2. running /\ running' /\ Write(r)
  BY DEF ProcessEvent
<1>3. Steady'
  <2>1. CASE r.op = "cr"
    BY <2>1, <1>2 DEF Write, Steady, SteadyPrescaler
  <2>2. CASE r.op # "cr"
    BY <2>2, <1>2 DEF Write, registers, TimerInv, Steady
  <2> QED
    BY <2>1, <2>2
<1>4. UpToDate'
  <2> SUFFICES ASSUME ~freeze' PROVE since' < MaxCPS + 1
    BY DEF UpToDate
  <2>1. since' = 0 \/ (since' = since /\ ~freeze)
    <3>1. CASE r.op = "cr"
      BY <3>1, <1>2 DEF Write, RefreshFreeze
    <3>2. CASE r.op # "cr"
      BY <3>2, <1>2 DEF Write, registers
    <3> QED
      BY <3>1, <3>2
  <2>2. ~freeze => since < MaxCPS + 1
    BY <1>2 DEF TimerInv, UpToDate
  <2> QED
    BY <2>1, <2>2, CountersAssumption
<1>5. WakesInTime'
  BY <1>2 DEF WakesInTime
<1> QED
  BY <1>1, <1>3, <1>4, <1>5 DEF TimerInv

\* The wake-up that closes a run is early enough for every enabled channel.
LEMMA ScheduleRunTimer == TimerInv /\ ScheduleRun => TimerInv'
<1> SUFFICES ASSUME TimerInv, ScheduleRun PROVE TimerInv'
  OBVIOUS
<1>1. TypeOK'
  BY NextTypes DEF TimerInv, Next
<1>2. Steady' /\ UpToDate'
  BY DEF ScheduleRun, TimerInv, Steady, UpToDate, registers
<1>3. WakesInTime'
  <2> SUFFICES ASSUME stm_cr.TEN, ~freeze', NEW n \in stm_ccr
               PROVE  \E w \in schedule' : since' + w < (TicksToInterrupt(n) + 1) * Period
    BY DEF ScheduleRun, registers, WakesInTime, TicksToInterrupt, Period
  <2>1. PICK d \in 1 .. (MaxTime + RollOver * (MaxCPS + 1)) :
          TimeToNextCounterRun(d) /\ schedule' = schedule \union {d}
    BY DEF ScheduleRun
  <2>2. PICK t \in 1 .. RollOver : TicksToNextCounterRun(t) /\ d = Period * t
    BY <2>1 DEF TimeToNextCounterRun
  <2>3. t <= TicksToInterrupt(n)
    BY <2>2 DEF TicksToNextCounterRun
  <2>4. since' \in Nat /\ since' < Period /\ Period \in Nat \ {0}
    <3>1. since' = IF freeze THEN 0 ELSE since
      BY DEF ScheduleRun, RefreshFreeze
    <3>2. Period = MaxCPS + 1 /\ Period \in Nat \ {0}
      BY TickTypes DEF TimerInv, Steady, Period
    <3>3. ~freeze => since < MaxCPS + 1
      BY DEF ScheduleRun, TimerInv, UpToDate
    <3> QED
      BY <3>1, <3>2, <3>3 DEF TimerInv, TypeOK
  <2>5. TicksToInterrupt(n) \in Nat /\ t \in Nat
    BY <2>2, TickTypes DEF TimerInv, TypeOK
  <2>6. since' + Period * t < (TicksToInterrupt(n) + 1) * Period
    BY <2>3, <2>4, <2>5, WakesBefore
  <2> QED
    BY <2>1, <2>2, <2>6
<1> QED
  BY <1>1, <1>2, <1>3 DEF TimerInv

\* Time brings each wake-up nearer by as much as is left to count.
LEMMA TickTimer == TimerInv /\ Tick => TimerInv'
<1> SUFFICES ASSUME TimerInv, Tick PROVE TimerInv'
  OBVIOUS
<1>1. TypeOK'
  BY NextTypes DEF TimerInv, Next
<1>2. Steady' /\ UpToDate'
  BY DEF Tick, TimerInv, Steady, UpToDate, registers
<1>3. WakesInTime'
  <2> SUFFICES ASSUME stm_cr.TEN, ~freeze, NEW n \in stm_ccr
               PROVE  \E w \in schedule' : since' + w < (TicksToInterrupt(n) + 1) * Period
    BY DEF Tick, registers, WakesInTime, TicksToInterrupt, Period
  <2>1. PICK w \in schedule : since + w < (TicksToInterrupt(n) + 1) * Period
    BY DEF Tick, TimerInv, WakesInTime
  <2>2. w - 1 \in schedule' /\ since' = since + 1
    BY DEF Tick
  <2>3. w \in Nat /\ since \in Nat
    BY DEF TimerInv, TypeOK
  <2>4. since' + (w - 1) = since + w
    BY <2>2, <2>3
  <2> QED
    BY <2>1, <2>2, <2>4
<1> QED
  BY <1>1, <1>2, <1>3 DEF TimerInv

\* Every step keeps a wake-up early enough.
LEMMA NextTimer == SteadyPrescaler /\ TimerInv /\ [Next]_vars => TimerInv'
<1> SUFFICES ASSUME SteadyPrescaler, TimerInv, [Next]_vars PROVE TimerInv'
  OBVIOUS
<1>0. TypeOK'
  BY NextTypes DEF TimerInv
<1>1. CASE RunCounter
  BY <1>1, RunCounterTimer
<1>2. ASSUME NEW r \in Requests, ProcessEvent(r) PROVE TimerInv'
  BY <1>2, ProcessEventTimer
<1>3. CASE ScheduleRun
  BY <1>3, ScheduleRunTimer
<1>4. CASE Tick
  BY <1>4, TickTimer
<1>5. CASE Reset
  BY <1>0, <1>5, CountersAssumption
     DEF Reset, Act, ControlReset, TimerInv, Steady, UpToDate, WakesInTime
<1>6. CASE UNCHANGED <<registers, freeze, since, schedule, running>>
  BY <1>0, <1>6
     DEF registers, TimerInv, Steady, UpToDate, WakesInTime, TicksToInterrupt, Period
<1>7. ASSUME NEW r \in Requests, b_transport(r) PROVE TimerInv'
  BY <1>6, <1>7 DEF b_transport
<1>8. ASSUME NEW n \in Channels, IRQ_Process(n) PROVE TimerInv'
  BY <1>6, <1>8 DEF IRQ_Process
<1>9. CASE SetDebug
  BY <1>6, <1>9 DEF SetDebug
<1>10. CASE UNCHANGED vars
  BY <1>6, <1>10 DEF vars
<1> QED
  BY <1>1, <1>2, <1>3, <1>4, <1>5, <1>7, <1>8, <1>9, <1>10 DEF Next

\* With a wake-up in time, no compare value is passed.
LEMMA TimerSafe == TimerInv => NoMatchIsPassed
<1> SUFFICES ASSUME TimerInv, stm_cr.TEN, ~freeze, NEW n \in stm_ccr
             PROVE  since \div Period <= TicksToInterrupt(n)
  BY DEF NoMatchIsPassed
<1>1. Period \in Nat \ {0} /\ TicksToInterrupt(n) \in Nat /\ since \in Nat
  BY TickTypes DEF TimerInv, TypeOK
<1>2. CASE running
  <2>1. since < Period
    BY <1>2 DEF TimerInv, UpToDate, Steady, Period
  <2> QED
    BY <1>1, <2>1, NoWholeTick
<1>3. CASE ~running
  <2>1. PICK w \in schedule : since + w < (TicksToInterrupt(n) + 1) * Period
    BY <1>3 DEF TimerInv, WakesInTime
  <2>2. w \in Nat /\ (TicksToInterrupt(n) + 1) * Period \in Nat
    BY <1>1 DEF TimerInv, TypeOK
  <2>3. since < (TicksToInterrupt(n) + 1) * Period
    BY <1>1, <2>1, <2>2
  <2> QED
    BY <1>1, <2>3, AtMostTicks
<1> QED
  BY <1>2, <1>3

\* Whatever is written, whenever Process runs and however often the debugger
\* freezes the counter, no match of an enabled channel is lost, provided that
\* the counter is only enabled with the greatest prescaler.
THEOREM NoMatchIsEverPassed == SteadyPrescaler => (Spec => []NoMatchIsPassed)
<1> SUFFICES ASSUME SteadyPrescaler PROVE Spec => []NoMatchIsPassed
  OBVIOUS
<1>1. TimerInv /\ [Next]_vars => TimerInv'
  BY NextTimer
<1> QED
  BY <1>1, InitTimer, TimerSafe, PTL DEF Spec

-----------------------------------------------------------------------------
(***************************************************************************)
(* Outputs.                                                                *)
(***************************************************************************)

\* The level to output is the flag.
LevelIsFlag == irq_level = stm_cir

LinesInv == TypeOK /\ LevelIsFlag /\ LineShowsFlag

\* Every step that sets or clears a flag sends it to the output.
LEMMA NextLines == LinesInv /\ [Next]_vars => LinesInv'
<1> SUFFICES ASSUME LinesInv, [Next]_vars PROVE LinesInv'
  OBVIOUS
<1>0. TypeOK' /\ TypeOK
  BY NextTypes DEF LinesInv
<1>1. CASE RunCounter
  BY <1>0, <1>1
     DEF RunCounter, RunCounterToTime, CompareCounter, SetIRQLevel, LinesInv, LevelIsFlag, LineShowsFlag
<1>2. ASSUME NEW r \in Requests, ProcessEvent(r) PROVE LinesInv'
  <2>1. Write(r) /\ irq' = irq
    BY <1>2 DEF ProcessEvent
  <2>2. CASE r.op = "cir"
    <3>1. /\ stm_cir' = IF r.CIF THEN stm_cir \ {r.n} ELSE stm_cir
          /\ irq_level' = IF r.n \in stm_cir' THEN irq_level \union {r.n} ELSE irq_level \ {r.n}
          /\ gen_irq_event' = gen_irq_event \union {r.n}
      BY <2>1, <2>2 DEF Write, SetIRQLevel
    <3> QED
      BY <1>0, <2>1, <3>1 DEF LinesInv, LevelIsFlag, LineShowsFlag
  <2>3. CASE r.op # "cir"
    BY <1>0, <2>1, <2>3 DEF Write, registers, LinesInv, LevelIsFlag, LineShowsFlag
  <2> QED
    BY <2>2, <2>3
<1>3. ASSUME NEW n \in Channels, IRQ_Process(n) PROVE LinesInv'
  BY <1>0, <1>3 DEF IRQ_Process, registers, LinesInv, LevelIsFlag, LineShowsFlag
<1>4. CASE Reset
  BY <1>0, <1>4 DEF Reset, SetIRQLevel, TypeOK, LinesInv, LevelIsFlag, LineShowsFlag
<1>5. CASE UNCHANGED <<registers, outputs>>
  BY <1>0, <1>5 DEF registers, outputs, LinesInv, LevelIsFlag, LineShowsFlag
<1>6. ASSUME NEW r \in Requests, b_transport(r) PROVE LinesInv'
  BY <1>5, <1>6 DEF b_transport
<1>7. CASE ScheduleRun \/ SetDebug \/ Tick \/ UNCHANGED vars
  BY <1>5, <1>7 DEF ScheduleRun, SetDebug, Tick, vars
<1> QED
  BY <1>1, <1>2, <1>3, <1>4, <1>6, <1>7 DEF Next

\* No match, clear or reset leaves an output behind.
THEOREM LinesAlwaysShowFlags == Spec => []LineShowsFlag
<1>1. Init => LinesInv
  BY InitTypes DEF Init, LinesInv, LevelIsFlag, LineShowsFlag
<1>2. LinesInv => LineShowsFlag
  BY DEF LinesInv
<1> QED
  BY <1>1, <1>2, NextLines, PTL DEF Spec

-----------------------------------------------------------------------------
(***************************************************************************)
(* The lazy counter is an eager one.                                       *)
(***************************************************************************)

\* What a frozen counter has not counted is less than a tick.
FrozenEarly == freeze => since < MaxCPS + 1

RefinementInv == TimerInv /\ FrozenEarly

\* A number is so many periods and a rest in one way only.
LEMMA DivisionIs ==
  ASSUME NEW a \in Nat, NEW p \in Nat \ {0}, NEW q \in Nat, NEW r \in Nat, r < p, a = q * p + r
  PROVE  a \div p = q /\ a % p = r
<1> DEFINE d == a \div p
           e == a % p
<1>1. d \in Nat /\ e \in Nat /\ e < p /\ a = d * p + e
  OBVIOUS
<1> HIDE DEF d, e
<1>2. ASSUME d >= q + 1 PROVE FALSE
  <2>1. d * p >= (q + 1) * p /\ (q + 1) * p = q * p + p
    BY <1>1, <1>2
  <2>2. d * p \in Nat /\ q * p \in Nat
    BY <1>1
  <2> QED
    BY <1>1, <2>1, <2>2
<1>3. ASSUME q >= d + 1 PROVE FALSE
  <2>1. q * p >= (d + 1) * p /\ (d + 1) * p = d * p + p
    BY <1>1, <1>3
  <2>2. d * p \in Nat /\ q * p \in Nat
    BY <1>1
  <2> QED
    BY <1>1, <2>1, <2>2
<1>4. d = q
  BY <1>1, <1>2, <1>3
<1>5. d * p \in Nat
  BY <1>1
<1>6. e = r
  BY <1>1, <1>4, <1>5
<1> QED
  BY <1>4, <1>6 DEF d, e

\* One unit more is in the same tick, or begins the next.
LEMMA NextUnit ==
  ASSUME NEW a \in Nat, NEW p \in Nat \ {0}
  PROVE  /\ (a % p) + 1 < p => (a + 1) % p = (a % p) + 1 /\ (a + 1) \div p = a \div p
         /\ ~((a % p) + 1 < p) => /\ (a + 1) % p = 0
                                /\ (a + 1) \div p = a \div p + 1
                                /\ a + 1 = (a \div p + 1) * p
<1> DEFINE d == a \div p
           e == a % p
<1>1. d \in Nat /\ e \in Nat /\ e < p /\ a = d * p + e
  OBVIOUS
<1> HIDE DEF d, e
<1>2. d * p \in Nat /\ (d + 1) * p = d * p + p
  BY <1>1
<1>3. ASSUME e + 1 < p PROVE (a + 1) % p = e + 1 /\ (a + 1) \div p = d
  <2>1. a + 1 \in Nat /\ e + 1 \in Nat /\ a + 1 = d * p + (e + 1)
    BY <1>1, <1>2
  <2> QED
    BY <1>1, <1>3, <2>1, DivisionIs
<1>4. ASSUME ~(e + 1 < p) PROVE (a + 1) % p = 0 /\ (a + 1) \div p = d + 1 /\ a + 1 = (d + 1) * p
  <2>1. a + 1 \in Nat /\ d + 1 \in Nat /\ a + 1 = (d + 1) * p + 0
    BY <1>1, <1>2, <1>4
  <2>2. (a + 1) % p = 0 /\ (a + 1) \div p = d + 1
    BY <2>1, DivisionIs
  <2> QED
    BY <2>1, <2>2, <1>1, <1>2
<1> QED
  BY <1>3, <1>4 DEF d, e

\* A rest has no whole period, and is its own rest.
LEMMA RestOfRest ==
  ASSUME NEW a \in Nat, NEW p \in Nat \ {0}
  PROVE  (a % p) % p = a % p /\ (a % p) \div p = 0
<1>1. a % p \in Nat /\ a % p < p
  BY NoWholeTick
<1> DEFINE b == a % p
<1>2. b \in Nat /\ b < p
  BY <1>1
<1> HIDE DEF b
<1>3. b % p = b /\ b \div p = 0
  BY <1>2
<1> QED
  BY <1>3 DEF b

\* The counter and a match that is t ticks away meet after t ticks and not before.
LEMMA MeetAtMatch ==
  ASSUME NEW m \in Nat \ {0}, NEW c \in 0 .. (m - 1), NEW v \in 0 .. (m - 1), NEW k \in 1 .. m,
         k <= IF c < v THEN v - c ELSE m - c + v
  PROVE  v = (c + k) % m <=> k = IF c < v THEN v - c ELSE m - c + v
<1>1. (c + k) % m = IF c + k < m THEN c + k ELSE c + k - m
  <2>1. CASE c + k < m
    BY <2>1
  <2>2. CASE c + k >= m
    <3> DEFINE r == c + k - m
    <3>1. r \in 0 .. (m - 1) /\ c + k = r + m
      BY <2>2
    <3> QED
      BY <3>1, <2>2
  <2> QED
    BY <2>1, <2>2
<1> QED
  BY <1>1

\* The remainder is counted on.
LEMMA CountOn ==
  ASSUME NEW m \in Nat \ {0}, NEW a \in Nat
  PROVE  (a + 1) % m = ((a % m) + 1) % m /\ a % m \in 0 .. (m - 1)
<1> DEFINE e == a % m
<1>1. e \in Nat /\ e < m
  BY NoWholeTick
<1>2. CASE e + 1 < m
  <2>1. (a + 1) % m = e + 1
    BY <1>2, NextUnit
  <2> HIDE DEF e
  <2>2. (e + 1) % m = e + 1
    BY <1>1, <1>2
  <2> QED
    BY <1>1, <2>1, <2>2 DEF e
<1>3. CASE ~(e + 1 < m)
  <2>1. (a + 1) % m = 0
    BY <1>3, NextUnit
  <2> HIDE DEF e
  <2>2. e + 1 = m /\ m % m = 0
    BY <1>1, <1>3
  <2> QED
    BY <1>1, <2>1, <2>2 DEF e
<1> QED
  BY <1>2, <1>3

\* A channel is always some ticks away from its next match.
LEMMA TicksType ==
  ASSUME TypeOK, NEW n \in stm_ccr
  PROVE  /\ n \in Channels
         /\ stm_cmp[n] \in Counts
         /\ TicksToInterrupt(n) \in 1 .. RollOver
BY CountersAssumption DEF TypeOK, Counts, TicksToInterrupt

\* Less than a tick does not change the count.
LEMMA NothingToCount ==
  ASSUME NEW c \in Counts
  PROVE  (c + 0) % RollOver = c
BY CountersAssumption DEF Counts

\* While Process runs, or the counter is frozen, nothing is left to count.
LEMMA UpToDateCount ==
  ASSUME RefinementInv, running \/ freeze
  PROVE  CountNow = stm_cnt /\ Due = {}
<1>1. since \in Nat /\ Period \in Nat \ {0} /\ stm_cnt \in Counts
  BY TickTypes DEF RefinementInv, TimerInv, TypeOK
<1>2. CASE stm_cr.TEN
  <2>1. since < Period
    BY <1>2 DEF RefinementInv, TimerInv, UpToDate, FrozenEarly, Steady, Period
  <2>2. Counted = 0
    BY <1>1, <2>1, NoWholeTick DEF Counted
  <2>4. (stm_cnt + 0) % RollOver = stm_cnt
    BY <1>1, NothingToCount
  <2> QED
    BY <2>2, <2>4 DEF CountNow, Due
<1>3. CASE ~stm_cr.TEN
  BY <1>3 DEF CountNow, Due
<1> QED
  BY <1>2, <1>3

\* The same after a step.
LEMMA UpToDateNext ==
  ASSUME RefinementInv', running' \/ freeze'
  PROVE  CountNow' = stm_cnt' /\ Due' = {}
<1>1. since' \in Nat /\ Period' \in Nat \ {0} /\ stm_cnt' \in Counts
  BY CountersAssumption DEF Period, RefinementInv, TimerInv, TypeOK
<1>2. CASE stm_cr'.TEN
  <2>1. since' < Period'
    BY <1>2 DEF RefinementInv, TimerInv, UpToDate, FrozenEarly, Steady, Period
  <2>2. Counted' = 0
    BY <1>1, <2>1, NoWholeTick DEF Counted
  <2>4. (stm_cnt' + 0) % RollOver = stm_cnt'
    BY <1>1, NothingToCount
  <2> QED
    BY <2>2, <2>4 DEF CountNow, Due
<1>3. CASE ~stm_cr'.TEN
  BY <1>3 DEF CountNow, Due
<1> QED
  BY <1>2, <1>3

\* The counter is frozen only where a run has brought it up to date.
LEMMA RefinementKept ==
  SteadyPrescaler /\ RefinementInv /\ [Next]_vars => RefinementInv'
<1> SUFFICES ASSUME SteadyPrescaler, RefinementInv, [Next]_vars PROVE RefinementInv'
  OBVIOUS
<1>1. TimerInv'
  BY NextTimer DEF RefinementInv
<1>2. CASE UNCHANGED <<freeze, since>>
  BY <1>1, <1>2 DEF RefinementInv, FrozenEarly
<1>3. CASE running
  <2>1. since < MaxCPS + 1
    BY <1>3 DEF RefinementInv, TimerInv, UpToDate, FrozenEarly
  <2>2. since' \in {0, since}
    <3>1. ASSUME NEW r \in Requests, ProcessEvent(r) PROVE since' \in {0, since}
      BY <3>1 DEF ProcessEvent, Write, RefreshFreeze, registers
    <3>2. CASE ScheduleRun
      BY <3>2 DEF ScheduleRun, RefreshFreeze
    <3>3. CASE UNCHANGED vars
      BY <3>3 DEF vars
    <3>4. ASSUME NEW n \in Channels, IRQ_Process(n) PROVE FALSE
      BY <1>3, <3>4 DEF IRQ_Process
    <3>5. ASSUME NEW r \in Requests, b_transport(r) PROVE FALSE
      BY <1>3, <3>5 DEF b_transport, Act
    <3>6. CASE RunCounter \/ SetDebug \/ Reset \/ Tick
      BY <1>3, <3>6 DEF RunCounter, SetDebug, Reset, Tick, Act
    <3> QED
      BY <3>1, <3>2, <3>3, <3>4, <3>5, <3>6 DEF Next
  <2> QED
    BY <1>1, <2>1, <2>2, CountersAssumption DEF RefinementInv, FrozenEarly
<1>4. CASE RunCounter
  BY <1>1, <1>4 DEF RunCounter, RunCounterToTime, RefinementInv, FrozenEarly
<1>5. CASE Reset
  BY <1>1, <1>5 DEF Reset, RefreshFreeze, RefinementInv, FrozenEarly
<1>6. CASE Tick
  BY <1>1, <1>6 DEF Tick, RefinementInv, FrozenEarly
<1>7. ASSUME ~running, NEW r \in Requests, ProcessEvent(r) \/ b_transport(r) PROVE RefinementInv'
  BY <1>2, <1>7 DEF ProcessEvent, b_transport
<1>8. ASSUME NEW n \in Channels, IRQ_Process(n) PROVE RefinementInv'
  BY <1>2, <1>8 DEF IRQ_Process
<1>9. CASE SetDebug \/ UNCHANGED vars
  BY <1>2, <1>9 DEF SetDebug, vars
<1>10. CASE ScheduleRun
  BY <1>3, <1>10 DEF ScheduleRun
<1> QED
  BY <1>3, <1>4, <1>5, <1>6, <1>7, <1>8, <1>9, <1>10 DEF Next

\* A step that leaves the counter alone is none of the timer's.
LEMMA CountUnchanged ==
  ASSUME UNCHANGED <<stm_cr, stm_cnt, stm_ccr, stm_cmp, freeze, since>>
  PROVE  UNCHANGED Timer!vars
BY DEF Timer!vars, CountNow, Phase, Period, Due, Counted, TicksToInterrupt

\* A run signals the matches that are due.
LEMMA RunCounterRefines ==
  ASSUME RefinementInv, RunCounter
  PROVE  Timer!Signal \/ UNCHANGED Timer!vars
<1>1. since \in Nat /\ Period \in Nat \ {0} /\ stm_cnt \in Counts
  BY TickTypes DEF RefinementInv, TimerInv, TypeOK
<1>2. UNCHANGED <<stm_cr, stm_ccr, stm_cmp, freeze>>
  BY DEF RunCounter
<1>3. CASE freeze \/ Counted = 0
  BY <1>2, <1>3, CountUnchanged DEF RunCounter, RunCounterToTime, Counted
<1>4. CASE ~(freeze \/ Counted = 0)
  <2>1. stm_cnt' = IncrementCounter(Counted) /\ since' = since % Period
    BY <1>4 DEF RunCounter, RunCounterToTime, Counted
  <2>2. Period' = Period
    BY <1>2 DEF Period
  <2>3. Counted' = 0 /\ Phase' = Phase
    BY <1>1, <2>1, <2>2, RestOfRest DEF Counted, Phase
  <2>4. Due' = {}
    BY <2>3 DEF Due
  <2>5. CountNow' = CountNow
    <3>1. CASE stm_cr.TEN
      <4>1. stm_cnt' = (stm_cnt + Counted) % RollOver
        BY <2>1, <3>1 DEF IncrementCounter
      <4>2. stm_cnt' \in Counts
        BY RunCounterTypes DEF RefinementInv, TimerInv, TypeOK
      <4>3. (stm_cnt' + 0) % RollOver = stm_cnt'
        BY <4>2, NothingToCount
      <4> QED
        BY <1>2, <2>3, <3>1, <4>1, <4>3 DEF CountNow
    <3>2. CASE ~stm_cr.TEN
      BY <1>2, <2>1, <3>2 DEF CountNow, IncrementCounter
    <3> QED
      BY <3>1, <3>2
  <2> QED
    BY <1>2, <2>2, <2>3, <2>4, <2>5 DEF Timer!Signal, Timer!vars
<1> QED
  BY <1>3, <1>4

\* An access loads the counter or configures the timer.
LEMMA ProcessEventRefines ==
  ASSUME RefinementInv, RefinementInv', NEW r \in Requests, ProcessEvent(r)
  PROVE  Timer!Load \/ Timer!Configure \/ UNCHANGED Timer!vars
<1>1. running /\ running' /\ Write(r)
  BY DEF ProcessEvent
<1>2. CountNow = stm_cnt /\ Due = {}
  BY <1>1, UpToDateCount
<1>3. CountNow' = stm_cnt' /\ Due' = {}
  BY <1>1, UpToDateNext
<1>4. CASE r.op = "cr"
  <2>1. stm_cnt' = stm_cnt /\ since' = IF freeze /\ ~freeze' THEN 0 ELSE since
    BY <1>1, <1>4 DEF Write, RefreshFreeze
  <2>2. Phase' = Phase \/ (freeze /\ ~freeze' /\ Phase' = 0) \/ Period' # Period
    <3>1. CASE Period' = Period /\ since' = since
      BY <3>1 DEF Phase
    <3>2. CASE Period' = Period /\ since' # since
      <4>1. freeze /\ ~freeze' /\ since' = 0
        BY <2>1, <3>2
      <4>2. Period \in Nat \ {0}
        BY TickTypes DEF RefinementInv, TimerInv
      <4>3. Phase' = 0
        BY <3>2, <4>1, <4>2 DEF Phase
      <4> QED
        BY <4>1, <4>3
    <3> QED
      BY <3>1, <3>2
  <2> QED
    BY <1>2, <1>3, <2>1, <2>2 DEF Timer!Configure
<1>5. CASE r.op = "cnt"
  <2>1. UNCHANGED <<stm_cr, stm_ccr, stm_cmp, freeze, since>>
    BY <1>1, <1>5 DEF Write
  <2>2. stm_cnt' \in 0 .. (RollOver - 1)
    BY DEF RefinementInv, TimerInv, TypeOK, Counts
  <2>3. UNCHANGED <<Phase, Period>>
    BY <2>1 DEF Phase, Period
  <2> QED
    BY <1>2, <1>3, <2>1, <2>2, <2>3 DEF Timer!Load
<1>6. CASE r.op \in {"ccr", "cmp"}
  <2>1. UNCHANGED <<stm_cr, stm_cnt, since>>
    BY <1>1, <1>6 DEF Write
  <2>2. Phase' = Phase
    BY <2>1 DEF Phase, Period
  <2> QED
    BY <1>2, <1>3, <2>1, <2>2 DEF Timer!Configure
<1>7. CASE r.op \notin {"cr", "cnt", "ccr", "cmp"}
  <2>1. UNCHANGED <<stm_cr, stm_cnt, stm_ccr, stm_cmp, freeze, since>>
    BY <1>1, <1>7 DEF Write, registers
  <2> QED
    BY <2>1, CountUnchanged
<1> QED
  BY <1>4, <1>5, <1>6, <1>7

\* The end of a run may start the clock of the counter again.
LEMMA ScheduleRunRefines ==
  ASSUME RefinementInv, RefinementInv', ScheduleRun
  PROVE  Timer!Configure \/ UNCHANGED Timer!vars
<1>1. UNCHANGED <<stm_cr, stm_cnt, stm_ccr, stm_cmp>> /\ running
  BY DEF ScheduleRun, registers
<1>2. since' = IF freeze /\ ~freeze' THEN 0 ELSE since
  BY DEF ScheduleRun, RefreshFreeze
<1>3. since \in Nat /\ Period \in Nat \ {0} /\ stm_cnt \in Counts
  BY TickTypes DEF RefinementInv, TimerInv, TypeOK
<1>4. CountNow = stm_cnt /\ Due = {}
  BY <1>1, UpToDateCount
<1>5. Period' = Period
  BY <1>1 DEF Period
<1>6. CASE since' = since
  <2>1. CountNow' = CountNow /\ Phase' = Phase /\ Due' = Due
    BY <1>1, <1>5, <1>6 DEF CountNow, Phase, Due, Counted, TicksToInterrupt
  <2> QED
    BY <1>4, <2>1 DEF Timer!Configure
<1>7. CASE since' # since
  <2>1. freeze /\ ~freeze' /\ since' = 0
    BY <1>2, <1>7
  <2>2. Counted' = 0 /\ Phase' = 0
    BY <1>3, <1>5, <2>1 DEF Counted, Phase
  <2>3. Due' = {}
    BY <2>2 DEF Due
  <2>4. (stm_cnt + 0) % RollOver = stm_cnt
    BY <1>3, CountersAssumption DEF Counts
  <2>5. CountNow' = stm_cnt
    BY <1>1, <2>2, <2>4 DEF CountNow
  <2> QED
    BY <1>4, <2>1, <2>2, <2>3, <2>5 DEF Timer!Configure
<1> QED
  BY <1>6, <1>7

\* The kernel takes the wake-ups before time goes on, so that the counter does
\* not leave a match that has not been signalled.
LEMMA NoMatchIsLeft ==
  ASSUME RefinementInv, Tick, stm_cr.TEN, ~freeze, NEW n \in stm_ccr
  PROVE  /\ since + 1 < (TicksToInterrupt(n) + 1) * Period
         /\ (since + 1) \div Period <= TicksToInterrupt(n)
<1>1. PICK w \in schedule : since + w < (TicksToInterrupt(n) + 1) * Period
  BY DEF Tick, RefinementInv, TimerInv, WakesInTime
<1>2. w \in Nat \ {0} /\ since \in Nat /\ Period \in Nat \ {0} /\ TicksToInterrupt(n) \in Nat
  BY TickTypes DEF Tick, RefinementInv, TimerInv, TypeOK
<1>3. (TicksToInterrupt(n) + 1) * Period \in Nat
  BY <1>2
<1>4. since + 1 < (TicksToInterrupt(n) + 1) * Period
  BY <1>1, <1>2, <1>3
<1> QED
  BY <1>2, <1>4, AtMostTicks

\* Time passes for the timer as it does for the device.
LEMMA TickRefines ==
  ASSUME RefinementInv, Tick
  PROVE  Timer!Pass \/ UNCHANGED Timer!vars
<1>1. since \in Nat /\ Period \in Nat \ {0} /\ stm_cnt \in Counts
  BY TickTypes DEF RefinementInv, TimerInv, TypeOK
<1>2. UNCHANGED <<stm_cr, stm_cnt, stm_ccr, stm_cmp, freeze>>
  BY DEF Tick, registers
<1>3. Period' = Period
  BY <1>2 DEF Period
<1>4. CASE freeze
  BY <1>2, <1>4, CountUnchanged DEF Tick
<1>5. CASE ~freeze
  <2>1. since' = since + 1
    BY <1>5 DEF Tick
  <2>2. CASE Phase + 1 < Period
    <3>1. Phase' = Phase + 1 /\ Counted' = Counted
      BY <1>1, <1>3, <2>1, <2>2, NextUnit DEF Phase, Counted
    <3>2. CountNow' = CountNow /\ Due' = Due
      BY <1>2, <3>1 DEF CountNow, Due, TicksToInterrupt
    <3> QED
      BY <1>2, <1>3, <1>5, <2>2, <3>1, <3>2 DEF Timer!Pass
  <2>3. CASE ~(Phase + 1 < Period)
    <3>1. Phase' = 0 /\ Counted' = Counted + 1 /\ since + 1 = (Counted + 1) * Period
      BY <1>1, <1>3, <2>1, <2>3, NextUnit DEF Phase, Counted
    <3>2. Counted \in Nat
      BY <1>1, NoWholeTick DEF Counted
    <3>3. CASE ~stm_cr.TEN
      <4>1. Due = {} /\ Due' = {} /\ CountNow' = CountNow
        BY <1>2, <3>3 DEF Due, CountNow
      <4> QED
        BY <1>2, <1>3, <1>5, <2>3, <3>1, <3>3, <4>1 DEF Timer!Pass
    <3>4. CASE stm_cr.TEN
      <4>1. Due = {}
        <5>1. ASSUME NEW n \in stm_ccr PROVE TicksToInterrupt(n) # Counted
          <6>1. (Counted + 1) * Period < (TicksToInterrupt(n) + 1) * Period
            BY <1>5, <3>1, <3>4, NoMatchIsLeft
          <6>2. (Counted + 1) * Period \in Nat
            BY <1>1, <3>2
          <6> QED
            BY <6>1, <6>2
        <5> QED
          BY <5>1 DEF Due
      <4>2. CountNow' = (CountNow + 1) % RollOver
        <5>1. stm_cnt + Counted \in Nat /\ stm_cnt + Counted' = (stm_cnt + Counted) + 1
          BY <1>1, <3>1, <3>2 DEF Counts
        <5> QED
          BY <1>2, <3>4, <5>1, CountOn, CountersAssumption DEF CountNow
      <4>3. Due' = {n \in stm_ccr : stm_cmp[n] = CountNow'}
        <5>1. Due' = {n \in stm_ccr : TicksToInterrupt(n) = Counted + 1}
          BY <1>2, <3>1, <3>2, <3>4 DEF Due, TicksToInterrupt
        <5>2. CountNow' = (stm_cnt + (Counted + 1)) % RollOver
          BY <1>2, <3>1, <3>4 DEF CountNow
        <5>3. ASSUME NEW n \in stm_ccr
              PROVE  stm_cmp[n] = CountNow' <=> TicksToInterrupt(n) = Counted + 1
          <6>1. stm_cmp[n] \in Counts /\ TicksToInterrupt(n) \in 1 .. RollOver
            BY TicksType DEF RefinementInv, TimerInv
          <6>2. Counted + 1 <= TicksToInterrupt(n)
            BY <1>5, <2>1, <1>3, <3>1, <3>4, NoMatchIsLeft DEF Counted
          <6>3. Counted + 1 \in 1 .. RollOver
            BY <3>2, <6>1, <6>2, CountersAssumption
          <6> DEFINE k == Counted + 1
                     v == stm_cmp[n]
          <6>4. /\ RollOver \in Nat \ {0} /\ k \in 1 .. RollOver
                /\ stm_cnt \in 0 .. (RollOver - 1)
                /\ v \in 0 .. (RollOver - 1)
            BY <1>1, <6>1, <6>3, CountersAssumption DEF Counts
          <6>5. k <= IF stm_cnt < v THEN v - stm_cnt ELSE RollOver - stm_cnt + v
            BY <6>2 DEF TicksToInterrupt
          <6>6. v = (stm_cnt + k) % RollOver <=> k = TicksToInterrupt(n)
            <7> HIDE DEF k, v
            <7>1. v = (stm_cnt + k) % RollOver
                    <=> k = IF stm_cnt < v THEN v - stm_cnt ELSE RollOver - stm_cnt + v
              BY <6>4, <6>5, MeetAtMatch
            <7> QED
              BY <7>1 DEF TicksToInterrupt, v
          <6> QED
            BY <5>2, <6>6
        <5> QED
          BY <5>1, <5>3
      <4> QED
        BY <1>2, <1>3, <1>5, <2>3, <3>1, <3>4, <4>1, <4>2, <4>3 DEF Timer!Pass, Timer!Matches
    <3> QED
      BY <3>3, <3>4
  <2> QED
    BY <2>2, <2>3
<1> QED
  BY <1>4, <1>5

\* A reset is one of the timer.
LEMMA ResetRefines ==
  ASSUME Reset
  PROVE  Timer!Reset
<1>1. ~stm_cr'.TEN /\ stm_cnt' = 0 /\ stm_ccr' = {}
  BY DEF Reset, ControlReset
<1>2. CountNow' = 0 /\ Due' = {}
  BY <1>1 DEF CountNow, Due
<1> QED
  BY <1>1, <1>2 DEF Timer!Reset

\* The lazy counter of the STM, brought up to date by accesses and wake-ups
\* only, implements a counter that counts every tick and signals each match
\* before it counts on, provided that it is only enabled with the greatest
\* prescaler.
THEOREM LazyIsEager == SteadyPrescaler => (Spec => IsEagerTimer)
<1> SUFFICES ASSUME SteadyPrescaler PROVE Spec => IsEagerTimer
  OBVIOUS
<1>1. Init => RefinementInv /\ Timer!Init
  <2> SUFFICES ASSUME Init PROVE RefinementInv /\ Timer!Init
    OBVIOUS
  <2>1. RefinementInv
    BY InitTimer DEF Init, RefinementInv, FrozenEarly
  <2>2. ~stm_cr.TEN /\ stm_cnt = 0 /\ stm_ccr = {}
    BY DEF Init, ControlReset
  <2>3. CountNow = 0 /\ Due = {}
    BY <2>2 DEF CountNow, Due
  <2> QED
    BY <2>1, <2>2, <2>3 DEF Timer!Init
<1>2. RefinementInv /\ [Next]_vars => RefinementInv'
  BY RefinementKept
<1>3. RefinementInv /\ RefinementInv' /\ [Next]_vars => [Timer!Next]_(Timer!vars)
  <2> SUFFICES ASSUME RefinementInv, RefinementInv', [Next]_vars
               PROVE  Timer!Next \/ UNCHANGED Timer!vars
    OBVIOUS
  <2>1. CASE RunCounter
    BY <2>1, RunCounterRefines DEF Timer!Next
  <2>2. ASSUME NEW r \in Requests, ProcessEvent(r) PROVE Timer!Next \/ UNCHANGED Timer!vars
    BY <2>2, ProcessEventRefines DEF Timer!Next
  <2>3. CASE ScheduleRun
    BY <2>3, ScheduleRunRefines DEF Timer!Next
  <2>4. CASE Tick
    BY <2>4, TickRefines DEF Timer!Next
  <2>5. CASE Reset
    BY <2>5, ResetRefines DEF Timer!Next
  <2>6. ASSUME NEW r \in Requests, b_transport(r) PROVE UNCHANGED Timer!vars
    BY <2>6, CountUnchanged DEF b_transport, registers
  <2>7. ASSUME NEW n \in Channels, IRQ_Process(n) PROVE UNCHANGED Timer!vars
    BY <2>7, CountUnchanged DEF IRQ_Process, registers
  <2>8. CASE SetDebug \/ UNCHANGED vars
    BY <2>8, CountUnchanged DEF SetDebug, registers, vars
  <2> QED
    BY <2>1, <2>2, <2>3, <2>4, <2>5, <2>6, <2>7, <2>8 DEF Next
<1> QED
  BY <1>1, <1>2, <1>3, PTL DEF Spec, IsEagerTimer, Timer!Spec

=============================================================================
