----------------------------- MODULE Swt_proofs -----------------------------
(***************************************************************************)
(* Invariants of the watchdog, for any masters, codes, counts, reset       *)
(* values and accesses.                                                    *)
(***************************************************************************)
EXTENDS Swt, TLAPS

-----------------------------------------------------------------------------
(***************************************************************************)
(* The functions on the device.                                            *)
(***************************************************************************)

\* What the next run of the down counter depends on is the same.
SameCount(s, t) ==
  /\ t.down_counter = s.down_counter
  /\ t.since = s.since
  /\ t.run_event = s.run_event
  /\ t.wakeups = s.wakeups
  /\ t.freeze = s.freeze

\* The notification of down_counter_run_event is there to wake the process.
HasWakeup(s) == s.run_event \in s.wakeups \union {Never}

\* It comes when, or before, the counter is to be run.
Scheduled(s) ==
  /\ s.run_event # Never
  /\ s.run_event \in s.wakeups
  /\ s.since + s.run_event <= TimeToNextDownCounterRun(s)

LEMMA MinusCounts ==
  ASSUME NEW c \in Counts, NEW n \in Nat
  PROVE  Minus(c, n) \in Counts
BY CountsAssumption DEF Minus, Counts

LEMMA MinusTwice ==
  ASSUME NEW c \in Counts, NEW n \in Nat
  PROVE  Minus(Minus(c, n), 1) = Minus(c, n + 1) /\ Minus(c, 0) = c
BY CountsAssumption DEF Minus, Counts

\* A run is at least one period away.
LEMMA TimeToNextType ==
  ASSUME NEW s \in Device
  PROVE  TimeToNextDownCounterRun(s) \in 1 .. MaxTime
BY CountsAssumption DEF TimeToNextDownCounterRun, Device, Counts

LEMMA TriggerResetType ==
  ASSUME NEW s \in Device
  PROVE  /\ TriggerReset(s) \in Device
         /\ TriggerReset(s).cr = s.cr
         /\ TriggerReset(s).to = s.to
         /\ TriggerReset(s).wn = s.wn
         /\ SameCount(s, TriggerReset(s))
<1>1. s.unlock_sequence_index \in 0 .. 1 /\ 0 \in 0 .. 1 /\ "now" \in {"none", "now", "soon"}
  BY DEF Device
<1>2. TriggerReset(s) \in Device
  BY <1>1 DEF TriggerReset, Device
<1>3. TriggerReset(s).cr = s.cr /\ TriggerReset(s).to = s.to /\ TriggerReset(s).wn = s.wn
  BY DEF TriggerReset, Device
<1>4. SameCount(s, TriggerReset(s))
  BY DEF TriggerReset, Device, SameCount
<1> QED
  BY <1>2, <1>3, <1>4

LEMMA InvalidType ==
  ASSUME NEW s \in Device
  PROVE  /\ Invalid(s) \in Device
         /\ Invalid(s).cr = s.cr
         /\ Invalid(s).to = s.to
         /\ Invalid(s).wn = s.wn
         /\ SameCount(s, Invalid(s))
BY TriggerResetType DEF Invalid, SameCount

LEMMA TimeOutType ==
  ASSUME NEW s \in Device
  PROVE  /\ TimeOut(s) \in Device
         /\ TimeOut(s).cr = s.cr
         /\ TimeOut(s).to = s.to
         /\ TimeOut(s).wn = s.wn
         /\ SameCount(s, TimeOut(s))
<1>1. CASE s.cr.ITR /\ ~s.got_initial_timeout
  BY <1>1 DEF TimeOut, Device, SameCount
<1>2. CASE ~(s.cr.ITR /\ ~s.got_initial_timeout)
  BY <1>2, TriggerResetType DEF TimeOut
<1> QED
  BY <1>1, <1>2

\* A run counts the periods, and leaves the notification as it is.
LEMMA RunType ==
  ASSUME NEW s \in Device
  PROVE  /\ RunDownCounterToTime(s) \in Device
         /\ RunDownCounterToTime(s).cr = s.cr
         /\ RunDownCounterToTime(s).to = s.to
         /\ RunDownCounterToTime(s).wn = s.wn
         /\ RunDownCounterToTime(s).run_event = s.run_event
         /\ RunDownCounterToTime(s).wakeups = s.wakeups
         /\ RunDownCounterToTime(s).freeze = s.freeze
         /\ s.freeze => RunDownCounterToTime(s) = s
         /\ ~s.freeze => /\ RunDownCounterToTime(s).since = 0
                         /\ RunDownCounterToTime(s).down_counter = Minus(s.down_counter, s.since)
<1>1. CASE s.freeze \/ s.since = 0
  <2>1. Minus(s.down_counter, 0) = s.down_counter
    BY MinusTwice DEF Device
  <2> QED
    BY <1>1, <2>1 DEF RunDownCounterToTime
<1>2. CASE ~(s.freeze \/ s.since = 0)
  <2> DEFINE t == [s EXCEPT !.down_counter = Minus(s.down_counter, s.since), !.since = 0]
  <2>1. Minus(s.down_counter, s.since) \in Counts
    BY MinusCounts DEF Device
  <2>2. t \in Device
    BY <2>1 DEF Device
  <2>3. /\ t.cr = s.cr /\ t.to = s.to /\ t.wn = s.wn
        /\ t.run_event = s.run_event /\ t.wakeups = s.wakeups /\ t.freeze = s.freeze
        /\ t.since = 0 /\ t.down_counter = Minus(s.down_counter, s.since)
    BY DEF Device
  <2>4. RunDownCounterToTime(s) \in {t, TimeOut(t)}
    BY <1>2 DEF RunDownCounterToTime
  <2> HIDE DEF t
  <2>5. CASE RunDownCounterToTime(s) = t
    BY <1>2, <2>2, <2>3, <2>5
  <2>6. CASE RunDownCounterToTime(s) = TimeOut(t)
    BY <1>2, <2>2, <2>3, <2>6, TimeOutType DEF SameCount
  <2> QED
    BY <2>4, <2>5, <2>6
<1> QED
  BY <1>1, <1>2

\* The notification that stands, or the one that is made, comes in time.
LEMMA ScheduleType ==
  ASSUME NEW s \in Device, HasWakeup(s), s.since <= TimeToNextDownCounterRun(s)
  PROVE  /\ ScheduleDownCounterRun(s) \in Device
         /\ Scheduled(ScheduleDownCounterRun(s))
         /\ ScheduleDownCounterRun(s).cr = s.cr
         /\ ScheduleDownCounterRun(s).to = s.to
         /\ ScheduleDownCounterRun(s).wn = s.wn
         /\ ScheduleDownCounterRun(s).got_initial_timeout = s.got_initial_timeout
         /\ ScheduleDownCounterRun(s).down_counter = s.down_counter
         /\ ScheduleDownCounterRun(s).since = s.since
         /\ ScheduleDownCounterRun(s).freeze = s.freeze
<1> DEFINE d == TimeToNextDownCounterRun(s) - s.since
           w == (IF d = 0 THEN s.wakeups \ {s.run_event} ELSE s.wakeups) \union {d}
           t == [s EXCEPT !.run_event = d, !.wakeups = w]
<1>1. d \in Nat /\ s.since \in Nat /\ TimeToNextDownCounterRun(s) \in Nat /\ d + s.since = TimeToNextDownCounterRun(s)
  BY TimeToNextType, CountsAssumption DEF Device
<1>2. CASE s.run_event # Never /\ s.run_event <= d
  <2>1. s.run_event \in Nat /\ s.run_event \in s.wakeups
    BY <1>2 DEF Device, HasWakeup
  <2>2. s.since + s.run_event <= TimeToNextDownCounterRun(s)
    BY <1>1, <1>2, <2>1
  <2>3. ScheduleDownCounterRun(s) = s
    BY <1>2 DEF ScheduleDownCounterRun
  <2> QED
    BY <1>2, <2>1, <2>2, <2>3 DEF Scheduled
<1>3. CASE ~(s.run_event # Never /\ s.run_event <= d)
  <2>1. ScheduleDownCounterRun(s) = t
    BY <1>3 DEF ScheduleDownCounterRun
  <2>2. w \in SUBSET Nat /\ d \in w
    BY <1>1 DEF Device
  <2>3. t \in Device
    BY <1>1, <2>2 DEF Device
  <2>4. /\ t.cr = s.cr /\ t.to = s.to /\ t.wn = s.wn /\ t.down_counter = s.down_counter
        /\ t.got_initial_timeout = s.got_initial_timeout
        /\ t.since = s.since /\ t.freeze = s.freeze /\ t.run_event = d /\ t.wakeups = w
    BY DEF Device
  <2>5. TimeToNextDownCounterRun(t) = TimeToNextDownCounterRun(s)
    BY <2>4 DEF TimeToNextDownCounterRun
  <2>6. Scheduled(t)
    BY <1>1, <2>2, <2>4, <2>5, NeverAssumption DEF Scheduled
  <2> QED
    BY <2>1, <2>3, <2>4, <2>6
<1> QED
  BY <1>2, <1>3

\* A counter that starts again, and only it, has its last run now.
LEMMA FreezeType ==
  ASSUME NEW s \in Device, debug \in BOOLEAN, stop \in BOOLEAN
  PROVE  /\ RefreshFreeze(s) \in Device
         /\ RefreshFreeze(s).cr = s.cr
         /\ RefreshFreeze(s).to = s.to
         /\ RefreshFreeze(s).wn = s.wn
         /\ RefreshFreeze(s).got_initial_timeout = s.got_initial_timeout
         /\ RefreshFreeze(s).down_counter = s.down_counter
         /\ RefreshFreeze(s).run_event = s.run_event
         /\ RefreshFreeze(s).wakeups = s.wakeups
         /\ RefreshFreeze(s).since \in {0, s.since}
         /\ s.freeze /\ ~RefreshFreeze(s).freeze => RefreshFreeze(s).since = 0
<1> DEFINE f == (debug /\ s.cr.FRZ) \/ (stop /\ s.cr.STP)
           n == IF s.freeze /\ ~f THEN 0 ELSE s.since
<1>1. f \in BOOLEAN /\ n \in Nat /\ n \in {0, s.since} /\ (s.freeze /\ ~f => n = 0)
  BY DEF Device
<1>2. RefreshFreeze(s) = [s EXCEPT !.freeze = f, !.since = n]
  BY DEF RefreshFreeze, Device
<1> HIDE DEF f, n
<1>3. [s EXCEPT !.freeze = f, !.since = n] \in Device
  BY <1>1 DEF Device
<1>4. LET t == [s EXCEPT !.freeze = f, !.since = n]
      IN /\ t.cr = s.cr /\ t.to = s.to /\ t.wn = s.wn /\ t.down_counter = s.down_counter
         /\ t.run_event = s.run_event /\ t.wakeups = s.wakeups /\ t.since = n /\ t.freeze = f
         /\ t.got_initial_timeout = s.got_initial_timeout
  BY DEF Device
<1> QED
  BY <1>1, <1>2, <1>3, <1>4

\* A code changes the sequence or opens the soft lock.
LEMMA UnlockType ==
  ASSUME NEW s \in Device, NEW code
  PROVE  /\ UnlockSequence(s, code) \in Device
         /\ UnlockSequence(s, code).cr \in {s.cr, [s.cr EXCEPT !.SLK = FALSE]}
         /\ UnlockSequence(s, code).to = s.to
         /\ UnlockSequence(s, code).wn = s.wn
         /\ SameCount(s, UnlockSequence(s, code))
<1> DEFINE a == [s EXCEPT !.unlock_sequence_index = 1]
           c == [s.cr EXCEPT !.SLK = FALSE]
           b == [s EXCEPT !.unlock_sequence_index = 0, !.cr = c]
<1>1. UnlockSequence(s, code) \in {s, a, b}
  BY DEF UnlockSequence, Device
<1>2. a \in Device /\ a.cr = s.cr /\ a.to = s.to /\ a.wn = s.wn /\ SameCount(s, a)
  BY DEF Device, SameCount
<1>3. c \in Control
  BY DEF Device, Control
<1> HIDE DEF c
<1>4. b \in Device
  <2>1. 0 \in 0 .. 1
    OBVIOUS
  <2> QED
    BY <1>3, <2>1 DEF Device
<1>5. b.cr = c /\ b.to = s.to /\ b.wn = s.wn /\ SameCount(s, b)
  BY DEF Device, SameCount
<1>6. SameCount(s, s)
  BY DEF SameCount
<1> HIDE DEF a, b
<1> QED
  BY <1>1, <1>2, <1>4, <1>5, <1>6 DEF c

\* The time to the next run depends on WEN and the count.
LEMMA SameTimeToNext ==
  ASSUME NEW s \in Device, NEW t \in Device, t.cr.WEN = s.cr.WEN, t.down_counter = s.down_counter
  PROVE  TimeToNextDownCounterRun(t) = TimeToNextDownCounterRun(s)
BY DEF TimeToNextDownCounterRun

\* What changes neither the count nor WEN leaves the run scheduled.
LEMMA StaysScheduled ==
  ASSUME NEW s \in Device, NEW t \in Device, Scheduled(s), SameCount(s, t), t.cr.WEN = s.cr.WEN
  PROVE  Scheduled(t)
BY SameTimeToNext DEF Scheduled, SameCount

\* A run leaves the next one scheduled: what is left of the count is not
\* shorter than the delay of the notification.
LEMMA RunStaysScheduled ==
  ASSUME NEW s \in Device, Scheduled(s)
  PROVE  Scheduled(RunDownCounterToTime(s))
<1> DEFINE t == RunDownCounterToTime(s)
<1>1. CASE s.freeze
  BY <1>1, RunType
<1>2. CASE ~s.freeze
  <2>1. /\ t.cr = s.cr /\ t.run_event = s.run_event /\ t.wakeups = s.wakeups
        /\ t.since = 0 /\ t.down_counter = Minus(s.down_counter, s.since)
    BY <1>2, RunType
  <2> HIDE DEF t
  <2>2. /\ s.down_counter \in Nat /\ s.since \in Nat /\ s.run_event \in Nat
        /\ s.since + s.run_event <= TimeToNextDownCounterRun(s)
    BY DEF Scheduled, Device, Counts
  <2>3. s.run_event <= TimeToNextDownCounterRun(t)
    BY <2>1, <2>2, CountsAssumption DEF TimeToNextDownCounterRun, Minus
  <2> QED
    BY <2>1, <2>2, <2>3 DEF Scheduled, t
<1> QED
  BY <1>1, <1>2

\* The key of the service is a code.
LEMMA ServiceKeyType ==
  ASSUME NEW s \in Device
  PROVE  /\ ServiceKey(s) \in Device
         /\ ServiceKey(s).cr = s.cr
         /\ ServiceKey(s).to = s.to
         /\ ServiceKey(s).wn = s.wn
         /\ SameCount(s, ServiceKey(s))
<1> DEFINE k == (17 * s.sk + 3) % Codes
           t == [s EXCEPT !.sk = k]
<1>1. k \in Keys
  <2>1. s.sk \in Nat /\ Codes \in Nat \ {0}
    BY CodesAssumption DEF Device, Keys
  <2>2. \A m \in Nat : m % Codes \in 0 .. (Codes - 1)
    BY <2>1
  <2>3. 17 * s.sk + 3 \in Nat
    BY <2>1
  <2> QED
    BY <2>2, <2>3 DEF Keys
<1>2. ServiceKey(s) \in {s, t}
  BY DEF ServiceKey
<1> HIDE DEF k
<1>3. t \in Device /\ t.cr = s.cr /\ t.to = s.to /\ t.wn = s.wn /\ SameCount(s, t)
  BY <1>1 DEF Device, SameCount
<1>4. SameCount(s, s)
  BY DEF SameCount
<1> HIDE DEF t
<1> QED
  BY <1>2, <1>3, <1>4

\* The registers written have their types.
LEMMA WrittenType ==
  ASSUME NEW s \in Device, NEW r \in Requests, r.op \notin {"read", "sr", "unmapped"}
  PROVE  /\ Written(s, r) \in Device
         /\ SameCount(s, Written(s, r))
         /\ r.op \notin Lockable => Written(s, r).cr = s.cr /\ Written(s, r).to = s.to /\ Written(s, r).wn = s.wn
<1>1. r \in Request
  BY RequestsAssumption
<1>2. CASE r.op = "cr"
  <2>1. r.CR \in Control
    BY <1>1, <1>2 DEF Request
  <2>2. Written(s, r) = [s EXCEPT !.cr = r.CR]
    BY <1>2 DEF Written
  <2> QED
    BY <1>2, <2>1, <2>2 DEF Device, SameCount, Lockable
<1>3. CASE r.op = "ir"
  <2>1. (s.tif /\ ~r.TIF) \in BOOLEAN
    OBVIOUS
  <2>2. Written(s, r) = [s EXCEPT !.tif = s.tif /\ ~r.TIF]
    BY <1>3 DEF Written, Device
  <2> QED
    BY <2>1, <2>2 DEF Device, SameCount
<1>4. CASE r.op = "to"
  <2>1. r.WTO \in Counts
    BY <1>1, <1>4 DEF Request
  <2>2. Written(s, r) = [s EXCEPT !.to = r.WTO]
    BY <1>4 DEF Written
  <2> QED
    BY <1>4, <2>1, <2>2 DEF Device, SameCount, Lockable
<1>5. CASE r.op = "wn"
  <2>1. r.WST \in Counts
    BY <1>1, <1>5 DEF Request
  <2>2. Written(s, r) = [s EXCEPT !.wn = r.WST]
    BY <1>5 DEF Written
  <2> QED
    BY <1>5, <2>1, <2>2 DEF Device, SameCount, Lockable
<1>6. CASE r.op = "sk"
  <2>1. r.SK \in Keys
    BY <1>1, <1>6 DEF Request
  <2>2. Written(s, r) = [s EXCEPT !.sk = r.SK]
    BY <1>6 DEF Written
  <2> QED
    BY <1>6, <2>1, <2>2 DEF Device, SameCount, Lockable
<1>7. r.op \in {"cr", "ir", "to", "wn", "sk"}
  BY <1>1 DEF Request
<1> QED
  BY <1>2, <1>3, <1>4, <1>5, <1>6, <1>7
-----------------------------------------------------------------------------
(***************************************************************************)
(* The inductive invariant: the counter is lazy but right, and it is run   *)
(* in time.  A watchdog that is frozen while an access is due has been run *)
(* at this date.                                                           *)
(***************************************************************************)

IInv ==
  /\ TypeOK
  /\ Scheduled(swt)
  /\ swt.freeze /\ payloads # {} => swt.since = 0
  /\ CountsEveryPeriod

LEMMA ResetType ==
  ASSUME NEW s \in Device
  PROVE  /\ Reset(s) \in Device
         /\ Reset(s).cr = ResetCR
         /\ Reset(s).to = ResetTO
         /\ Reset(s).got_initial_timeout = FALSE
         /\ Reset(s).reset_level = s.reset_level
         /\ Reset(s).down_counter = ResetTO
         /\ Reset(s).since = 0
         /\ Reset(s).run_event = s.run_event
         /\ Reset(s).wakeups = s.wakeups
<1>1. 0 \in Keys /\ 0 \in Counts /\ 0 \in 0 .. 1 /\ 0 \in Nat
  BY CodesAssumption, CountsAssumption DEF Keys, Counts
<1>2. Reset(s) \in Device
  BY <1>1, ResetAssumption DEF Reset, Device
<1> QED
  BY <1>2 DEF Reset, Device

\* RefreshFreeze and ScheduleDownCounterRun leave the run scheduled, after a run.
LEMMA GoOnType ==
  ASSUME NEW s \in Device, HasWakeup(s), s.since <= TimeToNextDownCounterRun(s),
         debug \in BOOLEAN, stop \in BOOLEAN, GoOn(s)
  PROVE  /\ swt' \in Device
         /\ Scheduled(swt')
         /\ swt'.cr = s.cr
         /\ swt'.to = s.to
         /\ swt'.wn = s.wn
         /\ swt'.got_initial_timeout = s.got_initial_timeout
         /\ swt'.down_counter = s.down_counter
         /\ swt'.since \in {0, s.since}
         /\ s.freeze /\ ~swt'.freeze => swt'.since = 0
<1> DEFINE t == RefreshFreeze(s)
<1>1. swt' = ScheduleDownCounterRun(t)
  BY DEF GoOn
<1>2. /\ t \in Device /\ t.cr = s.cr /\ t.to = s.to /\ t.wn = s.wn /\ t.down_counter = s.down_counter
      /\ t.run_event = s.run_event /\ t.wakeups = s.wakeups /\ t.since \in {0, s.since}
      /\ t.got_initial_timeout = s.got_initial_timeout
      /\ s.freeze /\ ~t.freeze => t.since = 0
  BY FreezeType
<1> HIDE DEF t
<1>3. HasWakeup(t)
  BY <1>2 DEF HasWakeup
<1>4. TimeToNextDownCounterRun(t) = TimeToNextDownCounterRun(s)
  BY <1>2, SameTimeToNext
<1>5. t.since <= TimeToNextDownCounterRun(t)
  BY <1>2, <1>4, TimeToNextType
<1> QED
  BY <1>1, <1>2, <1>3, <1>5, ScheduleType

\* The device is reset.
LEMMA RestartInv ==
  ASSUME NEW s \in Device, HasWakeup(s), debug \in BOOLEAN, stop \in BOOLEAN, Restart(s)
  PROVE  /\ swt' \in Device
         /\ Scheduled(swt')
         /\ swt'.cr = ResetCR
         /\ swt'.to = ResetTO
         /\ swt'.got_initial_timeout = FALSE
         /\ swt'.since = 0
         /\ payloads' = {}
         /\ left' \in Counts
         /\ overdue' = 0
         /\ CountsEveryPeriod'
<1> DEFINE t == Reset(s)
<1>1. /\ t \in Device /\ t.cr = ResetCR /\ t.to = ResetTO /\ t.got_initial_timeout = FALSE
      /\ t.down_counter = ResetTO /\ t.since = 0 /\ HasWakeup(t)
  BY ResetType DEF HasWakeup
<1>2. GoOn(t) /\ payloads' = {} /\ left' = ResetTO /\ overdue' = 0
  BY DEF Restart
<1> HIDE DEF t
<1>3. t.since <= TimeToNextDownCounterRun(t)
  BY <1>1, TimeToNextType
<1>4. /\ swt' \in Device /\ Scheduled(swt') /\ swt'.cr = ResetCR /\ swt'.to = ResetTO
      /\ swt'.got_initial_timeout = FALSE /\ swt'.down_counter = ResetTO /\ swt'.since = 0
  BY <1>1, <1>2, <1>3, GoOnType
<1>5. CountsEveryPeriod'
  BY <1>2, <1>4, MinusTwice, ResetAssumption DEF CountsEveryPeriod
<1> QED
  BY <1>2, <1>4, <1>5, ResetAssumption

\* The device starts scheduled.
LEMMA InitInv == Init => IInv
<1> SUFFICES ASSUME Init PROVE IInv
  OBVIOUS
<1> DEFINE s == [cr |-> ResetCR, tif |-> FALSE, to |-> ResetTO, wn |-> 0, sk |-> 0, got_initial_timeout |-> FALSE,
                 unlock_sequence_index |-> 0, service_sequence_index |-> 0, down_counter |-> ResetTO,
                 reset_level |-> FALSE, gen_reset_event |-> "now", since |-> 0, run_event |-> Never,
                 wakeups |-> {}, freeze |-> FALSE]
<1>1. 0 \in Keys /\ 0 \in Counts /\ 0 \in 0 .. 1 /\ 0 \in Nat
  BY CodesAssumption, CountsAssumption DEF Keys, Counts
<1>2. s \in Device
  BY <1>1, ResetAssumption DEF Device
<1>3. s.since = 0 /\ HasWakeup(s) /\ s.down_counter = ResetTO /\ s.freeze = FALSE
  BY DEF HasWakeup
<1>4. swt = ScheduleDownCounterRun(s)
  BY DEF Init
<1> HIDE DEF s
<1>5. s.since <= TimeToNextDownCounterRun(s)
  BY <1>2, <1>3, TimeToNextType
<1>6. swt \in Device /\ Scheduled(swt) /\ swt.since = 0 /\ swt.down_counter = ResetTO
  BY <1>2, <1>3, <1>4, <1>5, ScheduleType
<1>7. CountsEveryPeriod
  BY <1>6, MinusTwice, ResetAssumption DEF CountsEveryPeriod, Init
<1>8. TypeOK
  <2>1. /\ payloads = {} /\ stop = FALSE /\ debug = FALSE /\ reset_b = FALSE
        /\ left = ResetTO /\ overdue = 0 /\ acts = 0
    BY DEF Init
  <2>2. 0 \in 0 .. MaxActs
    BY RequestsAssumption
  <2> QED
    BY <1>1, <1>6, <2>1, <2>2, ResetAssumption DEF TypeOK
<1> QED
  BY <1>6, <1>7, <1>8 DEF IInv

-----------------------------------------------------------------------------
(***************************************************************************)
(* Every step preserves the invariant.                                     *)
(***************************************************************************)

\* An access finds the counter as of now, or it does not reach it.
LEMMA ReachedType ==
  ASSUME IInv, NEW r \in Requests
  PROVE  /\ Reached(swt, r) \in Device
         /\ Scheduled(Reached(swt, r))
         /\ Reached(swt, r).cr = swt.cr
         /\ Reached(swt, r).freeze = swt.freeze
         /\ left = IF Reached(swt, r).freeze THEN Reached(swt, r).down_counter
                   ELSE Minus(Reached(swt, r).down_counter, Reached(swt, r).since)
         /\ swt.freeze => Reached(swt, r).since = swt.since
         /\ ~swt.freeze /\ ~IsRefused(swt, r) /\ r.op # "unmapped" => Reached(swt, r).since = 0
<1> DEFINE t == RunDownCounterToTime(swt)
<1>1. swt \in Device /\ Scheduled(swt)
  BY DEF IInv, TypeOK
<1>2. Reached(swt, r) = IF r.op = "unmapped" \/ IsRefused(swt, r) THEN swt ELSE t
  BY DEF Reached
<1>3. left = IF swt.freeze THEN swt.down_counter ELSE Minus(swt.down_counter, swt.since)
  BY DEF IInv, CountsEveryPeriod
<1>4. t \in Device /\ t.cr = swt.cr /\ t.freeze = swt.freeze /\ Scheduled(t)
  BY <1>1, RunType, RunStaysScheduled
<1>5. swt.freeze => t = swt
  BY <1>1, RunType
<1>6. ~swt.freeze => t.since = 0 /\ t.down_counter = Minus(swt.down_counter, swt.since)
  BY <1>1, RunType
<1>7. Minus(t.down_counter, 0) = t.down_counter
  BY <1>4, MinusTwice DEF Device
<1> HIDE DEF t
<1> QED
  BY <1>1, <1>2, <1>3, <1>4, <1>5, <1>6, <1>7

\* A service loads the counter and the history alike; what is not one leaves both.
LEMMA ServiceInv ==
  ASSUME NEW s \in Device, Scheduled(s), s.since = 0, NEW code, ServiceSequence(s, code),
         left \in Counts, overdue \in Nat,
         left = s.down_counter
  PROVE  /\ swt' \in Device
         /\ Scheduled(swt')
         /\ swt'.since = 0
         /\ swt'.cr \in {s.cr, [s.cr EXCEPT !.SLK = FALSE]}
         /\ swt'.to = s.to
         /\ swt'.wn = s.wn
         /\ left' = swt'.down_counter
         /\ overdue' \in Nat
<1>0. 0 \in 0 .. 1 /\ 1 \in 0 .. 1 /\ SameCount(s, s)
  BY DEF SameCount
<1>1. CASE ~KeyMatches(s, code) /\ swt' = s /\ UNCHANGED <<left, overdue>>
  BY <1>1
<1>2. CASE swt' = Invalid(IF s.cr.SMD = "keyed" THEN [s EXCEPT !.service_sequence_index = 0] ELSE s)
           /\ UNCHANGED <<left, overdue>>
  <2> DEFINE t == IF s.cr.SMD = "keyed" THEN [s EXCEPT !.service_sequence_index = 0] ELSE s
  <2>1. t \in Device /\ t.cr = s.cr /\ t.to = s.to /\ t.wn = s.wn /\ SameCount(s, t)
    BY <1>0 DEF Device, SameCount
  <2> HIDE DEF t
  <2>2. Scheduled(t)
    BY <2>1, StaysScheduled
  <2>3. swt' = Invalid(t)
    BY <1>2 DEF t
  <2>4. swt' \in Device /\ swt'.cr = t.cr /\ swt'.to = t.to /\ swt'.wn = t.wn /\ SameCount(t, swt')
    BY <2>1, <2>3, InvalidType
  <2>5. Scheduled(swt')
    BY <2>1, <2>2, <2>4, StaysScheduled
  <2> QED
    BY <1>2, <2>1, <2>4, <2>5 DEF SameCount
<1>3. CASE swt' = [s EXCEPT !.service_sequence_index = 1] /\ UNCHANGED <<left, overdue>>
  <2> DEFINE t == [s EXCEPT !.service_sequence_index = 1]
  <2>1. t \in Device /\ t.cr = s.cr /\ t.to = s.to /\ t.wn = s.wn /\ SameCount(s, t)
    BY <1>0 DEF Device, SameCount
  <2> HIDE DEF t
  <2>2. Scheduled(t)
    BY <2>1, StaysScheduled
  <2> QED
    BY <1>3, <2>1, <2>2 DEF SameCount, t
<1>4. CASE /\ \E t \in {[s EXCEPT !.service_sequence_index = 0, !.cr.SLK = FALSE, !.down_counter = Load(s)]} :
                swt' = ScheduleDownCounterRun(t)
           /\ left' = Load(s) /\ overdue' = 0
  <2> DEFINE c == [s.cr EXCEPT !.SLK = FALSE]
             n == Load(s)
             t == [s EXCEPT !.service_sequence_index = 0, !.cr = c, !.down_counter = n]
  <2>1. c \in Control
    BY DEF Device, Control
  <2>2. n \in Counts
    BY CountsAssumption DEF Load, Device
  <2>3. swt' = ScheduleDownCounterRun(t)
    BY <1>4 DEF Device
  <2> HIDE DEF c, n
  <2>4. t \in Device
    BY <1>0, <2>1, <2>2 DEF Device
  <2>5. /\ t.cr = c /\ t.to = s.to /\ t.wn = s.wn /\ t.down_counter = n /\ t.since = 0
        /\ t.run_event = s.run_event /\ t.wakeups = s.wakeups
    BY DEF Device
  <2> HIDE DEF t
  <2>6. HasWakeup(t) /\ t.since <= TimeToNextDownCounterRun(t)
    BY <2>4, <2>5, TimeToNextType DEF HasWakeup, Scheduled
  <2>7. /\ swt' \in Device /\ Scheduled(swt') /\ swt'.since = 0 /\ swt'.cr = c
        /\ swt'.to = s.to /\ swt'.wn = s.wn /\ swt'.down_counter = n
    BY <2>3, <2>4, <2>5, <2>6, ScheduleType
  <2> QED
    BY <1>4, <2>7 DEF c, n
<1> QED
  BY <1>1, <1>2, <1>3, <1>4 DEF ServiceSequence

\* An access leaves the counter right and the run scheduled, and opens no lock
\* but by a sequence of keys.
LEMMA ProcessEventStep ==
  ASSUME IInv, NEW r \in Requests, ProcessEvent(r)
  PROVE  /\ swt' \in Device
         /\ Scheduled(swt')
         /\ swt'.freeze => swt'.since = 0
         /\ left' \in Counts
         /\ overdue' \in Nat
         /\ CountsEveryPeriod'
<1> DEFINE s == Reached(swt, r)
<1>1. /\ s \in Device /\ Scheduled(s) /\ s.cr = swt.cr /\ s.freeze = swt.freeze
      /\ left = IF s.freeze THEN s.down_counter ELSE Minus(s.down_counter, s.since)
      /\ swt.freeze => s.since = swt.since
      /\ ~swt.freeze /\ ~IsRefused(swt, r) /\ r.op # "unmapped" => s.since = 0
  BY ReachedType
<1>2. swt.freeze => swt.since = 0
  BY DEF ProcessEvent, IInv
<1>3. left \in Counts /\ overdue \in Nat
  BY DEF IInv, TypeOK
<1>4. IsRefused(s, r) = IsRefused(swt, r)
  BY <1>1 DEF IsRefused, IsLocked
<1>5. ~IsRefused(s, r) /\ r.op # "unmapped" => s.since = 0 /\ left = s.down_counter
  BY <1>1, <1>2, <1>4, MinusTwice DEF Device
<1>6. SameCount(s, s)
  BY DEF SameCount
<1>7. \/ swt' = s /\ UNCHANGED <<left, overdue>>
      \/ swt' = Invalid(s) /\ UNCHANGED <<left, overdue>>
      \/ /\ r.op \notin {"read", "sr"} /\ ~IsRefused(s, r) /\ ~IsForbidden(s, r)
         /\ swt' = ScheduleDownCounterRun(Written(s, r))
         /\ UNCHANGED <<left, overdue>>
      \/ /\ r.op = "sr"
         /\ ServiceSequence(ServiceKey(UnlockSequence(ScheduleDownCounterRun(s), r.WSC)), r.WSC)
  BY DEF ProcessEvent
<1> HIDE DEF s
<1>8. CASE swt' = s /\ UNCHANGED <<left, overdue>>
  BY <1>1, <1>2, <1>3, <1>8 DEF CountsEveryPeriod
<1>9. CASE swt' = Invalid(s) /\ UNCHANGED <<left, overdue>>
  <2>1. swt' \in Device /\ swt'.cr = s.cr /\ SameCount(s, swt')
    BY <1>1, <1>9, InvalidType
  <2>2. Scheduled(swt')
    BY <1>1, <2>1, StaysScheduled
  <2> QED
    BY <1>1, <1>2, <1>3, <1>9, <2>1, <2>2 DEF CountsEveryPeriod, SameCount
<1>10. CASE /\ r.op \notin {"read", "sr"} /\ ~IsRefused(s, r) /\ ~IsForbidden(s, r)
            /\ swt' = ScheduleDownCounterRun(Written(s, r))
            /\ UNCHANGED <<left, overdue>>
  <2> DEFINE t == Written(s, r)
  <2>1. r.op \notin {"read", "sr", "unmapped"}
    BY <1>10 DEF IsForbidden
  <2>2. t \in Device /\ SameCount(s, t)
    BY <1>1, <2>1, WrittenType
  <2> HIDE DEF t
  <2>3. t.since = 0 /\ left = t.down_counter /\ HasWakeup(t)
    BY <1>1, <1>5, <1>10, <2>1, <2>2 DEF SameCount, HasWakeup, Scheduled
  <2>4. /\ swt' \in Device /\ Scheduled(swt')
        /\ swt'.down_counter = t.down_counter /\ swt'.since = t.since
    BY <1>10, <2>2, <2>3, ScheduleType, TimeToNextType DEF t
  <2>5. Minus(swt'.down_counter, 0) = swt'.down_counter
    BY <2>4, MinusTwice DEF Device
  <2> QED
    BY <1>3, <1>10, <2>3, <2>4, <2>5 DEF CountsEveryPeriod
<1>11. CASE /\ r.op = "sr"
            /\ ServiceSequence(ServiceKey(UnlockSequence(ScheduleDownCounterRun(s), r.WSC)), r.WSC)
  <2> DEFINE t == ScheduleDownCounterRun(s)
             u == UnlockSequence(t, r.WSC)
             v == ServiceKey(u)
  <2>1. s.since = 0 /\ left = s.down_counter
    BY <1>4, <1>5, <1>11 DEF IsRefused, Lockable
  <2>2. t \in Device /\ Scheduled(t) /\ t.down_counter = s.down_counter /\ t.since = 0
    BY <1>1, <2>1, ScheduleType, TimeToNextType DEF HasWakeup, Scheduled
  <2> HIDE DEF t
  <2>3. u \in Device /\ u.cr.WEN = t.cr.WEN /\ SameCount(t, u)
    BY <2>2, UnlockType DEF Device, Control
  <2> HIDE DEF u
  <2>4. v \in Device /\ v.cr = u.cr /\ SameCount(u, v)
    BY <2>3, ServiceKeyType
  <2> HIDE DEF v
  <2>5. Scheduled(u)
    BY <2>2, <2>3, StaysScheduled
  <2>6. Scheduled(v)
    BY <2>3, <2>4, <2>5, StaysScheduled
  <2>7. v.since = 0 /\ left = v.down_counter
    BY <2>1, <2>2, <2>3, <2>4 DEF SameCount
  <2>8. ServiceSequence(v, r.WSC)
    BY <1>11 DEF t, u, v
  <2>9. /\ swt' \in Device /\ Scheduled(swt') /\ swt'.since = 0
        /\ left' = swt'.down_counter /\ overdue' \in Nat
    BY <1>3, <2>4, <2>6, <2>7, <2>8, ServiceInv
  <2>10. left' \in Counts /\ Minus(swt'.down_counter, 0) = swt'.down_counter
    BY <2>9, MinusTwice DEF Device
  <2> QED
    BY <2>9, <2>10 DEF CountsEveryPeriod
<1> QED
  BY <1>7, <1>8, <1>9, <1>10, <1>11

LEMMA ProcessEventInv ==
  ASSUME IInv, NEW r \in Requests, ProcessEvent(r)
  PROVE  IInv'
<1>1. payloads' \in SUBSET Requests /\ UNCHANGED <<stop, debug, reset_b, acts>>
  BY DEF ProcessEvent, IInv, TypeOK
<1>2. TypeOK'
  BY <1>1, ProcessEventStep DEF IInv, TypeOK
<1> QED
  BY <1>2, ProcessEventStep DEF IInv

\* The process of the counter.
LEMMA RunDownCounterProcessInv ==
  ASSUME IInv, RunDownCounterProcess
  PROVE  IInv'
<1> DEFINE u == [swt EXCEPT !.wakeups = @ \ {0}, !.run_event = Never]
           s == RunDownCounterToTime(u)
<1>0. TypeOK /\ Scheduled(swt) /\ CountsEveryPeriod /\ (swt.freeze /\ payloads # {} => swt.since = 0)
  BY DEF IInv
<1>1. u \in Device
  BY <1>0 DEF TypeOK, Device
<1>2. /\ u.cr = swt.cr /\ u.down_counter = swt.down_counter /\ u.since = swt.since /\ u.freeze = swt.freeze
      /\ u.run_event = Never
  BY <1>0 DEF TypeOK, Device
<1>3. GoOn(s)
  BY DEF RunDownCounterProcess
<1> HIDE DEF u
<1>4. /\ s \in Device /\ s.run_event = Never /\ s.freeze = swt.freeze
      /\ swt.freeze => s.since = swt.since /\ s.down_counter = swt.down_counter /\ s.cr = swt.cr
      /\ ~swt.freeze => s.since = 0 /\ s.down_counter = Minus(swt.down_counter, swt.since)
  BY <1>1, <1>2, RunType
<1> HIDE DEF s
<1>5. s.since <= TimeToNextDownCounterRun(s)
  <2>1. CASE ~swt.freeze
    BY <1>4, <2>1, TimeToNextType
  <2>2. CASE swt.freeze
    <3>1. TimeToNextDownCounterRun(s) = TimeToNextDownCounterRun(swt)
      BY <1>0, <1>4, <2>2, SameTimeToNext DEF TypeOK
    <3>2. swt.since \in Nat /\ swt.run_event \in Nat /\ TimeToNextDownCounterRun(swt) \in Nat
      BY <1>0, TimeToNextType DEF TypeOK, Device, Scheduled
    <3>3. swt.since <= TimeToNextDownCounterRun(swt)
      BY <1>0, <3>2 DEF Scheduled
    <3> QED
      BY <1>4, <2>2, <3>1, <3>3
  <2> QED
    BY <2>1, <2>2
<1>6. HasWakeup(s)
  BY <1>4 DEF HasWakeup
<1>7. /\ swt' \in Device /\ Scheduled(swt') /\ swt'.down_counter = s.down_counter /\ swt'.since \in {0, s.since}
      /\ s.freeze /\ ~swt'.freeze => swt'.since = 0
  BY <1>0, <1>3, <1>4, <1>5, <1>6, GoOnType DEF TypeOK
<1>8. UNCHANGED <<payloads, stop, debug, reset_b, left, overdue, acts>>
  BY DEF RunDownCounterProcess
<1>9. swt'.freeze /\ payloads' # {} => swt'.since = 0
  BY <1>0, <1>4, <1>7, <1>8
<1>10. CountsEveryPeriod'
  <2>1. Minus(s.down_counter, 0) = s.down_counter
    BY <1>4, MinusTwice DEF Device
  <2>2. left = s.down_counter
    BY <1>0, <1>4 DEF CountsEveryPeriod
  <2>3. swt'.since = 0 \/ swt'.freeze
    BY <1>4, <1>7
  <2> QED
    BY <1>7, <1>8, <2>1, <2>2, <2>3 DEF CountsEveryPeriod
<1>11. TypeOK'
  BY <1>0, <1>7, <1>8 DEF TypeOK
<1> QED
  BY <1>7, <1>9, <1>10, <1>11 DEF IInv

\* The reset pulse: it begins, or ends, or the device is reset with it.
LEMMA ResetPulse ==
  ASSUME TypeOK, RESET_B_Process
  PROVE  LET s == [swt EXCEPT !.gen_reset_event = "none"]
         IN \/ Restart(s) /\ reset_b' = TRUE /\ swt.reset_level = FALSE /\ reset_b = FALSE
            \/ /\ swt' \in Device
               /\ swt'.cr = swt.cr /\ swt'.to = swt.to /\ swt'.wn = swt.wn
               /\ SameCount(swt, swt')
               /\ swt'.reset_level = FALSE
               /\ swt'.got_initial_timeout = swt.got_initial_timeout
               /\ UNCHANGED <<payloads, left, overdue>>
<1> DEFINE s == [swt EXCEPT !.gen_reset_event = "none"]
           t == [swt EXCEPT !.gen_reset_event = "soon", !.reset_level = FALSE]
<1>1. s \in Device /\ s.reset_level = swt.reset_level
  BY DEF TypeOK, Device
<1>2. /\ s.cr = swt.cr /\ s.to = swt.to /\ s.wn = swt.wn /\ SameCount(swt, s)
      /\ s.got_initial_timeout = swt.got_initial_timeout
  BY DEF TypeOK, Device, SameCount
<1>3. t \in Device /\ t.reset_level = FALSE
  BY DEF TypeOK, Device
<1>4. /\ t.cr = swt.cr /\ t.to = swt.to /\ t.wn = swt.wn /\ SameCount(swt, t)
      /\ t.got_initial_timeout = swt.got_initial_timeout
  BY DEF TypeOK, Device, SameCount
<1>5. [s EXCEPT !.reset_level = FALSE, !.gen_reset_event = "soon"] = t
  BY DEF TypeOK, Device
<1>6. reset_b \in BOOLEAN /\ swt.reset_level \in BOOLEAN
  BY DEF TypeOK, Device
<1>7. \/ ~reset_b /\ ~s.reset_level /\ Restart(s)
      \/ /\ swt' = IF s.reset_level THEN t ELSE s
         /\ UNCHANGED <<payloads, left, overdue>>
  BY <1>5 DEF RESET_B_Process
<1>8. reset_b' = ~s.reset_level
  BY DEF RESET_B_Process
<1> HIDE DEF s, t
<1> QED
  BY <1>1, <1>2, <1>3, <1>4, <1>6, <1>7, <1>8 DEF s

LEMMA RESET_B_ProcessInv ==
  ASSUME IInv, RESET_B_Process
  PROVE  IInv'
<1> DEFINE s == [swt EXCEPT !.gen_reset_event = "none"]
<1>0. TypeOK /\ Scheduled(swt) /\ CountsEveryPeriod /\ (swt.freeze /\ payloads # {} => swt.since = 0)
  BY DEF IInv
<1>1. UNCHANGED <<stop, debug, acts>> /\ reset_b' \in BOOLEAN
  BY DEF RESET_B_Process
<1>2. CASE Restart(s)
  <2>1. s \in Device /\ HasWakeup(s)
    BY <1>0 DEF TypeOK, Device, HasWakeup, Scheduled
  <2> HIDE DEF s
  <2>2. /\ swt' \in Device /\ Scheduled(swt') /\ payloads' = {} /\ left' \in Counts /\ overdue' = 0
        /\ CountsEveryPeriod'
    BY <1>0, <1>2, <2>1, RestartInv DEF TypeOK
  <2> QED
    BY <1>0, <1>1, <2>2 DEF IInv, TypeOK
<1>3. CASE /\ swt' \in Device
           /\ swt'.cr = swt.cr
           /\ SameCount(swt, swt')
           /\ UNCHANGED <<payloads, left, overdue>>
  <2>1. Scheduled(swt')
    BY <1>0, <1>3, StaysScheduled DEF TypeOK
  <2>2. TypeOK'
    BY <1>0, <1>1, <1>3 DEF TypeOK
  <2> QED
    BY <1>0, <1>3, <2>1, <2>2 DEF IInv, CountsEveryPeriod, SameCount
<1> QED
  BY <1>0, <1>2, <1>3, ResetPulse

LEMMA SWT_RESET_B_ProcessInv ==
  ASSUME IInv, SWT_RESET_B_Process
  PROVE  IInv'
<1>0. TypeOK /\ Scheduled(swt)
  BY DEF IInv
<1>1. Restart(swt) /\ UNCHANGED <<stop, debug, reset_b>> /\ acts' \in 0 .. MaxActs
  BY <1>0, RequestsAssumption DEF SWT_RESET_B_Process, Act, TypeOK
<1>2. swt \in Device /\ HasWakeup(swt)
  BY <1>0 DEF TypeOK, HasWakeup, Scheduled
<1>3. /\ swt' \in Device /\ Scheduled(swt') /\ payloads' = {} /\ left' \in Counts /\ overdue' = 0
      /\ CountsEveryPeriod'
  BY <1>0, <1>1, <1>2, RestartInv DEF TypeOK
<1> QED
  BY <1>0, <1>1, <1>3 DEF IInv, TypeOK

\* A period passes.
LEMMA TickInv ==
  ASSUME IInv, Tick
  PROVE  IInv'
<1>0. TypeOK /\ Scheduled(swt) /\ CountsEveryPeriod
  BY DEF IInv
<1> DEFINE W == {w - 1 : w \in swt.wakeups}
           e == swt.run_event - 1
           n == swt.since + 1
           t == [swt EXCEPT !.since = n, !.wakeups = W, !.run_event = e]
<1>1. /\ swt.since \in Nat /\ swt.run_event \in Nat \ {0} /\ swt.wakeups \in SUBSET (Nat \ {0})
      /\ swt.down_counter \in Counts
  <2>1. 0 \notin swt.wakeups
    BY DEF Tick
  <2> QED
    BY <1>0, <2>1 DEF TypeOK, Device, Scheduled
<1>2. W \in SUBSET Nat /\ e \in Nat /\ n \in Nat /\ n + e = swt.since + swt.run_event /\ e \in W
  BY <1>0, <1>1 DEF Scheduled
<1>3. swt' = t
  <2>1. swt.run_event # Never
    BY <1>0 DEF Scheduled
  <2> QED
    BY <2>1 DEF Tick
<1> HIDE DEF W, e, n
<1>4. t \in Device
  BY <1>0, <1>2 DEF TypeOK, Device
<1>5. /\ t.cr = swt.cr /\ t.down_counter = swt.down_counter /\ t.freeze = swt.freeze
      /\ t.since = n /\ t.wakeups = W /\ t.run_event = e
  BY <1>0 DEF TypeOK, Device
<1> HIDE DEF t
<1>6. Scheduled(t)
  <2>1. TimeToNextDownCounterRun(t) = TimeToNextDownCounterRun(swt)
    BY <1>0, <1>4, <1>5, SameTimeToNext DEF TypeOK
  <2>2. e # Never
    BY <1>2, NeverAssumption
  <2> QED
    BY <1>0, <1>2, <1>5, <2>1, <2>2 DEF Scheduled
<1>7. payloads = {} /\ payloads' = {} /\ UNCHANGED <<stop, debug, reset_b>>
      /\ left' = (IF swt.freeze THEN left ELSE Minus(left, 1)) /\ overdue' \in Nat /\ acts' = 0
  BY <1>0 DEF Tick, TypeOK
<1>8. left' \in Counts
  BY <1>0, <1>7, MinusCounts DEF TypeOK
<1>9. CountsEveryPeriod'
  <2>1. Minus(Minus(swt.down_counter, swt.since), 1) = Minus(swt.down_counter, n)
    BY <1>1, MinusTwice DEF n
  <2> QED
    BY <1>0, <1>3, <1>5, <1>7, <2>1 DEF CountsEveryPeriod
<1>10. TypeOK'
  BY <1>0, <1>3, <1>4, <1>7, <1>8, RequestsAssumption DEF TypeOK
<1> QED
  BY <1>3, <1>6, <1>7, <1>9, <1>10 DEF IInv

\* The rest of the environment.
LEMMA EnvironmentInv ==
  ASSUME IInv, (\E r \in Requests : b_transport(r)) \/ SetStop \/ SetDebug
  PROVE  IInv'
<1>0. TypeOK /\ Scheduled(swt) /\ CountsEveryPeriod
  BY DEF IInv
<1>1. acts' \in 0 .. MaxActs
  BY <1>0, RequestsAssumption DEF b_transport, SetStop, SetDebug, Act, TypeOK
<1>2. CASE \E r \in Requests : b_transport(r)
  <2>1. UNCHANGED <<swt, stop, debug, reset_b, left, overdue>> /\ payloads' \in SUBSET Requests /\ ~swt.freeze
    BY <1>0, <1>2 DEF b_transport, TypeOK
  <2> QED
    BY <1>0, <1>1, <2>1 DEF IInv, TypeOK, CountsEveryPeriod
<1>3. CASE SetStop
  <2>1. UNCHANGED <<swt, payloads, debug, reset_b, left, overdue>> /\ stop' \in BOOLEAN
    BY <1>3 DEF SetStop
  <2> QED
    BY <1>0, <1>1, <2>1 DEF IInv, TypeOK, CountsEveryPeriod
<1>4. CASE SetDebug
  <2>1. UNCHANGED <<swt, payloads, stop, reset_b, left, overdue>> /\ debug' \in BOOLEAN
    BY <1>4 DEF SetDebug
  <2> QED
    BY <1>0, <1>1, <2>1 DEF IInv, TypeOK, CountsEveryPeriod
<1> QED
  BY <1>2, <1>3, <1>4

LEMMA StepInv == IInv /\ [Next]_vars => IInv'
<1> SUFFICES ASSUME IInv, [Next]_vars PROVE IInv'
  OBVIOUS
<1>1. CASE \E r \in Requests : ProcessEvent(r)
  BY <1>1, ProcessEventInv
<1>2. CASE RunDownCounterProcess
  BY <1>2, RunDownCounterProcessInv
<1>3. CASE RESET_B_Process
  BY <1>3, RESET_B_ProcessInv
<1>4. CASE SWT_RESET_B_Process
  BY <1>4, SWT_RESET_B_ProcessInv
<1>5. CASE Tick
  BY <1>5, TickInv
<1>6. CASE (\E r \in Requests : b_transport(r)) \/ SetStop \/ SetDebug
  BY <1>6, EnvironmentInv
<1>7. CASE UNCHANGED vars
  BY <1>7 DEF vars, IInv, TypeOK, CountsEveryPeriod
<1> QED
  BY <1>1, <1>2, <1>3, <1>4, <1>5, <1>6, <1>7 DEF Next

THEOREM InvariantHolds == Spec => []IInv
<1> QED
  BY InitInv, StepInv, PTL DEF Spec

\* The state of the watchdog has its types: no delay of a notification is ever
\* negative, which the unsigned time of the kernel could not hold
\* (ScheduleDownCounterRun).
THEOREM TypeCorrect == Spec => []TypeOK
<1>1. IInv => TypeOK
  BY DEF IInv
<1> QED
  BY <1>1, InvariantHolds, PTL

\* The lazy down counter is the counter that counts every period
\* (RunDownCounterToTime).
THEOREM EveryPeriodIsCounted == Spec => []CountsEveryPeriod
<1>1. IInv => CountsEveryPeriod
  BY DEF IInv
<1> QED
  BY <1>1, InvariantHolds, PTL

\* A watchdog that is on is run before its counter is past 0: the warning of
\* DecrementDownCounter, for a counter above 0.
THEOREM RunsAreInTime == Spec => []RunsInTime
<1>1. IInv => RunsInTime
  <2> SUFFICES ASSUME IInv, swt.cr.WEN, ~swt.freeze, swt.down_counter > 0
               PROVE  swt.since <= swt.down_counter
    BY DEF RunsInTime
  <2>1. swt \in Device /\ Scheduled(swt)
    BY DEF IInv, TypeOK
  <2>2. /\ swt.since \in Nat /\ swt.run_event \in Nat /\ swt.down_counter \in Nat
        /\ swt.since + swt.run_event <= TimeToNextDownCounterRun(swt)
    BY <2>1 DEF Device, Scheduled, Counts
  <2>3. TimeToNextDownCounterRun(swt) <= swt.down_counter /\ TimeToNextDownCounterRun(swt) \in Nat
    BY <2>2, CountsAssumption DEF TimeToNextDownCounterRun
  <2> QED
    BY <2>2, <2>3
<1> QED
  BY <1>1, InvariantHolds, PTL
-----------------------------------------------------------------------------
(***************************************************************************)
(* The lock.                                                               *)
(***************************************************************************)

\* The lockable registers stay, but for the soft lock, which may be opened.
LockKept ==
  /\ swt'.to = swt.to
  /\ swt'.wn = swt.wn
  /\ swt'.cr \in {swt.cr, [swt.cr EXCEPT !.SLK = FALSE]}

\* A write of a locked register is refused, and the keys open the soft lock only.
LEMMA ProcessEventLock ==
  ASSUME IInv, NEW r \in Requests, ProcessEvent(r), IsLocked(swt)
  PROVE  LockKept
<1> DEFINE s == Reached(swt, r)
<1>0. swt \in Device
  BY DEF IInv, TypeOK
<1>1. s \in Device /\ s.cr = swt.cr /\ s.to = swt.to /\ s.wn = swt.wn /\ Scheduled(s)
  BY <1>0, ReachedType, RunType DEF Reached
<1>2. r.op = "sr" => s.since <= TimeToNextDownCounterRun(s) /\ s.since = 0 /\ left = s.down_counter
  <2> SUFFICES ASSUME r.op = "sr" PROVE s.since = 0 /\ left = s.down_counter
    BY <1>1, TimeToNextType
  <2>1. ~IsRefused(swt, r) /\ r.op # "unmapped"
    BY DEF IsRefused, Lockable
  <2>2. swt.freeze => swt.since = 0
    BY DEF IInv, ProcessEvent
  <2>3. s.since = 0
    BY <2>1, <2>2, ReachedType
  <2> QED
    BY <1>1, <2>3, ReachedType, MinusTwice DEF Device
<1>3. IsLocked(s)
  BY <1>1 DEF IsLocked
<1>4. \/ swt' = s
      \/ swt' = Invalid(s)
      \/ /\ r.op \notin {"read", "sr"} /\ ~IsRefused(s, r) /\ ~IsForbidden(s, r)
         /\ swt' = ScheduleDownCounterRun(Written(s, r))
      \/ /\ r.op = "sr"
         /\ ServiceSequence(ServiceKey(UnlockSequence(ScheduleDownCounterRun(s), r.WSC)), r.WSC)
  BY DEF ProcessEvent
<1> HIDE DEF s
<1>5. CASE swt' = s
  BY <1>1, <1>5 DEF LockKept
<1>6. CASE swt' = Invalid(s)
  BY <1>1, <1>6, InvalidType DEF LockKept
<1>7. CASE /\ r.op \notin {"read", "sr"} /\ ~IsRefused(s, r) /\ ~IsForbidden(s, r)
           /\ swt' = ScheduleDownCounterRun(Written(s, r))
  <2> DEFINE t == Written(s, r)
  <2>1. r.op \notin {"read", "sr", "unmapped"} /\ r.op \notin Lockable
    BY <1>3, <1>7 DEF IsForbidden, IsRefused
  <2>2. t.cr = s.cr /\ t.to = s.to /\ t.wn = s.wn /\ t \in Device
    BY <1>1, <2>1, WrittenType
  <2> HIDE DEF t
  <2>3. swt'.cr = t.cr /\ swt'.to = t.to /\ swt'.wn = t.wn
    BY <1>7, <2>2 DEF ScheduleDownCounterRun, Device, t
  <2> QED
    BY <1>1, <2>2, <2>3 DEF LockKept
<1>8. CASE /\ r.op = "sr"
           /\ ServiceSequence(ServiceKey(UnlockSequence(ScheduleDownCounterRun(s), r.WSC)), r.WSC)
  <2> DEFINE t == ScheduleDownCounterRun(s)
             u == UnlockSequence(t, r.WSC)
             v == ServiceKey(u)
  <2>1. /\ t \in Device /\ t.cr = s.cr /\ t.to = s.to /\ t.wn = s.wn /\ Scheduled(t) /\ t.since = 0
        /\ t.down_counter = s.down_counter
    BY <1>1, <1>2, <1>8, ScheduleType DEF HasWakeup, Scheduled
  <2> HIDE DEF t
  <2>2. /\ u \in Device /\ u.cr \in {t.cr, [t.cr EXCEPT !.SLK = FALSE]} /\ u.to = t.to /\ u.wn = t.wn
        /\ SameCount(t, u)
    BY <2>1, UnlockType
  <2>3. u.cr.WEN = t.cr.WEN
    BY <2>1, <2>2 DEF Device, Control
  <2> HIDE DEF u
  <2>4. v \in Device /\ v.cr = u.cr /\ v.to = u.to /\ v.wn = u.wn /\ SameCount(u, v)
    BY <2>2, ServiceKeyType
  <2> HIDE DEF v
  <2>5. Scheduled(u)
    BY <2>1, <2>2, <2>3, StaysScheduled
  <2>6. Scheduled(v) /\ v.since = 0 /\ left = v.down_counter
    BY <1>2, <1>8, <2>1, <2>2, <2>4, <2>5, StaysScheduled DEF SameCount
  <2>7. ServiceSequence(v, r.WSC) /\ left \in Counts /\ overdue \in Nat
    BY <1>8 DEF IInv, TypeOK, t, u, v
  <2>8. swt'.cr \in {v.cr, [v.cr EXCEPT !.SLK = FALSE]} /\ swt'.to = v.to /\ swt'.wn = v.wn
    BY <2>4, <2>6, <2>7, ServiceInv
  <2>9. [[s.cr EXCEPT !.SLK = FALSE] EXCEPT !.SLK = FALSE] = [s.cr EXCEPT !.SLK = FALSE]
    BY <1>1 DEF Device, Control
  <2>10. swt'.cr \in {s.cr, [s.cr EXCEPT !.SLK = FALSE]}
    BY <2>1, <2>2, <2>4, <2>8, <2>9
  <2> QED
    BY <1>1, <2>1, <2>2, <2>4, <2>8, <2>10 DEF LockKept
<1> QED
  BY <1>4, <1>5, <1>6, <1>7, <1>8

\* Only a key sequence or a reset opens a locked register, and a hard lock is
\* for a reset only (SWT_LockableRegister, SWT_CR::Write).
THEOREM LocksHold == Spec => LockHolds
<1> DEFINE Restarted == swt'.cr = ResetCR /\ swt'.to = ResetTO /\ ~swt'.got_initial_timeout
<1>1. IInv /\ [Next]_vars => [IsLocked(swt) => LockKept \/ Restarted]_vars
  <2> SUFFICES ASSUME IInv, Next, IsLocked(swt) PROVE LockKept \/ Restarted
    OBVIOUS
  <2>0. TypeOK /\ Scheduled(swt)
    BY DEF IInv
  <2>1. CASE \E r \in Requests : ProcessEvent(r)
    BY <2>1, ProcessEventLock
  <2>2. CASE RunDownCounterProcess
    <3> DEFINE u == [swt EXCEPT !.wakeups = @ \ {0}, !.run_event = Never]
               s == RunDownCounterToTime(u)
    <3>1. u \in Device /\ u.cr = swt.cr /\ u.to = swt.to /\ u.wn = swt.wn
      BY <2>0 DEF TypeOK, Device
    <3> HIDE DEF u
    <3>2. s \in Device /\ s.cr = swt.cr /\ s.to = swt.to /\ s.wn = swt.wn
      BY <3>1, RunType
    <3>3. GoOn(s)
      BY <2>2 DEF RunDownCounterProcess, u
    <3> HIDE DEF s
    <3>4. PICK t : t = RefreshFreeze(s) /\ swt' = ScheduleDownCounterRun(t)
      BY <3>3 DEF GoOn
    <3>5. t \in Device /\ t.cr = s.cr /\ t.to = s.to /\ t.wn = s.wn
      BY <2>0, <3>2, <3>4, FreezeType DEF TypeOK
    <3>6. swt'.cr = t.cr /\ swt'.to = t.to /\ swt'.wn = t.wn
      BY <3>4, <3>5 DEF ScheduleDownCounterRun, Device
    <3> QED
      BY <3>2, <3>5, <3>6 DEF LockKept
  <2>3. CASE RESET_B_Process
    <3> DEFINE s == [swt EXCEPT !.gen_reset_event = "none"]
    <3>1. CASE Restart(s)
      <4>1. s \in Device /\ HasWakeup(s)
        BY <2>0 DEF TypeOK, Device, HasWakeup, Scheduled
      <4> HIDE DEF s
      <4> QED
        BY <2>0, <3>1, <4>1, RestartInv DEF TypeOK
    <3>2. CASE swt'.cr = swt.cr /\ swt'.to = swt.to /\ swt'.wn = swt.wn
      BY <3>2 DEF LockKept
    <3> QED
      BY <2>0, <2>3, <3>1, <3>2, ResetPulse
  <2>4. CASE SWT_RESET_B_Process
    <3>1. swt \in Device /\ HasWakeup(swt) /\ Restart(swt)
      BY <2>0, <2>4 DEF TypeOK, HasWakeup, Scheduled, SWT_RESET_B_Process
    <3> QED
      BY <2>0, <3>1, RestartInv DEF TypeOK
  <2>5. CASE Tick
    BY <2>0, <2>5 DEF Tick, TypeOK, Device, LockKept
  <2>6. CASE (\E r \in Requests : b_transport(r)) \/ SetStop \/ SetDebug
    BY <2>6 DEF b_transport, SetStop, SetDebug, LockKept
  <2> QED
    BY <2>1, <2>2, <2>3, <2>4, <2>5, <2>6 DEF Next
<1>2. [IsLocked(swt) => LockKept \/ Restarted]_vars => [IsLocked(swt) =>
       \/ swt'.to = swt.to /\ swt'.wn = swt.wn /\ swt'.cr \in {swt.cr, [swt.cr EXCEPT !.SLK = FALSE]}
       \/ swt'.cr = ResetCR /\ swt'.to = ResetTO /\ ~swt'.got_initial_timeout]_vars
  BY DEF LockKept
<1> QED
  BY <1>1, <1>2, InvariantHolds, PTL DEF Spec, LockHolds
-----------------------------------------------------------------------------
(***************************************************************************)
(* The reset of the system.                                                *)
(***************************************************************************)

\* No time-out and no reset.
SameReset(s, t) ==
  /\ t.got_initial_timeout = s.got_initial_timeout
  /\ t.gen_reset_event = s.gen_reset_event
  /\ t.reset_level = s.reset_level

\* A reset of the system.
Resets(t) == t.gen_reset_event = "now" /\ t.reset_level

\* A time-out comes only with a run that finds no time left: the interrupt
\* first, if there is one, and then the reset.
LEMMA RunReset ==
  ASSUME NEW s \in Device
  PROVE  LET t == RunDownCounterToTime(s)
             out == ~s.freeze /\ s.since # 0 /\ s.cr.WEN /\ t.down_counter = 0
         IN \/ ~out /\ SameReset(s, t)
            \/ /\ out /\ ~s.got_initial_timeout /\ t.got_initial_timeout
               /\ t.gen_reset_event = s.gen_reset_event /\ t.reset_level = s.reset_level
            \/ out /\ Resets(t)
<1> DEFINE n == Minus(s.down_counter, s.since)
           u == [s EXCEPT !.down_counter = n, !.since = 0]
<1>1. CASE s.freeze \/ s.since = 0
  BY <1>1 DEF RunDownCounterToTime, SameReset
<1>2. CASE ~(s.freeze \/ s.since = 0)
  <2>1. n \in Counts
    BY MinusCounts DEF Device
  <2> HIDE DEF n
  <2>2. u \in Device
    BY <2>1 DEF Device
  <2>3. u.cr = s.cr /\ u.down_counter = n /\ SameReset(s, u)
    BY DEF Device, SameReset
  <2>4. RunDownCounterToTime(s) = IF u.cr.WEN /\ u.down_counter = 0 THEN TimeOut(u) ELSE u
    BY <1>2 DEF RunDownCounterToTime, n
  <2> HIDE DEF u
  <2>5. RunDownCounterToTime(s).down_counter = u.down_counter
    BY <2>2, <2>4, TimeOutType DEF SameCount
  <2>6. \/ ~u.got_initial_timeout /\ TimeOut(u) = [u EXCEPT !.tif = TRUE, !.got_initial_timeout = TRUE]
        \/ TimeOut(u) = TriggerReset(u)
    BY DEF TimeOut
  <2>7. LET t == [u EXCEPT !.tif = TRUE, !.got_initial_timeout = TRUE]
        IN t.got_initial_timeout /\ t.gen_reset_event = u.gen_reset_event /\ t.reset_level = u.reset_level
    BY <2>2 DEF Device
  <2>8. Resets(TriggerReset(u))
    BY <2>2 DEF TriggerReset, Device, Resets
  <2> QED
    BY <1>2, <2>3, <2>4, <2>5, <2>6, <2>7, <2>8 DEF SameReset
<1> QED
  BY <1>1, <1>2

LEMMA InvalidReset ==
  ASSUME NEW s \in Device
  PROVE  SameReset(s, Invalid(s)) \/ (Resets(Invalid(s)) /\ s.cr.WEN /\ s.cr.RIA)
BY DEF Invalid, TriggerReset, Device, SameReset, Resets

LEMMA ScheduleReset ==
  ASSUME NEW s \in Device
  PROVE  SameReset(s, ScheduleDownCounterRun(s))
BY DEF ScheduleDownCounterRun, Device, SameReset

LEMMA FreezeReset ==
  ASSUME NEW s \in Device
  PROVE  SameReset(s, RefreshFreeze(s))
BY DEF RefreshFreeze, Device, SameReset

LEMMA UnlockReset ==
  ASSUME NEW s \in Device, NEW code
  PROVE  SameReset(s, UnlockSequence(s, code))
BY DEF UnlockSequence, Device, SameReset

LEMMA ServiceKeyReset ==
  ASSUME NEW s \in Device
  PROVE  SameReset(s, ServiceKey(s))
BY DEF ServiceKey, Device, SameReset

LEMMA WrittenReset ==
  ASSUME NEW s \in Device, NEW r \in Requests, r.op \notin {"read", "sr", "unmapped"}
  PROVE  SameReset(s, Written(s, r))
<1>1. r.op \in {"cr", "ir", "to", "wn", "sk"}
  BY RequestsAssumption DEF Request
<1> QED
  BY <1>1 DEF Written, Device, SameReset

LEMMA ResetReset ==
  ASSUME NEW s \in Device
  PROVE  Reset(s).gen_reset_event = s.gen_reset_event /\ Reset(s).reset_level = s.reset_level
BY DEF Reset, Device

\* RefreshFreeze and ScheduleDownCounterRun together.
LEMMA GoOnReset ==
  ASSUME NEW s \in Device, debug \in BOOLEAN, stop \in BOOLEAN, GoOn(s)
  PROVE  SameReset(s, swt')
<1>1. PICK t : t = RefreshFreeze(s) /\ swt' = ScheduleDownCounterRun(t)
  BY DEF GoOn
<1>2. t \in Device
  BY <1>1, FreezeType
<1> QED
  BY <1>1, <1>2, FreezeReset, ScheduleReset DEF SameReset

LEMMA RestartReset ==
  ASSUME NEW s \in Device, debug \in BOOLEAN, stop \in BOOLEAN, Restart(s)
  PROVE  swt'.gen_reset_event = s.gen_reset_event /\ swt'.reset_level = s.reset_level
<1>1. Reset(s) \in Device /\ GoOn(Reset(s))
  BY ResetType DEF Restart
<1>2. SameReset(Reset(s), swt')
  BY <1>1, GoOnReset
<1> QED
  BY <1>2, ResetReset DEF SameReset

\* A service code resets the system only outside the window.
LEMMA ServiceReset ==
  ASSUME NEW s \in Device, NEW code, ServiceSequence(s, code), HasWakeup(s), s.since = 0
  PROVE  /\ SameReset(s, swt') \/ (Resets(swt') /\ s.cr.WEN /\ s.cr.RIA /\ s.cr.WND)
         /\ UNCHANGED <<left, overdue>> \/ overdue' = 0
<1>0. 0 \in 0 .. 1 /\ 1 \in 0 .. 1
  OBVIOUS
<1>1. CASE swt' = s /\ UNCHANGED <<left, overdue>>
  BY <1>1 DEF SameReset
<1>2. CASE /\ OutsideWindow(s, code)
           /\ swt' = Invalid(IF s.cr.SMD = "keyed" THEN [s EXCEPT !.service_sequence_index = 0] ELSE s)
           /\ UNCHANGED <<left, overdue>>
  <2> DEFINE t == IF s.cr.SMD = "keyed" THEN [s EXCEPT !.service_sequence_index = 0] ELSE s
  <2>1. t \in Device /\ t.cr = s.cr /\ SameReset(s, t)
    BY <1>0 DEF Device, SameReset
  <2> HIDE DEF t
  <2>2. swt' = Invalid(t)
    BY <1>2 DEF t
  <2>3. s.cr.WND
    BY <1>2 DEF OutsideWindow, CheckWindow
  <2> QED
    BY <1>2, <2>1, <2>2, <2>3, InvalidReset DEF SameReset
<1>3. CASE swt' = [s EXCEPT !.service_sequence_index = 1] /\ UNCHANGED <<left, overdue>>
  BY <1>3 DEF SameReset, Device
<1>4. CASE /\ \E t \in {[s EXCEPT !.service_sequence_index = 0, !.cr.SLK = FALSE, !.down_counter = Load(s)]} :
                swt' = ScheduleDownCounterRun(t)
           /\ overdue' = 0
  <2> DEFINE c == [s.cr EXCEPT !.SLK = FALSE]
             n == Load(s)
             t == [s EXCEPT !.service_sequence_index = 0, !.cr = c, !.down_counter = n]
  <2>1. c \in Control /\ n \in Counts
    BY CountsAssumption DEF Device, Control, Load
  <2>2. swt' = ScheduleDownCounterRun(t)
    BY <1>4 DEF Device
  <2> HIDE DEF c, n
  <2>3. t \in Device
    BY <1>0, <2>1 DEF Device
  <2>4. SameReset(s, t)
    BY DEF Device, SameReset
  <2> HIDE DEF t
  <2> QED
    BY <1>4, <2>2, <2>3, <2>4, ScheduleReset DEF SameReset
<1> QED
  BY <1>1, <1>2, <1>3, <1>4 DEF ServiceSequence

\* An access resets the system only when it is an invalid one or runs the
\* counter out, and leaves an overdue watchdog overdue, or serves it.
LEMMA ProcessEventReset ==
  ASSUME IInv, NEW r \in Requests, ProcessEvent(r)
  PROVE  /\ \/ SameReset(Reached(swt, r), swt')
            \/ Resets(swt') /\ swt.cr.WEN /\ IsBad(r)
         /\ UNCHANGED <<left, overdue>> \/ overdue' = 0
         /\ swt'.since = Reached(swt, r).since
         /\ Reached(swt, r).since # 0 => swt'.cr = swt.cr /\ SameCount(Reached(swt, r), swt')
<1> DEFINE s == Reached(swt, r)
<1>0. swt \in Device /\ left \in Counts /\ overdue \in Nat
  BY DEF IInv, TypeOK
<1>1. s \in Device /\ s.cr = swt.cr /\ Scheduled(s)
  BY ReachedType
<1>2. ~IsRefused(swt, r) /\ r.op # "unmapped" => s.since = 0 /\ left = s.down_counter
  <2>1. swt.freeze => swt.since = 0
    BY DEF IInv, ProcessEvent
  <2> QED
    BY <1>1, <2>1, ReachedType, MinusTwice DEF Device
<1>3. IsRefused(s, r) = IsRefused(swt, r) /\ IsForbidden(s, r) = IsForbidden(swt, r)
  BY <1>1 DEF IsRefused, IsForbidden, IsLocked
<1>4. \/ swt' = s /\ UNCHANGED <<left, overdue>>
      \/ IsForbidden(s, r) /\ swt' = Invalid(s) /\ UNCHANGED <<left, overdue>>
      \/ /\ r.op \notin {"read", "sr"} /\ ~IsRefused(s, r) /\ ~IsForbidden(s, r)
         /\ swt' = ScheduleDownCounterRun(Written(s, r))
         /\ UNCHANGED <<left, overdue>>
      \/ /\ r.op = "sr"
         /\ ServiceSequence(ServiceKey(UnlockSequence(ScheduleDownCounterRun(s), r.WSC)), r.WSC)
  BY DEF ProcessEvent
<1> HIDE DEF s
<1>5. CASE swt' = s /\ UNCHANGED <<left, overdue>>
  BY <1>1, <1>5 DEF s, SameReset, SameCount
<1>6. CASE IsForbidden(s, r) /\ swt' = Invalid(s) /\ UNCHANGED <<left, overdue>>
  <2>1. SameReset(s, swt') \/ (Resets(swt') /\ swt.cr.WEN /\ swt.cr.RIA)
    BY <1>1, <1>6, InvalidReset
  <2>2. SameCount(s, swt') /\ swt'.cr = swt.cr
    BY <1>1, <1>6, InvalidType
  <2> QED
    BY <1>3, <1>6, <2>1, <2>2 DEF s, SameCount, IsBad
<1>7. CASE /\ r.op \notin {"read", "sr"} /\ ~IsRefused(s, r) /\ ~IsForbidden(s, r)
           /\ swt' = ScheduleDownCounterRun(Written(s, r))
           /\ UNCHANGED <<left, overdue>>
  <2> DEFINE t == Written(s, r)
  <2>1. r.op \notin {"read", "sr", "unmapped"}
    BY <1>7 DEF IsForbidden
  <2>2. t \in Device /\ SameCount(s, t) /\ SameReset(s, t)
    BY <1>1, <2>1, WrittenType, WrittenReset
  <2> HIDE DEF t
  <2>3. s.since = 0 /\ t.since = 0
    BY <1>2, <1>3, <1>7, <2>1, <2>2 DEF SameCount
  <2>4. SameReset(t, swt') /\ swt'.since = t.since
    BY <1>7, <2>2, ScheduleReset DEF ScheduleDownCounterRun, Device, t
  <2> QED
    BY <1>7, <2>2, <2>3, <2>4 DEF s, SameReset
<1>8. CASE /\ r.op = "sr"
           /\ ServiceSequence(ServiceKey(UnlockSequence(ScheduleDownCounterRun(s), r.WSC)), r.WSC)
  <2> DEFINE t == ScheduleDownCounterRun(s)
             u == UnlockSequence(t, r.WSC)
             v == ServiceKey(u)
  <2>1. s.since = 0 /\ left = s.down_counter
    BY <1>2, <1>8 DEF IsRefused, Lockable
  <2>2. t \in Device /\ t.cr = swt.cr /\ Scheduled(t) /\ t.since = 0 /\ t.down_counter = s.down_counter
    BY <1>1, <2>1, ScheduleType, TimeToNextType DEF HasWakeup, Scheduled
  <2>3. SameReset(s, t)
    BY <1>1, ScheduleReset
  <2> HIDE DEF t
  <2>4. u \in Device /\ SameCount(t, u) /\ u.cr \in {t.cr, [t.cr EXCEPT !.SLK = FALSE]}
    BY <2>2, UnlockType
  <2>5. u.cr.WEN = swt.cr.WEN /\ u.cr.RIA = swt.cr.RIA /\ u.cr.WND = swt.cr.WND
    BY <2>2, <2>4 DEF Device, Control
  <2>6. SameReset(t, u)
    BY <2>2, UnlockReset
  <2> HIDE DEF u
  <2>7. v \in Device /\ v.cr = u.cr /\ SameCount(u, v) /\ SameReset(u, v)
    BY <2>4, ServiceKeyType, ServiceKeyReset
  <2> HIDE DEF v
  <2>8. Scheduled(u)
    BY <2>2, <2>4, <2>5, StaysScheduled
  <2>9. Scheduled(v) /\ HasWakeup(v) /\ v.since = 0 /\ left = v.down_counter
    BY <2>1, <2>2, <2>4, <2>7, <2>8, StaysScheduled DEF SameCount, HasWakeup, Scheduled
  <2>10. ServiceSequence(v, r.WSC)
    BY <1>8 DEF t, u, v
  <2>11. /\ SameReset(v, swt') \/ (Resets(swt') /\ v.cr.WEN /\ v.cr.RIA /\ v.cr.WND)
         /\ UNCHANGED <<left, overdue>> \/ overdue' = 0
    BY <2>7, <2>9, <2>10, ServiceReset
  <2>12. swt'.since = 0
    BY <1>0, <2>7, <2>9, <2>10, ServiceInv
  <2> QED
    BY <1>8, <2>1, <2>3, <2>5, <2>6, <2>7, <2>11, <2>12 DEF s, SameReset, IsBad
<1> QED
  BY <1>4, <1>5, <1>6, <1>7, <1>8

\* What RunDownCounterProcess does to the reset.
LEMMA RunDownCounterProcessReset ==
  ASSUME IInv, RunDownCounterProcess
  PROVE  LET out == ~swt.freeze /\ swt.since # 0 /\ swt.cr.WEN /\ left = 0
         IN /\ \/ ~out /\ SameReset(swt, swt')
               \/ /\ out /\ ~swt.got_initial_timeout /\ swt'.got_initial_timeout
                  /\ swt'.gen_reset_event = swt.gen_reset_event /\ swt'.reset_level = swt.reset_level
               \/ out /\ Resets(swt')
            /\ ~swt.freeze => swt'.since = 0
<1> DEFINE u == [swt EXCEPT !.wakeups = @ \ {0}, !.run_event = Never]
           s == RunDownCounterToTime(u)
<1>0. swt \in Device /\ debug \in BOOLEAN /\ stop \in BOOLEAN /\ CountsEveryPeriod
  BY DEF IInv, TypeOK
<1>1. u \in Device
  BY <1>0 DEF Device
<1>2. /\ u.cr = swt.cr /\ u.down_counter = swt.down_counter /\ u.since = swt.since /\ u.freeze = swt.freeze
      /\ u.run_event = Never /\ SameReset(swt, u)
  BY <1>0 DEF Device, SameReset
<1>3. PICK t : t = RefreshFreeze(s) /\ swt' = ScheduleDownCounterRun(t)
  BY DEF RunDownCounterProcess, GoOn
<1> HIDE DEF u
<1>4. s \in Device /\ (~swt.freeze => s.since = 0 /\ s.down_counter = Minus(swt.down_counter, swt.since))
  BY <1>1, <1>2, RunType
<1>5. LET out == ~u.freeze /\ u.since # 0 /\ u.cr.WEN /\ s.down_counter = 0
      IN \/ ~out /\ SameReset(u, s)
         \/ /\ out /\ ~u.got_initial_timeout /\ s.got_initial_timeout
            /\ s.gen_reset_event = u.gen_reset_event /\ s.reset_level = u.reset_level
         \/ out /\ Resets(s)
  BY <1>1, RunReset
<1> HIDE DEF s
<1>6. t \in Device /\ SameReset(s, t) /\ t.since \in {0, s.since}
  BY <1>0, <1>3, <1>4, FreezeType, FreezeReset
<1>7. SameReset(t, swt') /\ swt'.since = t.since
  BY <1>3, <1>6, ScheduleReset DEF ScheduleDownCounterRun, Device
<1>8. ~swt.freeze => left = s.down_counter
  BY <1>0, <1>4 DEF CountsEveryPeriod
<1> QED
  BY <1>2, <1>4, <1>5, <1>6, <1>7, <1>8 DEF SameReset, Resets

\* An access finds no time left only when there is none.
LEMMA ReachedReset ==
  ASSUME IInv, NEW r \in Requests
  PROVE  LET s == Reached(swt, r)
             out == ~swt.freeze /\ swt.since # 0 /\ swt.cr.WEN /\ left = 0
         IN \/ s = swt
            \/ /\ s.since = 0 \/ swt.freeze
               /\ \/ ~out /\ SameReset(swt, s)
                  \/ /\ out /\ ~swt.got_initial_timeout /\ s.got_initial_timeout
                     /\ s.gen_reset_event = swt.gen_reset_event /\ s.reset_level = swt.reset_level
                  \/ out /\ Resets(s)
<1> DEFINE t == RunDownCounterToTime(swt)
<1>0. swt \in Device /\ CountsEveryPeriod
  BY DEF IInv, TypeOK
<1>1. CASE Reached(swt, r) = swt
  BY <1>1
<1>2. CASE Reached(swt, r) = t
  <2>1. ~swt.freeze => t.since = 0 /\ t.down_counter = Minus(swt.down_counter, swt.since)
    BY <1>0, RunType
  <2>2. ~swt.freeze => left = t.down_counter
    BY <1>0, <2>1 DEF CountsEveryPeriod
  <2>3. LET out == ~swt.freeze /\ swt.since # 0 /\ swt.cr.WEN /\ t.down_counter = 0
        IN \/ ~out /\ SameReset(swt, t)
           \/ /\ out /\ ~swt.got_initial_timeout /\ t.got_initial_timeout
              /\ t.gen_reset_event = swt.gen_reset_event /\ t.reset_level = swt.reset_level
           \/ out /\ Resets(t)
    BY <1>0, RunReset
  <2> HIDE DEF t
  <2> QED
    BY <1>2, <2>1, <2>2, <2>3
<1> QED
  BY <1>1, <1>2 DEF Reached

\* The watchdog does not reset a system that serves it in time and makes no
\* invalid access (DecrementDownCounter, ProcessEvent).
THEOREM BitesAreDue == Spec => NeverBitesEarly
<1> DEFINE Due == swt.cr.WEN /\ (left = 0 \/ \E r \in payloads \ payloads' : IsBad(r))
<1>1. IInv /\ [Next]_vars => [~swt.reset_level /\ swt'.reset_level => Due]_vars
  <2> SUFFICES ASSUME IInv, Next, ~swt.reset_level, swt'.reset_level PROVE Due
    OBVIOUS
  <2>0. TypeOK /\ Scheduled(swt)
    BY DEF IInv
  <2>1. CASE \E r \in Requests : ProcessEvent(r)
    <3>1. PICK r \in Requests : ProcessEvent(r)
      BY <2>1
    <3>2. r \in payloads \ payloads'
      BY <3>1 DEF ProcessEvent
    <3>3. SameReset(Reached(swt, r), swt') \/ (swt.cr.WEN /\ IsBad(r))
      BY <3>1, ProcessEventReset
    <3>4. CASE SameReset(Reached(swt, r), swt')
      BY <3>4, ReachedReset DEF SameReset
    <3> QED
      BY <3>2, <3>3, <3>4
  <2>2. CASE RunDownCounterProcess
    BY <2>2, RunDownCounterProcessReset DEF SameReset
  <2>3. CASE RESET_B_Process
    <3> DEFINE s == [swt EXCEPT !.gen_reset_event = "none"]
    <3>1. s \in Device /\ s.reset_level = swt.reset_level
      BY <2>0 DEF TypeOK, Device
    <3> HIDE DEF s
    <3>2. Restart(s) \/ swt'.reset_level = FALSE
      BY <2>0, <2>3, ResetPulse DEF s
    <3> QED
      BY <2>0, <3>1, <3>2, RestartReset DEF TypeOK
  <2>4. CASE SWT_RESET_B_Process
    BY <2>0, <2>4, RestartReset DEF SWT_RESET_B_Process, TypeOK
  <2>5. CASE Tick
    BY <2>0, <2>5 DEF Tick, TypeOK, Device
  <2>6. CASE (\E r \in Requests : b_transport(r)) \/ SetStop \/ SetDebug
    BY <2>6 DEF b_transport, SetStop, SetDebug
  <2> QED
    BY <2>1, <2>2, <2>3, <2>4, <2>5, <2>6 DEF Next
<1> QED
  BY <1>1, InvariantHolds, PTL DEF Spec, NeverBitesEarly
-----------------------------------------------------------------------------
(***************************************************************************)
(* The time a watchdog with no time left takes to reset the system.  It is *)
(* run within MaxTime; the run raises the interrupt, if that is still to   *)
(* come, or begins a reset, which no time passes before the end of.        *)
(***************************************************************************)

\* A reset that has begun goes on until the device is reset.
Pulse ==
  /\ swt.gen_reset_event # "none" => swt.reset_level \/ ~reset_b
  /\ swt.reset_level => swt.gen_reset_event = "now"

\* Before its run an overdue watchdog is on and waits for the notification;
\* after it, the interrupt has been raised.
Waits ==
  overdue > 0 /\ swt.gen_reset_event = "none" =>
    IF swt.since = 0
    THEN swt.got_initial_timeout /\ overdue <= MaxTime
    ELSE /\ swt.cr.WEN /\ ~swt.freeze
         /\ overdue + swt.run_event <= IF swt.got_initial_timeout THEN 2 * MaxTime ELSE MaxTime

Bite ==
  /\ Pulse
  /\ BitesInTime
  /\ overdue > 0 => left = 0
  /\ Waits

\* A delay is at most MaxTime.
LEMMA DelayBound ==
  ASSUME IInv
  PROVE  swt.run_event \in 0 .. MaxTime /\ swt.since \in Nat /\ MaxTime \in Nat \ {0} /\ overdue \in Nat
<1>1. swt \in Device /\ Scheduled(swt) /\ overdue \in Nat
  BY DEF IInv, TypeOK
<1>2. TimeToNextDownCounterRun(swt) \in 1 .. MaxTime
  BY <1>1, TimeToNextType
<1>3. swt.run_event \in Nat /\ swt.since \in Nat /\ swt.since + swt.run_event <= TimeToNextDownCounterRun(swt)
  BY <1>1 DEF Device, Scheduled
<1> QED
  BY <1>1, <1>2, <1>3, CountsAssumption

\* A step at one date: the process is as before, the interrupt has been raised
\* or a reset has begun.
LEMMA StepAtOneDate ==
  ASSUME IInv, Bite, IInv', UNCHANGED reset_b,
         UNCHANGED <<left, overdue>> \/ overdue' = 0,
         LET out == ~swt.freeze /\ swt.since # 0 /\ swt.cr.WEN /\ left = 0
         IN \/ SameReset(swt, swt') /\ (~out \/ (swt'.cr = swt.cr /\ SameCount(swt, swt')))
            \/ /\ out /\ ~swt.got_initial_timeout /\ swt'.got_initial_timeout /\ swt'.since = 0
               /\ swt'.gen_reset_event = swt.gen_reset_event /\ swt'.reset_level = swt.reset_level
            \/ Resets(swt'),
         swt.since = 0 => swt'.since = 0
  PROVE  Bite'
<1>1. /\ swt.run_event \in 0 .. MaxTime /\ swt'.run_event \in 0 .. MaxTime
      /\ swt.since \in Nat /\ swt'.since \in Nat /\ MaxTime \in Nat \ {0}
      /\ overdue \in Nat /\ overdue' \in Nat
  <2>1. IInv' => swt'.run_event \in 0 .. MaxTime /\ swt'.since \in Nat /\ overdue' \in Nat
    <3>1. IInv' => swt' \in Device /\ Scheduled(swt') /\ overdue' \in Nat
      BY DEF IInv, TypeOK
    <3>2. ASSUME swt' \in Device, Scheduled(swt')
          PROVE  swt'.run_event \in 0 .. MaxTime /\ swt'.since \in Nat
      <4>1. TimeToNextDownCounterRun(swt') \in 1 .. MaxTime
        BY <3>2, TimeToNextType
      <4>2. swt'.run_event \in Nat /\ swt'.since \in Nat
            /\ swt'.since + swt'.run_event <= TimeToNextDownCounterRun(swt')
        BY <3>2 DEF Device, Scheduled
      <4> QED
        BY <4>1, <4>2, CountsAssumption
    <3> QED
      BY <3>1, <3>2
  <2> QED
    BY <2>1, DelayBound
<1>2. Pulse'
  BY DEF Bite, Pulse, SameReset, Resets
<1>3. overdue' <= 2 * MaxTime
  BY <1>1 DEF Bite, BitesInTime
<1>4. overdue' > 0 => left' = 0 /\ overdue' = overdue /\ left = 0
  BY DEF Bite
<1>5. Waits'
  <2> SUFFICES ASSUME overdue' > 0, swt'.gen_reset_event = "none"
               PROVE  IF swt'.since = 0
                      THEN swt'.got_initial_timeout /\ overdue' <= MaxTime
                      ELSE /\ swt'.cr.WEN /\ ~swt'.freeze
                           /\ overdue' + swt'.run_event <= IF swt'.got_initial_timeout THEN 2 * MaxTime ELSE MaxTime
    BY DEF Waits
  <2>0. left = 0 /\ overdue' = overdue /\ overdue > 0
    BY <1>4
  <2>1. ~Resets(swt')
    BY DEF Resets
  <2>2. swt.gen_reset_event = "none"
    BY <2>1 DEF SameReset
  <2>3. IF swt.since = 0
        THEN swt.got_initial_timeout /\ overdue <= MaxTime
        ELSE /\ swt.cr.WEN /\ ~swt.freeze
             /\ overdue + swt.run_event <= IF swt.got_initial_timeout THEN 2 * MaxTime ELSE MaxTime
    BY <2>0, <2>2 DEF Bite, Waits
  <2>4. CASE swt.since = 0
    BY <1>1, <2>0, <2>1, <2>3, <2>4 DEF SameReset
  <2>5. CASE swt.since # 0
    <3>1. CASE SameReset(swt, swt')
      BY <2>0, <2>1, <2>3, <2>5, <3>1 DEF SameReset, SameCount
    <3>2. CASE ~SameReset(swt, swt')
      <4>1. ~swt.got_initial_timeout /\ swt'.got_initial_timeout /\ swt'.since = 0
        BY <2>1, <3>2
      <4> QED
        BY <1>1, <2>0, <2>3, <2>5, <4>1
    <3> QED
      BY <3>1, <3>2
  <2> QED
    BY <2>4, <2>5
<1> QED
  BY <1>2, <1>3, <1>4, <1>5 DEF Bite, BitesInTime

\* A period passes for an overdue watchdog.
LEMMA TickBite ==
  ASSUME IInv, Bite, Tick
  PROVE  Bite'
<1> DEFINE n == swt.since + 1
           e == swt.run_event - 1
           W == {w - 1 : w \in swt.wakeups}
<1>0. swt \in Device /\ Scheduled(swt) /\ left \in Counts
  BY DEF IInv, TypeOK
<1>1. /\ swt.run_event \in 1 .. MaxTime /\ swt.since \in Nat /\ MaxTime \in Nat \ {0} /\ overdue \in Nat
  <2>1. swt.run_event # 0
    BY <1>0 DEF Tick, Scheduled
  <2> QED
    BY <2>1, DelayBound
<1>2. swt.gen_reset_event = "none" /\ UNCHANGED reset_b
  BY DEF Tick
<1>3. swt' = [swt EXCEPT !.since = n, !.wakeups = W, !.run_event = e]
  BY <1>0 DEF Tick, Scheduled
<1> HIDE DEF W
<1>4. /\ swt'.since = n /\ swt'.run_event = e /\ swt'.cr = swt.cr /\ swt'.freeze = swt.freeze
      /\ SameReset(swt, swt')
  BY <1>0, <1>3 DEF Device, SameReset
<1>5. overdue' = IF swt.cr.WEN /\ ~swt.freeze /\ left = 0 THEN overdue + 1 ELSE 0
  BY DEF Tick
<1>6. left' = IF swt.freeze THEN left ELSE Minus(left, 1)
  BY DEF Tick
<1>7. Pulse'
  BY <1>2, <1>4 DEF Bite, Pulse, SameReset
<1>8. CASE ~(swt.cr.WEN /\ ~swt.freeze /\ left = 0)
  BY <1>1, <1>5, <1>7, <1>8 DEF Bite, BitesInTime, Waits
<1>9. CASE swt.cr.WEN /\ ~swt.freeze /\ left = 0
  <2>1. overdue' = overdue + 1 /\ left' = 0
    BY <1>0, <1>5, <1>6, <1>9, CountsAssumption DEF Minus
  <2>2. overdue + swt.run_event <= IF swt.got_initial_timeout THEN 2 * MaxTime ELSE MaxTime
    <3>1. CASE overdue = 0
      BY <1>1, <3>1
    <3>2. CASE overdue > 0 /\ swt.since = 0
      BY <1>1, <1>2, <3>2 DEF Bite, Waits
    <3>3. CASE overdue > 0 /\ swt.since # 0
      BY <1>1, <1>2, <3>3 DEF Bite, Waits
    <3> QED
      BY <1>1, <3>1, <3>2, <3>3
  <2>3. overdue' + swt'.run_event <= IF swt'.got_initial_timeout THEN 2 * MaxTime ELSE MaxTime
    BY <1>1, <1>4, <2>1, <2>2 DEF SameReset
  <2>4. overdue' <= 2 * MaxTime
    BY <1>1, <1>4, <2>1, <2>3
  <2>5. swt'.since # 0
    BY <1>1, <1>4
  <2> QED
    BY <1>4, <1>7, <1>9, <2>1, <2>3, <2>4, <2>5 DEF Bite, BitesInTime, Waits
<1> QED
  BY <1>8, <1>9

\* The pulse ends with the device reset.
LEMMA PulseBite ==
  ASSUME IInv, Bite, RESET_B_Process
  PROVE  Bite'
<1> DEFINE s == [swt EXCEPT !.gen_reset_event = "none"]
<1>0. TypeOK /\ Scheduled(swt) /\ MaxTime \in Nat
  BY CountsAssumption DEF IInv
<1>1. s \in Device /\ s.gen_reset_event = "none" /\ s.reset_level = swt.reset_level /\ HasWakeup(s)
  BY <1>0 DEF TypeOK, Device, HasWakeup, Scheduled
<1>2. swt.gen_reset_event # "none" /\ reset_b \in BOOLEAN /\ swt.reset_level \in BOOLEAN
  BY <1>0 DEF RESET_B_Process, TypeOK, Device
<1>3. reset_b' = ~s.reset_level
  BY DEF RESET_B_Process
<1>4. \/ ~swt.reset_level /\ Restart(s)
      \/ /\ swt.reset_level
         /\ swt' = [s EXCEPT !.reset_level = FALSE, !.gen_reset_event = "soon"]
         /\ UNCHANGED <<left, overdue>>
  <2>1. ~swt.reset_level => ~reset_b
    BY <1>2 DEF Bite, Pulse
  <2> QED
    BY <1>1, <1>2, <2>1 DEF RESET_B_Process
<1> HIDE DEF s
<1>5. CASE ~swt.reset_level /\ Restart(s)
  <2>1. overdue' = 0
    BY <1>5 DEF Restart
  <2>2. swt'.gen_reset_event = "none" /\ swt'.reset_level = swt.reset_level
    BY <1>0, <1>1, <1>5, RestartReset DEF TypeOK
  <2> QED
    BY <1>0, <1>5, <2>1, <2>2 DEF Bite, BitesInTime, Pulse, Waits
<1>6. CASE /\ swt.reset_level
           /\ swt' = [s EXCEPT !.reset_level = FALSE, !.gen_reset_event = "soon"]
           /\ UNCHANGED <<left, overdue>>
  <2>1. swt'.reset_level = FALSE /\ swt'.gen_reset_event = "soon"
    BY <1>1, <1>6 DEF Device
  <2> QED
    BY <1>1, <1>3, <1>6, <2>1 DEF Bite, BitesInTime, Pulse, Waits
<1> QED
  BY <1>4, <1>5, <1>6

LEMMA ProcessEventBite ==
  ASSUME IInv, Bite, NEW r \in Requests, ProcessEvent(r)
  PROVE  Bite'
<1> DEFINE s == Reached(swt, r)
<1>1. IInv' /\ UNCHANGED reset_b
  BY ProcessEventInv DEF ProcessEvent
<1>2. /\ SameReset(s, swt') \/ Resets(swt')
      /\ UNCHANGED <<left, overdue>> \/ overdue' = 0
      /\ swt'.since = s.since
      /\ s.since # 0 => swt'.cr = swt.cr /\ SameCount(s, swt')
  BY ProcessEventReset
<1>3. swt.freeze => s.since = swt.since
  BY ReachedType
<1>4. LET out == ~swt.freeze /\ swt.since # 0 /\ swt.cr.WEN /\ left = 0
      IN \/ s = swt
         \/ /\ s.since = 0 \/ swt.freeze
            /\ \/ ~out /\ SameReset(swt, s)
               \/ /\ out /\ ~swt.got_initial_timeout /\ s.got_initial_timeout
                  /\ s.gen_reset_event = swt.gen_reset_event /\ s.reset_level = swt.reset_level
               \/ out /\ Resets(s)
  BY ReachedReset
<1> HIDE DEF s
<1>5. swt.since = 0 => swt'.since = 0
  BY <1>2, <1>3, <1>4
<1>6. LET out == ~swt.freeze /\ swt.since # 0 /\ swt.cr.WEN /\ left = 0
      IN \/ SameReset(swt, swt') /\ (~out \/ (swt'.cr = swt.cr /\ SameCount(swt, swt')))
         \/ /\ out /\ ~swt.got_initial_timeout /\ swt'.got_initial_timeout /\ swt'.since = 0
            /\ swt'.gen_reset_event = swt.gen_reset_event /\ swt'.reset_level = swt.reset_level
         \/ Resets(swt')
  BY <1>2, <1>4 DEF SameReset, Resets
<1> QED
  BY <1>1, <1>2, <1>5, <1>6, StepAtOneDate

\* A watchdog that is on and is not served resets the system at last: after
\* MaxTime with no time left, and as long again when the interrupt comes first
\* (TimeToNextDownCounterRun, DecrementDownCounter).
THEOREM BitesAreInTime == Spec => []BitesInTime
<1>1. Init => Bite
  <2> SUFFICES ASSUME Init PROVE Bite
    OBVIOUS
  <2>1. overdue = 0 /\ reset_b = FALSE /\ MaxTime \in Nat
    BY CountsAssumption DEF Init
  <2>2. swt.reset_level = FALSE
    BY DEF Init, ScheduleDownCounterRun
  <2> QED
    BY <2>1, <2>2 DEF Bite, BitesInTime, Pulse, Waits
<1>2. IInv /\ Bite /\ [Next]_vars => Bite'
  <2> SUFFICES ASSUME IInv, Bite, [Next]_vars PROVE Bite'
    OBVIOUS
  <2>1. CASE \E r \in Requests : ProcessEvent(r)
    BY <2>1, ProcessEventBite
  <2>2. CASE RunDownCounterProcess
    <3>1. IInv' /\ UNCHANGED <<left, overdue, reset_b>>
      BY <2>2, RunDownCounterProcessInv DEF RunDownCounterProcess
    <3>2. swt.freeze \/ swt'.since = 0
      BY <2>2, RunDownCounterProcessReset
    <3>3. LET out == ~swt.freeze /\ swt.since # 0 /\ swt.cr.WEN /\ left = 0
          IN \/ ~out /\ SameReset(swt, swt')
             \/ /\ out /\ ~swt.got_initial_timeout /\ swt'.got_initial_timeout /\ swt'.since = 0
                /\ swt'.gen_reset_event = swt.gen_reset_event /\ swt'.reset_level = swt.reset_level
             \/ Resets(swt')
      BY <2>2, <3>2, RunDownCounterProcessReset
    <3>4. swt.since = 0 => swt'.since = 0
      <4>1. PICK t : t = RunDownCounterToTime([swt EXCEPT !.wakeups = @ \ {0}, !.run_event = Never]) /\ GoOn(t)
        BY <2>2 DEF RunDownCounterProcess
      <4>2. PICK f : f = RefreshFreeze(t) /\ swt' = ScheduleDownCounterRun(f)
        BY <4>1 DEF GoOn
      <4> DEFINE u == [swt EXCEPT !.wakeups = @ \ {0}, !.run_event = Never]
      <4>3. u \in Device /\ u.since = swt.since /\ u.freeze = swt.freeze
        BY DEF IInv, TypeOK, Device
      <4> HIDE DEF u
      <4>4. t \in Device /\ t.since \in {0, swt.since}
        BY <4>1, <4>3, RunType DEF u
      <4>5. f \in Device /\ f.since \in {0, t.since}
        BY <4>2, <4>4, FreezeType DEF IInv, TypeOK
      <4>6. swt'.since = f.since
        BY <4>2, <4>5 DEF ScheduleDownCounterRun, Device
      <4> QED
        BY <4>4, <4>5, <4>6
    <3> QED
      BY <3>1, <3>3, <3>4, StepAtOneDate
  <2>3. CASE RESET_B_Process
    BY <2>3, PulseBite
  <2>4. CASE SWT_RESET_B_Process
    <3>1. overdue' = 0 /\ UNCHANGED reset_b /\ Restart(swt)
      BY <2>4 DEF SWT_RESET_B_Process, Restart
    <3>2. swt'.gen_reset_event = swt.gen_reset_event /\ swt'.reset_level = swt.reset_level
      BY <3>1, RestartReset DEF IInv, TypeOK
    <3> QED
      BY <3>1, <3>2, CountsAssumption DEF Bite, BitesInTime, Pulse, Waits
  <2>5. CASE Tick
    BY <2>5, TickBite
  <2>6. CASE (\E r \in Requests : b_transport(r)) \/ SetStop \/ SetDebug
    BY <2>6 DEF b_transport, SetStop, SetDebug, Bite, BitesInTime, Pulse, Waits
  <2>7. CASE UNCHANGED vars
    BY <2>7 DEF vars, Bite, BitesInTime, Pulse, Waits
  <2> QED
    BY <2>1, <2>2, <2>3, <2>4, <2>5, <2>6, <2>7 DEF Next
<1>3. Bite => BitesInTime
  BY DEF Bite
<1> QED
  BY <1>1, <1>2, <1>3, InvariantHolds, PTL DEF Spec

=============================================================================
