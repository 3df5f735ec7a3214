--------------------------------- MODULE Swt ---------------------------------
(***************************************************************************)
(* The software watchdog timer of the MPC57xx (component/tlm2/watchdog/    *)
(* freescale/mpc57xx/swt).  The down counter is lazy: it is brought up to  *)
(* date by the accesses of the registers and by RunDownCounterProcess,     *)
(* which is notified for the date of the next time-out or, at the latest,  *)
(* for MaxTime after the last run.                                         *)
(*                                                                         *)
(* The unit of time is a period of the watchdog clock.  What happens       *)
(* within a period, the reset pulse of 10 ns among it, happens at the same *)
(* date in the model, in any order.  The device is one record, and an      *)
(* access is a function on it.  Accesses of the debugger, SWT_CO, changes  *)
(* of the clocks and the service modes that stop the simulation are left   *)
(* out.                                                                    *)
(***************************************************************************)
EXTENDS Integers

CONSTANTS Masters,    \* ids of the masters, NUM_MASTERS of them
          Codes,      \* the number of service codes, 2^16 in the code
          UnlockKeys, \* UNLOCK_SEQUENCE_PRIMARY_KEY and _SECONDARY_KEY
          FixedKeys,  \* FIXED_SERVICE_SEQUENCE_MODE_PRIMARY_KEY and _SECONDARY_KEY
          MaxCount,   \* greatest count, 2^32 - 1 in the code
          MinLoad,    \* MIN_DOWN_COUNTER_LOAD_VALUE
          MaxTime,    \* max_time_to_next_down_counter_run
          ResetCR,    \* swt_cr_reset_value
          ResetTO,    \* swt_to_reset_value
          Never,      \* the date of an event that is not notified
          Requests,   \* the accesses made
          MaxActs     \* bound on the acts of the environment at one date

Counts == 0 .. MaxCount
Keys   == 0 .. (Codes - 1)

Control == [MAP : SUBSET Masters, SMD : {"fixed", "keyed"}, RIA : BOOLEAN, WND : BOOLEAN, ITR : BOOLEAN,
            HLK : BOOLEAN, SLK : BOOLEAN, STP : BOOLEAN, FRZ : BOOLEAN, WEN : BOOLEAN]

\* A write of a register, a read of any, or an access of no register.
Request == [op : {"cr"}, id : Masters, CR : Control]
           \union [op : {"ir"}, id : Masters, TIF : BOOLEAN]
           \union [op : {"to"}, id : Masters, WTO : Counts]
           \union [op : {"wn"}, id : Masters, WST : Counts]
           \union [op : {"sk"}, id : Masters, SK : Keys]
           \union [op : {"sr"}, id : Masters, WSC : Keys]
           \union [op : {"read", "unmapped"}, id : Masters]

Lockable == {"cr", "to", "wn", "sk"}

ASSUME CodesAssumption    == Codes \in Nat \ {0} /\ UnlockKeys \in [1 .. 2 -> Keys] /\ FixedKeys \in [1 .. 2 -> Keys]
ASSUME CountsAssumption   == MaxCount \in Nat /\ MinLoad \in Counts /\ MaxTime \in Nat \ {0}
ASSUME ResetAssumption    == ResetCR \in Control /\ ResetTO \in Counts
ASSUME RequestsAssumption == Requests \subseteq Request /\ MaxActs \in Nat
ASSUME NeverAssumption    == Never \notin Nat

VARIABLES
  swt,      \* the registers and members of the device
  payloads, \* accesses due now
  stop,     \* inputs of the device
  debug,
  reset_b,  \* output: the reset of the system, when low
  left,     \* history: the down counter, had it counted every period
  overdue,  \* history: how long the watchdog has been on, with no time left
  acts      \* acts of the environment at this date

vars == <<swt, payloads, stop, debug, reset_b, left, overdue, acts>>

Device ==
  [cr : Control, tif : BOOLEAN, to : Counts, wn : Counts, sk : Keys,
   got_initial_timeout : BOOLEAN,
   unlock_sequence_index : 0 .. 1,
   service_sequence_index : 0 .. 1,
   down_counter : Counts,               \* as of the last run
   reset_level : BOOLEAN,
   gen_reset_event : {"none", "now", "soon"},
   since : Nat,                         \* now - last_down_counter_run_time
   run_event : Nat \union {Never},      \* delay before down_counter_run_event
   wakeups : SUBSET Nat,                \* delays of its notifications, those it replaced included
   freeze : BOOLEAN]

TypeOK ==
  /\ swt \in Device
  /\ payloads \in SUBSET Requests
  /\ stop \in BOOLEAN
  /\ debug \in BOOLEAN
  /\ reset_b \in BOOLEAN
  /\ left \in Counts
  /\ overdue \in Nat
  /\ acts \in 0 .. MaxActs

-----------------------------------------------------------------------------
(***************************************************************************)
(* The down counter.                                                       *)
(***************************************************************************)

\* Mutant of Minus: the count goes on below 0.
MinusBelow(count, periods) == count - periods

\* What is left of a count after some periods; it stops at 0.
Minus(count, periods) == IF count > periods THEN count - periods ELSE 0

TriggerReset(s) ==
  [s EXCEPT !.unlock_sequence_index = 0, !.service_sequence_index = 0, !.reset_level = TRUE, !.gen_reset_event = "now"]

\* Mutant of TimeOut: the interrupt is raised for ever.
TimeOutAgain(s) ==
  IF s.cr.ITR THEN [s EXCEPT !.tif = TRUE, !.got_initial_timeout = TRUE] ELSE TriggerReset(s)

\* The counter is not loaded again at the first time-out.
TimeOut(s) ==
  IF s.cr.ITR /\ ~s.got_initial_timeout
  THEN [s EXCEPT !.tif = TRUE, !.got_initial_timeout = TRUE]
  ELSE TriggerReset(s)

\* Mutant of RunDownCounterToTime: it counts while frozen.
RunThroughFreeze(s) ==
  IF s.since = 0 THEN s
  ELSE LET t == [s EXCEPT !.down_counter = Minus(s.down_counter, s.since), !.since = 0]
       IN IF t.cr.WEN /\ t.down_counter = 0 THEN TimeOut(t) ELSE t

\* Mutant of RunDownCounterToTime: the date of the run is not kept.
RunUndated(s) ==
  IF s.freeze \/ s.since = 0 THEN s
  ELSE LET t == [s EXCEPT !.down_counter = Minus(s.down_counter, s.since)]
       IN IF t.cr.WEN /\ t.down_counter = 0 THEN TimeOut(t) ELSE t

\* The periods since the last run are counted, whether the watchdog is on or not.
RunDownCounterToTime(s) ==
  IF s.freeze \/ s.since = 0 THEN s
  ELSE LET t == [s EXCEPT !.down_counter = Minus(s.down_counter, s.since), !.since = 0]
       IN IF t.cr.WEN /\ t.down_counter = 0 THEN TimeOut(t) ELSE t

TimeToNextDownCounterRun(s) ==
  IF s.cr.WEN /\ s.down_counter > 0 /\ s.down_counter < MaxTime THEN s.down_counter ELSE MaxTime

\* down_counter_run_event.notify: an earlier notification stands, and a later
\* one stays in the schedule of the kernel when it is replaced, unless it is
\* replaced by one for the next delta cycle.
ScheduleDownCounterRun(s) ==
  LET d == TimeToNextDownCounterRun(s) - s.since
  IN IF s.run_event # Never /\ s.run_event <= d THEN s
     ELSE [s EXCEPT !.run_event = d, !.wakeups = (IF d = 0 THEN @ \ {s.run_event} ELSE @) \union {d}]

\* The latched freeze; a counter that starts again has its last run now.
RefreshFreeze(s) ==
  LET freeze == (debug /\ s.cr.FRZ) \/ (stop /\ s.cr.STP)
  IN [s EXCEPT !.freeze = freeze, !.since = IF s.freeze /\ ~freeze THEN 0 ELSE @]

-----------------------------------------------------------------------------
(***************************************************************************)
(* The accesses.                                                           *)
(***************************************************************************)

IsLocked(s) == s.cr.HLK \/ s.cr.SLK

\* A wrong code leaves the sequence where it is.
UnlockSequence(s, code) ==
  IF code # UnlockKeys[s.unlock_sequence_index + 1] THEN s
  ELSE IF s.unlock_sequence_index = 0 THEN [s EXCEPT !.unlock_sequence_index = 1]
  ELSE [s EXCEPT !.unlock_sequence_index = 0, !.cr.SLK = FALSE]

CheckWindow(s) == s.cr.WND => s.down_counter < s.wn

Load(s) == IF s.to < MinLoad THEN MinLoad ELSE s.to

\* SWT_SK moves on at every write of SWT_SR in keyed mode, whatever the code.
ServiceKey(s) == IF s.cr.SMD = "keyed" THEN [s EXCEPT !.sk = (17 * @ + 3) % Codes] ELSE s

KeyMatches(s, code) == code = IF s.cr.SMD = "keyed" THEN s.sk ELSE FixedKeys[s.service_sequence_index + 1]

\* The code is a key that comes outside the window.  In keyed mode, the window
\* is checked with the second key only.
OutsideWindow(s, code) ==
  /\ KeyMatches(s, code)
  /\ s.cr.SMD = "keyed" => s.service_sequence_index = 1
  /\ ~CheckWindow(s)

\* Mutant of Invalid: SWT_CR[RIA] has no effect.
InvalidResets(s) == IF s.cr.WEN THEN TriggerReset(s) ELSE s

\* An invalid access: a bus error, or a reset of the system.
Invalid(s) == IF s.cr.WEN /\ s.cr.RIA THEN TriggerReset(s) ELSE s

\* ServiceSequence and RearmDownCounter.
ServiceSequence(s, code) ==
  \/ /\ ~KeyMatches(s, code)
     /\ swt' = s
     /\ UNCHANGED <<left, overdue>>
  \/ /\ OutsideWindow(s, code)
     /\ swt' = Invalid(IF s.cr.SMD = "keyed" THEN [s EXCEPT !.service_sequence_index = 0] ELSE s)
     /\ UNCHANGED <<left, overdue>>
  \/ /\ KeyMatches(s, code) /\ ~OutsideWindow(s, code)
     /\ s.service_sequence_index = 0
     /\ swt' = [s EXCEPT !.service_sequence_index = 1]
     /\ UNCHANGED <<left, overdue>>
  \/ /\ KeyMatches(s, code) /\ ~OutsideWindow(s, code)
     /\ s.service_sequence_index = 1
     /\ \E t \in {[s EXCEPT !.service_sequence_index = 0, !.cr.SLK = FALSE, !.down_counter = Load(s)]} :
          swt' = ScheduleDownCounterRun(t)
     /\ left' = Load(s) /\ overdue' = 0

\* The value of a register is written.
Written(s, r) ==
  CASE r.op = "cr" -> [s EXCEPT !.cr = r.CR]
    [] r.op = "ir" -> [s EXCEPT !.tif = @ /\ ~r.TIF]
    [] r.op = "to" -> [s EXCEPT !.to = r.WTO]
    [] r.op = "wn" -> [s EXCEPT !.wn = r.WST]
    [] r.op = "sk" -> [s EXCEPT !.sk = r.SK]

\* Mutant of IsRefused: the control register is not lockable.
IsRefusedOpen(s, r) == r.op \in Lockable \ {"cr"} /\ IsLocked(s)

\* A write of a locked register is ignored, without an error.
IsRefused(s, r) == r.op \in Lockable /\ IsLocked(s)

IsForbidden(s, r) == ~IsRefused(s, r) /\ (r.op = "unmapped" \/ r.id \notin s.cr.MAP)

\* The counter is run for an access that reaches an unlocked register.
Reached(s, r) == IF r.op = "unmapped" \/ IsRefused(s, r) THEN s ELSE RunDownCounterToTime(s)

-----------------------------------------------------------------------------
(***************************************************************************)
(* The processes.                                                          *)
(***************************************************************************)

\* Reset, as far as the device is concerned.
Reset(s) ==
  [s EXCEPT !.cr = ResetCR, !.tif = FALSE, !.to = ResetTO, !.wn = 0, !.sk = 0, !.got_initial_timeout = FALSE,
            !.unlock_sequence_index = 0, !.service_sequence_index = 0, !.down_counter = ResetTO, !.since = 0]

\* RefreshFreeze and ScheduleDownCounterRun, which come together.
GoOn(s) == \E t \in {RefreshFreeze(s)} : swt' = ScheduleDownCounterRun(t)

\* At the start, end_of_elaboration has reset the device, and RESET_B_Process
\* is to be run with its output low.
Init ==
  /\ stop = FALSE /\ debug = FALSE
  /\ swt = ScheduleDownCounterRun(
       [cr |-> ResetCR, tif |-> FALSE, to |-> ResetTO, wn |-> 0, sk |-> 0, got_initial_timeout |-> FALSE,
        unlock_sequence_index |-> 0, service_sequence_index |-> 0, down_counter |-> ResetTO, reset_level |-> FALSE,
        gen_reset_event |-> "now", since |-> 0, run_event |-> Never, wakeups |-> {}, freeze |-> FALSE])
  /\ payloads = {}
  /\ reset_b = FALSE
  /\ left = ResetTO
  /\ overdue = 0
  /\ acts = 0

ProcessEvent(r) ==
  /\ r \in payloads
  /\ payloads' = payloads \ {r}
  /\ \E s \in {Reached(swt, r)} :
       \/ /\ IsRefused(s, r) \/ (r.op = "read" /\ ~IsForbidden(s, r))
          /\ swt' = s
          /\ UNCHANGED <<left, overdue>>
       \/ /\ IsForbidden(s, r)
          /\ swt' = Invalid(s)
          /\ UNCHANGED <<left, overdue>>
       \/ /\ r.op \notin {"read", "sr"} /\ ~IsRefused(s, r) /\ ~IsForbidden(s, r)
          /\ \E t \in {Written(s, r)} : swt' = ScheduleDownCounterRun(t)
          /\ UNCHANGED <<left, overdue>>
       \/ /\ r.op = "sr" /\ ~IsForbidden(s, r)
          /\ \E t \in {UnlockSequence(ScheduleDownCounterRun(s), r.WSC)} : ServiceSequence(ServiceKey(t), r.WSC)
  /\ UNCHANGED <<stop, debug, reset_b, acts>>

RunDownCounterProcess ==
  /\ 0 \in swt.wakeups
  /\ \E s \in {RunDownCounterToTime([swt EXCEPT !.wakeups = @ \ {0}, !.run_event = Never])} : GoOn(s)
  /\ UNCHANGED <<payloads, stop, debug, reset_b, left, overdue, acts>>

\* Reset empties the schedule: the initiators of the accesses in it wait for ever.
Restart(s) ==
  /\ GoOn(Reset(s))
  /\ payloads' = {}
  /\ left' = ResetTO
  /\ overdue' = 0

\* The pulse begins, or it ends and the device is reset.
RESET_B_Process ==
  LET s == [swt EXCEPT !.gen_reset_event = "none"]
  IN /\ \/ swt.gen_reset_event = "now"
        \/ swt.gen_reset_event = "soon" /\ 0 \notin swt.wakeups /\ payloads = {}
     /\ IF ~reset_b /\ ~s.reset_level THEN Restart(s)
        ELSE /\ swt' = IF s.reset_level THEN [s EXCEPT !.reset_level = FALSE, !.gen_reset_event = "soon"] ELSE s
             /\ UNCHANGED <<payloads, left, overdue>>
     /\ reset_b' = ~s.reset_level
     /\ UNCHANGED <<stop, debug, acts>>

-----------------------------------------------------------------------------
(***************************************************************************)
(* The environment and time.                                               *)
(***************************************************************************)

Act == acts < MaxActs /\ acts' = acts + 1

\* No access is made while the watchdog is frozen: the schedule would go back
\* in time if it shortened the count (the delay of notify is unsigned).
b_transport(r) ==
  /\ Act
  /\ ~swt.freeze
  /\ payloads' = payloads \union {r}
  /\ UNCHANGED <<swt, stop, debug, reset_b, left, overdue>>

SetStop  == Act /\ stop' = ~stop /\ UNCHANGED <<swt, payloads, debug, reset_b, left, overdue>>
SetDebug == Act /\ debug' = ~debug /\ UNCHANGED <<swt, payloads, stop, reset_b, left, overdue>>

\* A rising edge of the reset input.
SWT_RESET_B_Process == Act /\ Restart(swt) /\ UNCHANGED <<stop, debug, reset_b>>

\* Everything due now has been done.
Tick ==
  /\ payloads = {} /\ swt.gen_reset_event = "none" /\ 0 \notin swt.wakeups
  /\ swt' = [swt EXCEPT !.since = @ + 1, !.wakeups = {w - 1 : w \in @},
                        !.run_event = IF @ = Never THEN Never ELSE @ - 1]
  /\ left' = IF swt.freeze THEN left ELSE Minus(left, 1)
  /\ overdue' = IF swt.cr.WEN /\ ~swt.freeze /\ left = 0 THEN overdue + 1 ELSE 0
  /\ acts' = 0
  /\ UNCHANGED <<payloads, stop, debug, reset_b>>

Next ==
  \/ \E r \in Requests : ProcessEvent(r) \/ b_transport(r)
  \/ RunDownCounterProcess
  \/ RESET_B_Process
  \/ SetStop \/ SetDebug
  \/ SWT_RESET_B_Process
  \/ Tick

\* The kernel goes on: it runs what is due and then goes to the next date.
Kernel == (\E r \in Requests : ProcessEvent(r)) \/ RunDownCounterProcess \/ RESET_B_Process \/ Tick

Spec == Init /\ [][Next]_vars /\ WF_vars(Kernel)

-----------------------------------------------------------------------------
(***************************************************************************)
(* Properties.                                                             *)
(***************************************************************************)

\* The lazy counter is the counter that counts every period, whatever runs it
\* and whatever starts, freezes or loads it (RunDownCounterToTime).
CountsEveryPeriod ==
  left = IF swt.freeze THEN swt.down_counter ELSE Minus(swt.down_counter, swt.since)

\* A watchdog that is on and counts is run before its counter is past 0: the
\* warning of DecrementDownCounter, for a counter that has not been at 0 since
\* its last run.
RunsInTime ==
  swt.cr.WEN /\ ~swt.freeze /\ swt.down_counter > 0 => swt.since <= swt.down_counter

\* A watchdog that is on and is not served resets the system at last, even when
\* it is turned on with no time left or raises its interrupt first
\* (TimeToNextDownCounterRun, DecrementDownCounter).
BitesInTime == overdue <= 2 * MaxTime

\* The watchdog does not reset a system that serves it in time and makes no
\* invalid access (DecrementDownCounter, ProcessEvent).
IsBad(r) == swt.cr.RIA /\ (IsForbidden(swt, r) \/ (r.op = "sr" /\ swt.cr.WND))
NeverBitesEarly ==
  [][~swt.reset_level /\ swt'.reset_level => swt.cr.WEN /\ (left = 0 \/ \E r \in payloads \ payloads' : IsBad(r))]_vars

\* Only a key sequence or a reset opens a locked register, and a hard lock is
\* for a reset only (SWT_LockableRegister, SWT_CR::Write).
LockHolds ==
  [][IsLocked(swt) =>
       \/ swt'.to = swt.to /\ swt'.wn = swt.wn /\ swt'.cr \in {swt.cr, [swt.cr EXCEPT !.SLK = FALSE]}
       \/ swt'.cr = ResetCR /\ swt'.to = ResetTO /\ ~swt'.got_initial_timeout]_vars

\* Time goes on, unless the watchdog is frozen: it is not run for ever at one
\* date (ScheduleDownCounterRun).
TimeGoesOn == []<><<Tick>>_vars \/ []<>swt.freeze

=============================================================================
