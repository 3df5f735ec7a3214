-------------------------- MODULE SimKernel_proofs --------------------------
(***************************************************************************)
(* Invariants of the event kernel, for any processes, events, sensitivity, *)
(* delays and calls.                                                       *)
(***************************************************************************)
EXTENDS SimKernel, FiniteSetTheorems, TLAPS

\* What the lemmas say of the notifications, of the waits and of the queue.
NotificationsOK ==
  /\ state \in [AllEvents -> States]
  /\ delta_events \in SUBSET AllEvents
  /\ schedule \in SUBSET Entry

WaitsOK ==
  /\ dynamically_sensitive \in [AllEvents -> SUBSET Processes]
  /\ next_trigger \in [Processes -> Wait]
  /\ remaining_count \in [Processes -> Nat \union {Wrapped}]

QueueOK ==
  /\ runnable \in [Processes -> Nat]
  /\ trigger_requested \in SUBSET Processes

-----------------------------------------------------------------------------
(***************************************************************************)
(* Notifications.                                                          *)
(***************************************************************************)

\* Ending notifications of events leaves the states and the queues in agreement.
LEMMA EndedIsQueued ==
  ASSUME NotificationsOK, PendingIsQueued,
         NEW over \in SUBSET AllEvents,
         NEW fired \in SUBSET {k \in schedule : k.event \in over},
         state' = [f \in AllEvents |-> IF f \in over THEN "NOT_NOTIFIED" ELSE state[f]],
         delta_events' = delta_events \ over,
         schedule' = schedule \ fired
  PROVE  NotificationsOK' /\ PendingIsQueued'
<1>1. NotificationsOK'
  BY DEF NotificationsOK, States
<1>2. ASSUME NEW f \in AllEvents
      PROVE  /\ state'[f] = "DELTA_NOTIFIED" <=> f \in delta_events'
             /\ state'[f] = "TIMED_NOTIFIED" => \E k \in schedule' : k.event = f /\ k.current
  <2>1. CASE f \in over
    BY <2>1
  <2>2. CASE f \notin over
    <3>1. \A k \in schedule : k.event = f => k \in schedule'
      BY <2>2
    <3> QED
      BY <2>2, <3>1 DEF PendingIsQueued
  <2> QED
    BY <2>1, <2>2
<1> QED
  BY <1>1, <1>2 DEF PendingIsQueued

\* The pending notifications of some events are entries of these events.
LEMMA ScheduledEntries ==
  ASSUME NEW E
  PROVE  Scheduled(E) \in SUBSET {k \in schedule : k.event \in E}
BY DEF Scheduled

LEMMA CancelIsQueued ==
  ASSUME NotificationsOK, PendingIsQueued, NEW e \in AllEvents, cancel(e)
  PROVE  NotificationsOK' /\ PendingIsQueued'
<1>1. state' = [f \in AllEvents |-> IF f \in {e} THEN "NOT_NOTIFIED" ELSE state[f]]
  BY DEF cancel, NotificationsOK
<1> QED
  BY <1>1, EndedIsQueued, ScheduledEntries DEF cancel

LEMMA NotifyDeltaIsQueued ==
  ASSUME NotificationsOK, PendingIsQueued, NEW e \in AllEvents, notify_delta(e)
  PROVE  NotificationsOK' /\ PendingIsQueued'
<1>1. NotificationsOK'
  BY DEF notify_delta, NotificationsOK, States
<1>2. \A k \in schedule : k.event # e => k \in schedule'
  BY DEF notify_delta, Scheduled
<1>3. \A f \in AllEvents : state'[f] = IF f = e THEN "DELTA_NOTIFIED" ELSE state[f]
  BY DEF notify_delta, NotificationsOK
<1>4. ASSUME NEW f \in AllEvents
      PROVE  /\ state'[f] = "DELTA_NOTIFIED" <=> f \in delta_events'
             /\ state'[f] = "TIMED_NOTIFIED" => \E k \in schedule' : k.event = f /\ k.current
  <2>1. CASE f = e
    BY <1>3, <2>1 DEF notify_delta
  <2>2. CASE f # e
    <3>1. f \in delta_events' <=> f \in delta_events
      BY <2>2 DEF notify_delta
    <3>2. state'[f] = state[f]
      BY <1>3, <2>2
    <3> QED
      BY <1>2, <2>2, <3>1, <3>2 DEF PendingIsQueued
  <2> QED
    BY <2>1, <2>2
<1> QED
  BY <1>1, <1>4 DEF PendingIsQueued

\* The new entry is the current one of its event; those of other events stay.
LEMMA NotifyTimedIsQueued ==
  ASSUME NotificationsOK, PendingIsQueued, NEW e \in AllEvents, NEW t \in Nat,
         state[e] # "DELTA_NOTIFIED", notify_timed(e, t)
  PROVE  NotificationsOK' /\ PendingIsQueued'
<1>1. CASE \E k \in Scheduled({e}) : k.time <= t
  BY <1>1 DEF notify_timed, notifications, NotificationsOK, PendingIsQueued
<1>2. CASE ~\E k \in Scheduled({e}) : k.time <= t
  <2> DEFINE replaced(k) == [k EXCEPT !.current = @ /\ k.event # e]
             new         == [event |-> e, time |-> t, current |-> TRUE]
  <2>1. /\ state' = [state EXCEPT ![e] = "TIMED_NOTIFIED"]
        /\ schedule' = {replaced(k) : k \in schedule} \union {new}
        /\ delta_events' = delta_events
    BY <1>2 DEF notify_timed
  <2>2. \A k \in Entry : /\ replaced(k) \in Entry
                         /\ replaced(k).event = k.event
                         /\ k.event # e => replaced(k).current = k.current
    BY DEF Entry
  <2>3. new \in Entry /\ new.event = e /\ new.current
    BY DEF Entry
  <2>4. NotificationsOK'
    BY <2>1, <2>2, <2>3 DEF NotificationsOK, States
  <2>5. ASSUME NEW f \in AllEvents, state'[f] = "TIMED_NOTIFIED"
        PROVE  \E k \in schedule' : k.event = f /\ k.current
    <3>1. CASE f = e
      BY <2>1, <2>3, <3>1
    <3>2. CASE f # e
      <4>1. PICK k \in schedule : k.event = f /\ k.current
        BY <2>1, <2>5, <3>2 DEF PendingIsQueued, NotificationsOK
      <4>2. replaced(k).event = f /\ replaced(k).current
        BY <2>2, <4>1, <3>2 DEF NotificationsOK
      <4> QED
        BY <2>1, <4>1, <4>2
    <3> QED
      BY <3>1, <3>2
  <2>6. \A f \in AllEvents : state'[f] = "DELTA_NOTIFIED" <=> f \in delta_events'
    BY <2>1 DEF PendingIsQueued, NotificationsOK
  <2> QED
    BY <2>4, <2>5, <2>6 DEF PendingIsQueued
<1> QED
  BY <1>1, <1>2

LEMMA NotifyIsQueued ==
  ASSUME NotificationsOK, PendingIsQueued, NEW e \in AllEvents, NEW t \in Nat, notify(e, t)
  PROVE  NotificationsOK' /\ PendingIsQueued'
<1>1. CASE UNCHANGED notifications
  BY <1>1 DEF notifications, NotificationsOK, PendingIsQueued
<1> QED
  BY <1>1, NotifyDeltaIsQueued, NotifyTimedIsQueued DEF notify

-----------------------------------------------------------------------------
(***************************************************************************)
(* Triggers and waits.                                                     *)
(***************************************************************************)

\* The time out event of a process is an event.
LEMMA TimeOutIsEvent ==
  ASSUME NEW p \in Processes
  PROVE  time_out_event[p] \in AllEvents
BY DEF AllEvents

\* The default wait is a wait.
LEMMA DefaultIsWait == Default \in Wait
BY DEF Default, Wait

\* Requests put processes in the queue.
LEMMA RequestOK ==
  ASSUME QueueOK, NEW P \in SUBSET Processes, Request(P)
  PROVE  QueueOK'
BY DEF QueueOK, Request

\* A run that is put off is put off because its process is suspended.
LEMMA MakeRunnableOK ==
  ASSUME QueueOK, NEW P \in SUBSET Processes, MakeRunnable(P),
         runnable_on_resuming \in SUBSET Processes, PutOffIsSuspended
  PROVE  /\ QueueOK'
         /\ runnable_on_resuming' \in SUBSET Processes
         /\ runnable_on_resuming' \subseteq suspended
<1>1. QueueOK'
  BY RequestOK DEF MakeRunnable
<1> QED
  BY <1>1 DEF MakeRunnable, PutOffIsSuspended

\* A trigger ends the notifications of its event and of the time outs it cancels.
LEMMA TriggerOK ==
  ASSUME TypeOK, PendingIsQueued, PutOffIsSuspended,
         NEW e \in AllEvents, NEW fired \in SUBSET {k \in schedule : k.event = e},
         trigger(e, fired)
  PROVE  /\ NotificationsOK' /\ WaitsOK' /\ QueueOK' /\ PendingIsQueued'
         /\ runnable_on_resuming' \in SUBSET Processes
         /\ runnable_on_resuming' \subseteq suspended
<1> DEFINE over  == {e} \union TimeOutsCancelled(e)
           ended == fired \union Scheduled(TimeOutsCancelled(e))
<1>1. trigger_dynamically(e) \in SUBSET Processes /\ trigger_statically(e) \in SUBSET Processes
  BY StaticAssumption DEF trigger_dynamically, trigger_statically, Hearing, TypeOK
<1>2. over \in SUBSET AllEvents
  BY <1>1, TimeOutIsEvent DEF TimeOutsCancelled
<1>3. ended \in SUBSET {k \in schedule : k.event \in over}
  BY DEF Scheduled
<1>4. NotificationsOK' /\ PendingIsQueued'
  <2>1. NotificationsOK
    BY DEF NotificationsOK, TypeOK
  <2>2. /\ state' = [f \in AllEvents |-> IF f \in over THEN "NOT_NOTIFIED" ELSE state[f]]
        /\ delta_events' = delta_events \ over
        /\ schedule' = schedule \ ended
    BY DEF trigger
  <2> HIDE DEF over, ended
  <2> QED
    BY <1>2, <1>3, <2>1, <2>2, EndedIsQueued
<1>5. WaitsOK'
  <2>1. dynamically_sensitive' \in [AllEvents -> SUBSET Processes]
    BY DEF trigger, TypeOK
  <2>2. next_trigger' \in [Processes -> Wait]
    BY DefaultIsWait DEF trigger, TypeOK
  <2>3. \A p \in Processes : Decrement(remaining_count[p]) \in Nat \union {Wrapped}
    BY DEF Decrement, Wrapped, TypeOK
  <2>4. remaining_count' \in [Processes -> Nat \union {Wrapped}]
    BY <2>3 DEF trigger, TypeOK
  <2> QED
    BY <2>1, <2>2, <2>4 DEF WaitsOK
<1>6. /\ QueueOK'
      /\ runnable_on_resuming' \in SUBSET Processes
      /\ runnable_on_resuming' \subseteq suspended
  <2>1. MakeRunnable(trigger_statically(e) \union trigger_dynamically(e))
    BY DEF trigger
  <2> QED
    BY <1>1, <2>1, MakeRunnableOK DEF QueueOK, TypeOK
<1> QED
  BY <1>4, <1>5, <1>6

\* Notification phases trigger one event after the other.
LEMMA NotificationTriggers ==
  ASSUME TypeOK, DeltaNotification \/ TimedNotification
  PROVE  \E e \in AllEvents, fired \in SUBSET schedule :
           trigger(e, fired) /\ UNCHANGED <<control, current, phase>>
<1>1. CASE DeltaNotification
  <2>1. PICK e \in delta_events : trigger(e, {})
    BY <1>1 DEF DeltaNotification
  <2>2. e \in AllEvents /\ {} \in SUBSET schedule
    BY DEF TypeOK
  <2> QED
    BY <1>1, <2>1, <2>2 DEF DeltaNotification
<1>2. CASE TimedNotification
  <2>1. PICK k \in schedule : trigger(k.event, {k})
    BY <1>2 DEF TimedNotification
  <2>2. k.event \in AllEvents /\ {k} \in SUBSET schedule
    BY DEF TypeOK, Entry
  <2> QED
    BY <1>2, <2>1, <2>2 DEF TimedNotification
<1> QED
  BY <1>1, <1>2

\* The count of a list of events is a natural number.
LEMMA CountedOK ==
  ASSUME TypeOK, NEW p \in Processes, NEW w \in Wait
  PROVE  Counted(p, w) \in Nat \union {Wrapped}
<1>1. w.events \in SUBSET Events
  BY DEF Wait
<1>2. Cardinality(w.events) \in Nat
  BY <1>1, EventsAssumption, FS_Subset, FS_CardinalityType
<1> QED
  BY <1>2 DEF Counted, TypeOK

\* A process that starts to wait notifies its time out at most.
LEMMA RegisterOK ==
  ASSUME TypeOK, PendingIsQueued, NEW p \in Processes, NEW w \in Wait, Register(p, w)
  PROVE  /\ NotificationsOK' /\ PendingIsQueued'
         /\ dynamically_sensitive' \in [AllEvents -> SUBSET Processes]
<1>1. NotificationsOK
  BY DEF NotificationsOK, TypeOK
<1>2. dynamically_sensitive' \in [AllEvents -> SUBSET Processes]
  BY DEF Register, TypeOK
<1>3. CASE w.time = NoTime
  BY <1>1, <1>2, <1>3 DEF Register, notifications, NotificationsOK, PendingIsQueued
<1>4. CASE w.time # NoTime
  <2>1. w.time \in Nat
    BY <1>4 DEF Wait
  <2>2. notify(time_out_event[p], w.time)
    BY <1>4 DEF Register
  <2> QED
    BY <1>1, <1>2, <2>1, <2>2, TimeOutIsEvent, NotifyIsQueued
<1> QED
  BY <1>3, <1>4

-----------------------------------------------------------------------------
(***************************************************************************)
(* The invariant and its steps.                                            *)
(***************************************************************************)
KernelInv == TypeOK /\ PendingIsQueued /\ PutOffIsSuspended

\* At the start nothing is notified and nothing is put off.
LEMMA InitEstablishes ==
  Init => KernelInv
<1> SUFFICES ASSUME Init PROVE KernelInv
  OBVIOUS
<1>1. TypeOK
  BY DefaultIsWait, InitializedAssumption, BoundsAssumption DEF Init, TypeOK, States, Wrapped
<1> QED
  BY <1>1 DEF Init, KernelInv, PendingIsQueued, PutOffIsSuspended

\* A call of a process on an event.
LEMMA EventCallKeeps ==
  ASSUME KernelInv, NEW c \in Call, EventCall(c), c.op \in {"notify", "notify_after", "cancel"}
  PROVE  /\ NotificationsOK' /\ WaitsOK' /\ QueueOK' /\ PendingIsQueued'
         /\ runnable_on_resuming' \in SUBSET Processes
         /\ runnable_on_resuming' \subseteq suspended
<1>1. NotificationsOK /\ WaitsOK /\ QueueOK
  BY DEF KernelInv, TypeOK, NotificationsOK, WaitsOK, QueueOK
<1>2. c.e \in AllEvents
  BY DEF Call, AllEvents
<1>3. CASE c.op = "notify" /\ trigger(c.e, Scheduled({c.e}))
  <2>1. Scheduled({c.e}) \in SUBSET {k \in schedule : k.event = c.e}
    BY DEF Scheduled
  <2> QED
    BY <1>2, <1>3, <2>1, TriggerOK DEF KernelInv
<1>4. CASE /\ c.op = "notify_after"
           /\ notify(c.e, c.t)
           /\ UNCHANGED <<waits, queue, runnable_on_resuming>>
  <2>1. c.t \in Nat
    BY <1>4 DEF Call
  <2>2. NotificationsOK' /\ PendingIsQueued'
    BY <1>1, <1>2, <1>4, <2>1, NotifyIsQueued DEF KernelInv
  <2> QED
    BY <1>1, <1>4, <2>2
       DEF waits, queue, WaitsOK, QueueOK, KernelInv, TypeOK, PutOffIsSuspended
<1>5. CASE /\ c.op = "cancel"
           /\ cancel(c.e)
           /\ UNCHANGED <<waits, queue, runnable_on_resuming>>
  <2>1. NotificationsOK' /\ PendingIsQueued'
    BY <1>1, <1>2, <1>5, CancelIsQueued DEF KernelInv
  <2> QED
    BY <1>1, <1>5, <2>1
       DEF waits, queue, WaitsOK, QueueOK, KernelInv, TypeOK, PutOffIsSuspended
<1> QED
  BY <1>3, <1>4, <1>5 DEF EventCall

\* A call of a process on a process: who is suspended may be put off.
LEMMA ProcessCallKeeps ==
  ASSUME KernelInv, NEW c \in Call, ProcessCall(c)
  PROVE  /\ NotificationsOK' /\ WaitsOK' /\ QueueOK' /\ PendingIsQueued'
         /\ enabled' \in SUBSET Processes /\ suspended' \in SUBSET Processes
         /\ runnable_on_resuming' \in SUBSET Processes
         /\ PutOffIsSuspended'
<1>1. NotificationsOK /\ WaitsOK /\ QueueOK
  BY DEF KernelInv, TypeOK, NotificationsOK, WaitsOK, QueueOK
<1>2. NotificationsOK' /\ WaitsOK' /\ PendingIsQueued'
  BY <1>1 DEF ProcessCall, notifications, waits, NotificationsOK, WaitsOK, PendingIsQueued, KernelInv
<1>3. enabled \in SUBSET Processes /\ suspended \in SUBSET Processes
      /\ runnable_on_resuming \in SUBSET Processes /\ runnable_on_resuming \subseteq suspended
  BY DEF KernelInv, TypeOK, PutOffIsSuspended
<1>4. CASE /\ c.op = "suspend"
           /\ suspended' = suspended \union {c.q}
           /\ UNCHANGED <<enabled, queue, runnable_on_resuming>>
  <2>1. c.q \in Processes
    BY <1>4 DEF Call
  <2> QED
    BY <1>1, <1>2, <1>3, <1>4, <2>1 DEF queue, QueueOK, PutOffIsSuspended
<1>5. CASE c.op = "resume" /\ resume(c.q) /\ UNCHANGED enabled
  <2>1. QueueOK'
    BY <1>1, <1>3, <1>5, RequestOK DEF resume
  <2> QED
    BY <1>2, <1>3, <1>5, <2>1 DEF resume, PutOffIsSuspended
<1>6. CASE /\ c.op = "disable"
           /\ enabled' = enabled \ {c.q}
           /\ UNCHANGED <<suspended, queue, runnable_on_resuming>>
  BY <1>1, <1>2, <1>3, <1>6 DEF queue, QueueOK, PutOffIsSuspended
<1>7. CASE /\ c.op = "enable"
           /\ enabled' = enabled \union {c.q}
           /\ UNCHANGED <<suspended, queue, runnable_on_resuming>>
  <2>1. c.q \in Processes
    BY <1>7 DEF Call
  <2> QED
    BY <1>1, <1>2, <1>3, <1>7, <2>1 DEF queue, QueueOK, PutOffIsSuspended
<1> QED
  BY <1>4, <1>5, <1>6, <1>7 DEF ProcessCall

\* The acts of an instant are bounded.
LEMMA ActBounded ==
  ASSUME TypeOK, Act \/ UNCHANGED acts \/ acts' = 0
  PROVE  acts' \in 0 .. MaxActs
BY BoundsAssumption DEF TypeOK, Act

\* A process that makes a call.
LEMMA MakeCallKeeps ==
  ASSUME KernelInv, NEW p \in Processes, MakeCall(p)
  PROVE  KernelInv'
<1>1. PICK c \in Calls[p] : (EventCall(c) /\ UNCHANGED control) \/ ProcessCall(c)
  BY DEF MakeCall
<1>2. c \in Call
  BY CallsAssumption
<1>3. acts' \in 0 .. MaxActs /\ UNCHANGED <<current, phase>>
  BY ActBounded DEF MakeCall, KernelInv
<1>4. CASE EventCall(c) /\ UNCHANGED control
  <2>1. c.op \in {"notify", "notify_after", "cancel"}
    BY <1>4 DEF EventCall
  <2> QED
    BY <1>2, <1>3, <1>4, <2>1, EventCallKeeps
       DEF KernelInv, TypeOK, NotificationsOK, WaitsOK, QueueOK, control, PutOffIsSuspended
<1>5. CASE ProcessCall(c)
  BY <1>2, <1>3, <1>5, ProcessCallKeeps DEF KernelInv, TypeOK, NotificationsOK, WaitsOK, QueueOK
<1> QED
  BY <1>1, <1>4, <1>5

\* A method that chooses its next trigger.
LEMMA NextTriggerKeeps ==
  ASSUME KernelInv, NEW p \in Methods, NextTrigger(p)
  PROVE  KernelInv'
<1>1. PICK w \in Waits[p] : /\ next_trigger' = [next_trigger EXCEPT ![p] = w]
                            /\ remaining_count' = [remaining_count EXCEPT ![p] = Counted(p, w)]
  BY DEF NextTrigger
<1>2. p \in Processes /\ w \in Wait
  BY WaitsAssumption DEF Processes
<1>3. Counted(p, w) \in Nat \union {Wrapped}
  BY <1>2, CountedOK DEF KernelInv
<1>4. acts' \in 0 .. MaxActs
  BY ActBounded DEF NextTrigger, KernelInv
<1> QED
  BY <1>1, <1>2, <1>3, <1>4
     DEF NextTrigger, KernelInv, TypeOK, PendingIsQueued, PutOffIsSuspended, notifications, control, queue

\* A method that returns.
LEMMA ReturnKeeps ==
  ASSUME KernelInv, NEW p \in Methods, Return(p)
  PROVE  KernelInv'
<1>1. p \in Processes /\ next_trigger[p] \in Wait
  BY DEF Processes, KernelInv, TypeOK
<1>2. Register(p, next_trigger[p])
  BY DEF Return
<1>3. /\ NotificationsOK' /\ PendingIsQueued'
      /\ dynamically_sensitive' \in [AllEvents -> SUBSET Processes]
  BY <1>1, <1>2, RegisterOK DEF KernelInv
<1> QED
  BY <1>3 DEF Return, KernelInv, TypeOK, NotificationsOK, PutOffIsSuspended, control, queue

\* A thread that waits.
LEMMA WaitForKeeps ==
  ASSUME KernelInv, NEW p \in Threads, NEW w \in Wait, WaitFor(p, w), Act \/ UNCHANGED acts
  PROVE  KernelInv'
<1>1. p \in Processes
  BY DEF Processes
<1>2. Register(p, w)
  BY DEF WaitFor
<1>3. /\ NotificationsOK' /\ PendingIsQueued'
      /\ dynamically_sensitive' \in [AllEvents -> SUBSET Processes]
  BY <1>1, <1>2, RegisterOK DEF KernelInv
<1>4. Counted(p, w) \in Nat \union {Wrapped}
  BY <1>1, CountedOK DEF KernelInv
<1>5. /\ next_trigger' \in [Processes -> Wait]
      /\ remaining_count' \in [Processes -> Nat \union {Wrapped}]
  BY <1>4 DEF WaitFor, KernelInv, TypeOK
<1>6. acts' \in 0 .. MaxActs
  BY ActBounded DEF KernelInv
<1>7. QueueOK' /\ current' \in Processes \union {None}
  BY DEF WaitFor, Yield, KernelInv, TypeOK, QueueOK, Processes
<1> QED
  BY <1>3, <1>5, <1>6, <1>7
     DEF WaitFor, KernelInv, TypeOK, NotificationsOK, QueueOK, PutOffIsSuspended, control

\* A step of the kernel that notifies nothing.
LEMMA RunKeeps ==
  ASSUME KernelInv, NEW p \in Processes, Run(p)
  PROVE  KernelInv'
<1>1. QueueOK' /\ current' \in Processes \union {None}
  BY DEF Run, KernelInv, TypeOK, QueueOK
<1> QED
  BY <1>1 DEF Run, KernelInv, TypeOK, QueueOK, PendingIsQueued, PutOffIsSuspended,
              notifications, waits, control

LEMMA PhaseKeeps ==
  ASSUME KernelInv, EndEvaluation \/ EndDelta \/ EndTimed
  PROVE  KernelInv'
BY DEF EndEvaluation, EndDelta, EndTimed, KernelInv, TypeOK, PendingIsQueued, PutOffIsSuspended,
       notifications, waits, control, queue

\* A step of the kernel that triggers an event.
LEMMA NotificationKeeps ==
  ASSUME KernelInv, NEW e \in AllEvents, NEW fired \in SUBSET {k \in schedule : k.event = e},
         trigger(e, fired), UNCHANGED <<control, current, phase, acts>>
  PROVE  KernelInv'
<1>1. /\ NotificationsOK' /\ WaitsOK' /\ QueueOK' /\ PendingIsQueued'
      /\ runnable_on_resuming' \in SUBSET Processes
      /\ runnable_on_resuming' \subseteq suspended
  BY TriggerOK DEF KernelInv
<1> QED
  BY <1>1 DEF KernelInv, TypeOK, NotificationsOK, WaitsOK, QueueOK, PutOffIsSuspended, control

\* Time goes to the first entry, so that no delay becomes negative.
LEMMA AdvanceKeeps ==
  ASSUME KernelInv, Advance
  PROVE  KernelInv'
<1>1. PICK first \in schedule :
        /\ \A k \in schedule : first.time <= k.time
        /\ schedule' = {[k EXCEPT !.time = @ - first.time] : k \in schedule}
  BY DEF Advance
<1> DEFINE nearer(k) == [k EXCEPT !.time = @ - first.time]
<1>2. first \in Entry /\ first.time \in Nat /\ schedule \in SUBSET Entry
  BY DEF KernelInv, TypeOK, Entry
<1>3. \A k \in schedule : /\ nearer(k) \in Entry
                          /\ nearer(k).event = k.event
                          /\ nearer(k).current = k.current
  BY <1>1, <1>2 DEF Entry
<1>4. schedule' = {nearer(k) : k \in schedule}
  BY <1>1
<1>5. TypeOK'
  <2>1. schedule' \in SUBSET Entry
    BY <1>3, <1>4
  <2>2. acts' \in 0 .. MaxActs
    BY ActBounded DEF Advance, KernelInv
  <2> QED
    BY <2>1, <2>2 DEF Advance, KernelInv, TypeOK, waits, control, queue
<1>6. ASSUME NEW f \in AllEvents, state'[f] = "TIMED_NOTIFIED"
      PROVE  \E k \in schedule' : k.event = f /\ k.current
  <2>1. PICK k \in schedule : k.event = f /\ k.current
    BY <1>6 DEF Advance, KernelInv, PendingIsQueued
  <2>2. nearer(k) \in schedule' /\ nearer(k).event = f /\ nearer(k).current
    BY <1>3, <1>4, <2>1
  <2> QED
    BY <2>2
<1>7. \A f \in AllEvents : state'[f] = "DELTA_NOTIFIED" <=> f \in delta_events'
  BY DEF Advance, KernelInv, PendingIsQueued
<1>8. PendingIsQueued'
  BY <1>6, <1>7 DEF PendingIsQueued
<1> QED
  BY <1>5, <1>8 DEF Advance, KernelInv, PutOffIsSuspended, control

\* Every step keeps the invariant.
LEMMA NextKeeps ==
  KernelInv /\ [Next]_vars => KernelInv'
<1> SUFFICES ASSUME KernelInv, [Next]_vars PROVE KernelInv'
  OBVIOUS
<1>1. CASE EndEvaluation \/ EndDelta \/ EndTimed
  BY <1>1, PhaseKeeps
<1>2. CASE DeltaNotification
  <2>1. PICK e \in delta_events : trigger(e, {})
    BY <1>2 DEF DeltaNotification
  <2>2. e \in AllEvents
    BY DEF KernelInv, TypeOK
  <2> QED
    BY <1>2, <2>1, <2>2, NotificationKeeps DEF DeltaNotification
<1>3. CASE Advance
  BY <1>3, AdvanceKeeps
<1>4. CASE TimedNotification
  <2>1. PICK k \in schedule : trigger(k.event, {k})
    BY <1>4 DEF TimedNotification
  <2>2. k.event \in AllEvents
    BY DEF KernelInv, TypeOK, Entry
  <2> QED
    BY <1>4, <2>1, <2>2, NotificationKeeps DEF TimedNotification
<1>5. ASSUME NEW p \in Processes, Run(p)
      PROVE  KernelInv'
  BY <1>5, RunKeeps
<1>6. ASSUME NEW p \in Methods, Return(p)
      PROVE  KernelInv'
  BY <1>6, ReturnKeeps
<1>7. ASSUME NEW p \in Threads, wait(p)
      PROVE  KernelInv'
  <2>1. CASE WaitFor(p, Default) /\ UNCHANGED acts
    BY <2>1, DefaultIsWait, WaitForKeeps
  <2>2. CASE \E w \in Waits[p] : WaitFor(p, w) /\ Act
    <3>1. PICK w \in Waits[p] : WaitFor(p, w) /\ Act
      BY <2>2
    <3>2. w \in Wait
      BY WaitsAssumption DEF Processes
    <3> QED
      BY <3>1, <3>2, WaitForKeeps
  <2> QED
    BY <1>7, <2>1, <2>2 DEF wait
<1>8. ASSUME NEW p \in Processes, MakeCall(p)
      PROVE  KernelInv'
  BY <1>8, MakeCallKeeps
<1>9. ASSUME NEW p \in Methods, NextTrigger(p)
      PROVE  KernelInv'
  BY <1>9, NextTriggerKeeps
<1>10. CASE UNCHANGED vars
  BY <1>10 DEF vars, KernelInv, TypeOK, PendingIsQueued, PutOffIsSuspended,
               notifications, waits, control, queue
<1> QED
  BY <1>1, <1>2, <1>3, <1>4, <1>5, <1>6, <1>7, <1>8, <1>9, <1>10 DEF Next, Kernel, Finish

LEMMA KernelInvAlways ==
  Spec => []KernelInv
BY InitEstablishes, NextKeeps, PTL DEF Spec

\* Every variable of the kernel keeps its type: no delay is negative, no count
\* of places in the queue either (sc_kernel).
THEOREM TypeCorrect ==
  Spec => []TypeOK
<1>1. KernelInv => TypeOK
  BY DEF KernelInv
<1> QED
  BY <1>1, KernelInvAlways, PTL

\* The states of the events and the queues of the kernel agree, even after an
\* earlier notification has taken the place of a later one (sc_event).
THEOREM PendingAlwaysQueued ==
  Spec => []PendingIsQueued
<1>1. KernelInv => PendingIsQueued
  BY DEF KernelInv
<1> QED
  BY <1>1, KernelInvAlways, PTL

\* A run is put off only while its process is suspended (suspend, resume).
THEOREM PutOffAlwaysSuspended ==
  Spec => []PutOffIsSuspended
<1>1. KernelInv => PutOffIsSuspended
  BY DEF KernelInv
<1> QED
  BY <1>1, KernelInvAlways, PTL

-----------------------------------------------------------------------------
(***************************************************************************)
(* The queue.  A process queued at the start has no request: it would be   *)
(* queued again by the first trigger, so it must run before the processes  *)
(* that trigger it at once.                                                *)
(***************************************************************************)
Fresh(p) == runnable[p] > 0 /\ p \notin trigger_requested

FreshOf(p) ==
  Fresh(p) => /\ p \in Initialized /\ p # current /\ p \notin runnable_on_resuming
              /\ phase = "evaluation"
              /\ next_trigger[p] = Default
              /\ Initialized = {p} => current = None /\ \A q \in Processes \ {p} : runnable[q] = 0

QueuedInv == KernelInv /\ QueuedOnce /\ \A p \in Processes : FreshOf(p)

\* Requests for processes that have had their first run queue each of them once.
LEMMA RequestOnce ==
  ASSUME QueueOK, QueuedOnce, NEW P \in SUBSET Processes, \A p \in P : ~Fresh(p), Request(P)
  PROVE  QueuedOnce' /\ \A p \in Processes : Fresh(p)' => Fresh(p) /\ p \notin P
<1>1. \A p \in Processes : runnable[p] \in Nat /\ runnable[p] <= 1
  BY DEF QueueOK, QueuedOnce
<1>2. \A p \in Processes : p \in P \ trigger_requested => runnable[p] = 0
  BY <1>1 DEF Fresh
<1>3. /\ \A p \in Processes : runnable'[p] = IF p \in P \ trigger_requested THEN runnable[p] + 1 ELSE runnable[p]
      /\ trigger_requested' = trigger_requested \union P
  BY DEF Request
<1> QED
  BY <1>1, <1>2, <1>3 DEF QueuedOnce, Fresh

\* Nothing that runs before a process has had its first run triggers it.
LEMMA FreshUntouched ==
  ASSUME InitialsApart, QueuedInv, NEW q \in Processes, current = q,
         NEW c \in Calls[q], c.op = "notify", NEW p \in Processes, Fresh(p)
  PROVE  p \notin trigger_statically(c.e) \union trigger_dynamically(c.e)
<1>1. p \in Initialized /\ p # q /\ next_trigger[p] = Default
  BY DEF QueuedInv, FreshOf
<1>2. Initialized # {p}
  BY ProcessesAssumption DEF QueuedInv, FreshOf
<1>3. ~Triggers(q, p)
  BY <1>1, <1>2 DEF InitialsApart
<1> QED
  BY <1>1, <1>3 DEF Triggers, trigger_statically, trigger_dynamically, Hearing

\* A trigger, when the processes yet to have their first run are not concerned.
LEMMA TriggerOnce ==
  ASSUME QueuedInv, NEW e \in AllEvents, NEW fired, trigger(e, fired),
         \A p \in Processes : Fresh(p) => p \notin trigger_statically(e) \union trigger_dynamically(e)
  PROVE  /\ QueuedOnce'
         /\ \A p \in Processes : Fresh(p)' => /\ Fresh(p)
                                              /\ next_trigger'[p] = next_trigger[p]
                                              /\ p \notin runnable_on_resuming'
<1> DEFINE P == trigger_statically(e) \union trigger_dynamically(e)
<1>1. /\ QueueOK /\ QueuedOnce /\ P \in SUBSET Processes
  BY StaticAssumption
     DEF QueuedInv, KernelInv, TypeOK, QueueOK, trigger_dynamically, trigger_statically, Hearing
<1>2. MakeRunnable(P)
  BY DEF trigger
<1>3. QueuedOnce' /\ \A p \in Processes : Fresh(p)' => Fresh(p) /\ p \notin P \ suspended
  <2>1. P \ suspended \in SUBSET Processes /\ (\A p \in P \ suspended : ~Fresh(p)) /\ Request(P \ suspended)
    BY <1>1, <1>2 DEF MakeRunnable
  <2> QED
    BY <1>1, <2>1, RequestOnce
<1>4. \A p \in Processes : Fresh(p) => /\ p \notin P
                                       /\ p \notin runnable_on_resuming
                                       /\ next_trigger'[p] = next_trigger[p]
  BY DEF QueuedInv, FreshOf, trigger
<1> QED
  BY <1>2, <1>3, <1>4 DEF MakeRunnable

\* What the processes do while one runs: it is then not the only initial one
\* that has not.
LEMMA FreshWhileRunning ==
  ASSUME QueuedInv, current \in Processes, UNCHANGED phase, NEW p \in Processes,
         current' = None \/ current' # p,
         Fresh(p)' => Fresh(p) /\ next_trigger'[p] = next_trigger[p] /\ p \notin runnable_on_resuming'
  PROVE  FreshOf(p)'
BY ProcessesAssumption DEF QueuedInv, FreshOf

LEMMA QueuedCall ==
  ASSUME InitialsApart, QueuedInv, NEW q \in Processes, MakeCall(q)
  PROVE  QueuedOnce' /\ \A p \in Processes : FreshOf(p)'
<1>1. PICK c \in Calls[q] : (EventCall(c) /\ UNCHANGED control) \/ ProcessCall(c)
  BY DEF MakeCall
<1>2. c \in Call /\ current = q /\ UNCHANGED <<current, phase>>
  BY CallsAssumption DEF MakeCall
<1>3. QueueOK /\ QueuedOnce /\ runnable_on_resuming \in SUBSET Processes /\ KernelInv
  BY DEF QueuedInv, KernelInv, TypeOK, QueueOK
<1>4. ASSUME UNCHANGED queue, runnable_on_resuming' \subseteq runnable_on_resuming, UNCHANGED next_trigger
      PROVE  QueuedOnce' /\ \A p \in Processes : FreshOf(p)'
  <2>1. \A p \in Processes : Fresh(p)' => Fresh(p) /\ p \notin runnable_on_resuming'
    BY <1>4 DEF Fresh, queue, QueuedInv, FreshOf
  <2>2. \A p \in Processes : FreshOf(p)'
    BY <1>2, <1>4, <2>1, FreshWhileRunning DEF QueuedInv, FreshOf
  <2> QED
    BY <1>3, <1>4, <2>2 DEF QueuedOnce, queue
<1>5. CASE c.op = "notify" /\ trigger(c.e, Scheduled({c.e}))
  <2>1. c.e \in AllEvents
    BY <1>2, <1>5 DEF Call, AllEvents
  <2>2. \A p \in Processes : Fresh(p) => p \notin trigger_statically(c.e) \union trigger_dynamically(c.e)
    BY <1>2, <1>5, FreshUntouched
  <2>3. /\ QueuedOnce'
        /\ \A p \in Processes : Fresh(p)' => /\ Fresh(p)
                                             /\ next_trigger'[p] = next_trigger[p]
                                             /\ p \notin runnable_on_resuming'
    BY <1>5, <2>1, <2>2, TriggerOnce
  <2> QED
    BY <1>2, <2>3, FreshWhileRunning DEF QueuedInv, FreshOf
<1>6. CASE EventCall(c) /\ c.op # "notify"
  BY <1>4, <1>6 DEF EventCall, waits
<1>7. CASE ProcessCall(c) /\ resume(c.q)
  <2>1. /\ Request(runnable_on_resuming \intersect {c.q})
        /\ runnable_on_resuming' \subseteq runnable_on_resuming /\ UNCHANGED next_trigger
    BY <1>7 DEF resume, ProcessCall, waits
  <2>2. \A p \in runnable_on_resuming \intersect {c.q} : ~Fresh(p)
    BY <1>3 DEF QueuedInv, FreshOf
  <2>3. QueuedOnce' /\ \A p \in Processes : Fresh(p)' => Fresh(p)
    BY <1>3, <2>1, <2>2, RequestOnce
  <2>4. \A p \in Processes : Fresh(p) => p \notin runnable_on_resuming
    BY DEF QueuedInv, FreshOf
  <2> QED
    BY <1>2, <2>1, <2>3, <2>4, FreshWhileRunning DEF QueuedInv, FreshOf
<1>8. CASE ProcessCall(c) /\ ~resume(c.q)
  BY <1>4, <1>8 DEF ProcessCall, waits
<1> QED
  BY <1>1, <1>5, <1>6, <1>7, <1>8 DEF EventCall

\* A step that takes a process out of the queue, or leaves the queue alone.
LEMMA QueuedOther ==
  ASSUME QueuedInv, UNCHANGED <<runnable_on_resuming, trigger_requested>>,
         NEW q \in Processes, current = q, UNCHANGED phase,
         runnable' = runnable \/ \E r \in Processes : /\ runnable' = [runnable EXCEPT ![r] = @ - 1]
                                                      /\ runnable[r] > 0 /\ current' = r,
         runnable' = runnable => current' \in {q, None},
         \A p \in Processes \ {q} : next_trigger'[p] = next_trigger[p]
  PROVE  QueuedOnce' /\ \A p \in Processes : FreshOf(p)'
<1>1. \A p \in Processes : runnable[p] \in Nat /\ runnable[p] <= 1
  BY DEF QueuedInv, KernelInv, TypeOK, QueuedOnce
<1>2. ASSUME NEW p \in Processes
      PROVE  /\ runnable'[p] <= 1
             /\ Fresh(p)' => Fresh(p) /\ current' # p
  <2>1. CASE runnable' = runnable
    BY <1>1, <2>1, ProcessesAssumption DEF Fresh, QueuedInv, FreshOf
  <2>2. CASE \E r \in Processes : /\ runnable' = [runnable EXCEPT ![r] = @ - 1]
                                  /\ runnable[r] > 0 /\ current' = r
    <3>1. PICK r \in Processes : /\ runnable' = [runnable EXCEPT ![r] = @ - 1]
                                 /\ runnable[r] > 0 /\ current' = r
      BY <2>2
    <3>2. runnable'[p] = IF p = r THEN runnable[p] - 1 ELSE runnable[p]
      BY <3>1 DEF QueuedInv, KernelInv, TypeOK
    <3> QED
      BY <1>1, <3>1, <3>2 DEF Fresh
  <2> QED
    BY <2>1, <2>2
<1>3. ASSUME NEW p \in Processes PROVE FreshOf(p)'
  <2>1. Fresh(p) => p # q /\ p \notin runnable_on_resuming
    BY DEF QueuedInv, FreshOf
  <2> QED
    BY <1>2, <2>1, FreshWhileRunning DEF FreshOf
<1> QED
  BY <1>2, <1>3 DEF QueuedOnce

LEMMA QueuedStep ==
  ASSUME InitialsApart
  PROVE  QueuedInv /\ [Next]_vars => QueuedInv'
<1> SUFFICES ASSUME QueuedInv, [Next]_vars PROVE QueuedOnce' /\ \A p \in Processes : FreshOf(p)'
  BY NextKeeps DEF QueuedInv
<1>1. /\ TypeOK /\ QueuedOnce /\ \A p \in Processes : FreshOf(p)
      /\ \A p \in Processes : runnable[p] \in Nat
  BY DEF QueuedInv, KernelInv, TypeOK
<1>2. ASSUME UNCHANGED <<queue, next_trigger, current, runnable_on_resuming>>,
             phase' = phase \/ NoneRunnable \/ phase # "evaluation"
      PROVE  QueuedOnce' /\ \A p \in Processes : FreshOf(p)'
  BY <1>1, <1>2 DEF QueuedOnce, FreshOf, Fresh, queue, NoneRunnable
<1>3. CASE EndEvaluation \/ EndDelta \/ Advance \/ EndTimed
  BY <1>2, <1>3 DEF EndEvaluation, EndDelta, Advance, EndTimed, waits
<1>4. CASE DeltaNotification \/ TimedNotification
  <2>1. PICK e \in AllEvents, fired \in SUBSET schedule : trigger(e, fired) /\ UNCHANGED <<current, phase>>
    BY <1>1, <1>4, NotificationTriggers
  <2>2. \A p \in Processes : ~Fresh(p)
    BY <1>1, <1>4 DEF FreshOf, DeltaNotification, TimedNotification
  <2> QED
    BY <2>1, <2>2, TriggerOnce DEF FreshOf
<1>5. ASSUME NEW q \in Processes, Run(q) PROVE QueuedOnce' /\ \A p \in Processes : FreshOf(p)'
  <2>1. \A p \in Processes : runnable'[p] = IF p = q THEN runnable[p] - 1 ELSE runnable[p]
    BY <1>1, <1>5 DEF Run, TypeOK
  <2>2. runnable'[q] = 0
    BY <1>1, <1>5, <2>1 DEF Run, QueuedOnce
  <2>3. ASSUME NEW p \in Processes PROVE FreshOf(p)'
    <3>1. Fresh(p)' => Fresh(p) /\ p # q
      BY <1>5, <2>1, <2>2 DEF Fresh, Run
    <3>2. Fresh(p) /\ p # q => Initialized # {p}
      BY <1>1, <1>5 DEF FreshOf, Run
    <3> QED
      BY <1>1, <1>5, <3>1, <3>2 DEF FreshOf, Run, waits
  <2> QED
    BY <1>1, <1>5, <2>1, <2>3 DEF QueuedOnce
<1>6. ASSUME NEW q \in Methods, Return(q) PROVE QueuedOnce' /\ \A p \in Processes : FreshOf(p)'
  BY <1>6, QueuedOther DEF Return, queue, Processes
<1>7. ASSUME NEW q \in Threads, wait(q) PROVE QueuedOnce' /\ \A p \in Processes : FreshOf(p)'
  <2>1. PICK w : WaitFor(q, w)
    BY <1>7 DEF wait
  <2>2. \A p \in Processes \ {q} : next_trigger'[p] = next_trigger[p]
    BY <1>1, <2>1 DEF WaitFor, TypeOK
  <2>3. CASE runnable' = runnable /\ current' = None
    BY <2>1, <2>2, <2>3, QueuedOther DEF WaitFor, Yield, Processes
  <2>4. CASE \E r \in Threads : runnable[r] > 0 /\ current' = r /\ runnable' = [runnable EXCEPT ![r] = @ - 1]
    <3>1. PICK r \in Processes : runnable[r] > 0 /\ current' = r /\ runnable' = [runnable EXCEPT ![r] = @ - 1]
      BY <2>4 DEF Processes
    <3>2. runnable' # runnable
      BY <1>1, <3>1 DEF TypeOK
    <3> QED
      BY <2>1, <2>2, <3>1, <3>2, QueuedOther DEF WaitFor, Yield, Processes
  <2> QED
    BY <2>1, <2>3, <2>4 DEF WaitFor, Yield
<1>8. ASSUME NEW q \in Processes, MakeCall(q) PROVE QueuedOnce' /\ \A p \in Processes : FreshOf(p)'
  BY <1>8, QueuedCall
<1>9. ASSUME NEW q \in Methods, NextTrigger(q) PROVE QueuedOnce' /\ \A p \in Processes : FreshOf(p)'
  <2>1. \A p \in Processes \ {q} : next_trigger'[p] = next_trigger[p]
    BY <1>1, <1>9 DEF NextTrigger, TypeOK
  <2> QED
    BY <1>9, <2>1, QueuedOther DEF NextTrigger, queue, Processes
<1>10. CASE UNCHANGED vars
  BY <1>2, <1>10 DEF vars, waits
<1> QED
  BY <1>3, <1>4, <1>5, <1>6, <1>7, <1>8, <1>9, <1>10 DEF Next, Kernel, Finish

LEMMA QueuedInit == Init => QueuedInv
<1> SUFFICES ASSUME Init PROVE QueuedOnce /\ \A p \in Processes : FreshOf(p)
  BY InitEstablishes DEF QueuedInv
<1> QED
  BY ProcessesAssumption, InitializedAssumption DEF Init, QueuedOnce, FreshOf, Fresh

\* No process has two places in the queue, whatever is notified, suspended and
\* resumed, once those queued at the start run before what triggers them
\* (sc_kernel::trigger, initialize).
THEOREM AlwaysQueuedOnce ==
  ASSUME InitialsApart
  PROVE  Spec => []QueuedOnce
<1>1. QueuedInv => QueuedOnce
  BY DEF QueuedInv
<1> QED
  BY <1>1, QueuedInit, QueuedStep, PTL DEF Spec

-----------------------------------------------------------------------------
(***************************************************************************)
(* The waits.  A process in the queue waits for nothing, the one that runs *)
(* is in the set of no event, and the count of an AND list is that of the  *)
(* events it still waits for, at least.                                    *)
(***************************************************************************)
PlainWaiting == /\ InitialsApart /\ NoSelfTrigger /\ WaitsShaped
                /\ NeverCalled("suspend")

Ready(p) == runnable[p] > 0 => p # current /\ next_trigger[p] = Default

HearsItsOwn(p) ==
  \A e \in AllEvents :
    p \in dynamically_sensitive[e] => p # current /\ (e \in next_trigger[p].events \/ TimedOut(p, e))

\* The events of a wait that the process has yet to hear; it starts to hear them
\* when its run ends.
Awaited(p) == {e \in next_trigger[p].events : p = current \/ p \in dynamically_sensitive[e]}

CountsEnough(p) ==
  next_trigger[p].list = "and" => remaining_count[p] \in Nat /\ remaining_count[p] >= Cardinality(Awaited(p))

WaitOf(p) == Ready(p) /\ HearsItsOwn(p) /\ Shaped(next_trigger[p]) /\ CountsEnough(p)

WaitsInv ==
  /\ QueuedInv
  /\ suspended = {} /\ runnable_on_resuming = {}
  /\ current # None => phase = "evaluation"
  /\ \A p \in Processes : WaitOf(p)

\* The events of a wait are events of the program, a finite set.
LEMMA AwaitedFinite ==
  ASSUME TypeOK, NEW p \in Processes
  PROVE  /\ next_trigger[p] \in Wait /\ next_trigger[p].events \in SUBSET Events
         /\ IsFiniteSet(Awaited(p)) /\ Cardinality(Awaited(p)) \in Nat
<1>1. next_trigger[p] \in Wait /\ next_trigger[p].events \in SUBSET Events
  BY DEF TypeOK, Wait
<1>2. Awaited(p) \in SUBSET Events
  BY <1>1 DEF Awaited
<1> QED
  BY <1>1, <1>2, EventsAssumption, FS_Subset, FS_CardinalityType

\* The time out events are events of no wait.
LEMMA TimeOutsApart ==
  ASSUME NEW p \in Processes
  PROVE  /\ time_out_event[p] \in AllEvents /\ time_out_event[p] \notin Events
         /\ \A q \in Processes : time_out_event[q] = time_out_event[p] => q = p
BY EventsAssumption, TimeOutIsEvent

\* What a trigger does to the wait of a process it does not run.
LEMMA WaitGoesOn ==
  ASSUME WaitsInv, NEW e \in AllEvents, NEW fired, trigger(e, fired), UNCHANGED current,
         NEW p \in Processes, p \notin trigger_dynamically(e)
  PROVE  /\ next_trigger'[p] = next_trigger[p]
         /\ \A f \in AllEvents : p \in dynamically_sensitive'[f] => p \in dynamically_sensitive[f] /\ f # e
         /\ \A f \in Events : f # e /\ p \in dynamically_sensitive[f] => p \in dynamically_sensitive'[f]
         /\ remaining_count'[p] = IF p \in Counting(e) THEN Decrement(remaining_count[p]) ELSE remaining_count[p]
<1> DEFINE over == {e} \union TimeOutsCancelled(e)
<1>1. /\ dynamically_sensitive' =
           [f \in AllEvents |-> IF f \in over THEN {}
                                ELSE {q \in dynamically_sensitive[f] : ~Withdrawn(q, e, f)}]
      /\ next_trigger' = [q \in Processes |-> IF q \in trigger_dynamically(e) THEN Default
                                              ELSE next_trigger[q]]
      /\ remaining_count' = [q \in Processes |-> IF q \in Counting(e) THEN Decrement(remaining_count[q])
                                                 ELSE remaining_count[q]]
  BY DEF trigger
<1>2. ~\E f : Withdrawn(p, e, f)
  BY DEF Withdrawn
<1>3. trigger_dynamically(e) \in SUBSET Processes
  BY DEF trigger_dynamically, Hearing, WaitsInv, QueuedInv, KernelInv, TypeOK
<1>4. \A f \in Events : f \in AllEvents /\ f \notin TimeOutsCancelled(e)
  BY <1>3, TimeOutsApart DEF TimeOutsCancelled, AllEvents
<1> QED
  BY <1>1, <1>2, <1>4

\* The process whose wait a trigger ends is withdrawn from all of it: from the
\* event and the time outs cancelled with everyone, from the others by itself.
LEMMA WaitEnds ==
  ASSUME WaitsInv, NEW e \in AllEvents, NEW fired, trigger(e, fired),
         NEW p \in trigger_dynamically(e)
  PROVE  /\ p \in Processes /\ p # current
         /\ next_trigger'[p] = Default
         /\ \A f \in AllEvents : p \notin dynamically_sensitive'[f]
<1>1. /\ p \in Processes /\ p # current /\ p \in dynamically_sensitive[e] /\ next_trigger[p] # Default
      /\ p \in Counting(e) => Decrement(remaining_count[p]) = 0
      /\ TypeOK /\ WaitOf(p)
  BY DEF trigger_dynamically, Hearing, WaitsInv, QueuedInv, KernelInv, TypeOK
<1>2. next_trigger'[p] = Default
  BY <1>1 DEF trigger
<1>3. SUFFICES ASSUME NEW f \in AllEvents, p \in dynamically_sensitive'[f] PROVE FALSE
  BY <1>1, <1>2
<1>4. /\ f # e /\ f \notin TimeOutsCancelled(e)
      /\ p \in dynamically_sensitive[f] /\ ~Withdrawn(p, e, f)
  BY <1>3 DEF trigger
<1>5. /\ e \in next_trigger[p].events \/ TimedOut(p, e)
      /\ f \in next_trigger[p].events \/ TimedOut(p, f)
      /\ Shaped(next_trigger[p])
  BY <1>1, <1>4 DEF WaitOf, HearsItsOwn
<1>6. next_trigger[p] \in Wait
  BY <1>1, AwaitedFinite
<1>7. CASE TimedOut(p, f)
  BY <1>1, <1>4, <1>5, <1>7 DEF TimedOut, TimeOutsCancelled, Shaped
<1>8. CASE f \in next_trigger[p].events /\ next_trigger[p].list # "and"
  BY <1>4, <1>5, <1>6, <1>8 DEF Withdrawn, Shaped, Wait
<1>9. CASE f \in next_trigger[p].events /\ next_trigger[p].list = "and"
  <2>1. ~TimedOut(p, e)
    BY <1>5, <1>9 DEF Shaped, TimedOut, Timed
  <2>2. p \in Counting(e)
    <3>1. p \in Hearing(e)
      BY DEF trigger_dynamically
    <3> QED
      BY <1>9, <2>1, <3>1 DEF Counting
  <2>3. remaining_count[p] \in Nat /\ remaining_count[p] >= Cardinality(Awaited(p))
    BY <1>1, <1>9 DEF WaitOf, CountsEnough
  <2>4. remaining_count[p] = 1
    BY <1>1, <2>2, <2>3 DEF Decrement, Wrapped
  <2>5. {e, f} \subseteq Awaited(p)
    BY <1>1, <1>4, <1>5, <1>9, <2>1 DEF Awaited
  <2>6. Cardinality({e, f}) = 2
    <3>1. IsFiniteSet({e}) /\ Cardinality({e}) = 1
      BY FS_Singleton
    <3>2. Cardinality({e} \union {f}) = 1 + 1
      BY <1>4, <3>1, FS_AddElement
    <3>3. {e, f} = {e} \union {f}
      OBVIOUS
    <3> QED
      BY <3>2, <3>3
  <2>7. Cardinality({e, f}) <= Cardinality(Awaited(p))
    BY <1>1, <2>5, AwaitedFinite, FS_Subset
  <2> QED
    BY <1>1, <2>3, <2>4, <2>6, <2>7, AwaitedFinite
<1> QED
  BY <1>5, <1>7, <1>8, <1>9

\* The waits after a trigger that is not of the process that runs.
LEMMA TriggerWaits ==
  ASSUME WaitsInv, NEW e \in AllEvents, NEW fired, trigger(e, fired), UNCHANGED current,
         current \notin trigger_statically(e), NEW p \in Processes
  PROVE  WaitOf(p)'
<1>1. TypeOK /\ WaitOf(p) /\ suspended = {}
  BY DEF WaitsInv, QueuedInv, KernelInv
<1>2. CASE p \in trigger_dynamically(e)
  <2>1. p # current /\ next_trigger'[p] = Default /\ \A f \in AllEvents : p \notin dynamically_sensitive'[f]
    BY <1>2, WaitEnds
  <2> QED
    BY <2>1 DEF WaitOf, Ready, HearsItsOwn, Shaped, CountsEnough, Default
<1>3. CASE p \notin trigger_dynamically(e)
  <2>1. /\ next_trigger'[p] = next_trigger[p]
        /\ \A f \in AllEvents : p \in dynamically_sensitive'[f] => p \in dynamically_sensitive[f] /\ f # e
        /\ remaining_count'[p] = IF p \in Counting(e) THEN Decrement(remaining_count[p]) ELSE remaining_count[p]
    BY <1>3, WaitGoesOn
  <2>2. Ready(p)'
    <3>1. runnable'[p] > 0 => runnable[p] > 0 \/ p \in trigger_statically(e)
      BY <1>1, <1>3 DEF trigger, MakeRunnable, Request
    <3> QED
      BY <1>1, <2>1, <3>1 DEF WaitOf, Ready, trigger_statically
  <2>3. HearsItsOwn(p)' /\ Shaped(next_trigger[p])'
    BY <1>1, <2>1 DEF WaitOf, HearsItsOwn, TimedOut, Timed
  <2>4. ASSUME next_trigger[p].list = "and"
        PROVE  remaining_count'[p] \in Nat /\ remaining_count'[p] >= Cardinality(Awaited(p)')
    <3>1. /\ remaining_count[p] \in Nat /\ remaining_count[p] >= Cardinality(Awaited(p))
          /\ IsFiniteSet(Awaited(p)) /\ Cardinality(Awaited(p)) \in Nat
      BY <1>1, <2>4, AwaitedFinite DEF WaitOf, CountsEnough
    <3>2. next_trigger[p].events \in SUBSET AllEvents
      BY <1>1, AwaitedFinite DEF AllEvents
    <3>3. CASE p \in Counting(e)
      <4>1. p # current /\ p \in dynamically_sensitive[e] /\ ~TimedOut(p, e)
        BY <3>3 DEF Counting, Hearing
      <4>2. e \in Awaited(p)
        BY <1>1, <4>1 DEF WaitOf, HearsItsOwn, Awaited
      <4>3. Decrement(remaining_count[p]) # 0
        BY <1>3, <3>3 DEF trigger_dynamically, Counting
      <4>4. Cardinality(Awaited(p) \ {e}) = Cardinality(Awaited(p)) - 1 /\ IsFiniteSet(Awaited(p) \ {e})
        BY <3>1, <4>2, FS_RemoveElement
      <4>5. Awaited(p)' \subseteq Awaited(p) \ {e}
        BY <2>1, <3>2, <4>1 DEF Awaited
      <4>6. Cardinality(Awaited(p)') <= Cardinality(Awaited(p) \ {e}) /\ Cardinality(Awaited(p)') \in Nat
        BY <4>4, <4>5, FS_Subset, FS_CardinalityType
      <4>7. Cardinality(Awaited(p) \ {e}) \in Nat
        BY <4>4, FS_CardinalityType
      <4>8. remaining_count[p] > 0
        BY <3>1, <4>4, <4>7
      <4>9. remaining_count'[p] = remaining_count[p] - 1
        BY <2>1, <3>1, <3>3, <4>8 DEF Decrement
      <4> QED
        BY <3>1, <4>4, <4>6, <4>7, <4>8, <4>9
    <3>4. CASE p \notin Counting(e)
      <4>1. Awaited(p)' \subseteq Awaited(p)
        BY <2>1, <3>2 DEF Awaited
      <4>2. Cardinality(Awaited(p)') <= Cardinality(Awaited(p)) /\ Cardinality(Awaited(p)') \in Nat
        BY <3>1, <4>1, FS_Subset, FS_CardinalityType
      <4> QED
        BY <2>1, <3>1, <3>4, <4>2
    <3> QED
      BY <3>3, <3>4
  <2> QED
    BY <2>1, <2>2, <2>3, <2>4 DEF WaitOf, CountsEnough
<1> QED
  BY <1>2, <1>3

\* A process that starts to run waits for nothing.
LEMMA StartsToRun ==
  ASSUME WaitsInv, NEW p \in Processes, runnable[p] > 0, runnable' = [runnable EXCEPT ![p] = @ - 1],
         current' = p, UNCHANGED next_trigger[p],
         \A e \in AllEvents : p \in dynamically_sensitive'[e] => p \in dynamically_sensitive[e]
  PROVE  WaitOf(p)'
<1>1. WaitOf(p) /\ runnable \in [Processes -> Nat] /\ runnable[p] <= 1
  BY DEF WaitsInv, QueuedInv, QueuedOnce, KernelInv, TypeOK
<1>2. next_trigger[p] = Default /\ runnable'[p] = 0
  BY <1>1 DEF WaitOf, Ready
<1>3. \A e \in AllEvents : p \notin dynamically_sensitive[e]
  BY <1>1, <1>2 DEF WaitOf, HearsItsOwn, TimedOut, Timed, Default
<1> QED
  BY <1>2, <1>3 DEF WaitOf, Ready, HearsItsOwn, Shaped, CountsEnough, Default

\* The wait of a process that does not run is left alone.
LEMMA WaitKept ==
  ASSUME NEW p \in Processes, WaitOf(p), p # current, current' # p,
         UNCHANGED <<runnable[p], next_trigger[p], remaining_count[p]>>,
         \A e \in AllEvents : p \in dynamically_sensitive'[e] <=> p \in dynamically_sensitive[e],
         next_trigger[p].events \in SUBSET AllEvents
  PROVE  WaitOf(p)'
<1>1. Awaited(p)' = Awaited(p)
  BY DEF Awaited
<1> QED
  BY <1>1 DEF WaitOf, Ready, HearsItsOwn, CountsEnough, TimedOut, Timed

\* The sets of the processes sensitive to the events of a wait, and no other.
LEMMA Registered ==
  ASSUME TypeOK, NEW q \in Processes, NEW w \in Wait, Register(q, w)
  PROVE  \A e \in AllEvents :
           /\ \A p \in Processes \ {q} : p \in dynamically_sensitive'[e] <=> p \in dynamically_sensitive[e]
           /\ q \in dynamically_sensitive'[e] <=> \/ q \in dynamically_sensitive[e]
                                                  \/ e \in w.events
                                                  \/ w.time # NoTime /\ e = time_out_event[q]
BY DEF Register, TypeOK

\* The count of the events of a wait.
LEMMA CountedEnough ==
  ASSUME TypeOK, NEW q \in Processes, NEW w \in Wait, Shaped(w), w.list = "and"
  PROVE  /\ Counted(q, w) = Cardinality(w.events) /\ Cardinality(w.events) \in Nat
         /\ \A A \in SUBSET w.events : Cardinality(A) <= Cardinality(w.events)
<1>1. w.events \in SUBSET Events
  BY DEF Wait
<1>2. IsFiniteSet(w.events)
  BY <1>1, EventsAssumption, FS_Subset
<1> QED
  BY <1>2, FS_CardinalityType, FS_Subset DEF Counted, Shaped

\* A process that ends its run waits for w.
LEMMA StartsToWait ==
  ASSUME WaitsInv, NEW q \in Processes, current = q, current' # q, NEW w \in Wait, Shaped(w),
         Register(q, w), next_trigger'[q] = w, runnable'[q] = runnable[q],
         \/ remaining_count'[q] = Counted(q, w)
         \/ w = next_trigger[q] /\ remaining_count'[q] = remaining_count[q]
  PROVE  WaitOf(q)'
<1>1. TypeOK /\ WaitOf(q) /\ w.events \in SUBSET AllEvents
  BY DEF WaitsInv, QueuedInv, KernelInv, Wait, AllEvents
<1>2. runnable[q] > 0 => FALSE
  BY <1>1 DEF WaitOf, Ready
<1>3. \A e \in AllEvents : q \in dynamically_sensitive'[e] <=> e \in w.events \/ (w.time # NoTime /\ e = time_out_event[q])
  BY <1>1, Registered DEF WaitOf, HearsItsOwn
<1>4. Ready(q)' /\ HearsItsOwn(q)' /\ Shaped(next_trigger[q])'
  BY <1>2, <1>3 DEF Ready, HearsItsOwn, TimedOut, Timed
<1>5. Awaited(q)' = w.events
  BY <1>1, <1>3 DEF Awaited
<1>6. CASE w.list = "and" /\ remaining_count'[q] = Counted(q, w)
  <2>1. Counted(q, w) = Cardinality(w.events) /\ Cardinality(w.events) \in Nat
    BY <1>1, <1>6, CountedEnough
  <2> QED
    BY <1>4, <1>5, <1>6, <2>1 DEF WaitOf, CountsEnough
<1>7. CASE w = next_trigger[q] /\ remaining_count'[q] = remaining_count[q]
  <2>1. Awaited(q) = w.events
    BY <1>7 DEF Awaited
  <2> QED
    BY <1>1, <1>4, <1>5, <1>7, <2>1 DEF WaitOf, CountsEnough
<1> QED
  BY <1>4, <1>6, <1>7 DEF WaitOf, CountsEnough

\* A process ends its run, and none or another one goes on.
LEMMA RunEnds ==
  ASSUME WaitsInv, NEW q \in Processes, current = q, NEW w \in Wait, Shaped(w), Register(q, w),
         next_trigger'[q] = w,
         \/ remaining_count'[q] = Counted(q, w)
         \/ w = next_trigger[q] /\ remaining_count'[q] = remaining_count[q],
         \A p \in Processes \ {q} : UNCHANGED <<next_trigger[p], remaining_count[p]>>,
         \/ current' = None /\ UNCHANGED runnable
         \/ \E r \in Processes : /\ runnable[r] > 0 /\ current' = r
                                 /\ runnable' = [runnable EXCEPT ![r] = @ - 1]
  PROVE  \A p \in Processes : WaitOf(p)'
<1>1. /\ TypeOK /\ runnable \in [Processes -> Nat]
      /\ \A p \in Processes : WaitOf(p)
  BY DEF WaitsInv, QueuedInv, KernelInv, TypeOK
<1>2. /\ current' # q
      /\ \A p \in Processes : \/ p = current' /\ runnable[p] > 0 /\ runnable' = [runnable EXCEPT ![p] = @ - 1]
                              \/ p # current' /\ runnable'[p] = runnable[p]
  BY <1>1, ProcessesAssumption DEF WaitOf, Ready
<1>3. WaitOf(q)'
  BY <1>2, StartsToWait
<1>4. ASSUME NEW p \in Processes \ {q} PROVE WaitOf(p)'
  <2>1. \A e \in AllEvents : p \in dynamically_sensitive'[e] <=> p \in dynamically_sensitive[e]
    BY <1>1, Registered
  <2>2. next_trigger[p].events \in SUBSET AllEvents
    BY <1>1, AwaitedFinite DEF AllEvents
  <2>3. CASE p = current'
    BY <1>2, <2>1, <2>3, StartsToRun
  <2>4. CASE p # current'
    BY <1>1, <1>2, <2>1, <2>2, <2>4, WaitKept
  <2> QED
    BY <2>3, <2>4
<1> QED
  BY <1>3, <1>4

\* A call of a process on an event or on a process.
LEMMA WaitsCall ==
  ASSUME PlainWaiting, WaitsInv, NEW q \in Processes, MakeCall(q)
  PROVE  /\ suspended' = {} /\ runnable_on_resuming' = {}
         /\ \A p \in Processes : WaitOf(p)'
<1>1. PICK c \in Calls[q] : (EventCall(c) /\ UNCHANGED control) \/ ProcessCall(c)
  BY DEF MakeCall
<1>2. /\ c \in Call /\ c.op # "suspend" /\ current = q /\ UNCHANGED current
      /\ TypeOK /\ suspended = {} /\ runnable_on_resuming = {}
      /\ \A p \in Processes : WaitOf(p)
  BY <1>1, CallsAssumption DEF MakeCall, PlainWaiting, NeverCalled, WaitsInv, QueuedInv, KernelInv
<1>3. ASSUME UNCHANGED <<waits, runnable>> PROVE \A p \in Processes : WaitOf(p)'
  BY <1>2, <1>3 DEF waits, WaitOf, Ready, HearsItsOwn, TimedOut, Timed, CountsEnough, Awaited
<1>4. CASE EventCall(c) /\ UNCHANGED control
  <2>1. CASE c.op = "notify" /\ trigger(c.e, Scheduled({c.e}))
    <3>1. c.e \in AllEvents /\ current \notin trigger_statically(c.e)
      BY <1>2, <2>1 DEF Call, AllEvents, PlainWaiting, NoSelfTrigger, Triggers, trigger_statically
    <3>2. \A p \in Processes : WaitOf(p)'
      BY <1>2, <2>1, <3>1, TriggerWaits
    <3> QED
      BY <1>2, <1>4, <2>1, <3>2 DEF trigger, MakeRunnable, control
  <2>2. CASE UNCHANGED <<waits, queue, runnable_on_resuming>>
    BY <1>2, <1>3, <1>4, <2>2 DEF control, queue
  <2> QED
    BY <1>4, <2>1, <2>2 DEF EventCall
<1>5. CASE ProcessCall(c)
  <2>1. UNCHANGED waits
    BY <1>5 DEF ProcessCall
  <2>2. CASE resume(c.q)
    <3>1. UNCHANGED runnable
      BY <1>2, <2>2 DEF resume, Request, TypeOK
    <3> QED
      BY <1>2, <1>3, <2>1, <2>2, <3>1 DEF resume
  <2>3. CASE UNCHANGED <<suspended, queue, runnable_on_resuming>>
    BY <1>2, <1>3, <2>1, <2>3 DEF queue
  <2> QED
    BY <1>2, <1>5, <2>2, <2>3 DEF ProcessCall
<1> QED
  BY <1>1, <1>4, <1>5

\* A method that says what triggers it next.
LEMMA WaitsNextTrigger ==
  ASSUME PlainWaiting, WaitsInv, NEW q \in Processes, NextTrigger(q), NEW p \in Processes
  PROVE  WaitOf(p)'
<1>1. TypeOK /\ WaitOf(p) /\ current = q /\ UNCHANGED <<current, runnable, dynamically_sensitive>>
  BY DEF NextTrigger, queue, WaitsInv, QueuedInv, KernelInv
<1>2. PICK w \in Waits[q] : /\ next_trigger' = [next_trigger EXCEPT ![q] = w]
                            /\ remaining_count' = [remaining_count EXCEPT ![q] = Counted(q, w)]
  BY DEF NextTrigger
<1>3. w \in Wait /\ Shaped(w)
  BY <1>2, WaitsAssumption DEF PlainWaiting, WaitsShaped
<1>4. CASE p = q
  <2>1. next_trigger'[p] = w /\ remaining_count'[p] = Counted(q, w)
    BY <1>1, <1>2, <1>4 DEF TypeOK
  <2>2. Awaited(p)' = w.events
    BY <1>1, <1>4, <2>1 DEF Awaited
  <2>3. CountsEnough(p)'
    <3>1. CASE w.list = "and"
      <4>1. Counted(q, w) = Cardinality(w.events) /\ Cardinality(w.events) \in Nat
        BY <1>1, <1>3, <3>1, CountedEnough
      <4> QED
        BY <2>1, <2>2, <4>1 DEF CountsEnough
    <3> QED
      BY <2>1, <3>1 DEF CountsEnough
  <2> QED
    BY <1>1, <1>3, <1>4, <2>1, <2>3 DEF WaitOf, Ready, HearsItsOwn
<1>5. CASE p # q
  <2>1. next_trigger'[p] = next_trigger[p] /\ remaining_count'[p] = remaining_count[p]
    BY <1>1, <1>2, <1>5 DEF TypeOK
  <2>2. next_trigger[p].events \in SUBSET AllEvents
    BY <1>1, AwaitedFinite DEF AllEvents
  <2> QED
    BY <1>1, <1>5, <2>1, <2>2, WaitKept
<1> QED
  BY <1>4, <1>5

\* Every step leaves the waits sound.
LEMMA WaitsStep ==
  ASSUME PlainWaiting
  PROVE  WaitsInv /\ [Next]_vars => WaitsInv'
<1> SUFFICES ASSUME WaitsInv, [Next]_vars PROVE WaitsInv'
  OBVIOUS
<1>1. /\ QueuedInv' /\ QueuedInv /\ TypeOK
      /\ suspended = {} /\ runnable_on_resuming = {}
      /\ current # None => phase = "evaluation"
      /\ \A p \in Processes : WaitOf(p)
  BY QueuedStep DEF PlainWaiting, WaitsInv, QueuedInv, KernelInv
<1>2. SUFFICES /\ suspended' = {} /\ runnable_on_resuming' = {}
               /\ current' # None => phase' = "evaluation"
               /\ \A p \in Processes : WaitOf(p)'
  BY <1>1 DEF WaitsInv
<1>3. ASSUME UNCHANGED <<waits, control, runnable_on_resuming, queue, current>>,
             phase' = phase \/ current = None
      PROVE  /\ suspended' = {} /\ runnable_on_resuming' = {}
             /\ current' # None => phase' = "evaluation"
             /\ \A p \in Processes : WaitOf(p)'
  BY <1>1, <1>3 DEF waits, control, queue, WaitOf, Ready, HearsItsOwn, TimedOut, Timed, CountsEnough, Awaited
<1>4. CASE EndEvaluation \/ EndDelta \/ Advance \/ EndTimed
  BY <1>1, <1>3, <1>4 DEF EndEvaluation, EndDelta, Advance, EndTimed
<1>5. CASE DeltaNotification \/ TimedNotification
  <2>1. PICK e \in AllEvents, fired \in SUBSET schedule : trigger(e, fired) /\ UNCHANGED <<control, current, phase>>
    BY <1>1, <1>5, NotificationTriggers
  <2>2. current = None
    BY <1>1, <1>5 DEF DeltaNotification, TimedNotification
  <2>3. current \notin trigger_statically(e)
    BY <2>1, <2>2, StaticAssumption, ProcessesAssumption DEF trigger_statically
  <2>4. \A p \in Processes : WaitOf(p)'
    BY <2>1, <2>3, TriggerWaits
  <2> QED
    BY <1>1, <2>1, <2>2, <2>4 DEF trigger, MakeRunnable, control
<1>6. ASSUME NEW q \in Processes, Run(q)
      PROVE  /\ suspended' = {} /\ runnable_on_resuming' = {}
             /\ current' # None => phase' = "evaluation"
             /\ \A p \in Processes : WaitOf(p)'
  <2>1. WaitOf(q)'
    BY <1>6, StartsToRun DEF Run, waits
  <2>2. ASSUME NEW p \in Processes \ {q} PROVE WaitOf(p)'
    <3>1. next_trigger[p].events \in SUBSET AllEvents
      BY <1>1, AwaitedFinite DEF AllEvents
    <3>2. p # current /\ current' # p /\ runnable'[p] = runnable[p]
      BY <1>1, <1>6, ProcessesAssumption DEF Run, TypeOK
    <3> QED
      BY <1>1, <1>6, <3>1, <3>2, WaitKept DEF Run, waits
  <2> QED
    BY <1>1, <1>6, <2>1, <2>2 DEF Run, control
<1>7. ASSUME NEW q \in Methods, Return(q)
      PROVE  /\ suspended' = {} /\ runnable_on_resuming' = {}
             /\ current' # None => phase' = "evaluation"
             /\ \A p \in Processes : WaitOf(p)'
  <2>1. q \in Processes
    BY DEF Processes
  <2>2. next_trigger[q] \in Wait /\ Shaped(next_trigger[q])
    BY <1>1, <2>1, AwaitedFinite DEF WaitOf
  <2>3. \A p \in Processes : WaitOf(p)'
    BY <1>7, <2>1, <2>2, RunEnds DEF Return, queue
  <2> QED
    BY <1>1, <1>7, <2>3 DEF Return, control
<1>8. ASSUME NEW q \in Threads, wait(q)
      PROVE  /\ suspended' = {} /\ runnable_on_resuming' = {}
             /\ current' # None => phase' = "evaluation"
             /\ \A p \in Processes : WaitOf(p)'
  <2>1. q \in Processes
    BY DEF Processes
  <2>2. PICK w \in Wait : WaitFor(q, w) /\ Shaped(w)
    <3>1. Shaped(Default) /\ \A w \in Waits[q] : w \in Wait /\ Shaped(w)
      BY <2>1, WaitsAssumption DEF PlainWaiting, WaitsShaped, Shaped, Default
    <3> QED
      BY <1>8, <3>1, DefaultIsWait DEF wait
  <2>3. /\ next_trigger'[q] = w /\ remaining_count'[q] = Counted(q, w)
        /\ \A p \in Processes \ {q} : UNCHANGED <<next_trigger[p], remaining_count[p]>>
    BY <1>1, <2>1, <2>2 DEF WaitFor, TypeOK
  <2>4. \A p \in Processes : WaitOf(p)'
    BY <2>1, <2>2, <2>3, RunEnds DEF WaitFor, Yield, Processes
  <2>5. phase = "evaluation"
    BY <1>1, <2>1, <2>2, ProcessesAssumption DEF WaitFor
  <2> QED
    BY <1>1, <2>2, <2>4, <2>5 DEF WaitFor, control
<1>9. ASSUME NEW q \in Processes, MakeCall(q)
      PROVE  /\ suspended' = {} /\ runnable_on_resuming' = {}
             /\ current' # None => phase' = "evaluation"
             /\ \A p \in Processes : WaitOf(p)'
  BY <1>1, <1>9, WaitsCall DEF MakeCall
<1>10. ASSUME NEW q \in Methods, NextTrigger(q)
       PROVE  /\ suspended' = {} /\ runnable_on_resuming' = {}
              /\ current' # None => phase' = "evaluation"
              /\ \A p \in Processes : WaitOf(p)'
  <2>1. \A p \in Processes : WaitOf(p)'
    BY <1>10, WaitsNextTrigger DEF Processes
  <2> QED
    BY <1>1, <1>10, <2>1 DEF NextTrigger, control
<1>11. CASE UNCHANGED vars
  BY <1>3, <1>11 DEF vars
<1> QED
  BY <1>4, <1>5, <1>6, <1>7, <1>8, <1>9, <1>10, <1>11 DEF Next, Kernel, Finish

LEMMA WaitsInit == Init => WaitsInv
<1> SUFFICES ASSUME Init PROVE WaitsInv
  OBVIOUS
<1>1. \A p \in Processes : WaitOf(p)
  BY ProcessesAssumption DEF Init, WaitOf, Ready, HearsItsOwn, Shaped, CountsEnough, Default
<1> QED
  BY <1>1, QueuedInit DEF Init, WaitsInv

\* No wait leaves its process in the set of an event, to be ended by it later,
\* whether an event or the time out ends it (trigger_dynamically,
\* commit_next_trigger).
THEOREM NothingLeftFromAWait ==
  ASSUME PlainWaiting
  PROVE  Spec => []SensitiveIsWaiting
<1>1. WaitsInv => SensitiveIsWaiting
  BY DEF WaitsInv, WaitOf, HearsItsOwn, SensitiveIsWaiting
<1> QED
  BY <1>1, WaitsInit, WaitsStep, PTL DEF Spec

-----------------------------------------------------------------------------
(***************************************************************************)
(* What a wait is ended by.  While no process is disabled, a process hears *)
(* every event of its wait but those of an AND list it has heard, which    *)
(* its count tells, and its time out is notified.                          *)
(***************************************************************************)
HeardOf(p) ==
  /\ p # current /\ Timed(p) => /\ p \in dynamically_sensitive[time_out_event[p]]
                                /\ state[time_out_event[p]] # "NOT_NOTIFIED"
  /\ p # current /\ next_trigger[p].list \in {"event", "or"} =>
       \A e \in next_trigger[p].events : p \in dynamically_sensitive[e]
  /\ next_trigger[p].list = "and" => /\ remaining_count[p] = Cardinality(Awaited(p))
                                     /\ Awaited(p) # {}

HeardInv == WaitsInv /\ enabled = Processes /\ \A p \in Processes : HeardOf(p)

\* What a process waits for is heard as it was.
LEMMA HeardKept ==
  ASSUME NEW p \in Processes, HeardOf(p), p = current <=> p = current',
         UNCHANGED <<next_trigger[p], remaining_count[p], state[time_out_event[p]]>>,
         \A e \in AllEvents : p \in dynamically_sensitive'[e] <=> p \in dynamically_sensitive[e],
         next_trigger[p].events \in SUBSET AllEvents
  PROVE  HeardOf(p)'
<1>1. Awaited(p)' = Awaited(p)
  BY DEF Awaited
<1> QED
  BY <1>1, TimeOutIsEvent DEF HeardOf, Timed

\* A wait that a trigger does not end goes on with what is left to hear.
LEMMA HeardAfterTrigger ==
  ASSUME HeardInv, NEW e \in AllEvents, NEW fired, trigger(e, fired), UNCHANGED current,
         NEW p \in Processes
  PROVE  HeardOf(p)'
<1> DEFINE w == next_trigger[p]
<1>1. /\ WaitsInv /\ TypeOK /\ WaitOf(p) /\ HeardOf(p) /\ p \in enabled
      /\ w \in Wait /\ w.events \in SUBSET Events /\ w.events \in SUBSET AllEvents
      /\ IsFiniteSet(Awaited(p)) /\ Cardinality(Awaited(p)) \in Nat
  BY AwaitedFinite DEF HeardInv, WaitsInv, QueuedInv, KernelInv, AllEvents
<1>2. CASE p \in trigger_dynamically(e)
  <2>1. next_trigger'[p] = Default
    BY <1>1, <1>2, WaitEnds
  <2> QED
    BY <2>1 DEF HeardOf, Timed, Default
<1>3. CASE p \notin trigger_dynamically(e)
  <2>1. /\ next_trigger'[p] = w
        /\ \A f \in AllEvents : p \in dynamically_sensitive'[f] => p \in dynamically_sensitive[f] /\ f # e
        /\ \A f \in Events : f # e /\ p \in dynamically_sensitive[f] => p \in dynamically_sensitive'[f]
        /\ remaining_count'[p] = IF p \in Counting(e) THEN Decrement(remaining_count[p]) ELSE remaining_count[p]
    BY <1>1, <1>3, WaitGoesOn
  <2>2. p # current /\ p \in dynamically_sensitive[e] /\ w # Default =>
          p \in Counting(e) /\ w.list = "and" /\ ~TimedOut(p, e) /\ Decrement(remaining_count[p]) # 0
    BY <1>1, <1>3 DEF trigger_dynamically, Counting, Hearing
  <2>3. ASSUME p # current, Timed(p)
        PROVE  /\ p \in dynamically_sensitive'[time_out_event[p]]
               /\ state'[time_out_event[p]] # "NOT_NOTIFIED"
    <3> DEFINE f == time_out_event[p]
    <3>1. w # Default
      BY <2>3 DEF Timed, Default
    <3>2. f \in AllEvents /\ p \in dynamically_sensitive[f] /\ state[f] # "NOT_NOTIFIED"
      BY <1>1, <2>3, TimeOutIsEvent DEF HeardOf
    <3>3. f # e
      BY <2>2, <2>3, <3>1, <3>2 DEF TimedOut
    <3>4. trigger_dynamically(e) \in SUBSET Processes
      BY <1>1 DEF trigger_dynamically, Hearing, TypeOK
    <3>5. f \notin TimeOutsCancelled(e)
      BY <1>3, <3>4, TimeOutsApart DEF TimeOutsCancelled
    <3>6. ~Withdrawn(p, e, f)
      BY <1>3 DEF Withdrawn
    <3>7. state'[f] = state[f]
      BY <3>2, <3>3, <3>5 DEF trigger
    <3>8. dynamically_sensitive'[f] = {q \in dynamically_sensitive[f] : ~Withdrawn(q, e, f)}
      BY <3>2, <3>3, <3>5 DEF trigger
    <3> QED
      BY <3>2, <3>6, <3>7, <3>8
  <2>4. ASSUME p # current, w.list \in {"event", "or"}, NEW f \in w.events
        PROVE  p \in dynamically_sensitive'[f]
    <3>1. p \in dynamically_sensitive[f] /\ w # Default
      BY <1>1, <2>4 DEF HeardOf, Default
    <3>2. f # e
      BY <2>2, <2>4, <3>1
    <3> QED
      BY <1>1, <2>1, <3>1, <3>2
  <2>5. ASSUME w.list = "and"
        PROVE  remaining_count'[p] = Cardinality(Awaited(p)') /\ Awaited(p)' # {}
    <3>1. remaining_count[p] = Cardinality(Awaited(p)) /\ Awaited(p) # {} /\ w # Default /\ ~TimedOut(p, e)
      BY <1>1, <2>5 DEF HeardOf, Default, WaitOf, Shaped, TimedOut, Timed
    <3>2. CASE p # current /\ p \in dynamically_sensitive[e]
      <4>1. p \in Counting(e) /\ Decrement(remaining_count[p]) # 0
        BY <2>2, <3>1, <3>2
      <4>2. e \in Awaited(p)
        BY <1>1, <3>1, <3>2 DEF WaitOf, HearsItsOwn, Awaited
      <4>3. Awaited(p)' = Awaited(p) \ {e}
        BY <1>1, <2>1, <3>2 DEF Awaited
      <4>4. Cardinality(Awaited(p) \ {e}) = Cardinality(Awaited(p)) - 1 /\ IsFiniteSet(Awaited(p) \ {e})
        BY <1>1, <4>2, FS_RemoveElement
      <4>5. Cardinality(Awaited(p) \ {e}) \in Nat
        BY <4>4, FS_CardinalityType
      <4>6. remaining_count[p] > 0 /\ remaining_count[p] \in Nat
        BY <1>1, <3>1, <4>4, <4>5
      <4>7. remaining_count'[p] = Cardinality(Awaited(p)') /\ Cardinality(Awaited(p)') # 0
        BY <2>1, <3>1, <4>1, <4>3, <4>4, <4>6 DEF Decrement
      <4> QED
        BY <4>7, FS_EmptySet
    <3>3. CASE p = current \/ p \notin dynamically_sensitive[e]
      <4>1. p \notin Counting(e)
        BY <3>3 DEF Counting, Hearing
      <4>2. Awaited(p)' = Awaited(p)
        BY <1>1, <2>1, <3>3 DEF Awaited
      <4> QED
        BY <2>1, <3>1, <4>1, <4>2
    <3> QED
      BY <3>2, <3>3
  <2> QED
    BY <2>1, <2>3, <2>4, <2>5 DEF HeardOf, Timed
<1> QED
  BY <1>2, <1>3

\* Notifications change the state of their event only.
LEMMA NotifyStates ==
  ASSUME NotificationsOK, NEW e \in AllEvents, NEW t \in Nat, notify(e, t)
  PROVE  /\ state'[e] # "NOT_NOTIFIED"
         /\ \A f \in AllEvents \ {e} : state'[f] = state[f]
<1>1. CASE UNCHANGED notifications
  <2>1. state[e] # "NOT_NOTIFIED"
    BY <1>1 DEF notify, notify_delta, notify_timed, notifications, Scheduled, NotificationsOK
  <2> QED
    BY <1>1, <2>1 DEF notifications
<1>2. CASE notify_delta(e)
  BY <1>2 DEF notify_delta, NotificationsOK
<1>3. CASE state' = [state EXCEPT ![e] = "TIMED_NOTIFIED"]
  BY <1>3 DEF NotificationsOK
<1> QED
  BY <1>1, <1>2, <1>3 DEF notify, notify_timed

\* The time outs of the processes when one of them starts to wait.
LEMMA TimeOutStarts ==
  ASSUME TypeOK, NEW q \in Processes, NEW w \in Wait, Register(q, w)
  PROVE  /\ w.time # NoTime => state'[time_out_event[q]] # "NOT_NOTIFIED"
         /\ \A p \in Processes \ {q} : state'[time_out_event[p]] = state[time_out_event[p]]
<1>1. CASE w.time = NoTime
  BY <1>1 DEF Register, notifications
<1>2. CASE w.time # NoTime
  <2>1. w.time \in Nat /\ NotificationsOK /\ notify(time_out_event[q], w.time)
    BY <1>2 DEF Wait, TypeOK, NotificationsOK, Register
  <2> QED
    BY <2>1, NotifyStates, TimeOutsApart
<1> QED
  BY <1>1, <1>2

\* A process ends its run, and none or another one goes on.
LEMMA HeardAtTheEnd ==
  ASSUME HeardInv, NEW q \in Processes, current = q, current' # q, NEW w \in Wait, Shaped(w),
         Register(q, w), next_trigger'[q] = w,
         \/ remaining_count'[q] = Counted(q, w)
         \/ w = next_trigger[q] /\ remaining_count'[q] = remaining_count[q],
         \A p \in Processes \ {q} : UNCHANGED <<next_trigger[p], remaining_count[p]>>,
         current' = None \/ \E r \in Processes : runnable[r] > 0 /\ current' = r
  PROVE  \A p \in Processes : HeardOf(p)'
<1>1. /\ WaitsInv /\ TypeOK /\ w.events \in SUBSET AllEvents
      /\ \A p \in Processes : WaitOf(p) /\ HeardOf(p)
  BY DEF HeardInv, WaitsInv, QueuedInv, KernelInv, Wait, AllEvents
<1>2. HeardOf(q)'
  <2>1. \A e \in AllEvents : q \in dynamically_sensitive'[e] <=> e \in w.events \/ (w.time # NoTime /\ e = time_out_event[q])
    BY <1>1, Registered DEF WaitOf, HearsItsOwn
  <2>2. Awaited(q)' = w.events
    BY <1>1, <2>1 DEF Awaited
  <2>3. w.list = "and" => remaining_count'[q] = Cardinality(w.events) /\ w.events # {}
    <3>1. CASE remaining_count'[q] = Counted(q, w)
      BY <1>1, <3>1, CountedEnough DEF Shaped
    <3>2. CASE w = next_trigger[q] /\ remaining_count'[q] = remaining_count[q]
      <4>1. Awaited(q) = w.events
        BY <3>2 DEF Awaited
      <4> QED
        BY <1>1, <3>2, <4>1 DEF HeardOf
    <3> QED
      BY <3>1, <3>2
  <2>4. w.time # NoTime => state'[time_out_event[q]] # "NOT_NOTIFIED"
    BY <1>1, TimeOutStarts
  <2> QED
    BY <1>1, <2>1, <2>2, <2>3, <2>4, TimeOutIsEvent DEF HeardOf, Timed
<1>3. ASSUME NEW p \in Processes \ {q} PROVE HeardOf(p)'
  <2>1. CASE p = current'
    <3>1. next_trigger'[p] = Default
      BY <1>1, <2>1, ProcessesAssumption DEF WaitOf, Ready
    <3> QED
      BY <3>1 DEF HeardOf, Timed, Default
  <2>2. CASE p # current'
    <3>1. next_trigger[p].events \in SUBSET AllEvents
      BY <1>1, AwaitedFinite DEF AllEvents
    <3>2. \A e \in AllEvents : p \in dynamically_sensitive'[e] <=> p \in dynamically_sensitive[e]
      BY <1>1, Registered
    <3>3. UNCHANGED state[time_out_event[p]]
      BY <1>1, TimeOutStarts
    <3> QED
      BY <1>1, <2>2, <3>1, <3>2, <3>3, HeardKept
  <2> QED
    BY <2>1, <2>2
<1> QED
  BY <1>2, <1>3

\* A call of a process on an event or on a process.
LEMMA HeardAfterCall ==
  ASSUME NeverCalled("disable"), HeardInv, NEW q \in Processes, MakeCall(q)
  PROVE  enabled' = Processes /\ \A p \in Processes : HeardOf(p)'
<1>1. PICK c \in Calls[q] : (EventCall(c) /\ UNCHANGED control) \/ ProcessCall(c)
  BY DEF MakeCall
<1>2. /\ c \in Call /\ c.op # "disable" /\ UNCHANGED current /\ TypeOK
      /\ enabled = Processes /\ \A p \in Processes : HeardOf(p)
  BY <1>1, CallsAssumption DEF MakeCall, NeverCalled, HeardInv, WaitsInv, QueuedInv, KernelInv
<1>3. ASSUME UNCHANGED waits, \A p \in Processes : state'[time_out_event[p]] = state[time_out_event[p]]
      PROVE  \A p \in Processes : HeardOf(p)'
  BY <1>2, <1>3 DEF waits, HeardOf, Timed, Awaited
<1>4. CASE EventCall(c) /\ UNCHANGED control
  <2>1. c.op \in {"notify", "notify_after", "cancel"} => c.e \in Events /\ c.e \in AllEvents
    BY <1>2 DEF Call, AllEvents
  <2>2. CASE c.op = "notify" /\ trigger(c.e, Scheduled({c.e}))
    BY <1>2, <1>4, <2>1, <2>2, HeardAfterTrigger DEF control
  <2>3. CASE c.op = "notify_after" /\ notify(c.e, c.t) /\ UNCHANGED waits
    <3>1. c.t \in Nat /\ NotificationsOK
      BY <1>2, <2>3 DEF Call, TypeOK, NotificationsOK
    <3>2. \A p \in Processes : state'[time_out_event[p]] = state[time_out_event[p]]
      BY <2>1, <2>3, <3>1, NotifyStates, TimeOutsApart
    <3> QED
      BY <1>2, <1>3, <1>4, <2>3, <3>2 DEF control
  <2>4. CASE c.op = "cancel" /\ cancel(c.e) /\ UNCHANGED waits
    <3>1. \A p \in Processes : state'[time_out_event[p]] = state[time_out_event[p]]
      BY <1>2, <2>1, <2>4, TimeOutsApart DEF cancel, TypeOK
    <3> QED
      BY <1>2, <1>3, <1>4, <2>4, <3>1 DEF control
  <2> QED
    BY <1>4, <2>2, <2>3, <2>4 DEF EventCall
<1>5. CASE ProcessCall(c)
  <2>1. UNCHANGED <<notifications, waits>>
    BY <1>5 DEF ProcessCall
  <2>2. c.op = "enable" => c.q \in Processes
    BY <1>2 DEF Call
  <2>3. enabled' = Processes
    BY <1>2, <1>5, <2>2 DEF ProcessCall
  <2> QED
    BY <1>3, <2>1, <2>3 DEF notifications
<1> QED
  BY <1>1, <1>4, <1>5

\* A method that says what triggers it next.
LEMMA HeardAfterNextTrigger ==
  ASSUME PlainWaiting, HeardInv, NEW q \in Processes, NextTrigger(q), NEW p \in Processes
  PROVE  HeardOf(p)'
<1>1. /\ TypeOK /\ HeardOf(p) /\ current = q
      /\ UNCHANGED <<current, dynamically_sensitive, state>>
  BY DEF NextTrigger, notifications, HeardInv, WaitsInv, QueuedInv, KernelInv
<1>2. PICK w \in Waits[q] : /\ next_trigger' = [next_trigger EXCEPT ![q] = w]
                            /\ remaining_count' = [remaining_count EXCEPT ![q] = Counted(q, w)]
  BY DEF NextTrigger
<1>3. w \in Wait /\ Shaped(w)
  BY <1>2, WaitsAssumption DEF PlainWaiting, WaitsShaped
<1>4. CASE p = q
  <2>1. next_trigger'[p] = w /\ remaining_count'[p] = Counted(q, w)
    BY <1>1, <1>2, <1>4 DEF TypeOK
  <2>2. Awaited(p)' = w.events
    BY <1>1, <1>4, <2>1 DEF Awaited
  <2>3. w.list = "and" => remaining_count'[p] = Cardinality(w.events) /\ w.events # {}
    BY <1>1, <1>3, <2>1, CountedEnough DEF Shaped
  <2> QED
    BY <1>1, <1>4, <2>1, <2>2, <2>3 DEF HeardOf
<1>5. CASE p # q
  <2>1. next_trigger'[p] = next_trigger[p] /\ remaining_count'[p] = remaining_count[p]
    BY <1>1, <1>2, <1>5 DEF TypeOK
  <2>2. next_trigger[p].events \in SUBSET AllEvents
    BY <1>1, AwaitedFinite DEF AllEvents
  <2> QED
    BY <1>1, <2>1, <2>2, HeardKept
<1> QED
  BY <1>4, <1>5

\* Every step leaves the waits heard.
LEMMA HeardStep ==
  ASSUME PlainWaiting, NeverCalled("disable")
  PROVE  HeardInv /\ [Next]_vars => HeardInv'
<1> SUFFICES ASSUME HeardInv, [Next]_vars PROVE enabled' = Processes /\ \A p \in Processes : HeardOf(p)'
  BY WaitsStep DEF HeardInv
<1>1. /\ WaitsInv /\ TypeOK /\ enabled = Processes
      /\ \A p \in Processes : /\ WaitOf(p) /\ HeardOf(p)
                              /\ next_trigger[p].events \in SUBSET AllEvents
  BY AwaitedFinite DEF HeardInv, WaitsInv, QueuedInv, KernelInv, AllEvents
<1>2. ASSUME UNCHANGED <<state, waits, control, current>>
      PROVE  enabled' = Processes /\ \A p \in Processes : HeardOf(p)'
  BY <1>1, <1>2, HeardKept DEF waits, control
<1>3. CASE EndEvaluation \/ EndDelta \/ Advance \/ EndTimed
  BY <1>2, <1>3 DEF EndEvaluation, EndDelta, Advance, EndTimed, notifications
<1>4. CASE DeltaNotification \/ TimedNotification
  <2>1. PICK e \in AllEvents, fired \in SUBSET schedule : trigger(e, fired) /\ UNCHANGED <<control, current>>
    BY <1>1, <1>4, NotificationTriggers
  <2> QED
    BY <1>1, <2>1, HeardAfterTrigger DEF control
<1>5. ASSUME NEW q \in Processes, Run(q)
      PROVE  enabled' = Processes /\ \A p \in Processes : HeardOf(p)'
  <2>1. next_trigger[q] = Default
    BY <1>1, <1>5 DEF Run, WaitOf, Ready
  <2>2. HeardOf(q)'
    BY <1>5, <2>1 DEF HeardOf, Timed, Default, Run, waits
  <2>3. \A p \in Processes \ {q} : HeardOf(p)'
    BY <1>1, <1>5, HeardKept, ProcessesAssumption DEF Run, waits, notifications
  <2> QED
    BY <1>1, <1>5, <2>2, <2>3 DEF Run, control
<1>6. ASSUME NEW q \in Methods, Return(q)
      PROVE  enabled' = Processes /\ \A p \in Processes : HeardOf(p)'
  <2>1. q \in Processes
    BY DEF Processes
  <2>2. next_trigger[q] \in Wait /\ Shaped(next_trigger[q])
    BY <1>1, <2>1, AwaitedFinite DEF WaitOf
  <2>3. \A p \in Processes : HeardOf(p)'
    BY <1>6, <2>1, <2>2, HeardAtTheEnd, ProcessesAssumption DEF Return
  <2> QED
    BY <1>1, <1>6, <2>3 DEF Return, control
<1>7. ASSUME NEW q \in Threads, wait(q)
      PROVE  enabled' = Processes /\ \A p \in Processes : HeardOf(p)'
  <2>1. q \in Processes
    BY DEF Processes
  <2>2. PICK w \in Wait : WaitFor(q, w) /\ Shaped(w)
    <3>1. Shaped(Default) /\ \A w \in Waits[q] : w \in Wait /\ Shaped(w)
      BY <2>1, WaitsAssumption DEF PlainWaiting, WaitsShaped, Shaped, Default
    <3> QED
      BY <1>7, <3>1, DefaultIsWait DEF wait
  <2>3. /\ next_trigger'[q] = w /\ remaining_count'[q] = Counted(q, w)
        /\ \A p \in Processes \ {q} : UNCHANGED <<next_trigger[p], remaining_count[p]>>
    BY <1>1, <2>1, <2>2 DEF WaitFor, TypeOK
  <2>4. /\ current = q /\ current' # q
        /\ current' = None \/ \E r \in Processes : runnable[r] > 0 /\ current' = r
    BY <1>1, <2>1, <2>2, ProcessesAssumption DEF WaitFor, Yield, Processes, WaitOf, Ready
  <2>5. \A p \in Processes : HeardOf(p)'
    BY <2>1, <2>2, <2>3, <2>4, HeardAtTheEnd DEF WaitFor
  <2> QED
    BY <1>1, <2>2, <2>5 DEF WaitFor, control
<1>8. ASSUME NEW q \in Processes, MakeCall(q)
      PROVE  enabled' = Processes /\ \A p \in Processes : HeardOf(p)'
  BY <1>8, HeardAfterCall
<1>9. ASSUME NEW q \in Methods, NextTrigger(q)
      PROVE  enabled' = Processes /\ \A p \in Processes : HeardOf(p)'
  <2>1. \A p \in Processes : HeardOf(p)'
    BY <1>9, HeardAfterNextTrigger DEF Processes
  <2> QED
    BY <1>1, <1>9, <2>1 DEF NextTrigger, control
<1>10. CASE UNCHANGED vars
  BY <1>2, <1>10 DEF vars, notifications
<1> QED
  BY <1>3, <1>4, <1>5, <1>6, <1>7, <1>8, <1>9, <1>10 DEF Next, Kernel, Finish

LEMMA HeardInit == Init => HeardInv
<1> SUFFICES ASSUME Init PROVE enabled = Processes /\ \A p \in Processes : HeardOf(p)
  BY WaitsInit DEF HeardInv
<1> QED
  BY DEF Init, HeardOf, Timed, Default

\* No wait is forgotten: what ends it is still to come, and the process is in
\* the sets that will tell it (commit_next_trigger, trigger_dynamically).
THEOREM WaitsAreHeard ==
  ASSUME PlainWaiting, NeverCalled("disable")
  PROVE  Spec => []WaitingIsSensitive
<1>1. HeardInv => WaitingIsSensitive
  <2> SUFFICES ASSUME HeardInv, NEW p \in Processes \ {current}
               PROVE  LET w     == next_trigger[p]
                          heard == {e \in w.events : p \in dynamically_sensitive[e]}
                      IN  /\ Timed(p) => /\ p \in dynamically_sensitive[time_out_event[p]]
                                         /\ state[time_out_event[p]] # "NOT_NOTIFIED"
                          /\ w.list \in {"event", "or"} => heard = w.events
                          /\ w.list = "and" /\ ~Timed(p) => remaining_count[p] = Cardinality(heard) /\ heard # {}
    BY DEF WaitingIsSensitive
  <2>1. HeardOf(p)
    BY DEF HeardInv
  <2>2. Awaited(p) = {e \in next_trigger[p].events : p \in dynamically_sensitive[e]}
    BY DEF Awaited
  <2> QED
    BY <2>1, <2>2 DEF HeardOf
<1> QED
  BY <1>1, HeardInit, HeardStep, PTL DEF Spec

-----------------------------------------------------------------------------
(***************************************************************************)
(* The runs that ended waits ask for.  A request is remembered only as     *)
(* long as its process is in the queue: a thread that yields leaves that   *)
(* of the thread it goes on with, which with one thread is itself, and it  *)
(* has none while it runs.                                                 *)
(***************************************************************************)
RequestsQueued ==
  /\ \A p \in trigger_requested : runnable[p] > 0
  /\ current \in Threads => current \notin trigger_requested
  /\ current # None => phase = "evaluation"

RequestedInv == KernelInv /\ RequestsQueued

\* Requests that do not concern the thread that runs.
LEMMA RequestsRemembered ==
  ASSUME RequestedInv, NEW P \in SUBSET Processes, Request(P), UNCHANGED <<current, phase>>,
         current \in Threads => current \notin P
  PROVE  RequestsQueued' /\ \A p \in P : runnable'[p] > 0
<1>1. /\ runnable \in [Processes -> Nat] /\ trigger_requested \in SUBSET Processes
      /\ \A p \in trigger_requested : runnable[p] > 0
  BY DEF RequestedInv, KernelInv, TypeOK, RequestsQueued
<1>2. \A p \in Processes : runnable'[p] = IF p \in P \ trigger_requested THEN runnable[p] + 1 ELSE runnable[p]
  BY DEF Request
<1>3. \A p \in Processes : runnable'[p] >= runnable[p]
  BY <1>1, <1>2
<1>4. \A p \in P : runnable'[p] > 0
  BY <1>1, <1>2
<1>5. \A p \in trigger_requested' : runnable'[p] > 0
  BY <1>1, <1>3, <1>4 DEF Request
<1> QED
  BY <1>4, <1>5 DEF Request, RequestedInv, RequestsQueued

\* The processes an event triggers have a place in the queue, or are suspended.
LEMMA TriggeredAreQueued ==
  ASSUME RequestedInv, NEW e \in AllEvents, NEW fired, trigger(e, fired), UNCHANGED <<current, phase>>,
         current \in Threads => current \notin trigger_statically(e)
  PROVE  /\ RequestsQueued'
         /\ \A p \in trigger_dynamically(e) : runnable'[p] > 0 \/ p \in runnable_on_resuming'
<1> DEFINE P == trigger_statically(e) \union trigger_dynamically(e)
<1>1. P \in SUBSET Processes
  BY StaticAssumption DEF RequestedInv, KernelInv, TypeOK, trigger_statically, trigger_dynamically, Hearing
<1>2. /\ Request(P \ suspended)
      /\ runnable_on_resuming' = runnable_on_resuming \union (P \intersect suspended)
  BY DEF trigger, MakeRunnable
<1>3. current \in Threads => current \notin P \ suspended
  BY DEF trigger_dynamically, Hearing
<1>4. P \ suspended \in SUBSET Processes
  BY <1>1
<1>5. RequestsQueued' /\ \A p \in P \ suspended : runnable'[p] > 0
  BY <1>2, <1>3, <1>4, RequestsRemembered
<1> QED
  BY <1>2, <1>5

\* A call on an event triggers it, or leaves the queue and the waits alone; so
\* does a call on a process, which may queue the process it resumes.
LEMMA RequestsOfCall ==
  ASSUME NoSelfRequest, RequestedInv, NEW q \in Processes, MakeCall(q)
  PROVE  /\ RequestsQueued'
         /\ \A p \in Processes : next_trigger'[p] # next_trigger[p] =>
              runnable'[p] > 0 \/ p \in runnable_on_resuming'
<1>1. PICK c \in Calls[q] : EventCall(c) \/ ProcessCall(c)
  BY DEF MakeCall
<1>2. /\ c \in Call /\ current = q /\ UNCHANGED <<current, phase>>
      /\ runnable_on_resuming \in SUBSET Processes /\ TypeOK
  BY CallsAssumption DEF MakeCall, RequestedInv, KernelInv, TypeOK
<1>3. CASE c.op = "notify" /\ trigger(c.e, Scheduled({c.e}))
  <2>1. c.e \in AllEvents /\ (current \in Threads => current \notin trigger_statically(c.e))
    BY <1>2, <1>3 DEF Call, AllEvents, NoSelfRequest, Triggers, trigger_statically
  <2>2. \A p \in Processes : next_trigger'[p] # next_trigger[p] => p \in trigger_dynamically(c.e)
    BY <1>3 DEF trigger
  <2> QED
    BY <1>2, <1>3, <2>1, <2>2, TriggeredAreQueued
<1>4. CASE ProcessCall(c) /\ c.op = "resume" /\ resume(c.q)
  <2>1. Request(runnable_on_resuming \intersect {c.q}) /\ UNCHANGED next_trigger
    BY <1>4 DEF resume, ProcessCall, waits
  <2>2. current \in Threads => current \notin runnable_on_resuming \intersect {c.q}
    BY <1>2, <1>4 DEF NoSelfRequest
  <2>3. runnable_on_resuming \intersect {c.q} \in SUBSET Processes
    BY <1>2
  <2>4. RequestsQueued'
    BY <1>2, <2>1, <2>2, <2>3, RequestsRemembered
  <2> QED
    BY <2>1, <2>4
<1>5. CASE UNCHANGED <<waits, queue>>
  BY <1>2, <1>5 DEF waits, queue, RequestedInv, RequestsQueued
<1> QED
  BY <1>1, <1>3, <1>4, <1>5 DEF EventCall, ProcessCall

\* Every step remembers only the requests of processes in the queue, and a wait
\* that another process or the kernel ends puts its process there.
LEMMA RequestedStep ==
  ASSUME OneThread, NoSelfRequest, RequestedInv, [Next]_vars
  PROVE  /\ RequestedInv'
         /\ \A p \in Processes : p # current /\ next_trigger'[p] # next_trigger[p] =>
              runnable'[p] > 0 \/ p \in runnable_on_resuming'
<1>1. /\ KernelInv' /\ TypeOK /\ RequestsQueued
      /\ runnable \in [Processes -> Nat] /\ trigger_requested \in SUBSET Processes
  BY NextKeeps DEF RequestedInv, KernelInv, TypeOK
<1>2. ASSUME UNCHANGED <<queue, current, next_trigger>>, phase' = phase \/ current = None
      PROVE  RequestsQueued' /\ \A p \in Processes : next_trigger'[p] = next_trigger[p]
  BY <1>1, <1>2 DEF RequestsQueued, queue
<1>3. CASE EndEvaluation \/ EndDelta \/ Advance \/ EndTimed
  BY <1>1, <1>2, <1>3 DEF EndEvaluation, EndDelta, Advance, EndTimed, waits, RequestsQueued, RequestedInv
<1>4. CASE DeltaNotification \/ TimedNotification
  <2>1. PICK e \in AllEvents, fired \in SUBSET schedule :
          trigger(e, fired) /\ UNCHANGED <<control, current, phase>>
    BY <1>1, <1>4, NotificationTriggers
  <2>2. current = None
    BY <1>1, <1>4 DEF DeltaNotification, TimedNotification, RequestsQueued
  <2>3. current \notin Threads
    BY <2>2, ProcessesAssumption DEF Processes
  <2>4. \A p \in Processes : next_trigger'[p] # next_trigger[p] => p \in trigger_dynamically(e)
    BY <2>1 DEF trigger
  <2> QED
    BY <1>1, <2>1, <2>3, <2>4, TriggeredAreQueued DEF RequestedInv
<1>5. ASSUME NEW q \in Processes, Run(q) PROVE RequestsQueued' /\ UNCHANGED next_trigger
  <2>1. \A p \in Processes : runnable'[p] = IF p = q THEN runnable[p] - 1 ELSE runnable[p]
    BY <1>1, <1>5 DEF Run
  <2> QED
    BY <1>1, <1>5, <2>1 DEF Run, RequestsQueued, waits
<1>6. ASSUME NEW q \in Methods, Return(q) PROVE RequestsQueued' /\ UNCHANGED next_trigger
  BY <1>1, <1>6, ProcessesAssumption DEF Return, queue, RequestsQueued, Processes
<1>7. ASSUME NEW q \in Threads, wait(q)
      PROVE  RequestsQueued' /\ \A p \in Processes \ {current} : next_trigger'[p] = next_trigger[p]
  <2>1. PICK w : WaitFor(q, w)
    BY <1>7 DEF wait
  <2>2. \A p \in Processes \ {current} : next_trigger'[p] = next_trigger[p]
    BY <1>1, <2>1 DEF WaitFor, TypeOK
  <2>3. /\ UNCHANGED <<trigger_requested, phase>> /\ phase = "evaluation"
        /\ current = q /\ q \notin trigger_requested
    BY <1>1, <2>1, ProcessesAssumption DEF WaitFor, Yield, RequestsQueued, Processes
  <2>4. CASE current' = None /\ UNCHANGED runnable
    BY <1>1, <2>2, <2>3, <2>4, ProcessesAssumption DEF RequestsQueued, Processes
  <2>5. CASE \E r \in Threads : current' = r /\ runnable' = [runnable EXCEPT ![r] = @ - 1]
    <3>1. current' = q /\ runnable' = [runnable EXCEPT ![q] = @ - 1]
      BY <2>5 DEF OneThread
    <3>2. \A p \in trigger_requested : runnable'[p] = runnable[p]
      BY <1>1, <2>3, <3>1
    <3> QED
      BY <1>1, <2>2, <2>3, <3>1, <3>2 DEF RequestsQueued
  <2> QED
    BY <2>1, <2>4, <2>5 DEF WaitFor, Yield
<1>8. ASSUME NEW q \in Processes, MakeCall(q)
      PROVE  /\ RequestsQueued'
             /\ \A p \in Processes : next_trigger'[p] # next_trigger[p] =>
                  runnable'[p] > 0 \/ p \in runnable_on_resuming'
  BY <1>8, RequestsOfCall
<1>9. ASSUME NEW q \in Methods, NextTrigger(q)
      PROVE  RequestsQueued' /\ \A p \in Processes \ {current} : next_trigger'[p] = next_trigger[p]
  <2>1. \A p \in Processes \ {current} : next_trigger'[p] = next_trigger[p]
    BY <1>1, <1>9 DEF NextTrigger, TypeOK
  <2> QED
    BY <1>1, <1>9, <2>1 DEF NextTrigger, queue, RequestsQueued
<1>10. CASE UNCHANGED vars
  BY <1>1, <1>2, <1>10 DEF vars, waits, RequestedInv
<1> QED
  BY <1>1, <1>3, <1>4, <1>5, <1>6, <1>7, <1>8, <1>9, <1>10 DEF Next, Kernel, Finish, RequestedInv

LEMMA RequestedInit == Init => RequestedInv
<1> SUFFICES ASSUME Init PROVE RequestsQueued
  BY InitEstablishes DEF RequestedInv
<1> QED
  BY ProcessesAssumption DEF Init, RequestsQueued, Processes

\* With one thread, a process whose wait another process or the kernel ends is
\* queued or, suspended, will be when it is resumed: no request that is over is
\* taken for one that is not (sc_kernel::trigger, get_next_coroutine).
THEOREM NoEndedWaitIsLost ==
  ASSUME OneThread, NoSelfRequest
  PROVE  Spec => EndedWaitRuns
<1>1. RequestedInv /\ [Next]_vars =>
        /\ RequestedInv'
        /\ [\A p \in Processes : /\ p # current
                                 /\ next_trigger[p] # Default /\ next_trigger'[p] = Default
                                 => runnable'[p] > 0 \/ p \in runnable_on_resuming']_vars
  BY RequestedStep
<1> QED
  BY <1>1, RequestedInit, PTL DEF Spec, EndedWaitRuns
=============================================================================
