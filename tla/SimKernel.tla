------------------------------ MODULE SimKernel ------------------------------
(***************************************************************************)
(* The event kernel of libieee1666 (src/extra/libieee1666), which runs the *)
(* processes of a simulation.  An event is notified at once, for the next  *)
(* delta cycle or after a delay, and triggers the processes sensitive to   *)
(* it: statically, or dynamically when a process waits for events, with a  *)
(* time out or without (next_trigger of a method, wait of a thread).  The  *)
(* kernel alternates evaluation, delta notification and timed notification *)
(* phases.                                                                 *)
(*                                                                         *)
(* The schedule holds delays from now, not dates.  Runnable processes and  *)
(* the notifications of a phase are taken in any order, where the code     *)
(* takes the last runnable process first and the notifications in the      *)
(* order they were made; methods still run before threads.                 *)
(***************************************************************************)
EXTENDS Integers, FiniteSets

CONSTANTS Methods,          \* method processes
          Threads,          \* thread processes
          Initialized,      \* processes without dont_initialize()
          Events,           \* events of the simulated program
          time_out_event,   \* time_out_event[p]: the time out event of process p
          Static,           \* Static[e]: processes statically sensitive to e
          Calls,            \* Calls[p]: calls on events and processes p may make
          Waits,            \* Waits[p]: what p may wait for
          NoTime,           \* the time of a wait without time out
          None,             \* no process is running
          MaxActs           \* bound on the calls and waits at one instant

Processes == Methods \union Threads
AllEvents == Events \union {time_out_event[p] : p \in Processes}

\* What a process waits for: next_trigger_type or wait_type with its arguments.
Wait    == [list : {"none", "event", "and", "or"}, events : SUBSET Events,
            time : Nat \union {NoTime}]
Default == [list |-> "none", events |-> {}, time |-> NoTime]

Call == [op : {"notify", "cancel"}, e : Events]
        \union [op : {"notify_after"}, e : Events, t : Nat]
        \union [op : {"suspend", "resume", "disable", "enable"}, q : Processes]

ASSUME ProcessesAssumption == Methods \intersect Threads = {} /\ None \notin Processes
ASSUME InitializedAssumption == Initialized \in SUBSET Processes
ASSUME EventsAssumption ==
  /\ IsFiniteSet(Events)
  /\ \A p, q \in Processes : /\ time_out_event[p] \notin Events
                             /\ p # q => time_out_event[p] # time_out_event[q]
ASSUME StaticAssumption == Static \in [AllEvents -> SUBSET Processes]
ASSUME CallsAssumption  == Calls \in [Processes -> SUBSET Call]
ASSUME WaitsAssumption  == Waits \in [Processes -> SUBSET Wait]
ASSUME NoTimeAssumption == NoTime \notin Nat
ASSUME BoundsAssumption == MaxActs \in Nat

VARIABLES
  state,                   \* state[e]: NOT_NOTIFIED, DELTA_NOTIFIED or TIMED_NOTIFIED
  delta_events,            \* events whose delta notification is not cancelled
  schedule,                \* timed notifications not cancelled; current says whether
                           \* the timed_kernel_event of the event is that one
  dynamically_sensitive,   \* dynamically_sensitive[e]: processes that wait for e
  next_trigger,            \* next_trigger[p]: what p waits for
  remaining_count,         \* remaining_count[p]: events of its AND list still to come
  enabled,                 \* processes that are not disabled
  suspended,               \* processes that are suspended
  runnable_on_resuming,    \* processes to make runnable when they are resumed
  runnable,                \* runnable[p]: places of p in the queue of runnable processes
  trigger_requested,       \* processes that have been put in the queue
  current,                 \* the process that runs
  phase,                   \* of the kernel
  acts                     \* calls and waits made at this instant

notifications == <<state, delta_events, schedule>>
waits         == <<dynamically_sensitive, next_trigger, remaining_count>>
control       == <<enabled, suspended>>
queue         == <<runnable, trigger_requested>>
vars          == <<notifications, waits, control, runnable_on_resuming, queue, current, phase, acts>>

States == {"NOT_NOTIFIED", "DELTA_NOTIFIED", "TIMED_NOTIFIED"}
Entry  == [event : AllEvents, time : Nat, current : BOOLEAN]

\* An unsigned counter: 0 - 1 is far too large to get back to 0.
Wrapped      == -1
Decrement(n) == IF n > 0 THEN n - 1 ELSE Wrapped

TypeOK ==
  /\ state \in [AllEvents -> States]
  /\ delta_events \in SUBSET AllEvents
  /\ schedule \in SUBSET Entry
  /\ dynamically_sensitive \in [AllEvents -> SUBSET Processes]
  /\ next_trigger \in [Processes -> Wait]
  /\ remaining_count \in [Processes -> Nat \union {Wrapped}]
  /\ enabled \in SUBSET Processes
  /\ suspended \in SUBSET Processes
  /\ runnable_on_resuming \in SUBSET Processes
  /\ runnable \in [Processes -> Nat]
  /\ trigger_requested \in SUBSET Processes
  /\ current \in Processes \union {None}
  /\ phase \in {"evaluation", "delta", "timed"}
  /\ acts \in 0 .. MaxActs

\* The processes to run at the start are queued without a request.
Init ==
  /\ state = [e \in AllEvents |-> "NOT_NOTIFIED"]
  /\ delta_events = {}
  /\ schedule = {}
  /\ dynamically_sensitive = [e \in AllEvents |-> {}]
  /\ next_trigger = [p \in Processes |-> Default]
  /\ remaining_count = [p \in Processes |-> 0]
  /\ enabled = Processes
  /\ suspended = {}
  /\ runnable_on_resuming = {}
  /\ runnable = [p \in Processes |-> IF p \in Initialized THEN 1 ELSE 0]
  /\ trigger_requested = {}
  /\ current = None
  /\ phase = "evaluation"
  /\ acts = 0

-----------------------------------------------------------------------------
(***************************************************************************)
(* Events.                                                                 *)
(***************************************************************************)

\* The pending notifications of the events E (sc_event::cancel).
Scheduled(E) == {k \in schedule : k.event \in E /\ k.current /\ state[k.event] = "TIMED_NOTIFIED"}

\* Mutant of cancel: the delta notification is not cancelled.
CancelTimedOnly(e) ==
  /\ state' = [state EXCEPT ![e] = "NOT_NOTIFIED"]
  /\ schedule' = schedule \ Scheduled({e})
  /\ UNCHANGED delta_events

cancel(e) ==
  /\ state' = [state EXCEPT ![e] = "NOT_NOTIFIED"]
  /\ delta_events' = delta_events \ {e}
  /\ schedule' = schedule \ Scheduled({e})

\* A delta notification replaces a timed one, an earlier timed one a later one.
notify_delta(e) ==
  /\ state' = [state EXCEPT ![e] = "DELTA_NOTIFIED"]
  /\ delta_events' = delta_events \union {e}
  /\ schedule' = schedule \ Scheduled({e})

notify_timed(e, t) ==
  IF \E k \in Scheduled({e}) : k.time <= t
  THEN UNCHANGED notifications
  ELSE /\ state' = [state EXCEPT ![e] = "TIMED_NOTIFIED"]
       /\ schedule' = {[k EXCEPT !.current = @ /\ k.event # e] : k \in schedule}
                      \union {[event |-> e, time |-> t, current |-> TRUE]}
       /\ UNCHANGED delta_events

notify(e, t) ==
  \/ state[e] = "DELTA_NOTIFIED" /\ UNCHANGED notifications
  \/ state[e] # "DELTA_NOTIFIED" /\ t = 0 /\ notify_delta(e)
  \/ state[e] # "DELTA_NOTIFIED" /\ t > 0 /\ notify_timed(e, t)

-----------------------------------------------------------------------------
(***************************************************************************)
(* Triggering an event.                                                    *)
(***************************************************************************)

Timed(p)      == next_trigger[p].time # NoTime
TimedOut(p, e) == Timed(p) /\ e = time_out_event[p]

\* A process that waits for events does not react to its static sensitivity; a
\* disabled thread does not either, a disabled method does.
trigger_statically(e) == {p \in Static[e] : next_trigger[p] = Default /\ (p \in Threads => p \in enabled)}

\* Processes whose wait hears e, and those whose wait it ends.
Hearing(e) == {p \in dynamically_sensitive[e] \ {current} : p \in enabled /\ next_trigger[p] # Default}

Counting(e) == {p \in Hearing(e) : next_trigger[p].list = "and" /\ ~TimedOut(p, e)}

trigger_dynamically(e) ==
  {p \in Hearing(e) : p \in Counting(e) => Decrement(remaining_count[p]) = 0}

\* Time outs no longer needed.
TimeOutsCancelled(e) ==
  {time_out_event[p] : p \in {q \in trigger_dynamically(e) :
                                Timed(q) /\ next_trigger[q].list # "none" /\ ~TimedOut(q, e)}}

\* Mutant of Withdrawn: a time out leaves the process in the other sets.
WithdrawnByEvents(p, e, f) ==
  /\ p \in trigger_dynamically(e)
  /\ f \in next_trigger[p].events
  /\ next_trigger[p].list = "or" /\ ~TimedOut(p, e)

\* Does the end of its wait by e withdraw p from event f?
Withdrawn(p, e, f) ==
  /\ p \in trigger_dynamically(e)
  /\ f \in next_trigger[p].events
  /\ next_trigger[p].list = "or" \/ TimedOut(p, e)

\* Mutant of Request: requests are not remembered.
RequestAgain(P) ==
  /\ runnable' = [p \in Processes |-> IF p \in P THEN runnable[p] + 1 ELSE runnable[p]]
  /\ trigger_requested' = trigger_requested \union P

\* Queue the processes P, but those already requested (sc_kernel::trigger).
Request(P) ==
  /\ runnable' = [p \in Processes |-> IF p \in P \ trigger_requested THEN runnable[p] + 1
                                      ELSE runnable[p]]
  /\ trigger_requested' = trigger_requested \union P

\* Suspended processes are made runnable when they are resumed.
MakeRunnable(P) ==
  /\ Request(P \ suspended)
  /\ runnable_on_resuming' = runnable_on_resuming \union (P \intersect suspended)

\* Trigger e, whose own notifications fired are over.
trigger(e, fired) ==
  LET over == {e} \union TimeOutsCancelled(e)
  IN  /\ state' = [f \in AllEvents |-> IF f \in over THEN "NOT_NOTIFIED" ELSE state[f]]
      /\ delta_events' = delta_events \ over
      /\ schedule' = schedule \ (fired \union Scheduled(TimeOutsCancelled(e)))
      /\ dynamically_sensitive' =
           [f \in AllEvents |-> IF f \in over THEN {}
                                ELSE {p \in dynamically_sensitive[f] : ~Withdrawn(p, e, f)}]
      /\ next_trigger' = [p \in Processes |-> IF p \in trigger_dynamically(e) THEN Default
                                              ELSE next_trigger[p]]
      /\ remaining_count' = [p \in Processes |-> IF p \in Counting(e) THEN Decrement(remaining_count[p])
                                                 ELSE remaining_count[p]]
      /\ MakeRunnable(trigger_statically(e) \union trigger_dynamically(e))

-----------------------------------------------------------------------------
(***************************************************************************)
(* The process that runs.                                                  *)
(***************************************************************************)
Act == acts < MaxActs /\ acts' = acts + 1

\* A call on an event; notify() cancels before it triggers.
EventCall(c) ==
  \/ /\ c.op = "notify"
     /\ trigger(c.e, Scheduled({c.e}))
  \/ /\ c.op = "notify_after"
     /\ notify(c.e, c.t)
     /\ UNCHANGED <<waits, queue, runnable_on_resuming>>
  \/ /\ c.op = "cancel"
     /\ cancel(c.e)
     /\ UNCHANGED <<waits, queue, runnable_on_resuming>>

\* Mutant of resume: the run put off is forgotten.
ResumeOnly(q) ==
  /\ suspended' = suspended \ {q}
  /\ UNCHANGED <<queue, runnable_on_resuming>>

resume(q) ==
  /\ suspended' = suspended \ {q}
  /\ Request(runnable_on_resuming \intersect {q})
  /\ runnable_on_resuming' = runnable_on_resuming \ {q}

\* A call on a process.
ProcessCall(c) ==
  /\ UNCHANGED <<notifications, waits>>
  /\ \/ /\ c.op = "suspend"
        /\ suspended' = suspended \union {c.q}
        /\ UNCHANGED <<enabled, queue, runnable_on_resuming>>
     \/ /\ c.op = "resume"
        /\ resume(c.q)
        /\ UNCHANGED enabled
     \/ /\ c.op = "disable"
        /\ enabled' = enabled \ {c.q}
        /\ UNCHANGED <<suspended, queue, runnable_on_resuming>>
     \/ /\ c.op = "enable"
        /\ enabled' = enabled \union {c.q}
        /\ UNCHANGED <<suspended, queue, runnable_on_resuming>>

MakeCall(p) ==
  /\ current = p
  /\ Act
  /\ \E c \in Calls[p] : \/ EventCall(c) /\ UNCHANGED control
                         \/ ProcessCall(c)
  /\ UNCHANGED <<current, phase>>

\* The count of a list with a time out is not set.
Counted(p, w) == IF w.list = "and" /\ w.time = NoTime THEN Cardinality(w.events) ELSE remaining_count[p]

\* Mutant of Register: the time out is not notified.
RegisterOnly(p, w) ==
  LET timed == IF w.time = NoTime THEN {} ELSE {time_out_event[p]}
  IN  /\ dynamically_sensitive' =
           [e \in AllEvents |-> IF e \in w.events \union timed THEN dynamically_sensitive[e] \union {p}
                                ELSE dynamically_sensitive[e]]
      /\ UNCHANGED notifications

\* Become sensitive to what w names, and start its time out.
Register(p, w) ==
  LET timed == IF w.time = NoTime THEN {} ELSE {time_out_event[p]}
  IN  /\ dynamically_sensitive' =
           [e \in AllEvents |-> IF e \in w.events \union timed THEN dynamically_sensitive[e] \union {p}
                                ELSE dynamically_sensitive[e]]
      /\ IF w.time = NoTime THEN UNCHANGED notifications ELSE notify(time_out_event[p], w.time)

\* A method says what triggers it next, and that is committed when it returns.
NextTrigger(p) ==
  /\ current = p
  /\ Act
  /\ \E w \in Waits[p] :
       /\ next_trigger' = [next_trigger EXCEPT ![p] = w]
       /\ remaining_count' = [remaining_count EXCEPT ![p] = Counted(p, w)]
  /\ UNCHANGED <<notifications, dynamically_sensitive, control, queue, runnable_on_resuming,
                 current, phase>>

Return(p) ==
  /\ current = p
  /\ current' = None
  /\ Register(p, next_trigger[p])
  /\ UNCHANGED <<next_trigger, remaining_count, control, queue, runnable_on_resuming, phase, acts>>

\* A thread that waits goes on with the next runnable thread, whose request is
\* left (get_next_coroutine).
Yield ==
  /\ \/ (\A q \in Threads : runnable[q] = 0) /\ current' = None /\ UNCHANGED runnable
     \/ \E q \in Threads : /\ runnable[q] > 0
                           /\ current' = q
                           /\ runnable' = [runnable EXCEPT ![q] = @ - 1]
  /\ UNCHANGED trigger_requested

\* A thread waits until it is triggered.
WaitFor(p, w) ==
  /\ current = p
  /\ Yield
  /\ next_trigger' = [next_trigger EXCEPT ![p] = w]
  /\ remaining_count' = [remaining_count EXCEPT ![p] = Counted(p, w)]
  /\ Register(p, w)
  /\ UNCHANGED <<control, runnable_on_resuming, phase>>

wait(p) == \/ WaitFor(p, Default) /\ UNCHANGED acts
           \/ \E w \in Waits[p] : WaitFor(p, w) /\ Act

-----------------------------------------------------------------------------
(***************************************************************************)
(* The kernel.                                                             *)
(***************************************************************************)
NoneRunnable == \A p \in Processes : runnable[p] = 0

\* Mutant of Run: the request is left.
RunRequested(p) ==
  /\ phase = "evaluation"
  /\ current = None
  /\ runnable[p] > 0
  /\ p \in Threads => \A q \in Methods : runnable[q] = 0
  /\ runnable' = [runnable EXCEPT ![p] = @ - 1]
  /\ current' = p
  /\ UNCHANGED <<notifications, waits, control, runnable_on_resuming, trigger_requested, phase, acts>>

\* Methods run before threads.
Run(p) ==
  /\ phase = "evaluation"
  /\ current = None
  /\ runnable[p] > 0
  /\ p \in Threads => \A q \in Methods : runnable[q] = 0
  /\ runnable' = [runnable EXCEPT ![p] = @ - 1]
  /\ trigger_requested' = trigger_requested \ {p}
  /\ current' = p
  /\ UNCHANGED <<notifications, waits, control, runnable_on_resuming, phase, acts>>

EndEvaluation ==
  /\ phase = "evaluation"
  /\ current = None
  /\ NoneRunnable
  /\ delta_events # {} \/ schedule # {}
  /\ phase' = "delta"
  /\ UNCHANGED <<notifications, waits, control, runnable_on_resuming, queue, current, acts>>

DeltaNotification ==
  /\ phase = "delta"
  /\ \E e \in delta_events : trigger(e, {})
  /\ UNCHANGED <<control, current, phase, acts>>

EndDelta ==
  /\ phase = "delta"
  /\ delta_events = {}
  /\ ~NoneRunnable
  /\ phase' = "evaluation"
  /\ UNCHANGED <<notifications, waits, control, runnable_on_resuming, queue, current, acts>>

\* Mutant of Advance: time goes to any of them.
AdvanceToAny ==
  /\ phase = "delta"
  /\ delta_events = {}
  /\ NoneRunnable
  /\ \E first \in schedule :
       schedule' = {[k EXCEPT !.time = @ - first.time] : k \in schedule}
  /\ phase' = "timed"
  /\ acts' = 0
  /\ UNCHANGED <<state, delta_events, waits, control, runnable_on_resuming, queue, current>>

\* Time goes to the first of the timed notifications.
Advance ==
  /\ phase = "delta"
  /\ delta_events = {}
  /\ NoneRunnable
  /\ \E first \in schedule :
       /\ \A k \in schedule : first.time <= k.time
       /\ schedule' = {[k EXCEPT !.time = @ - first.time] : k \in schedule}
  /\ phase' = "timed"
  /\ acts' = 0
  /\ UNCHANGED <<state, delta_events, waits, control, runnable_on_resuming, queue, current>>

TimedNotification ==
  /\ phase = "timed"
  /\ \E k \in schedule : k.time = 0 /\ trigger(k.event, {k})
  /\ UNCHANGED <<control, current, phase, acts>>

EndTimed ==
  /\ phase = "timed"
  /\ \A k \in schedule : k.time > 0
  /\ phase' = "evaluation"
  /\ UNCHANGED <<notifications, waits, control, runnable_on_resuming, queue, current, acts>>

Kernel  == \/ EndEvaluation \/ DeltaNotification \/ EndDelta
           \/ Advance \/ TimedNotification \/ EndTimed
           \/ \E p \in Processes : Run(p)

\* A process comes to the end of its run.
Finish  == (\E p \in Methods : Return(p)) \/ (\E p \in Threads : wait(p))

Next == \/ Kernel
        \/ Finish
        \/ \E p \in Processes : MakeCall(p)
        \/ \E p \in Methods : NextTrigger(p)

\* The kernel goes on, and no process runs for ever.
Fairness == WF_vars(Kernel) /\ WF_vars(Finish)

Spec == Init /\ [][Next]_vars /\ Fairness

-----------------------------------------------------------------------------
(***************************************************************************)
(* Uses of the kernel that some properties are about.                      *)
(***************************************************************************)

\* May q trigger p at once, through its static sensitivity?
Triggers(q, p) == \E c \in Calls[q] : c.op = "notify" /\ p \in Static[c.e]

NoSelfTrigger == \A p \in Processes : ~Triggers(p, p)

\* A process queued at the start, without a request, is triggered at once only
\* by processes that run after it.
InitialsApart == \A p \in Initialized : (\E q \in Processes \ {p} : Triggers(q, p)) => Initialized = {p}

NeverCalled(op) == \A p \in Processes : \A c \in Calls[p] : c.op # op

\* The shapes of wait() and next_trigger(): an AND list has an event and no time out.
Shaped(w) == /\ w.list = "none" => w.events = {}
             /\ w.list = "event" => \E e \in Events : w.events = {e}
             /\ w.list = "and" => w.events # {} /\ w.time = NoTime

WaitsShaped == \A p \in Processes : \A w \in Waits[p] : Shaped(w)

OneThread == \A p, q \in Threads : p = q

\* No thread puts itself in the queue while it runs.
NoSelfRequest == \A p \in Threads : ~Triggers(p, p) /\ \A c \in Calls[p] : c.op = "resume" => c.q # p

-----------------------------------------------------------------------------
\* The state of an event and the queues of the kernel agree: an event has a
\* delta notification exactly when its state says so, and one in state
\* TIMED_NOTIFIED has its timed_kernel_event in the schedule ("only used when
\* state == TIMED_NOTIFIED", event.h), so that no pointer outlives its entry.
PendingIsQueued ==
  \A e \in AllEvents : /\ state[e] = "DELTA_NOTIFIED" <=> e \in delta_events
                       /\ state[e] = "TIMED_NOTIFIED" => \E k \in schedule : k.event = e /\ k.current

\* A process that waits for events will hear what ends its wait: it is in the
\* set of each event it still waits for, its count is the number of these, and
\* its time out is notified (commit_next_trigger, trigger_dynamically).
WaitingIsSensitive ==
  \A p \in Processes \ {current} :
    LET w     == next_trigger[p]
        heard == {e \in w.events : p \in dynamically_sensitive[e]}
    IN  /\ Timed(p) => /\ p \in dynamically_sensitive[time_out_event[p]]
                       /\ state[time_out_event[p]] # "NOT_NOTIFIED"
        /\ w.list \in {"event", "or"} => heard = w.events
        /\ w.list = "and" /\ ~Timed(p) => remaining_count[p] = Cardinality(heard) /\ heard # {}

\* A process is in the sets of what it waits for only: whatever ends a wait
\* withdraws the process from the rest of it, so that no later wait is ended by
\* an event of a former one (trigger_dynamically).
SensitiveIsWaiting ==
  \A p \in Processes \ {current}, e \in AllEvents :
    p \in dynamically_sensitive[e] => e \in next_trigger[p].events \/ TimedOut(p, e)

\* A process whose wait ends is run: at once or, when it is suspended, as soon
\* as it is resumed (trigger_dynamically, resume).
EndedWaitRuns ==
  [][\A p \in Processes : /\ p # current
                          /\ next_trigger[p] # Default /\ next_trigger'[p] = Default
                          => runnable'[p] > 0 \/ p \in runnable_on_resuming']_vars

\* A process is in the queue once, so that what it does in one run is not undone
\* by a second one that nothing triggered (trigger_requested).
QueuedOnce == \A p \in Processes : runnable[p] <= 1

\* A run is put off only while its process is suspended: resuming it does not
\* forget the run (suspend, resume).
PutOffIsSuspended == runnable_on_resuming \subseteq suspended

\* A wait with a time out ends (do_timed_notification_phase).
TimesOut == \A p \in Processes : Timed(p) /\ current # p ~> ~Timed(p)
=============================================================================
