------------------------------ MODULE Schedule ------------------------------
(***************************************************************************)
(* The schedule of a TLM device (Schedule of kernel/tlm2/tlm.hh), the      *)
(* event of the simulation kernel it is notified by (sc_event of           *)
(* libieee1666) and the process of the device that takes its events.       *)
(*                                                                         *)
(* Dates are delays from now.  One sc_event has at most one notification   *)
(* it knows of, but a timed notification that is replaced by an earlier    *)
(* one stays in the queue of the kernel, and so does the one it knows of   *)
(* when another triggers: these leftovers trigger too, and cannot be       *)
(* cancelled.  Pause and Unpause are left out: only the flash uses them,   *)
(* and Unpause does not end.                                               *)
(***************************************************************************)
EXTENDS Integers, Sequences, FiniteSets

CONSTANTS Events,     \* events that can be in the schedule at once
          Initiators, \* those of them whose initiator waits for completion
          Horizon,    \* bound on the delay of an event when it is notified
          MaxActs     \* bound on the acts of the device and its environment at one date

ASSUME EventsAssumption == Initiators \subseteq Events
ASSUME BoundsAssumption == Horizon \in Nat /\ MaxActs \in Nat

VARIABLES
  schedule,     \* the events in the order of their keys, then of their arrival
  due,          \* due[e]: delay before the date of e, which is its key
  kernel_event, \* state of the sc_event
  delay,        \* delay of its timed notification
  leftovers,    \* delays of the timed notifications it does not know of any more
  process,      \* of the device: it waits for kernel_event, is to run, or runs
  blocked,      \* initiators that wait in b_transport
  cleared,      \* history: those whose event was in the schedule when it was cleared
  acts          \* acts at this date

vars == <<schedule, due, kernel_event, delay, leftovers, process, blocked, cleared, acts>>

Scheduled == {schedule[i] : i \in DOMAIN schedule}

TypeOK ==
  /\ schedule \in Seq(Events)
  /\ due \in [Events -> Int]
  /\ kernel_event \in {"not notified", "delta", "timed"}
  /\ delay \in Nat
  /\ leftovers \in SUBSET (Nat \ {0})
  /\ process \in {"waits", "runnable", "runs"}
  /\ blocked \in SUBSET Initiators
  /\ cleared \in SUBSET Initiators
  /\ acts \in 0 .. MaxActs

\* The process is run once at the start.
Init ==
  /\ schedule = <<>>
  /\ due = [e \in Events |-> 0]
  /\ kernel_event = "not notified"
  /\ delay = 0
  /\ leftovers = {}
  /\ process = "runnable"
  /\ blocked = {}
  /\ cleared = {}
  /\ acts = 0

-----------------------------------------------------------------------------
(***************************************************************************)
(* sc_event.                                                               *)
(***************************************************************************)

\* Mutant of notify: the latest notification stands.
notifyLast(t) ==
  IF t = 0
  THEN kernel_event' = "delta" /\ delay' = 0 /\ UNCHANGED leftovers
  ELSE kernel_event' = "timed" /\ delay' = t /\ UNCHANGED leftovers

\* notify(t): the earlier notification stands, and a later one is only
\* forgotten, unless a delta notification cancels it.
notify(t) ==
  \/ /\ kernel_event = "delta" \/ (kernel_event = "timed" /\ t # 0 /\ delay <= t)
     /\ UNCHANGED <<kernel_event, delay, leftovers>>
  \/ /\ kernel_event # "delta" /\ t = 0
     /\ kernel_event' = "delta"
     /\ delay' = 0
     /\ UNCHANGED leftovers
  \/ /\ t # 0
     /\ kernel_event = "not notified" \/ (kernel_event = "timed" /\ delay > t)
     /\ kernel_event' = "timed"
     /\ delay' = t
     /\ leftovers' = IF kernel_event = "timed" THEN leftovers \union {delay} ELSE leftovers

cancel ==
  /\ kernel_event' = "not notified"
  /\ delay' = 0
  /\ UNCHANGED leftovers

-----------------------------------------------------------------------------
(***************************************************************************)
(* The schedule.                                                           *)
(***************************************************************************)

\* e is put after the n events that are not due later.
Insert(e, n) ==
  schedule' = [i \in 1 .. (Len(schedule) + 1) |->
                 IF i <= n THEN schedule[i] ELSE IF i = n + 1 THEN e ELSE schedule[i - 1]]

\* The k-th event is taken out, and its date is cleared with it.
Erase(k) ==
  /\ schedule' = [i \in 1 .. (Len(schedule) - 1) |-> IF i < k THEN schedule[i] ELSE schedule[i + 1]]
  /\ due' = [due EXCEPT ![schedule[k]] = 0]

Act == acts < MaxActs /\ acts' = acts + 1

\* Mutant of Notify: the kernel is notified for the first event of the schedule only.
NotifyFirst(e, d) ==
  /\ Act
  /\ e \notin Scheduled /\ e \notin blocked
  /\ due' = [due EXCEPT ![e] = d]
  /\ \E n \in 0 .. Len(schedule) :
       /\ \A i \in 1 .. n : due[schedule[i]] <= d
       /\ \A i \in (n + 1) .. Len(schedule) : due[schedule[i]] > d
       /\ Insert(e, n)
  /\ IF schedule = <<>> THEN notify(d) ELSE UNCHANGED <<kernel_event, delay, leftovers>>
  /\ blocked' = IF e \in Initiators THEN blocked \union {e} ELSE blocked
  /\ UNCHANGED <<process, cleared>>

\* Mutant of Notify: an event comes before those of its date.
NotifyAhead(e, d) ==
  /\ Act
  /\ e \notin Scheduled /\ e \notin blocked
  /\ due' = [due EXCEPT ![e] = d]
  /\ \E n \in 0 .. Len(schedule) :
       /\ \A i \in 1 .. n : due[schedule[i]] < d
       /\ \A i \in (n + 1) .. Len(schedule) : due[schedule[i]] >= d
       /\ Insert(e, n)
  /\ notify(d)
  /\ blocked' = IF e \in Initiators THEN blocked \union {e} ELSE blocked
  /\ UNCHANGED <<process, cleared>>

\* An initiator, the device or the event it processes notifies an event.
Notify(e, d) ==
  /\ Act
  /\ e \notin Scheduled /\ e \notin blocked
  /\ due' = [due EXCEPT ![e] = d]
  /\ \E n \in 0 .. Len(schedule) :
       /\ \A i \in 1 .. n : due[schedule[i]] <= d
       /\ \A i \in (n + 1) .. Len(schedule) : due[schedule[i]] > d
       /\ Insert(e, n)
  /\ notify(d)
  /\ blocked' = IF e \in Initiators THEN blocked \union {e} ELSE blocked
  /\ UNCHANGED <<process, cleared>>

\* Mutant of Cancel: the last event of the date is erased.
CancelLast(e) ==
  /\ Act
  /\ process = "runs"
  /\ e \notin Initiators
  /\ \E k \in DOMAIN schedule :
       /\ due[schedule[k]] = due[e]
       /\ \A i \in (k + 1) .. Len(schedule) : due[schedule[i]] # due[e]
       /\ \E j \in 1 .. k : schedule[j] = e
       /\ Erase(k)
  /\ IF Len(schedule) = 1 THEN cancel ELSE notify(due[schedule'[1]])
  /\ UNCHANGED <<process, blocked, cleared>>

\* Cancel erases the first event with the key of e, which is e itself when the
\* caller knows that no other came before it for the same date: the flash
\* cancels the end of an operation, and gets its commands one after the other.
Cancel(e) ==
  /\ Act
  /\ process = "runs"
  /\ e \notin Initiators
  /\ \E k \in DOMAIN schedule :
       /\ due[schedule[k]] = due[e]
       /\ \A i \in 1 .. (k - 1) : due[schedule[i]] # due[e]
       /\ schedule[k] = e
       /\ Erase(k)
  /\ IF Len(schedule) = 1 THEN cancel ELSE notify(due[schedule'[1]])
  /\ UNCHANGED <<process, blocked, cleared>>

\* The device is reset: nothing is left to be done, and nobody answers the
\* initiators of what was.
Clear ==
  /\ Act
  /\ process # "runs"
  /\ schedule' = <<>>
  /\ due' = [e \in Events |-> 0]
  /\ cancel
  /\ cleared' = cleared \union (blocked \intersect Scheduled)
  /\ UNCHANGED <<process, blocked>>

-----------------------------------------------------------------------------
(***************************************************************************)
(* The process of the device.                                              *)
(***************************************************************************)

Run ==
  /\ process = "runnable"
  /\ process' = "runs"
  /\ UNCHANGED <<schedule, due, kernel_event, delay, leftovers, blocked, cleared, acts>>

\* GetNextEvent, and ProcessEvent of what it returns, which answers its
\* initiator; or next_trigger, when it returns none.
GetNextEvent ==
  /\ process = "runs"
  /\ \/ /\ schedule # <<>> /\ due[schedule[1]] <= 0
        /\ blocked' = blocked \ {schedule[1]}
        /\ Erase(1)
        /\ UNCHANGED <<kernel_event, delay, leftovers, process>>
     \/ /\ schedule # <<>> /\ due[schedule[1]] > 0
        /\ notify(due[schedule[1]])
        /\ process' = "waits"
        /\ UNCHANGED <<schedule, due, blocked>>
     \/ /\ schedule = <<>>
        /\ process' = "waits"
        /\ UNCHANGED <<schedule, due, kernel_event, delay, leftovers, blocked>>
  /\ UNCHANGED <<cleared, acts>>

-----------------------------------------------------------------------------
(***************************************************************************)
(* The kernel.                                                             *)
(***************************************************************************)

\* The delta notification phase.
TriggerDelta ==
  /\ process = "waits"
  /\ kernel_event = "delta"
  /\ process' = "runnable"
  /\ kernel_event' = "not notified"
  /\ UNCHANGED <<schedule, due, delay, leftovers, blocked, cleared, acts>>

\* Time goes on, whatever is in the schedule: the kernel knows of its own
\* notifications only, and those that come due trigger the event.
Tick ==
  /\ process = "waits"
  /\ kernel_event # "delta"
  /\ due' = [e \in Events |-> IF e \in Scheduled THEN due[e] - 1 ELSE 0]
  /\ LET left == {t - 1 : t \in leftovers}
         now  == kernel_event = "timed" /\ delay = 1
     IN IF now \/ 0 \in left
        THEN /\ process' = "runnable"
             /\ kernel_event' = "not notified"
             /\ delay' = 0
             /\ leftovers' = (left \union (IF kernel_event = "timed" THEN {delay - 1} ELSE {})) \ {0}
        ELSE /\ leftovers' = left
             /\ delay' = IF kernel_event = "timed" THEN delay - 1 ELSE 0
             /\ UNCHANGED <<process, kernel_event>>
  /\ acts' = 0
  /\ UNCHANGED <<schedule, blocked, cleared>>

Next ==
  \/ \E e \in Events, d \in 0 .. Horizon : Notify(e, d)
  \/ \E e \in Events : Cancel(e)
  \/ Clear
  \/ Run
  \/ GetNextEvent
  \/ TriggerDelta
  \/ Tick

\* The kernel runs what is runnable, triggers what is notified and goes on.
Spec == Init /\ [][Next]_vars /\ WF_vars(Run \/ GetNextEvent \/ TriggerDelta \/ Tick)

-----------------------------------------------------------------------------
(***************************************************************************)
(* Properties.                                                             *)
(***************************************************************************)

\* A process that waits is notified no later than its first event is due,
\* whatever has been notified, replaced, forgotten or cancelled before
\* (Notify, Cancel, GetNextEvent).
WakesInTime ==
  process = "waits" =>
    \A e \in Scheduled :
      \/ kernel_event = "delta" /\ due[e] >= 0
      \/ kernel_event = "timed" /\ delay <= due[e]
      \/ \E t \in leftovers : t <= due[e]

\* No event is got after its date: "Internal error: unexpected event time
\* stamp" of every ProcessEvents.
NeverLate == \A e \in Scheduled : due[e] >= 0

\* Only a reset leaves an initiator without its event, and so without an answer
\* (Clear, Cancel).
NoneForgotten == \A e \in blocked : e \in Scheduled \/ e \in cleared

\* The schedule and its wake-ups do what a calendar promises: an event leaves at
\* its date and in its turn, its initiator is answered then and not before, and
\* time waits for it (GetNextEvent, Notify).
Precedes(e, f) == \E i, j \in DOMAIN schedule : i < j /\ schedule[i] = e /\ schedule[j] = f
Dates == [e \in Scheduled |-> due[e]]
Ahead == [e \in Scheduled |-> {f \in Scheduled : due[f] = due[e] /\ Precedes(f, e)}]
Book == INSTANCE Calendar WITH date <- Dates, ahead <- Ahead, waiting <- blocked
IsCalendar == Book!Spec

\* An initiator is answered, unless a reset has taken its event.
Answered == \A e \in Initiators : e \in blocked ~> (e \notin blocked \/ e \in cleared)

=============================================================================
