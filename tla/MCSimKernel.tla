---------------------------- MODULE MCSimKernel ----------------------------
(***************************************************************************)
(* A method and threads on two events, with the calls and waits that each  *)
(* run is about.                                                           *)
(***************************************************************************)
EXTENDS SimKernel

CONSTANTS m, t, u,     \* a method and two threads
          a, b,        \* two events
          ma, ta, ua   \* the time out events of m, t and u

TimeOuts == [p \in Processes |-> CASE p = m -> ma [] p = t -> ta [] p = u -> ua]

\* The method is statically sensitive to a, the threads to b.
StaticSensitivity ==
  [e \in AllEvents |-> CASE e = a -> Methods [] e = b -> Threads [] OTHER -> {}]

Notify(e)         == [op |-> "notify", e |-> e]
NotifyAfter(e, d) == [op |-> "notify_after", e |-> e, t |-> d]
Cancel(e)         == [op |-> "cancel", e |-> e]
Control(op, p)    == [op |-> op, q |-> p]

WaitOn(list, E, time) == [list |-> list, events |-> E, time |-> time]

\* No process notifies an event it is statically sensitive to at once.
PlainCalls == [p \in Processes |->
  {NotifyAfter(e, d) : e \in {a, b}, d \in {0, 2}} \union {Cancel(a), Notify(IF p = m THEN b ELSE a)}]

PlainWaits == [p \in Processes |->
  {WaitOn("and", {a, b}, NoTime), WaitOn("or", {a, b}, NoTime), WaitOn("or", {a, b}, 3),
   WaitOn("event", {a}, NoTime), WaitOn("event", {b}, 2), WaitOn("none", {}, 0), WaitOn("none", {}, 1)}]

ASSUME PlainUse == Calls = PlainCalls =>
  /\ NoSelfTrigger /\ InitialsApart /\ WaitsShaped /\ OneThread
  /\ NeverCalled("suspend") /\ NeverCalled("disable") /\ NoSelfRequest

\* Processes control each other, not themselves.
ControlCalls == [p \in Processes |->
  {Control(op, q) : op \in {"suspend", "resume", "disable", "enable"}, q \in Processes \ {p}}
  \union {NotifyAfter(a, 0), NotifyAfter(b, 1), NotifyAfter(b, 2), Notify(a), Cancel(a)}]
ControlWaits == [p \in Processes |-> {WaitOn("event", {a}, NoTime), WaitOn("or", {a, b}, 2)}]

ASSUME ControlUse == Calls = ControlCalls => NoSelfRequest

\* Two threads that wait for the same time.
PauseCalls == [p \in Processes |-> {}]
PauseWaits == [p \in Processes |-> {WaitOn("none", {}, 1)}]

=============================================================================
