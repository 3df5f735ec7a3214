------------------------------ MODULE Calendar ------------------------------
(***************************************************************************)
(* What a schedule of timed events promises: every event is served at its  *)
(* date, and those of one date in the order in which they were noted.      *)
(* Time waits for the events that are due.  Who waits for an event is      *)
(* answered when it is served; such an event cannot be cancelled, but all  *)
(* of them may be cleared, without an answer.                              *)
(***************************************************************************)
EXTENDS Integers

CONSTANTS Events, Initiators   \* the events, and those that somebody waits for

VARIABLES
  date,    \* date[e]: units of time before the event e, noted, is served
  ahead,   \* ahead[e]: the events of that date noted before it
  waiting  \* events that somebody waits for

vars == <<date, ahead, waiting>>

Noted == DOMAIN date

\* Only some of the events are left.
Keep(S) ==
  /\ date'  = [e \in S |-> date[e]]
  /\ ahead' = [e \in S |-> ahead[e] \intersect S]

Init == Noted = {} /\ DOMAIN ahead = {} /\ waiting = {}

Note(e) ==
  /\ e \notin Noted \union waiting
  /\ DOMAIN date' = Noted \union {e}
  /\ date'[e] \in Nat
  /\ \A f \in Noted : date'[f] = date[f]
  /\ ahead' = [f \in Noted \union {e} |-> IF f = e THEN {g \in Noted : date[g] = date'[e]} ELSE ahead[f]]
  /\ waiting' = waiting \union ({e} \intersect Initiators)

Serve(e) ==
  /\ e \in Noted
  /\ date[e] = 0 /\ ahead[e] = {}
  /\ Keep(Noted \ {e})
  /\ waiting' = waiting \ {e}

Cancel(e) ==
  /\ e \in Noted \ Initiators
  /\ Keep(Noted \ {e})
  /\ UNCHANGED waiting

Clear == Keep({}) /\ UNCHANGED waiting

Pass ==
  /\ \A e \in Noted : date[e] > 0
  /\ date' = [e \in Noted |-> date[e] - 1]
  /\ UNCHANGED <<ahead, waiting>>

Next ==
  \/ \E e \in Events : Note(e) \/ Serve(e) \/ Cancel(e)
  \/ Clear
  \/ Pass

Spec == Init /\ [][Next]_vars

=============================================================================
