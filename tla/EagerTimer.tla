----------------------------- MODULE EagerTimer -----------------------------
(***************************************************************************)
(* What a counting timer promises: it counts every period of its clock as  *)
(* time passes, and a comparison match is signalled before the counter     *)
(* leaves the matching value.                                              *)
(***************************************************************************)
EXTENDS Integers

CONSTANTS Channels, RollOver

VARIABLES
  count,     \* the counter, now
  phase,     \* time since the last tick
  period,    \* of the counter's clock
  enabled,   \* the counter counts the ticks
  frozen,    \* the counter's clock is stopped
  compare,   \* compare[n]: where channel n, if in the domain, matches
  due        \* channels whose match has not been signalled yet

vars == <<count, phase, period, enabled, frozen, compare, due>>

Matches == {n \in DOMAIN compare : compare[n] = count'}

\* Time passes.
Pass ==
  /\ ~frozen
  /\ IF phase + 1 < period
     THEN phase' = phase + 1 /\ UNCHANGED <<count, due>>
     ELSE /\ phase' = 0
          /\ due = {}
          /\ count' = IF enabled THEN (count + 1) % RollOver ELSE count
          /\ due' = IF enabled THEN Matches ELSE {}
  /\ UNCHANGED <<period, enabled, frozen, compare>>

\* The matches are signalled.
Signal ==
  /\ due # {}
  /\ due' = {}
  /\ UNCHANGED <<count, phase, period, enabled, frozen, compare>>

\* The counter is set.
Load ==
  /\ due = {} /\ due' = {}
  /\ count' \in 0 .. (RollOver - 1)
  /\ UNCHANGED <<phase, period, enabled, frozen, compare>>

\* The timer is configured, and counts on from where it is.  A clock that
\* starts again starts a period.
Configure ==
  /\ due = {} /\ due' = {}
  /\ phase' = phase \/ (frozen /\ ~frozen' /\ phase' = 0) \/ period' # period
  /\ UNCHANGED count

Reset ==
  /\ count' = 0 /\ ~enabled' /\ due' = {}
  /\ DOMAIN compare' = {}

Init == count = 0 /\ ~enabled /\ due = {} /\ DOMAIN compare = {}

Next == Pass \/ Signal \/ Load \/ Configure \/ Reset

Spec == Init /\ [][Next]_vars

=============================================================================
