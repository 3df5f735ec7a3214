------------------------------ MODULE GateLock ------------------------------
(***************************************************************************)
(* What a bank of hardware semaphores promises to the bus masters that     *)
(* share it: a gate has at most one owner, only a master that finds a gate *)
(* free becomes its owner, only the owner gives it back, and a gate is     *)
(* taken away from its owner only by the armed reset sequence or by a      *)
(* reset of the whole device.                                              *)
(***************************************************************************)
CONSTANTS Masters,      \* bus masters
          Gates,        \* gates
          Nobody        \* owner of a free gate, not a master

VARIABLES owner,        \* owner[g] is the master that holds gate g, or Nobody
          armed         \* has the first write of the reset sequence been seen?

vars == <<owner, armed>>

AllFree == [g \in Gates |-> Nobody]

Init == owner = AllFree /\ armed = FALSE

\* One access of master m: every gate it changes goes from free to owned by m
\* or from owned by m to free.
Access(m) ==
  /\ owner' \in [Gates -> Masters \union {Nobody}]
  /\ \A g \in Gates : owner'[g] # owner[g] => {owner[g], owner'[g]} = {m, Nobody}
  /\ UNCHANGED armed

\* First write of the reset sequence.
Arm == ~armed /\ armed' = TRUE /\ UNCHANGED owner

\* A write that breaks the sequence.
Disarm == armed /\ armed' = FALSE /\ UNCHANGED owner

\* Second write of the sequence: one gate, all the gates, or a gate number
\* that no gate has.
Clear ==
  /\ armed
  /\ armed' = FALSE
  /\ \/ \E g \in Gates : owner' = [owner EXCEPT ![g] = Nobody]
     \/ owner' = AllFree
     \/ UNCHANGED owner

\* Reset of the device.
DeviceReset == owner' = AllFree /\ armed' = FALSE

Next == \/ \E m \in Masters : Access(m)
        \/ Arm
        \/ Disarm
        \/ Clear
        \/ DeviceReset

Spec == Init /\ [][Next]_vars
=============================================================================
