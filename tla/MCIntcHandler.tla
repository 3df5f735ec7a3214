--------------------------- MODULE MCIntcHandler ---------------------------
(***************************************************************************)
(* One software interrupt and two hardware ones, of rising priorities.     *)
(***************************************************************************)
EXTENDS IntcHandler

\* Two cores are selected for software interrupt 0 and either takes it; each
\* of the hardware interrupts, of higher priorities, has a core of its own.
SharedSetup == [p \in Processors |->
  [i \in (IF p = 0 THEN {0, 1} ELSE {2}) |->
     [PRC_SELN |-> IF i = 0 THEN {0, 1} ELSE {p}, SWTN |-> FALSE, PRIN |-> i + 1]]]

ASSUME PrioritiesAgree == SetupAgrees
=============================================================================
