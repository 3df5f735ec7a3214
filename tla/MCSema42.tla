------------------------------ MODULE MCSema42 ------------------------------
(***************************************************************************)
(* Two masters and two gates, with one gate number (2) between NumGates    *)
(* and MaxGates that no gate has.                                          *)
(***************************************************************************)
EXTENDS Sema42

\* Single writes of a free value and of both owners, a burst over both gates
\* and a burst that runs over the end of the gates.
MCGateWrites ==
  {[op |-> "write_gates", data |-> [g \in {i} |-> v]] : i \in Gates, v \in 0 .. 2}
  \union {[op |-> "write_gates", data |-> [g \in 0 .. 1 |-> v]] : v \in 0 .. 1}
  \union {[op |-> "write_gates", data |-> [g \in 1 .. 2 |-> 2]]}

\* Both bytes (a key, or neither, with one gate, no gate or all gates), the
\* data pattern alone and the gate number alone.
MCRstgtWrites ==
  {[op |-> "write_rstgt", data |-> [RSTGDP |-> dp, RSTGTN |-> tn]] :
      dp \in {RESET_GATE_KEY1, RESET_GATE_KEY2, 0}, tn \in {0, 2, 3}}
  \union {[op |-> "write_rstgt", data |-> [RSTGDP |-> RESET_GATE_KEY2]],
          [op |-> "write_rstgt", data |-> [RSTGTN |-> 1]]}

MCRequests ==
  MCGateWrites \union MCRstgtWrites \union
  {[op |-> "read_gates", addresses |-> {0}], [op |-> "read_rstgt"]}
=============================================================================
