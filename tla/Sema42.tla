------------------------------- MODULE Sema42 -------------------------------
(***************************************************************************)
(* The semaphore device of the MPC57xx (component/tlm2/memory/semaphore/   *)
(* freescale/mpc57xx/sema42).  A bus master reaches it with a blocking     *)
(* transport call: the access is put in the schedule of the device at a    *)
(* clock edge, Process runs it against the registers when that edge comes, *)
(* and the master resumes one clock period later.  Accesses of different   *)
(* masters carry their own local time, so the schedule may run them in any *)
(* order; one master has one access at a time.                             *)
(***************************************************************************)
EXTENDS Naturals

CONSTANTS Masters,      \* master ids seen on the bus (tlm_trans_attr::master_id)
          NumGates,     \* CONFIG::NUM_GATES
          MaxGates,     \* SEMA42::MAX_GATES
          Requests      \* the accesses the masters make

RESET_GATE_KEY1 == 226  \* 0xE2
RESET_GATE_KEY2 == 29   \* 0x1D

Gates  == 0 .. (NumGates - 1)
Nibble == 0 .. 15
Byte   == 0 .. 255

RSTGSM_IDLE_WAITING_1ST_WRITE == 0
RSTGSM_WAITING_2ND_WRITE      == 1

\* An access covers consecutive byte registers; address NumGates stands for
\* the first unmapped byte after the gates.
GateAddresses == 0 .. NumGates

GateWrites  == [op : {"write_gates"}, data : UNION {[D -> Nibble] : D \in SUBSET GateAddresses}]
GateReads   == [op : {"read_gates"}, addresses : SUBSET GateAddresses]
\* SEMA42_RSTGT is two bytes wide: an access may carry either byte or both.
RstgtWrites == [op : {"write_rstgt"}, data : UNION {[B -> Byte] : B \in SUBSET {"RSTGDP", "RSTGTN"}}]
RstgtReads  == [op : {"read_rstgt"}]
Request     == GateWrites \union GateReads \union RstgtWrites \union RstgtReads

ASSUME MastersAssumption  == Masters \subseteq Nat
ASSUME GatesAssumption    == NumGates \in Nat \ {0} /\ MaxGates \in Nat /\ NumGates <= MaxGates /\ MaxGates < 256
ASSUME RequestsAssumption == Requests \subseteq Request

VARIABLES gate,           \* gate[g] is SEMA42_GATEg[GTFSM]: 0 free, m + 1 locked by m
          sema42_rstgt_w, \* SEMA42_RSTGT as written
          sema42_rstgt_r, \* SEMA42_RSTGT as read
          schedule,       \* schedule[m]: the access of m the device has yet to run
          response        \* response[m]: the outcome m has yet to collect

registers == <<gate, sema42_rstgt_w, sema42_rstgt_r>>
vars      == <<gate, sema42_rstgt_w, sema42_rstgt_r, schedule, response>>

None == [op |-> "none"]

Response == [op : {"done"}, status : {"ok", "address_error"}]
            \union [op : {"gates"}, status : {"ok", "address_error"},
                    value : UNION {[D -> Nibble] : D \in SUBSET Gates}]
            \union [op : {"rstgt"}, status : {"ok"}, RSTGSM : 0 .. 3, RSTGMS : Nibble]

RstgtW == [RSTGDP : Byte, RSTGTN : Byte]
RstgtR == [RSTGSM : 0 .. 3, RSTGMS : Nibble, RSTGTN : Byte]

TypeOK ==
  /\ gate \in [Gates -> Nibble]
  /\ sema42_rstgt_w \in RstgtW
  /\ sema42_rstgt_r \in RstgtR
  /\ schedule \in [Masters -> Request \union {None}]
  /\ response \in [Masters -> Response \union {None}]

-----------------------------------------------------------------------------
GatesReset  == [g \in Gates |-> 0]
RstgtWReset == [RSTGDP |-> 0, RSTGTN |-> 0]
RstgtRReset == [RSTGSM |-> RSTGSM_IDLE_WAITING_1ST_WRITE, RSTGMS |-> 0, RSTGTN |-> 0]

Init ==
  /\ gate = GatesReset
  /\ sema42_rstgt_w = RstgtWReset
  /\ sema42_rstgt_r = RstgtRReset
  /\ schedule = [m \in Masters |-> None]
  /\ response = [m \in Masters |-> None]

\* Master m calls b_transport and blocks on the completion event.
b_transport(m, request) ==
  /\ schedule[m] = None
  /\ response[m] = None
  /\ schedule' = [schedule EXCEPT ![m] = request]
  /\ UNCHANGED <<gate, sema42_rstgt_w, sema42_rstgt_r, response>>

\* Mutant of GateFSM: any master frees a gate.
GateFSM_NoOwner(gtfsm, m, value) ==
  IF (gtfsm = 0 /\ value = m + 1) \/ value = 0 THEN value ELSE gtfsm

\* The new value of a gate that holds gtfsm when master m writes value: a free
\* gate takes m + 1 from m only, a locked one takes 0 from its owner only.
GateFSM(gtfsm, m, value) ==
  IF \/ gtfsm = 0     /\ value = m + 1
     \/ gtfsm = m + 1 /\ value = 0
  THEN value
  ELSE gtfsm

Status(addresses) == IF NumGates \in addresses THEN "address_error" ELSE "ok"

\* The register map runs one write per byte register and gives up at the first
\* unmapped byte: the gates below it are already written.
WriteGates(m, data) ==
  /\ gate' = [g \in Gates |-> IF g \in DOMAIN data THEN GateFSM(gate[g], m, data[g]) ELSE gate[g]]
  /\ response' = [response EXCEPT ![m] = [op |-> "done", status |-> Status(DOMAIN data)]]
  /\ UNCHANGED <<sema42_rstgt_w, sema42_rstgt_r>>

ReadGates(m, addresses) ==
  /\ response' = [response EXCEPT ![m] =
                    [op |-> "gates", status |-> Status(addresses),
                     value |-> [g \in addresses \intersect Gates |-> gate[g]]]]
  /\ UNCHANGED registers

\* Bytes that the access does not carry keep their value.
Written(data, field) == IF field \in DOMAIN data THEN data[field] ELSE sema42_rstgt_w[field]

\* Values SEMA42_RSTGT_W may have once the second write has reset gate rstgtn:
\* the gate array has NumGates elements and ResetGate indexes it with any
\* number below MaxGates, so it may clear the register that follows the array.
AfterResetGate(rstgt_w) ==
  {rstgt_w} \union
    (IF rstgt_w.RSTGTN \in NumGates .. (MaxGates - 1) THEN {[rstgt_w EXCEPT !.RSTGTN = 0]} ELSE {})

\* Mutant of GatesAfterReset: the number is not bounded by the number of gates.
GatesAfterReset_NoBound(rstgtn) ==
  [g \in Gates \union {rstgtn} |-> IF g = rstgtn THEN 0 ELSE gate[g]]

GatesAfterReset(rstgtn) ==
  IF rstgtn < MaxGates THEN [g \in Gates |-> IF g = rstgtn THEN 0 ELSE gate[g]] ELSE GatesReset

\* First write: the gate number is preserved.
ResetGateFSM_1st(data) ==
  /\ sema42_rstgt_r.RSTGSM = RSTGSM_IDLE_WAITING_1ST_WRITE
  /\ sema42_rstgt_w' = [sema42_rstgt_w EXCEPT !.RSTGDP = Written(data, "RSTGDP")]
  /\ sema42_rstgt_r' = IF sema42_rstgt_w'.RSTGDP = RESET_GATE_KEY1
                       THEN [sema42_rstgt_r EXCEPT !.RSTGSM = RSTGSM_WAITING_2ND_WRITE]
                       ELSE RstgtRReset
  /\ UNCHANGED gate

\* Mutant of ResetGateFSM_2nd: a wrong second pattern leaves the machine waiting.
ResetGateFSM_2nd_NoIdle(m, data) ==
  LET rstgt_w == [RSTGDP |-> Written(data, "RSTGDP"), RSTGTN |-> Written(data, "RSTGTN")]
  IN  /\ sema42_rstgt_r.RSTGSM = RSTGSM_WAITING_2ND_WRITE
      /\ sema42_rstgt_w' = rstgt_w
      /\ IF rstgt_w.RSTGDP = RESET_GATE_KEY2
         THEN /\ gate' = GatesAfterReset(rstgt_w.RSTGTN)
              /\ sema42_rstgt_r' = [sema42_rstgt_r EXCEPT !.RSTGMS = m % 16,
                                                          !.RSTGSM = RSTGSM_IDLE_WAITING_1ST_WRITE]
         ELSE UNCHANGED <<gate, sema42_rstgt_r>>

\* Second write, which any master may make.
ResetGateFSM_2nd(m, data) ==
  LET rstgt_w == [RSTGDP |-> Written(data, "RSTGDP"), RSTGTN |-> Written(data, "RSTGTN")]
  IN  /\ sema42_rstgt_r.RSTGSM = RSTGSM_WAITING_2ND_WRITE
      /\ IF rstgt_w.RSTGDP = RESET_GATE_KEY2
         THEN /\ gate' = GatesAfterReset(rstgt_w.RSTGTN)
              /\ sema42_rstgt_w' \in AfterResetGate(rstgt_w)
              /\ sema42_rstgt_r' = [sema42_rstgt_r EXCEPT !.RSTGMS = m % 16,
                                                          !.RSTGSM = RSTGSM_IDLE_WAITING_1ST_WRITE]
         ELSE /\ sema42_rstgt_w' = rstgt_w
              /\ sema42_rstgt_r' = RstgtRReset
              /\ UNCHANGED gate

WriteRstgt(m, data) ==
  /\ ResetGateFSM_1st(data) \/ ResetGateFSM_2nd(m, data)
  /\ response' = [response EXCEPT ![m] = [op |-> "done", status |-> "ok"]]

ReadRstgt(m) ==
  /\ response' = [response EXCEPT ![m] = [op |-> "rstgt", status |-> "ok",
                                          RSTGSM |-> sema42_rstgt_r.RSTGSM,
                                          RSTGMS |-> sema42_rstgt_r.RSTGMS]]
  /\ UNCHANGED registers

\* Process: run the access of master m and start its completion delay.
Process(m) ==
  /\ schedule' = [schedule EXCEPT ![m] = None]
  /\ \/ schedule[m].op = "write_gates" /\ WriteGates(m, schedule[m].data)
     \/ schedule[m].op = "read_gates"  /\ ReadGates(m, schedule[m].addresses)
     \/ schedule[m].op = "write_rstgt" /\ WriteRstgt(m, schedule[m].data)
     \/ schedule[m].op = "read_rstgt"  /\ ReadRstgt(m)

\* The completion event fires and b_transport returns.
b_transport_return(m) ==
  /\ response[m] # None
  /\ response' = [response EXCEPT ![m] = None]
  /\ UNCHANGED <<gate, sema42_rstgt_w, sema42_rstgt_r, schedule>>

\* Mutant of RESET_B_Process: the reset also empties the schedule.
RESET_B_Process_Schedule ==
  /\ gate' = GatesReset
  /\ sema42_rstgt_w' = RstgtWReset
  /\ sema42_rstgt_r' = RstgtRReset
  /\ schedule' = [m \in Masters |-> None]
  /\ UNCHANGED response

\* Rising edge of reset_b: the registers are reset, the schedule is not.
RESET_B_Process ==
  /\ gate' = GatesReset
  /\ sema42_rstgt_w' = RstgtWReset
  /\ sema42_rstgt_r' = RstgtRReset
  /\ UNCHANGED <<schedule, response>>

Next == \/ \E m \in Masters : \/ \E request \in Requests : b_transport(m, request)
                              \/ Process(m)
                              \/ b_transport_return(m)
        \/ RESET_B_Process

\* The kernel runs every process whose event is due: a scheduled access is run
\* and a completion is delivered.
Fairness == \A m \in Masters : WF_vars(Process(m)) /\ WF_vars(b_transport_return(m))

Spec == Init /\ [][Next]_vars /\ Fairness

-----------------------------------------------------------------------------
\* The reset machine waits for the second write only while the first key is
\* still in the write register, so that a write of the gate number alone can
\* never complete the sequence (sema42.tcc, ResetGateFSM).
WaitingHoldsKey ==
  sema42_rstgt_r.RSTGSM # RSTGSM_IDLE_WAITING_1ST_WRITE => sema42_rstgt_w.RSTGDP = RESET_GATE_KEY1

\* A gate is free or names a master of the bus.
GateNamesMaster == \A g \in Gates : gate[g] = 0 \/ gate[g] - 1 \in Masters

\* The device keeps the promise of GateLock: whatever the interleaving of
\* accesses, bursts, broken reset sequences and device resets, a gate passes
\* from hand to hand only through its owner or through a complete reset
\* sequence (GateFSM and ResetGateFSM).
Lock == INSTANCE GateLock WITH Masters <- {m + 1 : m \in Masters},
                               Nobody  <- 0,
                               owner   <- gate,
                               armed   <- sema42_rstgt_r.RSTGSM = RSTGSM_WAITING_2ND_WRITE
KeepsLockPromise == Lock!Spec

\* A master blocked in b_transport always resumes, also when the device is
\* reset while its access is scheduled or its completion is pending: the
\* access is run and its completion delivered (Reset leaves the schedule alone).
EveryAccessReturns ==
  \A m \in Masters : /\ schedule[m] # None ~> response[m] # None
                     /\ response[m] # None ~> response[m] = None
=============================================================================
