---------------------------- MODULE Sema42_proofs ----------------------------
(***************************************************************************)
(* Proofs about the SEMA42 device, for any masters, any number of gates    *)
(* and any accesses.                                                       *)
(*                                                                         *)
(* DeviceInv is the inductive invariant: the types, a gate is free or      *)
(* names a master (otherwise GateLock would see an owner that is nobody),  *)
(* and the reset machine is in one of its two states.                      *)
(***************************************************************************)
EXTENDS Sema42, TLAPS

USE DEF RESET_GATE_KEY1, RESET_GATE_KEY2,
        RSTGSM_IDLE_WAITING_1ST_WRITE, RSTGSM_WAITING_2ND_WRITE

TwoStates == sema42_rstgt_r.RSTGSM \in {RSTGSM_IDLE_WAITING_1ST_WRITE, RSTGSM_WAITING_2ND_WRITE}

DeviceInv == TypeOK /\ TwoStates /\ GateNamesMaster /\ WaitingHoldsKey

\* The new value of a gate is a value of the field, and names a master.
LEMMA GateFSMType ==
  ASSUME NEW m \in Masters, NEW gtfsm \in Nibble, NEW value \in Nibble
  PROVE  /\ GateFSM(gtfsm, m, value) \in Nibble
         /\ gtfsm = 0 \/ gtfsm - 1 \in Masters =>
              GateFSM(gtfsm, m, value) = 0 \/ GateFSM(gtfsm, m, value) - 1 \in Masters
  BY MastersAssumption DEF GateFSM, Nibble

\* A gate that an access changes goes from free to owned by the accessing
\* master, or back.
LEMMA GateFSMChange ==
  ASSUME NEW m \in Masters, NEW gtfsm \in Nibble, NEW value \in Nibble,
         GateFSM(gtfsm, m, value) # gtfsm
  PROVE  {gtfsm, GateFSM(gtfsm, m, value)} = {m + 1, 0}
  BY MastersAssumption DEF GateFSM, Nibble

LEMMA InitDevice == Init => DeviceInv
  BY DEF Init, DeviceInv, TypeOK, TwoStates, GateNamesMaster, WaitingHoldsKey,
         GatesReset, RstgtWReset, RstgtRReset, RstgtW, RstgtR, Nibble, Byte

\* What each kind of access carries.
LEMMA RequestShape ==
  ASSUME NEW r \in Request
  PROVE  /\ r.op = "write_gates" => r.data \in UNION {[D -> Nibble] : D \in SUBSET GateAddresses}
         /\ r.op = "read_gates" => r.addresses \in SUBSET GateAddresses
         /\ r.op = "write_rstgt" => r.data \in UNION {[B -> Byte] : B \in SUBSET {"RSTGDP", "RSTGTN"}}
  BY DEF Request, GateWrites, GateReads, RstgtWrites, RstgtReads

\* A byte the write register takes from an access, or keeps.
LEMMA WrittenType ==
  ASSUME sema42_rstgt_w \in RstgtW,
         NEW data \in UNION {[B -> Byte] : B \in SUBSET {"RSTGDP", "RSTGTN"}},
         NEW field \in {"RSTGDP", "RSTGTN"}
  PROVE  Written(data, field) \in Byte
<1>1. PICK B \in SUBSET {"RSTGDP", "RSTGTN"} : data \in [B -> Byte]
  OBVIOUS
<1>2. CASE field \in DOMAIN data
  BY <1>1, <1>2 DEF Written
<1>3. CASE field \notin DOMAIN data
  BY <1>3 DEF Written, RstgtW
<1>4. QED
  BY <1>2, <1>3

-----------------------------------------------------------------------------
\* What running one access does to the registers, whatever the access: the
\* part of Process that both the invariant and the refinement need.
Accessed(m) ==
  \/ UNCHANGED registers
  \/ /\ gate' \in [Gates -> Nibble]
     /\ \A g \in Gates : gate'[g] # gate[g] => {gate[g], gate'[g]} = {m + 1, 0}
     /\ UNCHANGED <<sema42_rstgt_w, sema42_rstgt_r>>
  \/ \E data \in UNION {[B -> Byte] : B \in SUBSET {"RSTGDP", "RSTGTN"}} :
        ResetGateFSM_1st(data) \/ ResetGateFSM_2nd(m, data)

LEMMA ProcessAccess ==
  ASSUME TypeOK, NEW m \in Masters, Process(m)
  PROVE  Accessed(m)
<1>1. schedule[m] \in Request
  <2>1. schedule[m] \in Request \union {None}
    BY DEF TypeOK
  <2>2. schedule[m] # None
    BY DEF Process, None
  <2>3. QED
    BY <2>1, <2>2
<1>2. CASE schedule[m].op = "write_gates" /\ WriteGates(m, schedule[m].data)
  <2> DEFINE data == schedule[m].data
  <2>1. data \in UNION {[D -> Nibble] : D \in SUBSET GateAddresses}
    BY <1>1, <1>2, RequestShape
  <2>2. PICK D \in SUBSET GateAddresses : data \in [D -> Nibble]
    BY <2>1
  <2>3. \A g \in Gates : gate'[g] = IF g \in D THEN GateFSM(gate[g], m, data[g]) ELSE gate[g]
    BY <1>2, <2>2 DEF WriteGates
  <2>4. \A g \in Gates : gate[g] \in Nibble
    BY DEF TypeOK
  <2>5. \A g \in Gates : gate'[g] \in Nibble
    BY <2>2, <2>3, <2>4, GateFSMType
  <2>6. ASSUME NEW g \in Gates, gate'[g] # gate[g]
        PROVE  {gate[g], gate'[g]} = {m + 1, 0}
    <3>1. g \in D /\ gate'[g] = GateFSM(gate[g], m, data[g])
      BY <2>3, <2>6
    <3>2. gate[g] \in Nibble /\ data[g] \in Nibble
      BY <2>2, <2>4, <3>1
    <3>3. QED
      BY <2>6, <3>1, <3>2, GateFSMChange
  <2>7. gate' \in [Gates -> Nibble]
    BY <1>2, <2>5 DEF WriteGates
  <2>8. QED
    BY <1>2, <2>6, <2>7 DEF Accessed, WriteGates
<1>3. CASE schedule[m].op = "read_gates" /\ ReadGates(m, schedule[m].addresses)
  BY <1>3 DEF ReadGates, Accessed
<1>4. CASE schedule[m].op = "write_rstgt" /\ WriteRstgt(m, schedule[m].data)
  BY <1>1, <1>4, RequestShape DEF WriteRstgt, Accessed
<1>5. CASE schedule[m].op = "read_rstgt" /\ ReadRstgt(m)
  BY <1>5 DEF ReadRstgt, Accessed
<1>6. QED
  BY <1>2, <1>3, <1>4, <1>5 DEF Process

\* The first write of the reset sequence keeps the register part of DeviceInv.
LEMMA FirstWrite ==
  ASSUME DeviceInv, NEW data \in UNION {[B -> Byte] : B \in SUBSET {"RSTGDP", "RSTGTN"}},
         ResetGateFSM_1st(data)
  PROVE  /\ sema42_rstgt_w' \in RstgtW
         /\ sema42_rstgt_r' \in RstgtR
         /\ TwoStates' /\ WaitingHoldsKey'
<1>1. sema42_rstgt_w \in RstgtW /\ sema42_rstgt_r \in RstgtR
  BY DEF DeviceInv, TypeOK
<1>2. Written(data, "RSTGDP") \in Byte
  BY <1>1, WrittenType
<1>3. sema42_rstgt_w' \in RstgtW /\ sema42_rstgt_w'.RSTGDP = Written(data, "RSTGDP")
  BY <1>1, <1>2 DEF ResetGateFSM_1st, RstgtW
<1>4. CASE sema42_rstgt_w'.RSTGDP = RESET_GATE_KEY1
  BY <1>1, <1>3, <1>4 DEF ResetGateFSM_1st, RstgtR, TwoStates, WaitingHoldsKey
<1>5. CASE sema42_rstgt_w'.RSTGDP # RESET_GATE_KEY1
  BY <1>3, <1>5 DEF ResetGateFSM_1st, RstgtR, RstgtRReset, Nibble, Byte, TwoStates, WaitingHoldsKey
<1>6. QED
  BY <1>3, <1>4, <1>5

\* So does the second one, and it leaves every gate free or as it was.
LEMMA SecondWrite ==
  ASSUME DeviceInv, NEW m \in Masters,
         NEW data \in UNION {[B -> Byte] : B \in SUBSET {"RSTGDP", "RSTGTN"}},
         ResetGateFSM_2nd(m, data)
  PROVE  /\ sema42_rstgt_w' \in RstgtW
         /\ sema42_rstgt_r' \in RstgtR
         /\ TwoStates' /\ WaitingHoldsKey'
         /\ sema42_rstgt_r'.RSTGSM = RSTGSM_IDLE_WAITING_1ST_WRITE
         /\ gate' \in [Gates -> Nibble]
         /\ \A g \in Gates : gate'[g] = 0 \/ gate'[g] = gate[g]
         /\ \/ UNCHANGED gate
            \/ gate' = GatesReset
            \/ \E g \in Gates : gate' = [gate EXCEPT ![g] = 0]
<1> DEFINE dp == Written(data, "RSTGDP")
           tn == Written(data, "RSTGTN")
           w  == [RSTGDP |-> dp, RSTGTN |-> tn]
<1>1. sema42_rstgt_w \in RstgtW /\ sema42_rstgt_r \in RstgtR /\ gate \in [Gates -> Nibble]
  BY DEF DeviceInv, TypeOK
<1>2. dp \in Byte /\ tn \in Byte
  BY <1>1, WrittenType
<1>3. w \in RstgtW
  BY <1>2 DEF RstgtW
<1>4. CASE dp = RESET_GATE_KEY2
  <2>1. gate' = GatesAfterReset(tn) /\ sema42_rstgt_w' \in AfterResetGate(w)
        /\ sema42_rstgt_r' = [sema42_rstgt_r EXCEPT !.RSTGMS = m % 16, !.RSTGSM = 0]
    BY <1>4 DEF ResetGateFSM_2nd
  <2>2. sema42_rstgt_w' \in RstgtW
    <3>1. 0 \in Byte
      BY DEF Byte
    <3>2. [w EXCEPT !.RSTGTN = 0] \in RstgtW
      BY <1>3, <3>1 DEF RstgtW
    <3>3. QED
      BY <2>1, <1>3, <3>2 DEF AfterResetGate
  <2>3. m % 16 \in Nibble
    BY MastersAssumption DEF Nibble
  <2>4. sema42_rstgt_r' \in RstgtR /\ sema42_rstgt_r'.RSTGSM = 0
    <3>1. PICK master \in Nibble : master = m % 16
      BY <2>3
    <3> DEFINE named == [sema42_rstgt_r EXCEPT !.RSTGMS = master]
    <3>2. named \in RstgtR
      BY <1>1 DEF RstgtR
    <3>3. sema42_rstgt_r' = [named EXCEPT !.RSTGSM = 0]
      BY <2>1, <3>1
    <3> HIDE DEF named
    <3>4. QED
      BY <3>2, <3>3 DEF RstgtR
  <2>5. \/ gate' = gate
        \/ gate' = GatesReset
        \/ \E g \in Gates : gate' = [gate EXCEPT ![g] = 0]
    <3>1. CASE tn < MaxGates /\ tn \in Gates
      BY <1>1, <2>1, <3>1 DEF GatesAfterReset
    <3>2. CASE tn < MaxGates /\ tn \notin Gates
      BY <1>1, <2>1, <3>2 DEF GatesAfterReset
    <3>3. CASE ~(tn < MaxGates)
      BY <2>1, <3>3 DEF GatesAfterReset
    <3>4. QED
      BY <3>1, <3>2, <3>3
  <2>6. /\ gate' \in [Gates -> Nibble]
        /\ \A g \in Gates : gate'[g] = 0 \/ gate'[g] = gate[g]
    BY <1>1, <2>5 DEF GatesReset, Nibble
  <2>7. QED
    BY <2>2, <2>4, <2>5, <2>6 DEF TwoStates, WaitingHoldsKey
<1>5. CASE dp # RESET_GATE_KEY2
  <2>1. sema42_rstgt_w' = w /\ sema42_rstgt_r' = RstgtRReset /\ gate' = gate
    BY <1>5 DEF ResetGateFSM_2nd
  <2>2. RstgtRReset \in RstgtR /\ RstgtRReset.RSTGSM = 0
    BY DEF RstgtRReset, RstgtR, Nibble, Byte
  <2>3. QED
    BY <1>1, <1>3, <2>1, <2>2 DEF TwoStates, WaitingHoldsKey
<1>6. QED
  BY <1>4, <1>5

-----------------------------------------------------------------------------
\* Running an access ends with an outcome for the master that made it.
LEMMA ProcessResponds ==
  ASSUME TypeOK, NEW m \in Masters, Process(m)
  PROVE  /\ schedule' \in [Masters -> Request \union {None}]
         /\ response' \in [Masters -> Response \union {None}]
<1>1. schedule' \in [Masters -> Request \union {None}]
  BY DEF TypeOK, Process
<1>2. schedule[m] # None /\ schedule[m] \in Request
  BY DEF TypeOK, Process, None
<1>3. \A A : Status(A) \in {"ok", "address_error"}
  BY DEF Status
<1>4. \E outcome \in Response : response' = [response EXCEPT ![m] = outcome]
  <2>1. CASE schedule[m].op = "write_gates" /\ WriteGates(m, schedule[m].data)
    <3> DEFINE outcome == [op |-> "done", status |-> Status(DOMAIN schedule[m].data)]
    <3>1. outcome \in Response
      BY <1>3 DEF Response
    <3>2. QED
      BY <2>1, <3>1 DEF WriteGates
  <2>2. CASE schedule[m].op = "read_gates" /\ ReadGates(m, schedule[m].addresses)
    <3> DEFINE addresses == schedule[m].addresses
               value     == [g \in addresses \intersect Gates |-> gate[g]]
               outcome   == [op |-> "gates", status |-> Status(addresses), value |-> value]
    <3>1. value \in [addresses \intersect Gates -> Nibble]
      BY DEF TypeOK
    <3>2. value \in UNION {[D -> Nibble] : D \in SUBSET Gates}
      BY <3>1
    <3> HIDE DEF value
    <3>3. outcome \in Response
      BY <1>3, <3>2 DEF Response
    <3>4. QED
      BY <2>2, <3>3 DEF ReadGates, value
  <2>3. CASE schedule[m].op = "write_rstgt" /\ WriteRstgt(m, schedule[m].data)
    <3>1. [op |-> "done", status |-> "ok"] \in Response
      BY DEF Response
    <3>2. QED
      BY <2>3, <3>1 DEF WriteRstgt
  <2>4. CASE schedule[m].op = "read_rstgt" /\ ReadRstgt(m)
    <3> DEFINE outcome == [op |-> "rstgt", status |-> "ok", RSTGSM |-> sema42_rstgt_r.RSTGSM,
                           RSTGMS |-> sema42_rstgt_r.RSTGMS]
    <3>1. outcome \in Response
      BY DEF Response, TypeOK, RstgtR
    <3>2. QED
      BY <2>4, <3>1 DEF ReadRstgt
  <2>5. QED
    BY <2>1, <2>2, <2>3, <2>4 DEF Process
<1>5. QED
  BY <1>1, <1>4 DEF TypeOK

LEMMA NextDevice == DeviceInv /\ [Next]_vars => DeviceInv'
<1> SUFFICES ASSUME DeviceInv, [Next]_vars
             PROVE  DeviceInv'
  OBVIOUS
<1> USE DEF DeviceInv
<1>1. ASSUME NEW m \in Masters, NEW request \in Requests, b_transport(m, request)
      PROVE  DeviceInv'
  BY <1>1, RequestsAssumption DEF b_transport, TypeOK, TwoStates, GateNamesMaster, WaitingHoldsKey
<1>2. ASSUME NEW m \in Masters, Process(m)
      PROVE  DeviceInv'
  <2>1. Accessed(m)
    BY <1>2, ProcessAccess
  <2>2. schedule' \in [Masters -> Request \union {None}] /\ response' \in [Masters -> Response \union {None}]
    BY <1>2, ProcessResponds
  <2>3. CASE UNCHANGED registers
    BY <2>2, <2>3 DEF registers, TypeOK, TwoStates, GateNamesMaster, WaitingHoldsKey
  <2>4. CASE /\ gate' \in [Gates -> Nibble]
             /\ \A g \in Gates : gate'[g] # gate[g] => {gate[g], gate'[g]} = {m + 1, 0}
             /\ UNCHANGED <<sema42_rstgt_w, sema42_rstgt_r>>
    <3>1. ASSUME NEW g \in Gates
          PROVE  gate'[g] = 0 \/ gate'[g] - 1 \in Masters
      <4>1. CASE gate'[g] = gate[g]
        BY <4>1 DEF GateNamesMaster
      <4>2. CASE gate'[g] # gate[g]
        <5>1. gate'[g] = m + 1 \/ gate'[g] = 0
          BY <2>4, <4>2
        <5>2. QED
          BY <5>1, MastersAssumption
      <4>3. QED
        BY <4>1, <4>2
    <3>2. QED
      BY <2>2, <2>4, <3>1 DEF TypeOK, TwoStates, GateNamesMaster, WaitingHoldsKey
  <2>5. ASSUME NEW data \in UNION {[B -> Byte] : B \in SUBSET {"RSTGDP", "RSTGTN"}},
               ResetGateFSM_1st(data)
        PROVE  DeviceInv'
    <3>1. gate' = gate
      BY <2>5 DEF ResetGateFSM_1st
    <3>2. QED
      BY <2>2, <2>5, <3>1, FirstWrite DEF TypeOK, GateNamesMaster
  <2>6. ASSUME NEW data \in UNION {[B -> Byte] : B \in SUBSET {"RSTGDP", "RSTGTN"}},
               ResetGateFSM_2nd(m, data)
        PROVE  DeviceInv'
    <3>1. \A g \in Gates : gate'[g] = 0 \/ gate'[g] = gate[g]
      BY <2>6, SecondWrite
    <3>2. GateNamesMaster'
      BY <3>1 DEF GateNamesMaster
    <3>3. QED
      BY <2>2, <2>6, <3>2, SecondWrite DEF TypeOK
  <2>7. QED
    BY <2>1, <2>3, <2>4, <2>5, <2>6 DEF Accessed
<1>3. ASSUME NEW m \in Masters, b_transport_return(m)
      PROVE  DeviceInv'
  BY <1>3 DEF b_transport_return, TypeOK, TwoStates, GateNamesMaster, WaitingHoldsKey
<1>4. ASSUME RESET_B_Process
      PROVE  DeviceInv'
  BY <1>4 DEF RESET_B_Process, GatesReset, RstgtWReset, RstgtRReset, RstgtW, RstgtR, Nibble, Byte,
              TypeOK, TwoStates, GateNamesMaster, WaitingHoldsKey
<1>5. CASE UNCHANGED vars
  BY <1>5 DEF vars, TypeOK, TwoStates, GateNamesMaster, WaitingHoldsKey
<1>6. QED
  BY <1>1, <1>2, <1>3, <1>4, <1>5 DEF Next

LEMMA DeviceInvariant == Spec => []DeviceInv
<1>1. Init => DeviceInv
  BY InitDevice
<1>2. DeviceInv /\ [Next]_vars => DeviceInv'
  BY NextDevice
<1>3. QED
  BY <1>1, <1>2, PTL DEF Spec

\* The state of the device has its type in every reachable state.
THEOREM TypeCorrect == Spec => []TypeOK
BY DeviceInvariant, PTL DEF DeviceInv

\* The reset machine waits for the second write only while the first key is
\* in the write register, however the bytes of the accesses arrive.
THEOREM WaitingHoldsKeyAlways == Spec => []WaitingHoldsKey
BY DeviceInvariant, PTL DEF DeviceInv

-----------------------------------------------------------------------------
LEMMA LockInit == Init => Lock!Init
BY DEF Init, GatesReset, RstgtRReset, Lock!Init, Lock!AllFree

\* Every step of the device is a step of GateLock, or stutters.
LEMMA LockStep == DeviceInv /\ [Next]_vars => [Lock!Next]_(Lock!vars)
<1> SUFFICES ASSUME DeviceInv, [Next]_vars
             PROVE  [Lock!Next]_(Lock!vars)
  OBVIOUS
<1> DEFINE armed == sema42_rstgt_r.RSTGSM = RSTGSM_WAITING_2ND_WRITE
<1>1. ASSUME NEW m \in Masters, NEW request \in Requests, b_transport(m, request)
      PROVE  UNCHANGED Lock!vars
  BY <1>1 DEF b_transport, Lock!vars
<1>2. ASSUME NEW m \in Masters, Process(m)
      PROVE  [Lock!Next]_(Lock!vars)
  <2>1. Accessed(m)
    BY <1>2, ProcessAccess DEF DeviceInv
  <2>2. CASE UNCHANGED registers
    BY <2>2 DEF registers, Lock!vars
  <2>3. CASE /\ gate' \in [Gates -> Nibble]
             /\ \A g \in Gates : gate'[g] # gate[g] => {gate[g], gate'[g]} = {m + 1, 0}
             /\ UNCHANGED <<sema42_rstgt_w, sema42_rstgt_r>>
    <3> DEFINE owners == {n + 1 : n \in Masters} \union {0}
    <3>1. gate \in [Gates -> owners] /\ gate' \in [Gates -> owners]
      <4>1. gate \in [Gates -> Nibble]
        BY DEF DeviceInv, TypeOK
      <4>2. \A v \in Nibble : v = 0 \/ v - 1 \in Masters => v \in owners
        BY MastersAssumption DEF Nibble
      <4>3. \A g \in Gates : gate[g] \in owners
        BY <4>1, <4>2 DEF DeviceInv, GateNamesMaster
      <4>4. \A g \in Gates : gate'[g] \in owners
        BY <2>3, <4>3
      <4>5. QED
        BY <2>3, <4>1, <4>3, <4>4
    <3>2. Lock!Access(m + 1)
      BY <2>3, <3>1 DEF Lock!Access
    <3>3. QED
      BY <3>2 DEF Lock!Next
  <2>4. ASSUME NEW data \in UNION {[B -> Byte] : B \in SUBSET {"RSTGDP", "RSTGTN"}},
               ResetGateFSM_1st(data)
        PROVE  [Lock!Next]_(Lock!vars)
    <3>1. ~armed /\ gate' = gate
      BY <2>4 DEF ResetGateFSM_1st
    <3>2. armed' \in BOOLEAN
      OBVIOUS
    <3>3. QED
      BY <3>1, <3>2 DEF Lock!Next, Lock!Arm, Lock!vars
  <2>5. ASSUME NEW data \in UNION {[B -> Byte] : B \in SUBSET {"RSTGDP", "RSTGTN"}},
               ResetGateFSM_2nd(m, data)
        PROVE  [Lock!Next]_(Lock!vars)
    <3>1. armed
      BY <2>5 DEF ResetGateFSM_2nd
    <3>2. ~armed'
      BY <2>5, SecondWrite
    <3>3. \/ gate' = gate
          \/ gate' = GatesReset
          \/ \E g \in Gates : gate' = [gate EXCEPT ![g] = 0]
      BY <2>5, SecondWrite
    <3>4. Lock!Clear
      BY <3>1, <3>2, <3>3 DEF Lock!Clear, Lock!AllFree, GatesReset
    <3>5. QED
      BY <3>4 DEF Lock!Next
  <2>6. QED
    BY <2>1, <2>2, <2>3, <2>4, <2>5 DEF Accessed
<1>3. ASSUME NEW m \in Masters, b_transport_return(m)
      PROVE  UNCHANGED Lock!vars
  BY <1>3 DEF b_transport_return, Lock!vars
<1>4. ASSUME RESET_B_Process
      PROVE  Lock!Next
  BY <1>4 DEF RESET_B_Process, GatesReset, RstgtRReset, Lock!Next, Lock!DeviceReset, Lock!AllFree
<1>5. CASE UNCHANGED vars
  BY <1>5 DEF vars, Lock!vars
<1>6. QED
  BY <1>1, <1>2, <1>3, <1>4, <1>5 DEF Next

\* The device implements GateLock: for every set of masters, any number of
\* gates and whatever the accesses, a gate changes hands only through its
\* owner, through a complete reset sequence or through a reset of the device.
THEOREM DeviceKeepsLockPromise == Spec => KeepsLockPromise
<1>1. Init => Lock!Init
  BY LockInit
<1>2. DeviceInv /\ [Next]_vars => [Lock!Next]_(Lock!vars)
  BY LockStep
<1>3. Spec => []DeviceInv
  BY DeviceInvariant
<1>4. QED
  BY <1>1, <1>2, <1>3, PTL DEF Spec, KeepsLockPromise, Lock!Spec
=============================================================================
