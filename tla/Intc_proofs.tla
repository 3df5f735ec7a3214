---------------------------- MODULE Intc_proofs ----------------------------
(***************************************************************************)
(* Invariants of the interrupt controller, for any processors, sources,    *)
(* priorities, latencies and accesses: it forgets no source and no update  *)
(* of a request line, and its trees say what the INTC_PSRn say.  Each      *)
(* invariant is inductive with TypeOK.                                     *)
(***************************************************************************)
EXTENDS Intc, TLAPS

Events == [Processors -> Nat \union {Never}]

-----------------------------------------------------------------------------
(***************************************************************************)
(* Notifications.                                                          *)
(***************************************************************************)

\* The earlier of a pending notification and a new one is a delay.
LEMMA EarlierIsDelay ==
  ASSUME NEW event \in Nat \union {Never}, NEW delay \in Nat
  PROVE  Earlier(event, delay) \in Nat
BY DEF Earlier

\* A delay is not Never.
LEMMA DelayIsNotNever ==
  ASSUME NEW delay \in Nat
  PROVE  delay # Never
BY NeverAssumption

\* UpdateIRQSelect keeps every pending notification and makes one for each of
\* the processors it is about.
LEMMA SelectNotified ==
  ASSUME irq_select_event \in Events, NEW P, NEW delay \in Nat, UpdateIRQSelect(P, delay)
  PROVE  /\ irq_select_event' \in Events
         /\ \A p \in Processors : irq_select_event[p] # Never \/ p \in P => irq_select_event'[p] # Never
<1>1. \A p \in Processors : Earlier(irq_select_event[p], delay) \in Nat
  BY EarlierIsDelay DEF Events
<1>2. \A p \in Processors : irq_select_event'[p] = IF p \in P THEN Earlier(irq_select_event[p], delay)
                                                            ELSE irq_select_event[p]
  BY DEF UpdateIRQSelect
<1>3. irq_select_event' \in Events
  BY <1>1 DEF UpdateIRQSelect, Events
<1> QED
  BY <1>1, <1>2, <1>3, DelayIsNotNever

\* GenIrqB makes a notification for its processor and leaves the others alone.
LEMMA OutputNotified ==
  ASSUME gen_irq_b_event \in Events, NEW p \in Processors, NEW delay \in Nat, GenIrqB(p, delay)
  PROVE  /\ gen_irq_b_event' \in Events
         /\ gen_irq_b_event'[p] # Never
         /\ \A q \in Processors \ {p} : gen_irq_b_event'[q] = gen_irq_b_event[q]
<1>1. Earlier(gen_irq_b_event[p], delay) \in Nat
  BY EarlierIsDelay DEF Events
<1> QED
  BY <1>1, DelayIsNotNever DEF GenIrqB, Events

\* The delay to a clock edge some cycles from now.
LEMMA AlignedDelay ==
  ASSUME TypeOK, NEW cycles \in Nat
  PROVE  AlignToClock(cycles) \in Nat
<1>1. Cycle - phase \in Int /\ Cycle \in Nat \ {0}
  BY TimeAssumption DEF TypeOK
<1>2. (Cycle - phase) % Cycle \in 0 .. (Cycle - 1)
  BY <1>1
<1>3. cycles * Cycle \in Nat
  BY <1>1
<1> QED
  BY <1>2, <1>3, <1>1 DEF AlignToClock

-----------------------------------------------------------------------------
(***************************************************************************)
(* Type correctness.                                                       *)
(***************************************************************************)

LEMMA TypeOKInit == Init => TypeOK
<1> SUFFICES ASSUME Init PROVE TypeOK
  OBVIOUS
<1> USE IrqsAssumption, TimeAssumption, PriorityAssumption, BoundsAssumption
<1>1. 0 \in IRQs /\ 0 \in Priorities /\ PSRReset \in PSR
  BY DEF IRQs, Priorities, PSR, PSRReset
<1>2. 0 \in 0 .. Cycle /\ 0 \in 0 .. (Cycle - 1) /\ 0 \in 0 .. MaxActs /\ 0 \in 0 .. 3
  OBVIOUS
<1>3. <<>> \in Seq(Priorities)
  OBVIOUS
<1> QED
  BY <1>1, <1>2, <1>3 DEF Init, TypeOK, Wires

\* Acknowledge and end of interrupt.
LEMMA TypeOKAcknowledge ==
  ASSUME TypeOK, NEW p \in Processors, IRQAcknowledge(p)
  PROVE  /\ intc_cpr' \in [Processors -> Priorities]
         /\ lifo' \in [Processors -> Seq(Priorities) \union {Corrupt}]
         /\ irq_b' \in [Processors -> BOOLEAN]
         /\ intc_psr' \in [IRQs -> PSR]
         /\ irq_select_event' \in Events
         /\ gen_irq_b_event' \in Events
<1>1. irq_select_event' \in Events
  BY SelectNotified, NeverAssumption DEF IRQAcknowledge, TypeOK, Events
<1>2. gen_irq_b_event' \in Events
  BY OutputNotified DEF IRQAcknowledge, TypeOK, Events
<1>3. selected_irq_num[p] \in IRQs /\ intc_cpr[p] \in Priorities /\ intc_psr[selected_irq_num[p]] \in PSR
  BY DEF TypeOK
<1>4. Push(lifo[p], intc_cpr[p]) \in Seq(Priorities) \union {Corrupt}
  BY <1>3 DEF Push, TypeOK
<1>5. lifo' \in [Processors -> Seq(Priorities) \union {Corrupt}]
  BY <1>4 DEF IRQAcknowledge, TypeOK
<1>6. intc_psr' \in [IRQs -> PSR]
  BY <1>3 DEF IRQAcknowledge, TypeOK, PSR
<1>7. intc_cpr' \in [Processors -> Priorities]
  BY <1>3 DEF IRQAcknowledge, TypeOK, PSR
<1> QED
  BY <1>1, <1>2, <1>5, <1>6, <1>7 DEF IRQAcknowledge, TypeOK

LEMMA TypeOKEndOfInterrupt ==
  ASSUME TypeOK, NEW p \in Processors, EndOfInterrupt(p)
  PROVE  /\ intc_cpr' \in [Processors -> Priorities]
         /\ lifo' \in [Processors -> Seq(Priorities) \union {Corrupt}]
         /\ irq_select_event' \in Events
<1>1. irq_select_event' \in Events
  BY SelectNotified DEF EndOfInterrupt, TypeOK, Events
<1>2. Tops(lifo[p]) \subseteq Priorities
  BY PriorityAssumption DEF Tops, TypeOK, Priorities
<1>3. Pop(lifo[p]) \in Seq(Priorities) \union {Corrupt}
  BY DEF Pop, TypeOK
<1> QED
  BY <1>1, <1>2, <1>3 DEF EndOfInterrupt, TypeOK

\* The registers and the lines that the environment changes, whoever does it.
LEMMA TypeOKWriteCPR ==
  ASSUME TypeOK, UNCHANGED kernel, acts' \in 0 .. MaxActs,
         NEW p \in Processors, NEW PRI \in Priorities, WriteCPR(p, PRI)
  PROVE  TypeOK'
<1>1. irq_select_event' \in Events
  BY SelectNotified DEF WriteCPR, TypeOK, Events
<1> QED
  BY <1>1 DEF WriteCPR, TypeOK, Events, config, sources, output, kernel

LEMMA TypeOKReadIACKR ==
  ASSUME TypeOK, UNCHANGED kernel, acts' \in 0 .. MaxActs, NEW p \in Processors, ReadIACKR(p)
  PROVE  TypeOK'
<1> USE DEF config, priority, sources, output, kernel
<1>1. CASE p \in intc_bcr
  BY <1>1 DEF ReadIACKR, TypeOK
<1>2. CASE p \notin intc_bcr
  BY <1>2, TypeOKAcknowledge DEF ReadIACKR, TypeOK, Events
<1> QED
  BY <1>1, <1>2

LEMMA TypeOKWriteEOIR ==
  ASSUME TypeOK, UNCHANGED kernel, acts' \in 0 .. MaxActs, NEW p \in Processors, WriteEOIR(p)
  PROVE  TypeOK'
BY TypeOKEndOfInterrupt DEF WriteEOIR, TypeOK, Events, config, sources, output, kernel

LEMMA TypeOKWritePSR ==
  ASSUME TypeOK, UNCHANGED kernel, acts' \in 0 .. MaxActs,
         NEW D \in SUBSET IRQs, NEW data \in [D -> PSR], WritePSR(data)
  PROVE  TypeOK'
<1> USE DEF config, priority, sources, output, kernel
<1>1. DOMAIN data = D /\ \A i \in D : data[i] \in PSR
  OBVIOUS
<1>2. intc_psr' \in [IRQs -> PSR]
  <2>1. \A i \in D : [data[i] EXCEPT !.SWTN = @ /\ i \in HwIrqs] \in PSR
    BY <1>1 DEF PSR
  <2> QED
    BY <1>1, <2>1 DEF WritePSR, TypeOK
<1>3. priority_tree' \in [Processors -> SUBSET Entries]
  <2>1. \A i \in D : [irq |-> i, priority |-> data[i].PRIN] \in Entries
    BY <1>1 DEF Entries, PSR
  <2>2. \A p \in Processors : TreeAfter(p, data) \in SUBSET Entries
    BY <1>1, <2>1 DEF TreeAfter, TypeOK
  <2> QED
    BY <2>2 DEF WritePSR
<1>4. irqs' \in SUBSET IRQs
  BY <1>1 DEF WritePSR, TypeOK, HwIrqs
<1>5. irq_select_event' \in Events
  BY SelectNotified DEF WritePSR, TypeOK, Events
<1> QED
  BY <1>2, <1>3, <1>4, <1>5 DEF WritePSR, TypeOK, Events

LEMMA TypeOKWriteSSCIR ==
  ASSUME TypeOK, UNCHANGED kernel, acts' \in 0 .. MaxActs, NEW m,
         NEW D \in SUBSET SwIrqs, NEW data \in [D -> [SET : BOOLEAN, CLR : BOOLEAN]], WriteSSCIR(m, data)
  PROVE  TypeOK'
<1>1. SSCIRWritten(m, data) \subseteq SwIrqs /\ SwIrqs \subseteq IRQs
  <2>1. SSCIRWritten(m, data) \subseteq D
    BY DEF SSCIRWritten
  <2>2. SwIrqs \subseteq IRQs
    BY IrqsAssumption DEF SwIrqs, IRQs
  <2> QED
    BY <2>1, <2>2
<1>2. irq_select_event' \in Events
  BY SelectNotified DEF WriteSSCIR, SetIRQInputStatus, TypeOK, Events
<1>3. irqs' \in SUBSET IRQs /\ intc_sscir' \in SUBSET SwIrqs
  BY <1>1 DEF WriteSSCIR, SetIRQInputStatus, TypeOK
<1> QED
  BY <1>2, <1>3 DEF WriteSSCIR, TypeOK, Events, config, priority, output, kernel

LEMMA TypeOKLine ==
  ASSUME TypeOK, UNCHANGED kernel, acts' \in 0 .. MaxActs, NEW i \in HwIrqs, HW_IRQ_Process(i)
  PROVE  TypeOK'
<1>1. irq_select_event' \in Events
  BY SelectNotified DEF HW_IRQ_Process, SetIRQInputStatus, TypeOK, Events
<1>2. irqs' \in SUBSET IRQs /\ hw_irq' \in SUBSET HwIrqs
  BY DEF HW_IRQ_Process, SetIRQInputStatus, TypeOK, HwIrqs
<1> QED
  BY <1>1, <1>2 DEF HW_IRQ_Process, TypeOK, Events, config, priority, output, kernel

LEMMA TypeOKRefused ==
  ASSUME TypeOK, UNCHANGED kernel, acts' \in 0 .. MaxActs, Refused
  PROVE  TypeOK'
BY DEF Refused, TypeOK, config, priority, sources, output, kernel

\* The register accesses, whatever their request.
LEMMA TypeOKAccess ==
  ASSUME TypeOK, UNCHANGED kernel, acts' \in 0 .. MaxActs,
         NEW m \in Masters, NEW r \in Requests, Access(m, r)
  PROVE  TypeOK'
<1>1. r \in Request
  BY RequestsAssumption
<1>2. CASE r.op = "bcr" /\ WriteBCR(r.HVEN)
  <2>1. r.HVEN \in SUBSET Processors
    BY <1>1, <1>2 DEF Request
  <2> QED
    BY <1>2, <2>1 DEF WriteBCR, TypeOK, priority, sources, output, kernel
<1>3. CASE r.op = "mprot" /\ WriteMPROT(r.ID, r.MPROT)
  <2>1. r.ID \in 0 .. 3 /\ r.MPROT \in BOOLEAN
    BY <1>1, <1>3 DEF Request
  <2> QED
    BY <1>3, <2>1 DEF WriteMPROT, TypeOK, priority, sources, output, kernel
<1>4. CASE r.op = "cpr" /\ WriteCPR(r.n, r.PRI)
  <2>1. r.n \in Processors /\ r.PRI \in Priorities
    BY <1>1, <1>4 DEF Request
  <2> QED
    BY <1>4, <2>1, TypeOKWriteCPR
<1>5. CASE r.op \in {"iackr", "eoir"} /\ (ReadIACKR(r.n) \/ WriteEOIR(r.n))
  <2>1. r.n \in Processors
    BY <1>1, <1>5 DEF Request
  <2> QED
    BY <1>5, <2>1, TypeOKReadIACKR, TypeOKWriteEOIR
<1>6. CASE r.op = "psr" /\ WritePSR(r.data)
  <2>1. PICK D \in SUBSET IRQs : r.data \in [D -> PSR]
    BY <1>1, <1>6 DEF Request
  <2> QED
    BY <1>6, <2>1, TypeOKWritePSR
<1>7. CASE r.op = "sscir" /\ WriteSSCIR(m, r.data)
  <2>1. PICK D \in SUBSET SwIrqs : r.data \in [D -> [SET : BOOLEAN, CLR : BOOLEAN]]
    BY <1>1, <1>7 DEF Request
  <2> QED
    BY <1>7, <2>1, TypeOKWriteSSCIR
<1>8. CASE Refused
  BY <1>8, TypeOKRefused
<1> QED
  BY <1>2, <1>3, <1>4, <1>5, <1>6, <1>7, <1>8 DEF Access

\* The lines, the cores and the reset.
LEMMA TypeOKEnvironment ==
  ASSUME TypeOK, Environment
  PROVE  TypeOK'
<1> USE DEF config, priority, sources, output, kernel
<1>1. acts' \in 0 .. MaxActs
  BY BoundsAssumption DEF Environment, TypeOK
<1>2. CASE \E m \in Masters, r \in Requests : Access(m, r)
  BY <1>1, <1>2, TypeOKAccess DEF Environment
<1>3. ASSUME NEW i \in HwIrqs, HW_IRQ_Process(i) PROVE TypeOK'
  BY <1>1, <1>3, TypeOKLine DEF Environment
<1>4. ASSUME NEW p \in Processors, IACK_Process(p) PROVE TypeOK'
  BY <1>1, <1>4, TypeOKAcknowledge DEF IACK_Process, Environment, TypeOK, Events
<1>5. CASE RESET_B_Process
  <2>1. 0 \in IRQs /\ 0 \in Priorities /\ PSRReset \in PSR /\ 0 \in 0 .. 3
    BY IrqsAssumption, PriorityAssumption DEF IRQs, Priorities, PSR, PSRReset
  <2> QED
    BY <1>1, <1>5, <2>1 DEF RESET_B_Process, Environment, TypeOK
<1> QED
  BY <1>2, <1>3, <1>4, <1>5 DEF Environment

\* The processes of the controller.
LEMMA TypeOKProcess ==
  ASSUME TypeOK, NEW p \in Processors, IRQ_Select_Process(p) \/ IRQ_B_Process(p)
  PROVE  TypeOK'
<1> USE DEF config, priority, sources, output, kernel
<1>1. runnable' \in SUBSET Process
  BY DEF IRQ_Select_Process, IRQ_B_Process, TypeOK
<1>2. CASE IRQ_Select_Process(p) /\ SelectNothing(p)
  BY <1>1, <1>2 DEF IRQ_Select_Process, SelectNothing, TypeOK
<1>3. CASE IRQ_Select_Process(p) /\ SelectSource(p)
  <2>1. PICK e \in Candidates(p) : /\ selected_irq_num' = [selected_irq_num EXCEPT ![p] = e.irq]
                                   /\ GenIrqB(p, AlignToClock(Latency(e.irq)))
    BY <1>3 DEF SelectSource
  <2>2. e.irq \in IRQs
    BY DEF Candidates, TypeOK, Entries
  <2>3. Latency(e.irq) \in Nat
    BY TimeAssumption DEF Latency
  <2>4. gen_irq_b_event' \in Events
    BY <2>1, <2>3, AlignedDelay, OutputNotified DEF TypeOK, Events
  <2> QED
    BY <1>1, <1>3, <2>1, <2>2, <2>4 DEF IRQ_Select_Process, SelectSource, TypeOK, Events
<1>4. CASE IRQ_B_Process(p) /\ Assert(p)
  <2>1. CASE since[p] >= Cycle
    <3>1. p_out' \in [Processors -> Wires]
      <4> DEFINE hven == p \in intc_bcr
                 wires == [irq_b |-> FALSE, avec_b |-> hven,
                           voffset |-> IF hven THEN selected_irq_num[p] ELSE p_out[p].voffset]
      <4>1. (IF hven THEN selected_irq_num[p] ELSE p_out[p].voffset) \in IRQs
        BY DEF TypeOK, Wires
      <4>2. hven \in BOOLEAN
        OBVIOUS
      <4>3. wires \in Wires
        <5> HIDE DEF hven
        <5> QED
          BY <4>1, <4>2 DEF Wires
      <4>4. p_out' = [p_out EXCEPT ![p] = wires]
        BY <1>4, <2>1 DEF Assert
      <4>5. p_out \in [Processors -> Wires]
        BY DEF TypeOK
      <4> HIDE DEF wires
      <4> QED
        BY <4>3, <4>4, <4>5
    <3>2. intc_iack' \in [Processors -> IRQs]
      BY <1>4, <2>1 DEF Assert, TypeOK
    <3> QED
      BY <1>1, <1>4, <2>1, <3>1, <3>2 DEF IRQ_B_Process, Assert, TypeOK
  <2>2. CASE ~(since[p] >= Cycle)
    <3>1. Cycle - since[p] \in Nat
      BY <2>2, TimeAssumption DEF TypeOK
    <3>2. gen_irq_b_event' \in Events
      BY <1>4, <2>2, <3>1, OutputNotified DEF Assert, TypeOK, Events
    <3> QED
      BY <1>1, <1>4, <2>2, <3>2 DEF IRQ_B_Process, Assert, TypeOK, Events
  <2> QED
    BY <2>1, <2>2
<1>5. CASE IRQ_B_Process(p) /\ AlreadyAsserted(p)
  BY <1>1, <1>5 DEF IRQ_B_Process, AlreadyAsserted, TypeOK
<1>6. CASE IRQ_B_Process(p) /\ Negate(p)
  <2>1. irq_select_event' \in Events
    BY <1>6, TimeAssumption, SelectNotified DEF Negate, TypeOK, Events
  <2>2. p_out' \in [Processors -> Wires]
    <3> DEFINE wires == [p_out[p] EXCEPT !.irq_b = TRUE, !.avec_b = TRUE]
    <3>1. p_out \in [Processors -> Wires]
      BY DEF TypeOK
    <3>2. p_out[p] \in Wires
      BY <3>1
    <3>3. wires \in Wires
      BY <3>2 DEF Wires
    <3>4. p_out' = [p_out EXCEPT ![p] = wires]
      BY <1>6 DEF Negate
    <3> HIDE DEF wires
    <3> QED
      BY <3>1, <3>3, <3>4
  <2>3. since' \in [Processors -> 0 .. Cycle]
    BY <1>6, TimeAssumption DEF Negate, TypeOK
  <2> QED
    BY <1>1, <1>6, <2>1, <2>2, <2>3 DEF IRQ_B_Process, Negate, TypeOK, Events
<1> QED
  BY <1>2, <1>3, <1>4, <1>5, <1>6 DEF IRQ_Select_Process, IRQ_B_Process

\* The delta cycle and time.
LEMMA TypeOKKernel ==
  ASSUME TypeOK, Delta \/ Tick
  PROVE  TypeOK'
<1> USE DEF config, priority, sources, output, kernel
<1>1. \A delay \in Nat : Woken(delay) \subseteq Process
  BY DEF Woken, Process
<1>2. CASE Delta
  <2>1. irq_select_event' \in Events /\ gen_irq_b_event' \in Events
    BY <1>2 DEF Delta, Triggered, TypeOK, Events
  <2> QED
    BY <1>1, <1>2, <2>1 DEF Delta, TypeOK, Events
<1>3. CASE Tick
  <2>1. /\ \A p \in Processors : irq_select_event[p] # 0 /\ gen_irq_b_event[p] # 0
        /\ runnable = {}
    <3>1. \A q \in Processors : irq_select_event[q] = 0 => <<"IRQ_Select", q>> \in Woken(0)
      BY SMT DEF Woken
    <3>2. \A q \in Processors : gen_irq_b_event[q] = 0 => <<"IRQ_B", q>> \in Woken(0)
      BY SMT DEF Woken
    <3>3. Woken(0) = {} /\ runnable = {}
      BY <1>3 DEF Tick
    <3> QED
      BY <3>1, <3>2, <3>3
  <2>2. irq_select_event' \in Events /\ gen_irq_b_event' \in Events
    BY <1>3, <2>1 DEF Tick, After, TypeOK, Events
  <2>3. since' \in [Processors -> 0 .. Cycle]
    BY <1>3, TimeAssumption DEF Tick, TypeOK
  <2>4. phase' \in 0 .. (Cycle - 1)
    BY <1>3, TimeAssumption DEF Tick, TypeOK
  <2>5. acts' \in 0 .. MaxActs
    BY <1>3, BoundsAssumption DEF Tick
  <2> QED
    BY <1>1, <1>3, <2>2, <2>3, <2>4, <2>5 DEF Tick, TypeOK, Events
<1> QED
  BY <1>2, <1>3

\* The registers, the latches, the trees and the two events of each processor
\* keep their types, for any set of accesses.
THEOREM TypeCorrect == Spec => []TypeOK
<1>1. Init => TypeOK
  BY TypeOKInit
<1>2. TypeOK /\ [Next]_vars => TypeOK'
  <2> SUFFICES ASSUME TypeOK, [Next]_vars PROVE TypeOK'
    OBVIOUS
  <2>1. CASE UNCHANGED vars
    BY <2>1 DEF vars, config, priority, sources, output, kernel, TypeOK
  <2> QED
    BY <2>1, TypeOKEnvironment, TypeOKProcess, TypeOKKernel DEF Next
<1> QED
  BY <1>1, <1>2, PTL DEF Spec

-----------------------------------------------------------------------------
(***************************************************************************)
(* The kernel loses no notification.                                       *)
(***************************************************************************)

\* A selection for p, or an update of its request line, is coming.
SelectComing(p) == <<"IRQ_Select", p>> \in runnable \/ irq_select_event[p] # Never
OutputComing(p) == <<"IRQ_B", p>> \in runnable \/ gen_irq_b_event[p] # Never

\* Time and the delta cycle turn a notification into a runnable process or
\* bring it nearer.
LEMMA KernelKeeps ==
  ASSUME TypeOK, Delta \/ Tick, NEW p \in Processors
  PROVE  /\ SelectComing(p) => SelectComing(p)'
         /\ OutputComing(p) => OutputComing(p)'
<1>1. runnable = {}
  BY DEF Delta, Tick
<1>2. \A delay \in Nat : irq_select_event[p] = delay => <<"IRQ_Select", p>> \in Woken(delay)
  BY SMT DEF Woken
<1>3. \A delay \in Nat : gen_irq_b_event[p] = delay => <<"IRQ_B", p>> \in Woken(delay)
  BY SMT DEF Woken
<1>4. irq_select_event[p] \in Nat \union {Never} /\ gen_irq_b_event[p] \in Nat \union {Never}
  BY DEF TypeOK
<1>5. CASE Delta
  <2>1. irq_select_event[p] # 0 => irq_select_event'[p] = irq_select_event[p]
    BY <1>5 DEF Delta, Triggered
  <2>2. gen_irq_b_event[p] # 0 => gen_irq_b_event'[p] = gen_irq_b_event[p]
    BY <1>5 DEF Delta, Triggered
  <2>3. runnable' = Woken(0)
    BY <1>5 DEF Delta
  <2> QED
    BY <1>1, <1>2, <1>3, <2>1, <2>2, <2>3 DEF SelectComing, OutputComing
<1>6. CASE Tick
  <2>1. runnable' = Woken(1)
    BY <1>6 DEF Tick
  <2>2. Woken(0) = {}
    BY <1>6 DEF Tick
  <2>3. irq_select_event[p] # 0 /\ gen_irq_b_event[p] # 0
    BY <1>2, <1>3, <2>2
  <2>4. irq_select_event[p] \notin {Never, 1} => irq_select_event'[p] \in Nat
    BY <1>4, <1>6, <2>3 DEF Tick, After
  <2>5. gen_irq_b_event[p] \notin {Never, 1} => gen_irq_b_event'[p] \in Nat
    BY <1>4, <1>6, <2>3 DEF Tick, After
  <2> QED
    BY <1>1, <1>2, <1>3, <2>1, <2>4, <2>5, DelayIsNotNever DEF SelectComing, OutputComing
<1> QED
  BY <1>5, <1>6

\* A selection that is notified or kept is coming, when no process is run.
LEMMA SelectKept ==
  ASSUME TypeOK, NEW P, NEW delay \in Nat, UpdateIRQSelect(P, delay),
         NEW p \in Processors, SelectComing(p) \/ p \in P,
         <<"IRQ_Select", p>> \in runnable => <<"IRQ_Select", p>> \in runnable'
  PROVE  SelectComing(p)'
<1>1. irq_select_event \in Events
  BY DEF TypeOK, Events
<1>2. irq_select_event[p] # Never \/ p \in P => irq_select_event'[p] # Never
  BY <1>1, SelectNotified
<1> QED
  BY <1>2 DEF SelectComing

\* GenIrqB keeps an update that is coming for a processor and makes one for p.
LEMMA OutputKept ==
  ASSUME TypeOK, NEW p \in Processors, NEW delay \in Nat, GenIrqB(p, delay)
  PROVE  /\ gen_irq_b_event'[p] # Never
         /\ \A q \in Processors \ {p} : gen_irq_b_event'[q] = gen_irq_b_event[q]
<1>1. gen_irq_b_event \in Events
  BY DEF TypeOK, Events
<1> QED
  BY <1>1, OutputNotified

-----------------------------------------------------------------------------
(***************************************************************************)
(* The output.                                                             *)
(***************************************************************************)

\* An acknowledge schedules the output of its processor.
LEMMA AcknowledgeOutput ==
  ASSUME TypeOK, NoMissedOutput, NEW p \in Processors, IRQAcknowledge(p),
         UNCHANGED <<runnable, p_out>>
  PROVE  NoMissedOutput'
<1>1. GenIrqB(p, 0) /\ irq_b' = [irq_b EXCEPT ![p] = TRUE]
  BY DEF IRQAcknowledge
<1>2. /\ gen_irq_b_event'[p] # Never
      /\ \A q \in Processors \ {p} : gen_irq_b_event'[q] = gen_irq_b_event[q]
  BY <1>1, OutputKept
<1> QED
  BY <1>1, <1>2 DEF NoMissedOutput, TypeOK

LEMMA NoMissedOutputStep ==
  ASSUME TypeOK, NoMissedOutput, [Next]_vars
  PROVE  NoMissedOutput'
<1> USE DEF config, priority, sources, output, kernel
<1>1. CASE UNCHANGED vars
  BY <1>1 DEF vars, NoMissedOutput
<1>2. CASE UNCHANGED <<irq_b, p_out, gen_irq_b_event, runnable>>
  BY <1>2 DEF NoMissedOutput
<1>3. CASE Environment
  <2>1. UNCHANGED runnable
    BY <1>3 DEF Environment
  <2>2. ASSUME NEW m \in Masters, NEW r \in Requests, Access(m, r) PROVE NoMissedOutput'
    <3>1. CASE r.op = "iackr" /\ ReadIACKR(r.n)
      <4>1. r.n \in Processors
        BY <3>1, RequestsAssumption DEF Request
      <4> QED
        BY <1>2, <2>1, <3>1, <4>1, AcknowledgeOutput DEF ReadIACKR
    <3>2. CASE ~(r.op = "iackr" /\ ReadIACKR(r.n))
      <4>1. UNCHANGED <<irq_b, p_out, gen_irq_b_event>>
        BY <2>2, <3>2 DEF Access, Refused, WriteBCR, WriteMPROT, WriteCPR, WriteEOIR, WritePSR, WriteSSCIR
      <4> QED
        BY <1>2, <2>1, <4>1
    <3> QED
      BY <3>1, <3>2
  <2>3. ASSUME NEW p \in Processors, IACK_Process(p) PROVE NoMissedOutput'
    BY <2>1, <2>3, AcknowledgeOutput DEF IACK_Process
  <2>4. CASE \E i \in HwIrqs : HW_IRQ_Process(i)
    BY <1>2, <2>1, <2>4 DEF HW_IRQ_Process
  <2>5. CASE RESET_B_Process
    BY <1>2, <2>1, <2>5 DEF RESET_B_Process
  <2> QED
    BY <1>3, <2>2, <2>3, <2>4, <2>5 DEF Environment
<1>4. ASSUME NEW p \in Processors, IRQ_Select_Process(p) PROVE NoMissedOutput'
  <2>1. \A q \in Processors : <<"IRQ_B", q>> \in runnable => <<"IRQ_B", q>> \in runnable'
    BY <1>4 DEF IRQ_Select_Process
  <2>2. CASE SelectNothing(p)
    BY <1>4, <2>1, <2>2 DEF IRQ_Select_Process, SelectNothing, NoMissedOutput
  <2>3. CASE SelectSource(p)
    <3>1. PICK e \in Candidates(p) : GenIrqB(p, AlignToClock(Latency(e.irq)))
      BY <2>3 DEF SelectSource
    <3>2. Latency(e.irq) \in Nat
      BY TimeAssumption DEF Latency
    <3>3. /\ gen_irq_b_event'[p] # Never
          /\ \A q \in Processors \ {p} : gen_irq_b_event'[q] = gen_irq_b_event[q]
      BY <3>1, <3>2, AlignedDelay, OutputKept
    <3> QED
      BY <1>4, <2>1, <2>3, <3>3 DEF IRQ_Select_Process, SelectSource, NoMissedOutput, TypeOK
  <2> QED
    BY <1>4, <2>2, <2>3 DEF IRQ_Select_Process
<1>5. ASSUME NEW p \in Processors, IRQ_B_Process(p) PROVE NoMissedOutput'
  <2>1. /\ \A q \in Processors \ {p} : <<"IRQ_B", q>> \in runnable => <<"IRQ_B", q>> \in runnable'
        /\ irq_b' = irq_b
    BY <1>5 DEF IRQ_B_Process
  <2>2. CASE Assert(p) /\ since[p] >= Cycle
    <3>1. /\ p_out'[p].irq_b = FALSE /\ irq_b[p] = FALSE
          /\ \A q \in Processors \ {p} : p_out'[q] = p_out[q]
          /\ gen_irq_b_event' = gen_irq_b_event
      BY <2>2 DEF Assert, TypeOK
    <3> QED
      BY <2>1, <3>1 DEF NoMissedOutput
  <2>3. CASE Assert(p) /\ ~(since[p] >= Cycle)
    <3>1. GenIrqB(p, Cycle - since[p]) /\ UNCHANGED p_out
      BY <2>3 DEF Assert
    <3>2. Cycle - since[p] \in Nat
      BY <2>3, TimeAssumption DEF TypeOK
    <3>3. /\ gen_irq_b_event'[p] # Never
          /\ \A q \in Processors \ {p} : gen_irq_b_event'[q] = gen_irq_b_event[q]
      BY <3>1, <3>2, OutputKept
    <3> QED
      BY <2>1, <3>1, <3>3 DEF NoMissedOutput
  <2>4. CASE AlreadyAsserted(p)
    <3>1. /\ p_out[p].irq_b = FALSE /\ irq_b[p] = FALSE
          /\ p_out' = p_out /\ gen_irq_b_event' = gen_irq_b_event
      BY <2>4 DEF AlreadyAsserted, TypeOK, Wires
    <3> QED
      BY <2>1, <3>1 DEF NoMissedOutput
  <2>5. CASE Negate(p)
    <3>1. /\ p_out'[p].irq_b = TRUE /\ irq_b[p] = TRUE
          /\ \A q \in Processors \ {p} : p_out'[q] = p_out[q]
          /\ gen_irq_b_event' = gen_irq_b_event
      BY <2>5 DEF Negate, TypeOK, Wires
    <3> QED
      BY <2>1, <3>1 DEF NoMissedOutput
  <2> QED
    BY <1>5, <2>2, <2>3, <2>4, <2>5 DEF IRQ_B_Process
<1>6. CASE Delta \/ Tick
  <2>1. UNCHANGED <<irq_b, p_out>>
    BY <1>6 DEF Delta, Tick
  <2>2. \A p \in Processors : OutputComing(p) => OutputComing(p)'
    BY <1>6, KernelKeeps
  <2> QED
    BY <2>1, <2>2 DEF NoMissedOutput, OutputComing
<1> QED
  BY <1>1, <1>3, <1>4, <1>5, <1>6 DEF Next

\* A request line that is not what irq_b says has an update coming, for ever
\* (SetIRQOutput, IRQ_B_Process).
THEOREM OutputNotMissed == Spec => []NoMissedOutput
<1>1. Init => NoMissedOutput
  BY DEF Init, NoMissedOutput, Process
<1>2. TypeOK /\ NoMissedOutput /\ [Next]_vars => NoMissedOutput'
  BY NoMissedOutputStep
<1> QED
  BY <1>1, <1>2, TypeCorrect, PTL DEF Spec

-----------------------------------------------------------------------------
(***************************************************************************)
(* The selection.                                                          *)
(***************************************************************************)

\* A step keeps the invariant when every processor whose request or candidates
\* it may change has a selection coming, and no selection is forgotten.
LEMMA SelectionKept ==
  ASSUME NoMissedSelection, NEW P,
         \A p \in P \intersect Processors : SelectComing(p)',
         \A p \in Processors \ P : /\ Candidates(p)' \subseteq Candidates(p)
                                   /\ irq_b'[p] => irq_b[p]
                                   /\ SelectComing(p) => SelectComing(p)'
  PROVE  NoMissedSelection'
<1> SUFFICES ASSUME NEW p \in Processors, irq_b'[p], Candidates(p)' # {}
             PROVE  SelectComing(p)'
  BY DEF NoMissedSelection, SelectComing
<1>1. CASE p \in P
  BY <1>1
<1>2. CASE p \notin P
  <2>1. irq_b[p] /\ Candidates(p) # {}
    BY <1>2
  <2> QED
    BY <1>2, <2>1 DEF NoMissedSelection, SelectComing
<1> QED
  BY <1>1, <1>2

\* A step that notifies the selection of the processors P, and runs nothing.
LEMMA SelectionNotified ==
  ASSUME TypeOK, NoMissedSelection, NEW P, NEW delay \in Nat, UpdateIRQSelect(P, delay),
         \A p \in Processors : <<"IRQ_Select", p>> \in runnable => <<"IRQ_Select", p>> \in runnable',
         \A p \in Processors \ P : Candidates(p)' \subseteq Candidates(p) /\ (irq_b'[p] => irq_b[p])
  PROVE  NoMissedSelection'
<1>1. \A p \in Processors : SelectComing(p) \/ p \in P => SelectComing(p)'
  BY SelectKept
<1> QED
  BY <1>1, SelectionKept

LEMMA AcknowledgeSelection ==
  ASSUME TypeOK, NoMissedSelection, NEW p \in Processors, IRQAcknowledge(p),
         UNCHANGED <<runnable, priority_tree, irqs>>
  PROVE  NoMissedSelection'
<1>1. UpdateIRQSelect({p}, 0)
  BY DEF IRQAcknowledge
<1>2. \A q \in Processors \ {p} : irq_b'[q] = irq_b[q] /\ intc_cpr'[q] = intc_cpr[q]
  BY DEF IRQAcknowledge, TypeOK
<1>3. \A q \in Processors \ {p} : Candidates(q)' = Candidates(q)
  BY <1>2 DEF Candidates
<1> QED
  BY <1>1, <1>2, <1>3, SelectionNotified

\* A write of INTC_PSRn wakes every processor whose tree it changes, and all
\* of them when it triggers a source.
LEMMA WritePSRSelection ==
  ASSUME TypeOK, NoMissedSelection, UNCHANGED runnable, NEW data, WritePSR(data)
  PROVE  NoMissedSelection'
<1> DEFINE triggered == {i \in DOMAIN data \intersect HwIrqs : data[i].SWTN}
           P == {p \in Processors : triggered # {} \/ \E i \in DOMAIN data : Moves(p, i, data[i])}
<1>1. UpdateIRQSelect(P, 0) /\ irqs' = irqs \union triggered
  BY DEF WritePSR
<1>2. /\ intc_cpr' = intc_cpr /\ irq_b' = irq_b
      /\ \A p \in Processors : priority_tree'[p] = TreeAfter(p, data)
  BY DEF WritePSR, priority, output
<1>3. ASSUME NEW p \in Processors \ P PROVE Candidates(p)' \subseteq Candidates(p)
  <2>1. triggered = {} /\ \A i \in DOMAIN data : ~Moves(p, i, data[i])
    BY <1>3
  <2>2. irqs' = irqs
    BY <1>1, <2>1
  <2>3. priority_tree'[p] \subseteq priority_tree[p]
    BY <1>2, <2>1 DEF TreeAfter
  <2> QED
    BY <1>2, <2>2, <2>3 DEF Candidates
<1> HIDE DEF P, triggered
<1> QED
  BY <1>1, <1>2, <1>3, SelectionNotified

\* A new current priority wakes its processor.
LEMMA WriteCPRSelection ==
  ASSUME TypeOK, NoMissedSelection, UNCHANGED runnable,
         NEW p \in Processors, NEW PRI, WriteCPR(p, PRI)
  PROVE  NoMissedSelection'
<1>1. UpdateIRQSelect({p}, 0)
  BY DEF WriteCPR
<1>2. \A q \in Processors \ {p} : Candidates(q)' = Candidates(q) /\ irq_b'[q] = irq_b[q]
  BY DEF WriteCPR, Candidates, TypeOK, sources, output
<1> QED
  BY <1>1, <1>2, SelectionNotified

LEMMA WriteEOIRSelection ==
  ASSUME TypeOK, NoMissedSelection, UNCHANGED runnable, NEW p \in Processors, WriteEOIR(p)
  PROVE  NoMissedSelection'
<1>1. UpdateIRQSelect({p}, 0)
  BY DEF WriteEOIR, EndOfInterrupt
<1>2. \A q \in Processors \ {p} : Candidates(q)' = Candidates(q) /\ irq_b'[q] = irq_b[q]
  BY DEF WriteEOIR, EndOfInterrupt, Candidates, TypeOK, sources, output
<1> QED
  BY <1>1, <1>2, SelectionNotified

LEMMA ReadIACKRSelection ==
  ASSUME TypeOK, NoMissedSelection, UNCHANGED runnable, NEW p \in Processors, ReadIACKR(p)
  PROVE  NoMissedSelection'
<1>1. CASE p \in intc_bcr
  BY <1>1 DEF ReadIACKR, NoMissedSelection, Candidates, priority, sources, output
<1>2. CASE p \notin intc_bcr
  BY <1>2, AcknowledgeSelection DEF ReadIACKR
<1> QED
  BY <1>1, <1>2

\* Latches that change wake every processor.
LEMMA LatchSelection ==
  ASSUME TypeOK, NoMissedSelection, UNCHANGED <<runnable, irq_b, intc_cpr, priority_tree>>,
         NEW I, NEW on \in SUBSET I, SetIRQInputStatus(I, on)
  PROVE  NoMissedSelection'
<1> DEFINE P == IF I = {} THEN {} ELSE Processors
<1>1. UpdateIRQSelect(P, 0) /\ irqs' = (irqs \ I) \union on
  BY DEF SetIRQInputStatus
<1>2. \A p \in Processors \ P : Candidates(p)' \subseteq Candidates(p) /\ irq_b'[p] = irq_b[p]
  BY <1>1 DEF Candidates
<1> HIDE DEF P
<1> QED
  BY <1>1, <1>2, SelectionNotified

LEMMA WriteSSCIRSelection ==
  ASSUME TypeOK, NoMissedSelection, UNCHANGED runnable, NEW m, NEW data, WriteSSCIR(m, data)
  PROVE  NoMissedSelection'
<1> DEFINE written == SSCIRWritten(m, data)
           set     == {i \in written : Flag(i, data[i])}
<1>1. SetIRQInputStatus(written, set) /\ UNCHANGED <<irq_b, intc_cpr, priority_tree>>
  BY DEF WriteSSCIR, priority, output
<1>2. set \in SUBSET written
  OBVIOUS
<1> HIDE DEF written, set
<1> QED
  BY <1>1, <1>2, LatchSelection

LEMMA LineSelection ==
  ASSUME TypeOK, NoMissedSelection, UNCHANGED runnable, NEW i, HW_IRQ_Process(i)
  PROVE  NoMissedSelection'
<1>1. SetIRQInputStatus({i}, hw_irq' \intersect {i}) /\ UNCHANGED <<irq_b, intc_cpr, priority_tree>>
  BY DEF HW_IRQ_Process, priority, output
<1> QED
  BY <1>1, LatchSelection

LEMMA AccessSelection ==
  ASSUME TypeOK, NoMissedSelection, UNCHANGED runnable,
         NEW m \in Masters, NEW r \in Requests, Access(m, r)
  PROVE  NoMissedSelection'
<1>1. r \in Request
  BY RequestsAssumption
<1>2. CASE r.op \in {"cpr", "iackr", "eoir"} /\ (WriteCPR(r.n, r.PRI) \/ ReadIACKR(r.n) \/ WriteEOIR(r.n))
  <2>1. r.n \in Processors
    BY <1>1, <1>2 DEF Request
  <2> QED
    BY <1>2, <2>1, WriteCPRSelection, ReadIACKRSelection, WriteEOIRSelection
<1>3. CASE WritePSR(r.data) \/ WriteSSCIR(m, r.data)
  BY <1>3, WritePSRSelection, WriteSSCIRSelection
<1>4. CASE Refused \/ WriteBCR(r.HVEN) \/ WriteMPROT(r.ID, r.MPROT)
  BY <1>4 DEF Refused, WriteBCR, WriteMPROT, NoMissedSelection, Candidates, priority, sources, output
<1> QED
  BY <1>2, <1>3, <1>4 DEF Access

LEMMA NoMissedSelectionStep ==
  ASSUME TypeOK, NoMissedSelection, [Next]_vars
  PROVE  NoMissedSelection'
<1> USE DEF config, priority, sources, output, kernel
<1>1. CASE UNCHANGED vars
  BY <1>1 DEF vars, NoMissedSelection, Candidates
<1>2. CASE Environment
  <2>1. UNCHANGED runnable
    BY <1>2 DEF Environment
  <2>2. CASE \E m \in Masters, r \in Requests : Access(m, r)
    BY <2>1, <2>2, AccessSelection
  <2>3. ASSUME NEW i \in HwIrqs, HW_IRQ_Process(i) PROVE NoMissedSelection'
    BY <2>1, <2>3, LineSelection
  <2>4. ASSUME NEW p \in Processors, IACK_Process(p) PROVE NoMissedSelection'
    BY <2>1, <2>4, AcknowledgeSelection DEF IACK_Process
  <2>5. CASE RESET_B_Process
    BY <2>5 DEF RESET_B_Process, NoMissedSelection, Candidates
  <2> QED
    BY <1>2, <2>2, <2>3, <2>4, <2>5 DEF Environment
<1>3. ASSUME NEW p \in Processors, IRQ_Select_Process(p) PROVE NoMissedSelection'
  <2>1. /\ \A q \in Processors : Candidates(q)' = Candidates(q)
        /\ \A q \in Processors \ {p} : SelectComing(q) => SelectComing(q)'
    BY <1>3 DEF IRQ_Select_Process, Candidates, SelectComing
  <2>2. ~irq_b'[p] \/ Candidates(p) = {}
    BY <1>3 DEF IRQ_Select_Process, SelectSource, SelectNothing, TypeOK
  <2>3. \A q \in Processors \ {p} : irq_b'[q] = irq_b[q]
    BY <1>3 DEF IRQ_Select_Process, SelectSource, SelectNothing, TypeOK
  <2> QED
    BY <2>1, <2>2, <2>3 DEF NoMissedSelection, SelectComing
<1>4. ASSUME NEW p \in Processors, IRQ_B_Process(p) PROVE NoMissedSelection'
  <2>1. /\ \A q \in Processors : Candidates(q)' = Candidates(q)
        /\ \A q \in Processors : <<"IRQ_Select", q>> \in runnable => <<"IRQ_Select", q>> \in runnable'
        /\ irq_b' = irq_b
    BY <1>4 DEF IRQ_B_Process, Candidates
  <2>2. CASE UNCHANGED irq_select_event
    BY <2>1, <2>2 DEF NoMissedSelection
  <2>3. CASE UpdateIRQSelect({p}, Cycle)
    BY <2>1, <2>3, SelectionNotified, TimeAssumption
  <2> QED
    BY <1>4, <2>2, <2>3 DEF IRQ_B_Process, Assert, AlreadyAsserted, Negate
<1>5. CASE Delta \/ Tick
  <2>1. irq_b' = irq_b /\ \A p \in Processors : Candidates(p)' = Candidates(p)
    BY <1>5 DEF Delta, Tick, Candidates
  <2>2. \A p \in Processors : SelectComing(p) => SelectComing(p)'
    BY <1>5, KernelKeeps
  <2> QED
    BY <2>1, <2>2 DEF NoMissedSelection, SelectComing
<1> QED
  BY <1>1, <1>2, <1>3, <1>4, <1>5 DEF Next

\* A source that could be signalled while no request is under way has a
\* selection coming, for ever (UpdateIRQSelect, IRQ_Select_Process).
THEOREM SelectionNotMissed == Spec => []NoMissedSelection
<1>1. Init => NoMissedSelection
  BY DEF Init, NoMissedSelection, Process
<1>2. TypeOK /\ NoMissedSelection /\ [Next]_vars => NoMissedSelection'
  BY NoMissedSelectionStep
<1> QED
  BY <1>1, <1>2, TypeCorrect, PTL DEF Spec

-----------------------------------------------------------------------------
(***************************************************************************)
(* The trees.                                                              *)
(***************************************************************************)

\* The entry of a source in a tree, by its INTC_PSR.
EntryOf(i) == [irq |-> i, priority |-> intc_psr[i].PRIN]

\* A tree holds entries of sources enabled for its processor only.
LEMMA WritePSRTree ==
  ASSUME TypeOK, TreeIsSound, NEW D \in SUBSET IRQs, NEW data \in [D -> PSR], WritePSR(data)
  PROVE  TreeIsSound'
<1> DEFINE new(i) == [data[i] EXCEPT !.SWTN = @ /\ i \in HwIrqs]
<1>1. \A i \in IRQs : intc_psr'[i] = IF i \notin D THEN intc_psr[i] ELSE new(i)
  BY DEF WritePSR
<1>2. \A i \in D : new(i).PRC_SELN = data[i].PRC_SELN /\ new(i).PRIN = data[i].PRIN
  BY DEF PSR
<1> HIDE DEF new
<1>3. \A i \in IRQs \ D : intc_psr'[i] = intc_psr[i]
  BY <1>1
<1>4. \A i \in D : intc_psr'[i].PRC_SELN = data[i].PRC_SELN /\ intc_psr'[i].PRIN = data[i].PRIN
  BY <1>1, <1>2
<1> SUFFICES ASSUME NEW p \in Processors
             PROVE  /\ priority_tree'[p] \subseteq Mirror(p)'
                    /\ \A e \in Mirror(p)' : e.irq \in ResetIrqs => e \in priority_tree'[p]
  BY DEF TreeIsSound, ResetIrqs
<1>5. /\ priority_tree[p] \subseteq Mirror(p)
      /\ \A e \in Mirror(p) : e.irq \in ResetIrqs => e \in priority_tree[p]
  BY DEF TreeIsSound
<1>6. priority_tree'[p] = TreeAfter(p, data) /\ DOMAIN data = D
  BY DEF WritePSR
<1> DEFINE moved   == {i \in D : Moves(p, i, data[i])}
           removed == {EntryOf(i) : i \in {j \in moved : p \in intc_psr[j].PRC_SELN}}
           added   == {[irq |-> i, priority |-> data[i].PRIN] :
                         i \in {j \in moved : p \in data[j].PRC_SELN}}
<1>7. priority_tree'[p] = (priority_tree[p] \ removed) \union added
  BY <1>6 DEF TreeAfter, EntryOf
<1>8. ASSUME NEW e \in priority_tree'[p] PROVE e \in Mirror(p)'
  <2>1. CASE e \in added
    <3>1. PICK i \in moved : p \in data[i].PRC_SELN /\ e = [irq |-> i, priority |-> data[i].PRIN]
      BY <2>1
    <3>2. i \in IRQs /\ p \in intc_psr'[i].PRC_SELN /\ intc_psr'[i].PRIN = data[i].PRIN
      BY <1>4, <3>1
    <3> QED
      BY <3>1, <3>2 DEF Mirror
  <2>2. CASE e \in priority_tree[p] \ removed
    <3>1. PICK i \in IRQs : p \in intc_psr[i].PRC_SELN /\ e = EntryOf(i)
      BY <1>5, <2>2 DEF Mirror, EntryOf
    <3>2. i \notin moved
      BY <2>2, <3>1
    <3>3. p \in intc_psr'[i].PRC_SELN /\ intc_psr'[i].PRIN = intc_psr[i].PRIN
      BY <1>3, <1>4, <3>1, <3>2 DEF Moves
    <3> QED
      BY <3>1, <3>3 DEF Mirror, EntryOf
  <2> QED
    BY <1>7, <1>8, <2>1, <2>2
<1>9. ASSUME NEW e \in Mirror(p)', e.irq \in ResetIrqs PROVE e \in priority_tree'[p]
  <2>1. PICK i \in IRQs : p \in intc_psr'[i].PRC_SELN /\ e = [irq |-> i, priority |-> intc_psr'[i].PRIN]
    BY DEF Mirror
  <2>2. i \in ResetIrqs
    BY <1>9, <2>1
  <2>3. CASE i \in moved
    BY <1>4, <1>7, <2>1, <2>3
  <2>4. CASE i \notin moved
    <3>1. p \in intc_psr[i].PRC_SELN /\ intc_psr'[i].PRIN = intc_psr[i].PRIN
      BY <1>3, <1>4, <2>1, <2>4 DEF Moves
    <3>2. EntryOf(i) \in Mirror(p) /\ e = EntryOf(i) /\ e.irq = i
      BY <2>1, <3>1 DEF Mirror, EntryOf
    <3>3. e \in priority_tree[p]
      BY <1>5, <2>2, <3>2
    <3>4. e \notin removed
      BY <2>4, <3>2 DEF EntryOf
    <3> QED
      BY <1>7, <3>3, <3>4
  <2> QED
    BY <2>3, <2>4
<1> QED
  BY <1>8, <1>9

\* An acknowledge takes SWTN away, which no tree is about.
LEMMA AcknowledgeTree ==
  ASSUME TypeOK, TreeIsSound, NEW p \in Processors, IRQAcknowledge(p), UNCHANGED priority_tree
  PROVE  TreeIsSound'
<1>1. \A i \in IRQs : intc_psr'[i].PRC_SELN = intc_psr[i].PRC_SELN /\ intc_psr'[i].PRIN = intc_psr[i].PRIN
  BY DEF IRQAcknowledge, TypeOK, PSR
<1>2. \A q \in Processors : Mirror(q)' = Mirror(q)
  BY <1>1 DEF Mirror
<1> QED
  BY <1>2 DEF TreeIsSound, ResetIrqs

LEMMA TreeIsSoundStep ==
  ASSUME TypeOK, TreeIsSound, [Next]_vars
  PROVE  TreeIsSound'
<1> USE DEF config, priority, sources, output, kernel
<1>1. CASE UNCHANGED <<priority_tree, intc_psr>>
  BY <1>1 DEF TreeIsSound, Mirror, ResetIrqs
<1>2. CASE Environment
  <2>1. ASSUME NEW m \in Masters, NEW r \in Requests, Access(m, r) PROVE TreeIsSound'
    <3>1. r \in Request
      BY RequestsAssumption
    <3>2. CASE r.op = "psr" /\ WritePSR(r.data)
      <4>1. PICK D \in SUBSET IRQs : r.data \in [D -> PSR]
        BY <3>1, <3>2 DEF Request
      <4> QED
        BY <3>2, <4>1, WritePSRTree
    <3>3. CASE r.op = "iackr" /\ ReadIACKR(r.n)
      <4>1. r.n \in Processors
        BY <3>1, <3>3 DEF Request
      <4> QED
        BY <1>1, <3>3, <4>1, AcknowledgeTree DEF ReadIACKR
    <3>4. CASE ~(r.op = "psr" /\ WritePSR(r.data)) /\ ~(r.op = "iackr" /\ ReadIACKR(r.n))
      <4>1. UNCHANGED <<priority_tree, intc_psr>>
        BY <2>1, <3>4 DEF Access, Refused, WriteBCR, WriteMPROT, WriteCPR, WriteEOIR, WriteSSCIR
      <4> QED
        BY <1>1, <4>1
    <3> QED
      BY <3>2, <3>3, <3>4
  <2>2. CASE \E i \in HwIrqs : HW_IRQ_Process(i)
    BY <1>1, <2>2 DEF HW_IRQ_Process
  <2>3. ASSUME NEW p \in Processors, IACK_Process(p) PROVE TreeIsSound'
    BY <2>3, AcknowledgeTree DEF IACK_Process
  <2>4. CASE RESET_B_Process
    <3>1. \A p \in Processors : priority_tree'[p] = {}
      BY <2>4 DEF RESET_B_Process
    <3>2. \A i \in ResetIrqs : i \in IRQs /\ intc_psr'[i].PRC_SELN = {}
      BY <2>4 DEF RESET_B_Process, ResetIrqs, PSRReset
    <3>3. \A p \in Processors : \A e \in Mirror(p)' : e.irq \notin ResetIrqs
      BY <3>2 DEF Mirror
    <3> QED
      BY <3>1, <3>3 DEF TreeIsSound, ResetIrqs
  <2> QED
    BY <1>2, <2>1, <2>2, <2>3, <2>4 DEF Environment
<1>3. CASE \E p \in Processors : IRQ_Select_Process(p) \/ IRQ_B_Process(p)
  BY <1>1, <1>3 DEF IRQ_Select_Process, IRQ_B_Process
<1>4. CASE Delta \/ Tick
  BY <1>1, <1>4 DEF Delta, Tick
<1>5. CASE UNCHANGED vars
  BY <1>1, <1>5 DEF vars
<1> QED
  BY <1>2, <1>3, <1>4, <1>5 DEF Next

\* A tree holds what the INTC_PSRn say and nothing else, for the sources whose
\* INTC_PSR the reset reaches; for the others it may lack entries, and its
\* entries are still those of the INTC_PSRn (INTC_PSR::Write, Reset).
THEOREM TreeAlwaysSound == Spec => []TreeIsSound
<1>1. Init => TreeIsSound
  <2>1. ASSUME Init PROVE \A p \in Processors : Mirror(p) = {} /\ priority_tree[p] = {}
    BY <2>1 DEF Init, Mirror, PSRReset
  <2> QED
    BY <2>1 DEF TreeIsSound
<1>2. TypeOK /\ TreeIsSound /\ [Next]_vars => TreeIsSound'
  BY TreeIsSoundStep
<1> QED
  BY <1>1, <1>2, TypeCorrect, PTL DEF Spec
=============================================================================
