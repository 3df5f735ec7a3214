-------------------------------- MODULE Intc --------------------------------
(***************************************************************************)
(* The interrupt controller of the MPC57xx (component/tlm2/interrupt/      *)
(* freescale/mpc57xx/intc).  Interrupt sources are latched in irqs; for    *)
(* each processor the enabled sources wait in a priority tree that mirrors *)
(* the INTC_PSRn.  Three processes work on behalf of each processor:       *)
(* IRQ_Select_Process picks a source, IRQ_B_Process drives the request     *)
(* line after a latency, and an acknowledge, by a read of INTC_IACKRn or   *)
(* by the p_iack line, raises the current priority and negates the line.   *)
(* They wake each other through two events per processor, which the kernel *)
(* delivers in the next delta cycle or after a delay, and runs the         *)
(* processes of one evaluation phase in any order.                         *)
(*                                                                         *)
(* An access is one step: the time it spends in the schedule of the device *)
(* before it is due is not modelled.                                       *)
(***************************************************************************)
EXTENDS Integers, Sequences

CONSTANTS Processors,   \* processor numbers
          Masters,      \* master ids that access the registers
          NumSwIrqs,    \* NUM_SW_IRQS
          NumHwIrqs,    \* NUM_HW_IRQS
          MaxPriority,  \* MAX_PRIORITY_LEVEL
          Cycle,        \* cycle_time, in units of time
          HwLatency,    \* HW_IRQ_SOURCE_TO_PROCESSOR_IRQ_LATENCY_CYCLES
          SwLatency,    \* SW_IRQ_SOURCE_TO_PROCESSOR_IRQ_LATENCY_CYCLES
          Requests,     \* the register accesses the masters make
          Never,        \* an event that is not notified
          Corrupt,      \* a LIFO popped when empty
          MaxDepth,     \* bound on the depth of a LIFO
          MaxActs       \* bound on the acts of the environment per unit of time

IRQs       == 0 .. (NumSwIrqs + NumHwIrqs - 1)
SwIrqs     == 0 .. (NumSwIrqs - 1)             \* SW_IRQ2IRQ
HwIrqs     == IRQs \ SwIrqs                    \* HW_IRQ2IRQ
Priorities == 0 .. MaxPriority

\* INTC_PSRn; SWTN is stuck at FALSE for software interrupts.
PSR == [PRC_SELN : SUBSET Processors, SWTN : BOOLEAN, PRIN : Priorities]

\* A register access.  One access may cover several INTC_SSCIRn or INTC_PSRn.
Request ==
  [op : {"bcr"}, HVEN : SUBSET Processors]
  \union [op : {"mprot"}, ID : 0 .. 3, MPROT : BOOLEAN]
  \union [op : {"cpr"}, n : Processors, PRI : Priorities]
  \union [op : {"iackr", "eoir"}, n : Processors]
  \union [op : {"sscir"}, data : UNION {[D -> [SET : BOOLEAN, CLR : BOOLEAN]] : D \in SUBSET SwIrqs}]
  \union [op : {"psr"}, data : UNION {[D -> PSR] : D \in SUBSET IRQs}]

ASSUME MastersAssumption  == Masters \subseteq Nat /\ Processors \subseteq 0 .. 3
ASSUME IrqsAssumption     == NumSwIrqs \in Nat /\ NumHwIrqs \in Nat /\ NumSwIrqs + NumHwIrqs > 0
ASSUME PriorityAssumption == MaxPriority \in Nat
ASSUME TimeAssumption     == Cycle \in Nat \ {0} /\ HwLatency \in Nat \ {0} /\ SwLatency \in Nat \ {0}
ASSUME RequestsAssumption == Requests \subseteq Request
ASSUME NeverAssumption    == Never \notin Nat /\ Corrupt \notin Seq(Priorities)
ASSUME BoundsAssumption   == MaxDepth \in Nat /\ MaxActs \in Nat

VARIABLES
  intc_bcr,         \* processors whose HVEN bit is set
  intc_mprot,       \* INTC_MPROT
  intc_cpr,         \* intc_cpr[p]: PRI of INTC_CPRp
  intc_iack,        \* intc_iack[p]: INTVEC of INTC_IACKRp
  intc_sscir,       \* software interrupts whose CLR flag is set
  intc_psr,         \* intc_psr[i]: INTC_PSRi
  lifo,             \* lifo[p]: saved priorities, last pushed first
  irqs,             \* latched IRQ input status
  priority_tree,    \* priority_tree[p]: sources enabled for p, with their priority
  selected_irq_num, \* selected_irq_num[p]: last selected source
  irq_b,            \* irq_b[p]: the request line to output, active low
  p_out,            \* p_out[p]: request line, mode line and vector p sees
  irq_select_event, \* irq_select_event[p]: delay before it is triggered
  gen_irq_b_event,  \* gen_irq_b_event[p]: delay before it is triggered
  runnable,         \* processes to run in this evaluation phase
  hw_irq,           \* hardware interrupt lines that are high
  since,            \* since[p]: time since the line was last negated, at most Cycle
  phase,            \* time since the last clock edge
  acts              \* acts of the environment at this instant

config    == <<intc_bcr, intc_mprot>>
priority  == <<intc_cpr, lifo>>
sources   == <<intc_sscir, intc_psr, irqs, priority_tree, hw_irq>>
output    == <<intc_iack, selected_irq_num, irq_b, p_out, since>>
kernel    == <<runnable, phase>>
vars      == <<config, priority, sources, output, irq_select_event, gen_irq_b_event, kernel, acts>>

Entries == [irq : IRQs, priority : Priorities]
Wires   == [irq_b : BOOLEAN, avec_b : BOOLEAN, voffset : IRQs]
Process == {"IRQ_Select", "IRQ_B"} \X Processors

TypeOK ==
  /\ intc_bcr \in SUBSET Processors
  /\ intc_mprot \in [ID : 0 .. 3, MPROT : BOOLEAN]
  /\ intc_cpr \in [Processors -> Priorities]
  /\ intc_iack \in [Processors -> IRQs]
  /\ intc_sscir \in SUBSET SwIrqs
  /\ intc_psr \in [IRQs -> PSR]
  /\ lifo \in [Processors -> Seq(Priorities) \union {Corrupt}]
  /\ irqs \in SUBSET IRQs
  /\ priority_tree \in [Processors -> SUBSET Entries]
  /\ selected_irq_num \in [Processors -> IRQs]
  /\ irq_b \in [Processors -> BOOLEAN]
  /\ p_out \in [Processors -> Wires]
  /\ irq_select_event \in [Processors -> Nat \union {Never}]
  /\ gen_irq_b_event \in [Processors -> Nat \union {Never}]
  /\ runnable \in SUBSET Process
  /\ hw_irq \in SUBSET HwIrqs
  /\ since \in [Processors -> 0 .. Cycle]
  /\ phase \in 0 .. (Cycle - 1)
  /\ acts \in 0 .. MaxActs

-----------------------------------------------------------------------------
\* Every process is run once at the start, the HW_IRQ_Process of each source
\* included, which notifies the selection.  The request lines have the value of
\* a new signal, which is the asserted one.
PSRReset == [PRC_SELN |-> {}, SWTN |-> FALSE, PRIN |-> 0]

Init ==
  /\ intc_bcr = {}
  /\ intc_mprot = [ID |-> 0, MPROT |-> FALSE]
  /\ intc_cpr = [p \in Processors |-> 0]
  /\ intc_iack = [p \in Processors |-> 0]
  /\ intc_sscir = {}
  /\ intc_psr = [i \in IRQs |-> PSRReset]
  /\ lifo = [p \in Processors |-> <<>>]
  /\ irqs = {}
  /\ priority_tree = [p \in Processors |-> {}]
  /\ selected_irq_num = [p \in Processors |-> 0]
  /\ irq_b = [p \in Processors |-> FALSE]
  /\ p_out = [p \in Processors |-> [irq_b |-> FALSE, avec_b |-> FALSE, voffset |-> 0]]
  /\ irq_select_event = [p \in Processors |-> 0]
  /\ gen_irq_b_event = [p \in Processors |-> Never]
  /\ runnable = Process
  /\ hw_irq = {}
  /\ since = [p \in Processors |-> 0]
  /\ phase = 0
  /\ acts = 0

-----------------------------------------------------------------------------
\* sc_event::notify: of two notifications the earlier one stands.
Earlier(event, delay) == IF event = Never \/ delay < event THEN delay ELSE event

UpdateIRQSelect(P, delay) ==
  irq_select_event' = [p \in Processors |-> IF p \in P THEN Earlier(irq_select_event[p], delay)
                                                       ELSE irq_select_event[p]]

GenIrqB(p, delay) == gen_irq_b_event' = [gen_irq_b_event EXCEPT ![p] = Earlier(@, delay)]

\* AlignToClock applied to an instant that many cycles from now.
AlignToClock(cycles) == (cycles * Cycle) + ((Cycle - phase) % Cycle)

CheckMasterProtection(m) == m = 0 \/ ~intc_mprot.MPROT \/ intc_mprot.ID = m

CheckWriteProtection_SSCIR_CLR(m, i) == intc_mprot.MPROT => m \in intc_psr[i].PRC_SELN

\* Two entries of a tree: which one comes first?
Before(a, b) == a.priority > b.priority \/ (a.priority = b.priority /\ a.irq < b.irq)

\* Mutant of Candidates: an equal priority is enough.
Candidates_NotStrict(p) == {e \in priority_tree[p] : e.priority >= intc_cpr[p] /\ e.irq \in irqs}

\* The enabled and latched sources that beat the current priority of p.
Candidates(p) == {e \in priority_tree[p] : e.priority > intc_cpr[p] /\ e.irq \in irqs}

\* The scan of the tree stops at entry e.
SelectIRQInput(p, e) == e \in Candidates(p) /\ \A f \in Candidates(p) \ {e} : Before(e, f)

-----------------------------------------------------------------------------
\* Latch the sources I with the values on and start a selection everywhere.
SetIRQInputStatus(I, on) ==
  /\ irqs' = (irqs \ I) \union on
  /\ UpdateIRQSelect(IF I = {} THEN {} ELSE Processors, 0)

Push(stack, value) == IF stack = Corrupt THEN Corrupt ELSE <<value>> \o stack

IRQAcknowledge(p) ==
  LET irq == selected_irq_num[p]
  IN  /\ lifo[p] # Corrupt => Len(lifo[p]) < MaxDepth
      /\ irq_b' = [irq_b EXCEPT ![p] = TRUE]
      /\ GenIrqB(p, 0)
      /\ lifo' = [lifo EXCEPT ![p] = Push(@, intc_cpr[p])]
      /\ intc_cpr' = [intc_cpr EXCEPT ![p] = intc_psr[irq].PRIN]
      /\ intc_psr' = [intc_psr EXCEPT ![irq].SWTN = FALSE]
      /\ UpdateIRQSelect({p}, 0)

\* The priority found on top of a LIFO: 0 when it is empty, anything once an
\* empty one has been popped.
Tops(stack) == IF stack = Corrupt THEN Priorities ELSE IF stack = <<>> THEN {0} ELSE {Head(stack)}

Pop(stack) == IF stack \in {Corrupt, <<>>} THEN Corrupt ELSE Tail(stack)

\* Mutant of EndOfInterrupt: the restored priority starts no selection.
EndOfInterrupt_NoSelect(p) ==
  /\ \E top \in Tops(lifo[p]) : intc_cpr' = [intc_cpr EXCEPT ![p] = top]
  /\ lifo' = [lifo EXCEPT ![p] = Pop(@)]
  /\ UNCHANGED irq_select_event

EndOfInterrupt(p) ==
  /\ \E top \in Tops(lifo[p]) : intc_cpr' = [intc_cpr EXCEPT ![p] = top]
  /\ lifo' = [lifo EXCEPT ![p] = Pop(@)]
  /\ UpdateIRQSelect({p}, 0)

-----------------------------------------------------------------------------
\* Register accesses of master m that the protection lets through.
WriteBCR(HVEN) ==
  /\ intc_bcr' = HVEN
  /\ UNCHANGED <<intc_mprot, priority, sources, output, irq_select_event, gen_irq_b_event>>

WriteMPROT(ID, MPROT) ==
  /\ intc_mprot' = [ID |-> ID, MPROT |-> MPROT]
  /\ UNCHANGED <<intc_bcr, priority, sources, output, irq_select_event, gen_irq_b_event>>

WriteCPR(p, PRI) ==
  /\ intc_cpr' = [intc_cpr EXCEPT ![p] = PRI]
  /\ UpdateIRQSelect({p}, 0)
  /\ UNCHANGED <<config, lifo, sources, output, gen_irq_b_event>>

\* In software vector mode the read acknowledges.
ReadIACKR(p) ==
  IF p \in intc_bcr
  THEN UNCHANGED <<config, priority, sources, output, irq_select_event, gen_irq_b_event>>
  ELSE /\ IRQAcknowledge(p)
       /\ UNCHANGED <<config, intc_sscir, irqs, priority_tree, hw_irq,
                      intc_iack, selected_irq_num, p_out, since>>

WriteEOIR(p) ==
  /\ EndOfInterrupt(p)
  /\ UNCHANGED <<config, sources, output, gen_irq_b_event>>

\* The flag after a write: SET sets it, and so does SET with CLR; any other
\* write clears it, as the written CLR bit is stored before it takes effect.
Flag(i, w) == w.SET

\* The flags are written in the order of their addresses, up to the first
\* whose CLR bit this master may not write.
SSCIRWritten(m, data) ==
  {i \in DOMAIN data : \A j \in DOMAIN data :
     j <= i /\ data[j].CLR => CheckWriteProtection_SSCIR_CLR(m, j)}

WriteSSCIR(m, data) ==
  LET written == SSCIRWritten(m, data)
      set     == {i \in written : Flag(i, data[i])}
  IN  /\ intc_sscir' = (intc_sscir \ written) \union set
      /\ SetIRQInputStatus(written, set)
      /\ UNCHANGED <<config, priority, intc_psr, priority_tree, hw_irq, output, gen_irq_b_event>>

\* Does the write change what the tree of p says of source i?
Moves(p, i, new) ==
  IF p \in new.PRC_SELN THEN p \notin intc_psr[i].PRC_SELN \/ new.PRIN # intc_psr[i].PRIN
                        ELSE p \in intc_psr[i].PRC_SELN

\* Mutant of TreeAfter: a source that changes priority keeps its old entry.
TreeAfter_KeepsOld(p, data) ==
  LET moved == {i \in DOMAIN data : Moves(p, i, data[i])}
  IN  (priority_tree[p] \ {[irq |-> i, priority |-> intc_psr[i].PRIN] :
                             i \in {j \in moved : p \notin data[j].PRC_SELN}})
      \union {[irq |-> i, priority |-> data[i].PRIN] : i \in {j \in moved : p \in data[j].PRC_SELN}}

\* EnableIRQInput, DisableIRQInput and ChangeIRQInputPriority.
TreeAfter(p, data) ==
  LET moved == {i \in DOMAIN data : Moves(p, i, data[i])}
  IN  (priority_tree[p] \ {[irq |-> i, priority |-> intc_psr[i].PRIN] :
                             i \in {j \in moved : p \in intc_psr[j].PRC_SELN}})
      \union {[irq |-> i, priority |-> data[i].PRIN] : i \in {j \in moved : p \in data[j].PRC_SELN}}

\* A software interrupt has no SWTN bit; on the others SWTN latches the source.
WritePSR(data) ==
  LET triggered == {i \in DOMAIN data \intersect HwIrqs : data[i].SWTN}
  IN  /\ intc_psr' = [i \in IRQs |-> IF i \notin DOMAIN data THEN intc_psr[i]
                                     ELSE [data[i] EXCEPT !.SWTN = @ /\ i \in HwIrqs]]
      /\ priority_tree' = [p \in Processors |-> TreeAfter(p, data)]
      /\ irqs' = irqs \union triggered
      /\ UpdateIRQSelect({p \in Processors : triggered # {} \/ \E i \in DOMAIN data : Moves(p, i, data[i])}, 0)
      /\ UNCHANGED <<config, priority, intc_sscir, hw_irq, output, gen_irq_b_event>>

Refused == UNCHANGED <<config, priority, sources, output, irq_select_event, gen_irq_b_event>>

Access(m, r) ==
  \/ /\ r.op # "sscir"
     /\ ~CheckMasterProtection(m)
     /\ Refused
  \/ /\ CheckMasterProtection(m)
     /\ \/ r.op = "bcr"   /\ WriteBCR(r.HVEN)
        \/ r.op = "mprot" /\ WriteMPROT(r.ID, r.MPROT)
        \/ r.op = "cpr"   /\ WriteCPR(r.n, r.PRI)
        \/ r.op = "iackr" /\ ReadIACKR(r.n)
        \/ r.op = "eoir"  /\ WriteEOIR(r.n)
        \/ r.op = "psr"   /\ WritePSR(r.data)
  \/ r.op = "sscir" /\ WriteSSCIR(m, r.data)

-----------------------------------------------------------------------------
\* A hardware line changes: its value is latched.
HW_IRQ_Process(i) ==
  /\ hw_irq' = IF i \in hw_irq THEN hw_irq \ {i} ELSE hw_irq \union {i}
  /\ SetIRQInputStatus({i}, hw_irq' \intersect {i})
  /\ UNCHANGED <<config, priority, intc_sscir, intc_psr, priority_tree, output, gen_irq_b_event>>

\* A processor in hardware vector mode acknowledges on its p_iack line the
\* request it sees.
IACK_Process(p) ==
  /\ p \in intc_bcr
  /\ ~p_out[p].irq_b
  /\ IRQAcknowledge(p)
  /\ UNCHANGED <<config, intc_sscir, irqs, priority_tree, hw_irq,
                 intc_iack, selected_irq_num, p_out, since>>

\* Rising edge of reset_b.  The loop over the INTC_PSR of the hardware
\* interrupts stops at NUM_SW_IRQS; the latches, the LIFOs and the request
\* lines keep their state, and the cleared trees wake nobody.
ResetIrqs == {i \in IRQs : i < 2 * NumSwIrqs}

RESET_B_Process ==
  /\ intc_bcr' = {}
  /\ intc_mprot' = [ID |-> 0, MPROT |-> FALSE]
  /\ intc_cpr' = [p \in Processors |-> 0]
  /\ intc_iack' = [p \in Processors |-> 0]
  /\ intc_sscir' = {}
  /\ intc_psr' = [i \in IRQs |-> IF i \in ResetIrqs THEN PSRReset ELSE intc_psr[i]]
  /\ priority_tree' = [p \in Processors |-> {}]
  /\ UNCHANGED <<lifo, irqs, hw_irq, selected_irq_num, irq_b, p_out, since,
                 irq_select_event, gen_irq_b_event>>

\* What the masters, the sources, the processors and the reset line do, MaxActs
\* times at most between two units of time: an access takes one cycle.
Environment ==
  /\ acts < MaxActs
  /\ acts' = acts + 1
  /\ UNCHANGED kernel
  /\ \/ \E m \in Masters, r \in Requests : Access(m, r)
     \/ \E i \in HwIrqs : HW_IRQ_Process(i)
     \/ \E p \in Processors : IACK_Process(p)
     \/ RESET_B_Process

-----------------------------------------------------------------------------
\* Mutant of IRQ_Select_Process: the output is not scheduled.
IRQ_Select_Process_NoOutput(p) ==
  /\ <<"IRQ_Select", p>> \in runnable
  /\ runnable' = runnable \ {<<"IRQ_Select", p>>}
  /\ IF irq_b[p] /\ Candidates(p) # {}
     THEN /\ \E e \in Candidates(p) : /\ SelectIRQInput(p, e)
                                       /\ selected_irq_num' = [selected_irq_num EXCEPT ![p] = e.irq]
          /\ irq_b' = [irq_b EXCEPT ![p] = FALSE]
     ELSE UNCHANGED <<selected_irq_num, irq_b>>
  /\ UNCHANGED <<config, priority, sources, intc_iack, p_out, since, irq_select_event,
                 gen_irq_b_event, phase, acts>>

\* Latency of a source in clock cycles.
Latency(irq) == IF irq \in SwIrqs THEN SwLatency ELSE HwLatency

\* The first source of the tree that beats the current priority is selected,
\* unless the line is to be asserted already.
SelectSource(p) ==
  /\ irq_b[p]
  /\ irq_b' = [irq_b EXCEPT ![p] = FALSE]
  /\ \E e \in Candidates(p) :
       /\ SelectIRQInput(p, e)
       /\ selected_irq_num' = [selected_irq_num EXCEPT ![p] = e.irq]
       /\ GenIrqB(p, AlignToClock(Latency(e.irq)))

SelectNothing(p) ==
  /\ ~irq_b[p] \/ Candidates(p) = {}
  /\ UNCHANGED <<selected_irq_num, irq_b, gen_irq_b_event>>

IRQ_Select_Process(p) ==
  /\ <<"IRQ_Select", p>> \in runnable
  /\ runnable' = runnable \ {<<"IRQ_Select", p>>}
  /\ SelectSource(p) \/ SelectNothing(p)
  /\ UNCHANGED <<config, priority, sources, intc_iack, p_out, since, irq_select_event, phase, acts>>

\* Mutant of Assert: the process does not come back after a cycle.
Assert_NoRetry(p) ==
  /\ ~irq_b[p]
  /\ p_out[p].irq_b
  /\ IF since[p] >= Cycle
     THEN /\ p_out' = [p_out EXCEPT ![p].irq_b = FALSE]
          /\ intc_iack' = [intc_iack EXCEPT ![p] = selected_irq_num[p]]
     ELSE UNCHANGED <<p_out, intc_iack>>
  /\ UNCHANGED <<irq_select_event, gen_irq_b_event, since>>

\* Mutant of Assert: the two times of the remaining delay are swapped.
Assert_Swapped(p) ==
  /\ ~irq_b[p]
  /\ p_out[p].irq_b
  /\ IF since[p] >= Cycle
     THEN /\ p_out' = [p_out EXCEPT ![p].irq_b = FALSE]
          /\ intc_iack' = [intc_iack EXCEPT ![p] = selected_irq_num[p]]
          /\ UNCHANGED gen_irq_b_event
     ELSE GenIrqB(p, since[p] - Cycle) /\ UNCHANGED <<p_out, intc_iack>>
  /\ UNCHANGED <<irq_select_event, since>>

\* The line is negated: it is asserted with the vector if it has been negated
\* for a cycle, and the process comes back when it has otherwise.
Assert(p) ==
  /\ ~irq_b[p]
  /\ p_out[p].irq_b
  /\ IF since[p] >= Cycle
     THEN LET hven == p \in intc_bcr
          IN  /\ p_out' = [p_out EXCEPT ![p] =
                             [irq_b |-> FALSE, avec_b |-> hven,
                              voffset |-> IF hven THEN selected_irq_num[p] ELSE @.voffset]]
              /\ intc_iack' = [intc_iack EXCEPT ![p] = selected_irq_num[p]]
              /\ UNCHANGED gen_irq_b_event
     ELSE GenIrqB(p, Cycle - since[p]) /\ UNCHANGED <<p_out, intc_iack>>
  /\ UNCHANGED <<irq_select_event, since>>

AlreadyAsserted(p) ==
  /\ ~irq_b[p]
  /\ ~p_out[p].irq_b
  /\ UNCHANGED <<p_out, intc_iack, since, irq_select_event, gen_irq_b_event>>

Negate(p) ==
  /\ irq_b[p]
  /\ p_out' = [p_out EXCEPT ![p].irq_b = TRUE, ![p].avec_b = TRUE]
  /\ since' = [since EXCEPT ![p] = 0]
  /\ UpdateIRQSelect({p}, Cycle)
  /\ UNCHANGED <<intc_iack, gen_irq_b_event>>

IRQ_B_Process(p) ==
  /\ <<"IRQ_B", p>> \in runnable
  /\ runnable' = runnable \ {<<"IRQ_B", p>>}
  /\ Assert(p) \/ AlreadyAsserted(p) \/ Negate(p)
  /\ UNCHANGED <<config, priority, sources, selected_irq_num, irq_b, phase, acts>>

-----------------------------------------------------------------------------
\* The processes woken when the events at this delay are triggered.
Woken(delay) == {<<"IRQ_Select", p>> : p \in {q \in Processors : irq_select_event[q] = delay}}
                \union {<<"IRQ_B", p>> : p \in {q \in Processors : gen_irq_b_event[q] = delay}}

Triggered(event, delay) == [p \in Processors |-> IF event[p] = delay THEN Never ELSE event[p]]

\* Next delta cycle.
Delta ==
  /\ runnable = {}
  /\ Woken(0) # {}
  /\ runnable' = Woken(0)
  /\ irq_select_event' = Triggered(irq_select_event, 0)
  /\ gen_irq_b_event' = Triggered(gen_irq_b_event, 0)
  /\ UNCHANGED <<config, priority, sources, output, phase, acts>>

After(event) == [p \in Processors |-> IF event[p] \in {Never, 1} THEN Never ELSE event[p] - 1]

\* One unit of time passes.
Tick ==
  /\ runnable = {}
  /\ Woken(0) = {}
  /\ runnable' = Woken(1)
  /\ irq_select_event' = After(irq_select_event)
  /\ gen_irq_b_event' = After(gen_irq_b_event)
  /\ since' = [p \in Processors |-> IF since[p] < Cycle THEN since[p] + 1 ELSE Cycle]
  /\ phase' = (phase + 1) % Cycle
  /\ acts' = 0
  /\ UNCHANGED <<config, priority, sources, intc_iack, selected_irq_num, irq_b, p_out>>

Next == \/ Environment
        \/ \E p \in Processors : IRQ_Select_Process(p) \/ IRQ_B_Process(p)
        \/ Delta
        \/ Tick

\* The kernel runs what is runnable and time advances.
Fairness == /\ \A p \in Processors : WF_vars(IRQ_Select_Process(p)) /\ WF_vars(IRQ_B_Process(p))
            /\ WF_vars(Delta) /\ WF_vars(Tick)

Spec == Init /\ [][Next]_vars /\ Fairness

-----------------------------------------------------------------------------
\* What the tree of p should hold.
Mirror(p) == {[irq |-> i, priority |-> intc_psr[i].PRIN] : i \in {j \in IRQs : p \in intc_psr[j].PRC_SELN}}

\* No source is enabled in a tree with a processor or a priority its INTC_PSR
\* does not have, and for the sources whose INTC_PSR the reset reaches the tree
\* is exact (intc.hh INTC_PSR::Write, intc.tcc EnableIRQInput and the others).
TreeIsSound ==
  \A p \in Processors :
    /\ priority_tree[p] \subseteq Mirror(p)
    /\ \A e \in Mirror(p) : e.irq \in ResetIrqs => e \in priority_tree[p]

\* A source that could be signalled while no request is under way always has a
\* selection coming: no change of the latches, trees or priorities forgets to
\* notify irq_select_event (UpdateIRQSelect).
NoMissedSelection ==
  \A p \in Processors :
    irq_b[p] /\ Candidates(p) # {} => <<"IRQ_Select", p>> \in runnable \/ irq_select_event[p] # Never

\* A request line that is not what irq_b says has an update coming: no
\* overwritten notification of gen_irq_b_event is lost (SetIRQOutput).
NoMissedOutput ==
  \A p \in Processors :
    irq_b[p] # p_out[p].irq_b => <<"IRQ_B", p>> \in runnable \/ gen_irq_b_event[p] # Never

\* A source that can be signalled is, unless it goes away: the request line of
\* the processor gets asserted.
Signalled ==
  \A p \in Processors : Candidates(p) # {} ~> (Candidates(p) = {} \/ ~p_out[p].irq_b)
=============================================================================
