------------------------- MODULE IntcHandler_proofs -------------------------
(***************************************************************************)
(* The handlers nest as a stack and their priorities rise with it, for any *)
(* cores, sources, priorities and latencies; what the controller promises  *)
(* holds with the cores on it too.  The invariant is built in four layers: *)
(* the types, the stacks (StackInv), the request lines (LinesInv) and, for *)
(* cores that agree on the priorities of the sources they share, the       *)
(* levels (NestInv).                                                       *)
(***************************************************************************)
EXTENDS IntcHandler, Intc_proofs, FiniteSetTheorems

Steps == {"iackr", "isr", "served", "rfi"}
Frame == [vector : IRQs \union {NoVector}, step : Steps]

HandlerTypeOK ==
  /\ TypeOK
  /\ boot \in [Processors -> {"ack", "cpr", "psr", "done"}]
  /\ frames \in [Processors -> Seq(Frame)]
  /\ busy \in [Processors -> BOOLEAN]

-----------------------------------------------------------------------------
(***************************************************************************)
(* Stacks of frames.                                                       *)
(***************************************************************************)

\* A handler that goes to another step leaves the handlers it interrupted.
LEMMA HeadChanged ==
  ASSUME NEW s \in Seq(Frame), s # <<>>, NEW f \in Frame, NEW t, t = [s EXCEPT ![1] = f]
  PROVE  /\ t \in Seq(Frame) /\ t # <<>> /\ Len(t) = Len(s) /\ Head(t) = f
         /\ \A k \in 2 .. Len(t) : t[k] = s[k]
<1>1. Len(s) \in Nat /\ Len(s) > 0 /\ DOMAIN s = 1 .. Len(s)
  OBVIOUS
<1>2. t \in [1 .. Len(s) -> Frame]
  BY <1>1
<1>3. t \in Seq(Frame) /\ Len(t) = Len(s)
  BY <1>1, <1>2
<1>4. t[1] = f /\ \A k \in 2 .. Len(s) : t[k] = s[k]
  BY <1>1
<1> QED
  BY <1>1, <1>3, <1>4

\* An interrupt is put on the stack, and taken away when it returns.
LEMMA FramePushed ==
  ASSUME NEW s \in Seq(Frame), NEW f \in Frame, NEW t, t = <<f>> \o s
  PROVE  /\ t \in Seq(Frame) /\ t # <<>> /\ Len(t) = Len(s) + 1 /\ Head(t) = f
         /\ \A k \in 2 .. Len(t) : t[k] = s[k - 1]
  OBVIOUS

LEMMA FramePopped ==
  ASSUME NEW s \in Seq(Frame), s # <<>>, NEW t, t = Tail(s)
  PROVE  /\ t \in Seq(Frame) /\ Len(t) = Len(s) - 1
         /\ \A k \in 1 .. Len(t) : t[k] = s[k + 1]
  OBVIOUS

-----------------------------------------------------------------------------
(***************************************************************************)
(* The steps of a core, by what they do to the controller.                 *)
(***************************************************************************)

\* A step is one of the kernel or of time, or an access in which only the stack
\* and the step of one core change.
OtherCoresSame(p) ==
  \A q \in Processors \ {p} : boot'[q] = boot[q] /\ frames'[q] = frames[q] /\ busy'[q] = busy[q]

\* The types of the cores after a step of core p.
LEMMA CoreTypes ==
  ASSUME HandlerTypeOK, NEW p \in Processors, CoreStep(p)
  PROVE  /\ boot' \in [Processors -> {"ack", "cpr", "psr", "done"}]
         /\ frames' \in [Processors -> Seq(Frame)]
         /\ busy' \in [Processors -> BOOLEAN]
         /\ OtherCoresSame(p)
<1>1. boot' \in [Processors -> {"ack", "cpr", "psr", "done"}] /\ \A q \in Processors \ {p} : boot'[q] = boot[q]
  BY DEF CoreStep, intc_acknowledge_interrupt, intc_set_current_irq_priority, intc_select_irq,
         BootStep, TakeInterrupt, Prologue, ISR, Epilogue, ReturnFromInterrupt, Advance, HandlerTypeOK
<1>2. busy' \in [Processors -> BOOLEAN] /\ \A q \in Processors \ {p} : busy'[q] = busy[q]
  BY DEF CoreStep, intc_acknowledge_interrupt, intc_set_current_irq_priority, intc_select_irq,
         BootStep, TakeInterrupt, Prologue, ISR, Epilogue, ReturnFromInterrupt, CoreAccess, HandlerTypeOK
<1>3. frames[p] \in Seq(Frame)
  BY DEF HandlerTypeOK
<1>4. CASE UNCHANGED frames
  BY <1>1, <1>2, <1>4 DEF HandlerTypeOK, OtherCoresSame
<1>5. \A f \in Frame, step \in Steps : [f EXCEPT !.step = step] \in Frame
  BY DEF Frame
<1>6. CASE TakeInterrupt(p)
  <2>1. [vector |-> NoVector, step |-> "iackr"] \in Frame
    BY DEF Frame, Steps
  <2>2. <<[vector |-> NoVector, step |-> "iackr"]>> \o frames[p] \in Seq(Frame)
    BY <1>3, <2>1
  <2> QED
    BY <1>1, <1>2, <1>6, <2>2 DEF TakeInterrupt, HandlerTypeOK, OtherCoresSame
<1>7. CASE Prologue(p)
  <2>1. [vector |-> intc_iack[p], step |-> "isr"] \in Frame
    BY DEF Frame, Steps, HandlerTypeOK, TypeOK
  <2>2. frames[p] # <<>>
    BY <1>7 DEF Prologue, Step
  <2>3. [frames[p] EXCEPT ![1] = [vector |-> intc_iack[p], step |-> "isr"]] \in Seq(Frame)
    BY <1>3, <2>1, <2>2, HeadChanged
  <2> QED
    BY <1>1, <1>2, <1>7, <2>3 DEF Prologue, HandlerTypeOK, OtherCoresSame
<1>8. ASSUME NEW step, NEW next \in Steps, step # "background", Advance(p, step, next)
      PROVE  frames' \in [Processors -> Seq(Frame)] /\ \A q \in Processors \ {p} : frames'[q] = frames[q]
  <2>1. frames[p] # <<>>
    BY <1>8 DEF Advance, Step
  <2>2. frames[p][1] \in Frame
    BY <1>3, <2>1
  <2>3. [frames[p] EXCEPT ![1].step = next] = [frames[p] EXCEPT ![1] = [frames[p][1] EXCEPT !.step = next]]
    BY <1>3, <2>1
  <2>4. [frames[p] EXCEPT ![1].step = next] \in Seq(Frame)
    BY <1>3, <1>5, <2>1, <2>2, <2>3, HeadChanged
  <2> QED
    BY <1>8, <2>4 DEF Advance, HandlerTypeOK
<1>9. CASE ISR(p) \/ Epilogue(p)
  BY <1>1, <1>2, <1>8, <1>9 DEF ISR, Epilogue, Steps, OtherCoresSame
<1>10. CASE ReturnFromInterrupt(p)
  <2>1. frames[p] # <<>>
    BY <1>10 DEF ReturnFromInterrupt, Step
  <2>2. Tail(frames[p]) \in Seq(Frame)
    BY <1>3, <2>1
  <2> QED
    BY <1>1, <1>2, <1>10, <2>2 DEF ReturnFromInterrupt, HandlerTypeOK, OtherCoresSame
<1> QED
  BY <1>4, <1>6, <1>7, <1>9, <1>10
     DEF CoreStep, intc_acknowledge_interrupt, intc_set_current_irq_priority, intc_select_irq, BootStep

\* The registers after a step of core p.
LEMMA CoreRegisters ==
  ASSUME HandlerTypeOK, NEW p \in Processors, CoreStep(p)
  PROVE  TypeOK'
<1>1. TypeOK /\ acts \in 0 .. MaxActs
  BY DEF HandlerTypeOK, TypeOK
<1>2. CASE UNCHANGED vars
  BY <1>1, <1>2 DEF vars, config, priority, sources, output, kernel, TypeOK
<1>3. CASE intc_acknowledge_interrupt(p) \/ Prologue(p)
  BY <1>1, <1>3, TypeOKReadIACKR DEF intc_acknowledge_interrupt, BootStep, Prologue, CoreAccess
<1>4. CASE intc_set_current_irq_priority(p)
  <2>1. 0 \in Priorities
    BY PriorityAssumption DEF Priorities
  <2> QED
    BY <1>1, <1>4, <2>1, TypeOKWriteCPR DEF intc_set_current_irq_priority, BootStep, CoreAccess
<1>5. CASE intc_select_irq(p)
  <2>1. PICK D \in SUBSET IRQs : Setup[p] \in [D -> PSR]
    BY SetupAssumption
  <2> QED
    BY <1>1, <1>5, <2>1, TypeOKWritePSR DEF intc_select_irq, BootStep, CoreAccess
<1>6. CASE Epilogue(p)
  BY <1>1, <1>6, TypeOKWriteEOIR DEF Epilogue, CoreAccess
<1>7. CASE ISR(p)
  <2>1. UNCHANGED kernel /\ acts' \in 0 .. MaxActs
    BY <1>1, <1>7 DEF ISR, CoreAccess
  <2>2. ASSUME NEW i \in intc_sscir, WriteSSCIR(p, [j \in {i} |-> [SET |-> FALSE, CLR |-> TRUE]])
        PROVE  TypeOK'
    <3>1. {i} \in SUBSET SwIrqs
      BY <1>1 DEF TypeOK
    <3> QED
      BY <1>1, <2>1, <2>2, <3>1, TypeOKWriteSSCIR
  <2>3. ASSUME NEW i \in hw_irq, HW_IRQ_Process(i)
        PROVE  TypeOK'
    BY <1>1, <2>1, <2>3, TypeOKLine DEF TypeOK
  <2>4. CASE Refused
    BY <1>1, <2>1, <2>4, TypeOKRefused
  <2> QED
    BY <1>7, <2>2, <2>3, <2>4 DEF ISR
<1> QED
  BY <1>2, <1>3, <1>4, <1>5, <1>6, <1>7 DEF CoreStep, TakeInterrupt, ReturnFromInterrupt

\* A source that is raised.
LEMMA RaiseRegisters ==
  ASSUME HandlerTypeOK, NEW i \in IRQs, Raise(i)
  PROVE  TypeOK'
<1>1. TypeOK /\ UNCHANGED kernel /\ acts' \in 0 .. MaxActs
  BY BoundsAssumption DEF HandlerTypeOK, TypeOK, Raise
<1>2. CASE i \in SwIrqs /\ WriteSSCIR(0, [j \in {i} |-> [SET |-> TRUE, CLR |-> FALSE]])
  <2> DEFINE data == [j \in {i} |-> [SET |-> TRUE, CLR |-> FALSE]]
  <2>1. {i} \in SUBSET SwIrqs /\ data \in [{i} -> [SET : BOOLEAN, CLR : BOOLEAN]] /\ WriteSSCIR(0, data)
    BY <1>2
  <2> HIDE DEF data
  <2> QED
    BY <1>1, <2>1, TypeOKWriteSSCIR
<1>3. CASE i \in HwIrqs /\ HW_IRQ_Process(i)
  BY <1>1, <1>3, TypeOKLine
<1> QED
  BY <1>2, <1>3 DEF Raise

LEMMA HandlerTypesStep == HandlerTypeOK /\ [HandlerNext]_hvars => HandlerTypeOK'
<1> SUFFICES ASSUME HandlerTypeOK, [HandlerNext]_hvars PROVE HandlerTypeOK'
  OBVIOUS
<1>1. ASSUME NEW p \in Processors, CoreStep(p) PROVE HandlerTypeOK'
  BY <1>1, CoreTypes, CoreRegisters DEF HandlerTypeOK
<1>2. ASSUME NEW i \in IRQs, Raise(i) PROVE HandlerTypeOK'
  BY <1>2, RaiseRegisters DEF HandlerTypeOK, Raise, cores
<1>3. CASE Kernel /\ UNCHANGED cores
  BY <1>3, TypeOKProcess, TypeOKKernel DEF HandlerTypeOK, Kernel, cores
<1>4. CASE HandlerTick
  BY <1>4, TypeOKKernel DEF HandlerTypeOK, HandlerTick
<1>5. CASE UNCHANGED hvars
  BY <1>5 DEF hvars, cores, vars, config, priority, sources, output, kernel, HandlerTypeOK, TypeOK
<1> QED
  BY <1>1, <1>2, <1>3, <1>4, <1>5 DEF HandlerNext

LEMMA HandlerTypesInit == HandlerInit => HandlerTypeOK
BY TypeOKInit DEF HandlerInit, HandlerTypeOK

-----------------------------------------------------------------------------
(***************************************************************************)
(* The LIFO and the frames.                                                *)
(***************************************************************************)

\* The handlers that were interrupted were between their prologue and their
\* epilogue; the LIFO is as deep as the handlers that have acknowledged, and
\* one more for the acknowledge of the start-up code.
Depth(p) == (IF boot[p] = "ack" THEN 0 ELSE 1)
            + (IF Step(p) \in {"iackr", "rfi"} THEN Len(frames[p]) - 1 ELSE Len(frames[p]))

StackOf(p) ==
  /\ boot[p] # "done" => frames[p] = <<>>
  /\ \A k \in 2 .. Len(frames[p]) : frames[p][k].step \in {"isr", "served"}
  /\ lifo[p] # Corrupt
  /\ Len(lifo[p]) = Depth(p)

StackInv == HandlerTypeOK /\ intc_bcr = {} /\ \A p \in Processors : StackOf(p)

\* What core p does to the stacks is seen by it alone.
LEMMA StackSame ==
  ASSUME NEW p \in Processors, StackOf(p), boot'[p] = boot[p], frames'[p] = frames[p], lifo'[p] = lifo[p]
  PROVE  StackOf(p)'
BY DEF StackOf, Depth, Step

\* An acknowledge pushes a priority and an end of interrupt pops one, on the LIFO
\* of one core.
LEMMA LifoPushed ==
  ASSUME TypeOK, NEW p \in Processors, lifo[p] # Corrupt, intc_bcr = {}, ReadIACKR(p)
  PROVE  /\ lifo'[p] \in Seq(Priorities) /\ lifo'[p] # Corrupt
         /\ Len(lifo'[p]) = Len(lifo[p]) + 1
         /\ lifo'[p] = <<intc_cpr[p]>> \o lifo[p]
         /\ \A q \in Processors \ {p} : lifo'[q] = lifo[q]
<1>1. lifo' = [lifo EXCEPT ![p] = <<intc_cpr[p]>> \o lifo[p]]
  BY DEF ReadIACKR, IRQAcknowledge, Push
<1>2. lifo[p] \in Seq(Priorities) /\ intc_cpr[p] \in Priorities
  BY DEF TypeOK
<1>3. <<intc_cpr[p]>> \o lifo[p] \in Seq(Priorities)
      /\ Len(<<intc_cpr[p]>> \o lifo[p]) = Len(lifo[p]) + 1
  BY <1>2
<1> QED
  BY <1>1, <1>3, NeverAssumption DEF TypeOK

LEMMA LifoPopped ==
  ASSUME TypeOK, NEW p \in Processors, lifo[p] # Corrupt, Len(lifo[p]) > 0, WriteEOIR(p)
  PROVE  /\ lifo'[p] \in Seq(Priorities) /\ lifo'[p] # Corrupt
         /\ Len(lifo'[p]) = Len(lifo[p]) - 1
         /\ lifo'[p] = Tail(lifo[p])
         /\ intc_cpr'[p] = lifo[p][1]
         /\ \A q \in Processors \ {p} : lifo'[q] = lifo[q]
<1>1. lifo[p] \in Seq(Priorities) /\ lifo[p] # <<>>
  BY DEF TypeOK
<1>2. lifo' = [lifo EXCEPT ![p] = Tail(lifo[p])] /\ intc_cpr' = [intc_cpr EXCEPT ![p] = Head(lifo[p])]
  BY <1>1 DEF WriteEOIR, EndOfInterrupt, Pop, Tops
<1>3. Tail(lifo[p]) \in Seq(Priorities) /\ Len(Tail(lifo[p])) = Len(lifo[p]) - 1
  BY <1>1
<1>4. lifo'[p] = Tail(lifo[p]) /\ intc_cpr'[p] = lifo[p][1] /\ \A q \in Processors \ {p} : lifo'[q] = lifo[q]
  BY <1>1, <1>2 DEF TypeOK
<1> QED
  BY <1>1, <1>3, <1>4, NeverAssumption

\* The other accesses of the cores leave the LIFOs alone.
LEMMA LifoKept ==
  ASSUME NEW m, NEW p, NEW data, NEW PRI, NEW i,
         WriteSSCIR(m, data) \/ WritePSR(data) \/ WriteCPR(p, PRI) \/ HW_IRQ_Process(i) \/ Refused
  PROVE  UNCHANGED <<lifo, intc_bcr>>
BY DEF WriteSSCIR, WritePSR, WriteCPR, HW_IRQ_Process, Refused, config, priority

\* The other stacks are not disturbed.
LEMMA OtherStacks ==
  ASSUME StackInv, NEW p \in Processors, CoreStep(p)
  PROVE  \A q \in Processors \ {p} : lifo'[q] = lifo[q]
<1>1. TypeOK /\ intc_bcr = {} /\ lifo[p] # Corrupt
  BY DEF StackInv, HandlerTypeOK, StackOf
<1>2. CASE ReadIACKR(p)
  BY <1>1, <1>2, LifoPushed
<1>3. CASE WriteEOIR(p)
  BY <1>1, <1>3 DEF WriteEOIR, EndOfInterrupt, TypeOK
<1>4. CASE UNCHANGED lifo
  BY <1>4
<1> QED
  BY <1>2, <1>3, <1>4, LifoKept
     DEF CoreStep, intc_acknowledge_interrupt, intc_set_current_irq_priority, intc_select_irq,
         TakeInterrupt, Prologue, ISR, Epilogue, ReturnFromInterrupt, vars, priority

LEMMA CoreStack ==
  ASSUME StackInv, NEW p \in Processors, CoreStep(p)
  PROVE  intc_bcr' = {} /\ StackOf(p)'
<1>1. /\ TypeOK /\ intc_bcr = {} /\ frames[p] \in Seq(Frame) /\ lifo[p] \in Seq(Priorities)
      /\ boot[p] \in {"ack", "cpr", "psr", "done"}
  BY DEF StackInv, HandlerTypeOK, StackOf, TypeOK
<1>2. /\ boot[p] # "done" => frames[p] = <<>>
      /\ \A k \in 2 .. Len(frames[p]) : frames[p][k].step \in {"isr", "served"}
      /\ lifo[p] # Corrupt
      /\ Len(lifo[p]) = Depth(p)
  BY DEF StackInv, StackOf
<1>3. CASE intc_acknowledge_interrupt(p)
  <2>1. boot[p] = "ack" /\ boot'[p] = "cpr" /\ frames'[p] = frames[p] /\ frames[p] = <<>> /\ ReadIACKR(p)
    BY <1>2, <1>3 DEF intc_acknowledge_interrupt, BootStep, StackInv, HandlerTypeOK
  <2>2. intc_bcr' = {}
    BY <1>1, <2>1 DEF ReadIACKR, config
  <2>3. lifo'[p] # Corrupt /\ Len(lifo'[p]) = Len(lifo[p]) + 1
    BY <1>1, <1>2, <2>1, LifoPushed
  <2>4. Depth(p) = 0 + 0 /\ Depth(p)' = 1 + 0
    BY <2>1 DEF Depth, Step
  <2> QED
    BY <1>2, <2>1, <2>2, <2>3, <2>4 DEF StackOf
<1>4. CASE intc_set_current_irq_priority(p) \/ intc_select_irq(p)
  <2>1. /\ boot[p] # "ack" /\ boot'[p] # "ack" /\ boot[p] # "done"
        /\ frames'[p] = frames[p] /\ UNCHANGED <<lifo, intc_bcr>>
    BY <1>4, LifoKept DEF intc_set_current_irq_priority, intc_select_irq, BootStep, StackInv, HandlerTypeOK
  <2> QED
    BY <1>1, <1>2, <2>1 DEF StackOf, Depth, Step
<1>5. CASE TakeInterrupt(p)
  <2> DEFINE f == [vector |-> NoVector, step |-> "iackr"]
  <2>1. /\ boot'[p] = boot[p] /\ boot[p] = "done" /\ UNCHANGED <<lifo, intc_bcr>>
        /\ frames'[p] = <<f>> \o frames[p] /\ Step(p) \in {"background", "isr", "served"}
    BY <1>5 DEF TakeInterrupt, EE, vars, priority, config, StackInv, HandlerTypeOK
  <2>2. f \in Frame /\ f.step = "iackr"
    BY DEF Frame, Steps
  <2> HIDE DEF f
  <2>3. /\ frames'[p] # <<>> /\ Len(frames'[p]) = Len(frames[p]) + 1 /\ Head(frames'[p]) = f
        /\ \A k \in 2 .. Len(frames'[p]) : frames'[p][k] = frames[p][k - 1]
    BY <1>1, <2>1, <2>2, FramePushed
  <2>4. ASSUME NEW k \in 1 .. Len(frames[p]) PROVE frames[p][k].step \in {"isr", "served"}
    <3>1. CASE k = 1
      <4>1. frames[p] # <<>> /\ Head(frames[p]) = frames[p][1] /\ frames[p][1] \in Frame
        BY <1>1
      <4> QED
        BY <2>1, <3>1, <4>1 DEF Step, Frame, Steps
    <3>2. CASE k # 1
      BY <1>1, <1>2, <3>2
    <3> QED
      BY <3>1, <3>2
  <2>5. \A k \in 2 .. Len(frames'[p]) : frames'[p][k].step \in {"isr", "served"}
    BY <1>1, <2>3, <2>4
  <2>6. Step(p)' = "iackr" /\ Depth(p) = 1 + Len(frames[p]) /\ Depth(p)' = 1 + (Len(frames'[p]) - 1)
    BY <1>1, <2>1, <2>2, <2>3 DEF Depth, Step
  <2> QED
    BY <1>1, <1>2, <2>1, <2>3, <2>5, <2>6 DEF StackOf
<1>6. CASE Prologue(p)
  <2> DEFINE f == [vector |-> intc_iack[p], step |-> "isr"]
  <2>1. /\ boot'[p] = boot[p] /\ Step(p) = "iackr" /\ frames[p] # <<>>
        /\ frames'[p] = [frames[p] EXCEPT ![1] = f] /\ ReadIACKR(p)
    BY <1>6 DEF Prologue, Step, StackInv, HandlerTypeOK
  <2>2. f \in Frame /\ f.step = "isr"
    BY <1>1 DEF Frame, Steps, TypeOK
  <2> HIDE DEF f
  <2>3. /\ frames'[p] # <<>> /\ Len(frames'[p]) = Len(frames[p]) /\ Head(frames'[p]) = f
        /\ \A k \in 2 .. Len(frames'[p]) : frames'[p][k] = frames[p][k]
    BY <1>1, <2>1, <2>2, HeadChanged
  <2>4. intc_bcr' = {}
    BY <1>1, <2>1 DEF ReadIACKR, config
  <2>5. lifo'[p] # Corrupt /\ Len(lifo'[p]) = Len(lifo[p]) + 1
    BY <1>1, <1>2, <2>1, LifoPushed
  <2>6. boot[p] = "done" /\ Len(frames[p]) \in Nat
    BY <1>1, <1>2, <2>1
  <2>7. Depth(p) = 1 + (Len(frames[p]) - 1) /\ Depth(p)' = 1 + Len(frames'[p])
    BY <2>1, <2>2, <2>3, <2>6 DEF Depth, Step
  <2> QED
    BY <1>1, <1>2, <2>1, <2>3, <2>4, <2>5, <2>6, <2>7 DEF StackOf
<1>7. ASSUME NEW step \in Steps, NEW next \in Steps, Advance(p, step, next)
      PROVE  /\ boot'[p] = boot[p] /\ Step(p) = step /\ Step(p)' = next
             /\ frames[p] # <<>> /\ frames'[p] # <<>> /\ Len(frames'[p]) = Len(frames[p])
             /\ \A k \in 2 .. Len(frames'[p]) : frames'[p][k] = frames[p][k]
  <2>1. frames[p] # <<>> /\ frames[p][1] \in Frame
    BY <1>1, <1>7 DEF Advance, Step, Steps
  <2> DEFINE f == [frames[p][1] EXCEPT !.step = next]
  <2>2. f \in Frame /\ f.step = next
    BY <2>1, <1>7 DEF Frame
  <2>3. frames'[p] = [frames[p] EXCEPT ![1] = f]
    BY <1>1, <1>7, <2>1 DEF Advance, StackInv, HandlerTypeOK
  <2> HIDE DEF f
  <2>4. /\ frames'[p] # <<>> /\ Len(frames'[p]) = Len(frames[p]) /\ Head(frames'[p]) = f
        /\ \A k \in 2 .. Len(frames'[p]) : frames'[p][k] = frames[p][k]
    BY <1>1, <2>1, <2>2, <2>3, HeadChanged
  <2> QED
    BY <1>7, <2>1, <2>2, <2>4 DEF Advance, Step
<1>8. CASE ISR(p)
  <2>1. Advance(p, "isr", "served") /\ UNCHANGED <<lifo, intc_bcr>>
    BY <1>8, LifoKept DEF ISR
  <2>2. /\ boot'[p] = boot[p] /\ Step(p) = "isr" /\ Step(p)' = "served"
        /\ frames[p] # <<>> /\ Len(frames'[p]) = Len(frames[p])
        /\ \A k \in 2 .. Len(frames'[p]) : frames'[p][k] = frames[p][k]
    BY <1>7, <2>1 DEF Steps
  <2>3. Depth(p)' = Depth(p)
    BY <2>2 DEF Depth
  <2> QED
    BY <1>1, <1>2, <2>1, <2>2, <2>3 DEF StackOf
<1>9. CASE Epilogue(p)
  <2>1. Advance(p, "served", "rfi") /\ WriteEOIR(p) /\ intc_bcr' = intc_bcr
    BY <1>9 DEF Epilogue, WriteEOIR, config
  <2>2. Step(p) = "served" /\ frames[p] # <<>> /\ boot[p] = "done"
    BY <1>2, <1>7, <2>1 DEF Steps
  <2>3. /\ boot'[p] = boot[p] /\ Step(p)' = "rfi" /\ Len(frames'[p]) = Len(frames[p])
        /\ \A k \in 2 .. Len(frames'[p]) : frames'[p][k] = frames[p][k]
    BY <1>7, <2>1 DEF Steps
  <2>4. Depth(p) = 1 + Len(frames[p]) /\ Depth(p)' = 1 + (Len(frames'[p]) - 1)
    BY <2>2, <2>3 DEF Depth
  <2>5. lifo'[p] # Corrupt /\ Len(lifo'[p]) = Len(lifo[p]) - 1
    BY <1>1, <1>2, <2>1, <2>4, LifoPopped
  <2> QED
    BY <1>1, <1>2, <2>1, <2>2, <2>3, <2>4, <2>5 DEF StackOf
<1>10. CASE ReturnFromInterrupt(p)
  <2>1. /\ boot'[p] = boot[p] /\ Step(p) = "rfi" /\ frames[p] # <<>> /\ frames'[p] = Tail(frames[p])
        /\ UNCHANGED <<lifo, intc_bcr>>
    BY <1>10 DEF ReturnFromInterrupt, Step, vars, priority, config, StackInv, HandlerTypeOK
  <2>2. /\ frames'[p] \in Seq(Frame) /\ Len(frames'[p]) = Len(frames[p]) - 1
        /\ \A k \in 1 .. Len(frames'[p]) : frames'[p][k] = frames[p][k + 1]
    BY <1>1, <2>1, FramePopped
  <2>3. \A k \in 1 .. Len(frames'[p]) : frames'[p][k].step \in {"isr", "served"}
    BY <1>1, <1>2, <2>2
  <2>4. Step(p)' \in {"background", "isr", "served"} /\ (Step(p)' = "background" <=> frames'[p] = <<>>)
    BY <2>2, <2>3 DEF Step
  <2>5. Depth(p) = 1 + (Len(frames[p]) - 1) /\ Depth(p)' = 1 + Len(frames'[p])
    BY <1>2, <2>1, <2>4 DEF Depth
  <2> QED
    BY <1>1, <1>2, <2>1, <2>2, <2>3, <2>5 DEF StackOf
<1> QED
  BY <1>3, <1>4, <1>5, <1>6, <1>8, <1>9, <1>10 DEF CoreStep

LEMMA StackStep == StackInv /\ [HandlerNext]_hvars => StackInv'
<1> SUFFICES ASSUME StackInv, [HandlerNext]_hvars PROVE StackInv'
  OBVIOUS
<1>1. HandlerTypeOK' /\ intc_bcr = {} /\ \A p \in Processors : StackOf(p)
  BY HandlerTypesStep DEF StackInv
<1>2. ASSUME UNCHANGED <<boot, frames, lifo, intc_bcr>>
      PROVE  StackInv'
  BY <1>1, <1>2, StackSame DEF StackInv
<1>3. ASSUME NEW p \in Processors, CoreStep(p) PROVE StackInv'
  <2>1. HandlerTypeOK
    BY DEF StackInv
  <2>2. ASSUME NEW q \in Processors \ {p} PROVE StackOf(q)'
    BY <1>1, <1>3, <2>1, CoreTypes, OtherStacks, StackSame DEF OtherCoresSame
  <2> QED
    BY <1>1, <1>3, <2>2, CoreStack DEF StackInv
<1>4. ASSUME NEW i \in IRQs, Raise(i) PROVE StackInv'
  BY <1>2, <1>4, LifoKept DEF Raise, cores
<1>5. CASE Kernel /\ UNCHANGED cores
  BY <1>2, <1>5 DEF Kernel, Delta, IRQ_Select_Process, IRQ_B_Process, cores, config, priority
<1>6. CASE HandlerTick
  BY <1>2, <1>6 DEF HandlerTick, Tick, config, priority
<1>7. CASE UNCHANGED hvars
  BY <1>2, <1>7 DEF hvars, cores, vars, config, priority
<1> QED
  BY <1>3, <1>4, <1>5, <1>6, <1>7 DEF HandlerNext

LEMMA StackInit == HandlerInit => StackInv
<1> SUFFICES ASSUME HandlerInit PROVE StackInv
  OBVIOUS
<1>1. HandlerTypeOK
  BY HandlerTypesInit
<1>2. intc_bcr = {} /\ \A p \in Processors : lifo[p] = <<>> /\ frames[p] = <<>> /\ boot[p] = "ack"
  BY DEF HandlerInit, Init
<1>3. <<>> \in Seq(Priorities)
  OBVIOUS
<1>4. <<>> # Corrupt
  BY <1>3, NeverAssumption
<1>5. ASSUME NEW p \in Processors PROVE StackOf(p)
  <2>1. Len(lifo[p]) = 0 /\ Len(frames[p]) = 0 /\ lifo[p] # Corrupt
    BY <1>2, <1>4
  <2>2. Depth(p) = 0 + 0
    BY <1>2, <2>1 DEF Depth, Step
  <2> QED
    BY <1>2, <2>1, <2>2 DEF StackOf
<1> QED
  BY <1>1, <1>2, <1>5 DEF StackInv

\* The handlers that have acknowledged are all of them, but for an innermost one
\* that has not yet or has ended its interrupt.
LEMMA AcknowledgedDepth ==
  ASSUME StackInv, NEW p \in Processors
  PROVE  Cardinality(Acknowledged(p)) = Depth(p) - (IF boot[p] = "ack" THEN 0 ELSE 1)
<1>1. /\ frames[p] \in Seq(Frame)
      /\ \A k \in 2 .. Len(frames[p]) : frames[p][k].step \in {"isr", "served"}
  BY DEF StackInv, StackOf, HandlerTypeOK
<1>2. CASE Step(p) \in {"iackr", "rfi"}
  <2>1. frames[p] # <<>> /\ frames[p][1].step \in {"iackr", "rfi"}
    BY <1>1, <1>2 DEF Step
  <2>2. Acknowledged(p) = 2 .. Len(frames[p])
    BY <1>1, <2>1 DEF Acknowledged
  <2>3. Cardinality(2 .. Len(frames[p])) = Len(frames[p]) - 1
    BY <1>1, <2>1, FS_Interval
  <2> QED
    BY <1>1, <1>2, <2>2, <2>3 DEF Depth
<1>3. CASE Step(p) \notin {"iackr", "rfi"}
  <2>1. ASSUME frames[p] # <<>> PROVE frames[p][1].step \in {"isr", "served"}
    <3>1. frames[p][1] \in Frame /\ Head(frames[p]) = frames[p][1]
      BY <1>1, <2>1
    <3> QED
      BY <1>3, <2>1, <3>1 DEF Step, Frame, Steps
  <2>2. Acknowledged(p) = 1 .. Len(frames[p])
    BY <1>1, <2>1 DEF Acknowledged
  <2>3. Cardinality(1 .. Len(frames[p])) = Len(frames[p])
    BY <1>1, FS_Interval
  <2> QED
    BY <1>1, <1>3, <2>2, <2>3 DEF Depth
<1> QED
  BY <1>2, <1>3

\* The registers, the cores and their stacks of handlers stay in their domains.
THEOREM HandlerTypes == HandlerSpec => []HandlerTypeOK
<1> QED
  BY HandlerTypesInit, HandlerTypesStep, PTL DEF HandlerSpec

\* Every acknowledge of a core is matched by one end of interrupt, however its
\* handlers nest and whatever the other cores do: EndOfInterrupt never pops an
\* empty LIFO.
THEOREM HandlersAreBalanced == HandlerSpec => []LifoMatchesFrames
<1>1. StackInv => LifoMatchesFrames
  <2> SUFFICES ASSUME StackInv, NEW p \in Processors
               PROVE  /\ lifo[p] # Corrupt
                      /\ Len(lifo[p]) = Cardinality(Acknowledged(p)) + (IF boot[p] = "ack" THEN 0 ELSE 1)
    BY DEF LifoMatchesFrames
  <2>1. lifo[p] # Corrupt /\ Len(lifo[p]) = Depth(p) /\ frames[p] \in Seq(Frame)
    BY DEF StackInv, StackOf, HandlerTypeOK
  <2>2. Depth(p) \in Int
    BY <2>1 DEF Depth
  <2> QED
    BY <2>1, <2>2, AcknowledgedDepth
<1> QED
  BY <1>1, StackInit, StackStep, PTL DEF HandlerSpec

-----------------------------------------------------------------------------
(***************************************************************************)
(* The request lines.                                                      *)
(***************************************************************************)

\* An access of core p; it is not on its way to the acknowledge after it.
Accessed(p) == UNCHANGED kernel /\ busy'[p] = TRUE /\ Step(p)' # "iackr"

\* An access to the latches of the sources.
Latched == UNCHANGED <<config, priority, intc_psr, priority_tree, output, gen_irq_b_event>>

LEMMA LatchesOnly ==
  ASSUME NEW m, NEW data, NEW i, WriteSSCIR(m, data) \/ HW_IRQ_Process(i) \/ Refused
  PROVE  Latched
BY DEF WriteSSCIR, HW_IRQ_Process, Refused, sources, Latched

\* The steps of a core, by what they do to the registers.
LEMMA CoreStepShape ==
  ASSUME StackInv, NEW p \in Processors, CoreStep(p)
  PROVE  \/ /\ Accessed(p)
            /\ \/ boot[p] = "ack" /\ boot'[p] = "cpr" /\ ReadIACKR(p)
               \/ boot[p] = "cpr" /\ boot'[p] = "psr" /\ WriteCPR(p, 0)
               \/ boot[p] = "psr" /\ boot'[p] = "done" /\ WritePSR(Setup[p])
               \/ boot[p] = "done" /\ boot' = boot /\ Step(p) = "iackr" /\ ReadIACKR(p)
               \/ boot[p] = "done" /\ boot' = boot /\ Len(lifo[p]) > 1 /\ WriteEOIR(p)
               \/ boot' = boot /\ Latched
         \/ /\ UNCHANGED <<vars, busy, boot>>
            /\ Step(p)' = "iackr" => boot[p] = "done" /\ ~busy[p] /\ ~p_out[p].irq_b
<1>1. /\ frames[p] \in Seq(Frame) /\ lifo[p] \in Seq(Priorities)
      /\ boot \in [Processors -> {"ack", "cpr", "psr", "done"}]
      /\ busy \in [Processors -> BOOLEAN] /\ frames \in [Processors -> Seq(Frame)]
      /\ boot[p] # "done" => frames[p] = <<>>
      /\ \A k \in 2 .. Len(frames[p]) : frames[p][k].step \in {"isr", "served"}
      /\ Len(lifo[p]) = Depth(p)
  BY DEF StackInv, HandlerTypeOK, StackOf, TypeOK
<1>2. ASSUME NEW step, NEW next, BootStep(p, step, next), step # "done"
      PROVE  Accessed(p) /\ boot[p] = step /\ boot'[p] = next
  BY <1>1, <1>2 DEF BootStep, CoreAccess, Accessed, Step
<1>3. ASSUME NEW step \in Steps, NEW next \in {"served", "rfi"}, Advance(p, step, next), CoreAccess(p)
      PROVE  Accessed(p) /\ boot' = boot /\ Step(p) = step /\ frames[p] # <<>> /\ boot[p] = "done"
  <2>1. frames[p] # <<>> /\ frames[p][1] \in Frame
    BY <1>1, <1>3 DEF Advance, Step, Steps
  <2> DEFINE f == [frames[p][1] EXCEPT !.step = next]
  <2>2. f \in Frame /\ f.step = next
    BY <1>3, <2>1 DEF Frame, Steps
  <2>3. frames'[p] = [frames[p] EXCEPT ![1] = f]
    BY <1>1, <1>3, <2>1 DEF Advance
  <2> HIDE DEF f
  <2>4. frames'[p] # <<>> /\ Head(frames'[p]) = f
    BY <1>1, <2>1, <2>2, <2>3, HeadChanged
  <2>5. Step(p)' = next
    BY <2>2, <2>4 DEF Step
  <2> QED
    BY <1>1, <1>3, <2>1, <2>5 DEF Advance, CoreAccess, Accessed
<1>4. CASE intc_acknowledge_interrupt(p) \/ intc_set_current_irq_priority(p) \/ intc_select_irq(p)
  BY <1>2, <1>4 DEF intc_acknowledge_interrupt, intc_set_current_irq_priority, intc_select_irq
<1>5. CASE TakeInterrupt(p)
  BY <1>5 DEF TakeInterrupt, EE
<1>6. CASE Prologue(p)
  <2> DEFINE f == [vector |-> intc_iack[p], step |-> "isr"]
  <2>1. frames[p] # <<>> /\ f \in Frame /\ f.step = "isr" /\ frames'[p] = [frames[p] EXCEPT ![1] = f]
    BY <1>1, <1>6 DEF Prologue, Step, StackInv, HandlerTypeOK, TypeOK, Frame, Steps
  <2> HIDE DEF f
  <2>2. frames'[p] # <<>> /\ Head(frames'[p]) = f
    BY <1>1, <2>1, HeadChanged
  <2>3. Step(p)' = "isr"
    BY <2>1, <2>2 DEF Step
  <2> QED
    BY <1>1, <1>6, <2>1, <2>3 DEF Prologue, CoreAccess, Accessed
<1>7. CASE ISR(p)
  BY <1>3, <1>7, LatchesOnly DEF ISR, Steps
<1>8. CASE Epilogue(p)
  <2>1. Accessed(p) /\ boot' = boot /\ Step(p) = "served" /\ frames[p] # <<>> /\ boot[p] = "done"
    BY <1>3, <1>8 DEF Epilogue, Steps
  <2>2. Depth(p) = 1 + Len(frames[p]) /\ Len(frames[p]) > 0
    BY <1>1, <2>1 DEF Depth
  <2> QED
    BY <1>1, <1>8, <2>1, <2>2 DEF Epilogue
<1>9. CASE ReturnFromInterrupt(p)
  <2>1. frames[p] # <<>> /\ frames'[p] = Tail(frames[p]) /\ UNCHANGED <<vars, busy, boot>>
    BY <1>1, <1>9 DEF ReturnFromInterrupt, Step
  <2>2. /\ frames'[p] \in Seq(Frame) /\ Len(frames'[p]) = Len(frames[p]) - 1
        /\ \A k \in 1 .. Len(frames'[p]) : frames'[p][k] = frames[p][k + 1]
    BY <1>1, <2>1, FramePopped
  <2>3. \A k \in 1 .. Len(frames'[p]) : frames'[p][k].step \in {"isr", "served"}
    BY <1>1, <2>2
  <2>4. Step(p)' # "iackr"
    BY <2>2, <2>3 DEF Step
  <2> QED
    BY <2>1, <2>4
<1> QED
  BY <1>4, <1>5, <1>6, <1>7, <1>8, <1>9 DEF CoreStep

\* A line that is to be negated is in the next delta cycle, before the access of
\* the acknowledge completes; so the core that takes an interrupt, not busy and
\* with its line asserted, takes one the controller still has selected.
Negating(p) == irq_b[p] /\ ~p_out[p].irq_b

LineOf(p) ==
  /\ Negating(p) => <<"IRQ_B", p>> \in runnable \/ gen_irq_b_event[p] = 0
  /\ Negating(p) => boot[p] = "ack" \/ busy[p]
  /\ Step(p) = "iackr" => ~irq_b[p]

LinesInv == StackInv /\ \A p \in Processors : LineOf(p)

LEMMA LineSame ==
  ASSUME NEW p \in Processors, LineOf(p),
         UNCHANGED <<irq_b[p], p_out[p], boot[p], frames[p], busy[p]>>,
         <<"IRQ_B", p>> \in runnable => <<"IRQ_B", p>> \in runnable' \/ gen_irq_b_event'[p] = 0,
         gen_irq_b_event[p] = 0 => <<"IRQ_B", p>> \in runnable' \/ gen_irq_b_event'[p] = 0
  PROVE  LineOf(p)'
BY DEF LineOf, Negating, Step

\* What the acknowledge does to the line and to the priorities.
LEMMA AcknowledgeEffect ==
  ASSUME TypeOK, NEW p \in Processors, p \notin intc_bcr, ReadIACKR(p)
  PROVE  /\ irq_b'[p] = TRUE /\ gen_irq_b_event'[p] = 0
         /\ UNCHANGED <<p_out, selected_irq_num, priority_tree>>
         /\ \A q \in Processors \ {p} : irq_b'[q] = irq_b[q] /\ gen_irq_b_event'[q] = gen_irq_b_event[q]
         /\ \A q \in Processors \ {p} : intc_cpr'[q] = intc_cpr[q]
         /\ intc_cpr'[p] = intc_psr[selected_irq_num[p]].PRIN
         /\ \A i \in IRQs : intc_psr'[i].PRIN = intc_psr[i].PRIN
<1>1. IRQAcknowledge(p) /\ UNCHANGED <<p_out, selected_irq_num, priority_tree>>
  BY DEF ReadIACKR
<1>2. irq_b'[p] = TRUE /\ \A q \in Processors \ {p} : irq_b'[q] = irq_b[q]
  BY <1>1 DEF IRQAcknowledge, TypeOK
<1>3. gen_irq_b_event'[p] = 0 /\ \A q \in Processors \ {p} : gen_irq_b_event'[q] = gen_irq_b_event[q]
  <2>1. gen_irq_b_event[p] \in Nat \union {Never} /\ Never \notin Nat
    BY NeverAssumption DEF TypeOK
  <2>2. Earlier(gen_irq_b_event[p], 0) = 0
    BY <2>1 DEF Earlier
  <2>3. gen_irq_b_event' = [gen_irq_b_event EXCEPT ![p] = Earlier(@, 0)]
    BY <1>1 DEF IRQAcknowledge, GenIrqB
  <2> QED
    BY <2>2, <2>3 DEF TypeOK
<1>4. /\ intc_cpr' = [intc_cpr EXCEPT ![p] = intc_psr[selected_irq_num[p]].PRIN]
      /\ intc_psr' = [intc_psr EXCEPT ![selected_irq_num[p]].SWTN = FALSE]
  BY <1>1 DEF IRQAcknowledge
<1>5. \A i \in IRQs : intc_psr'[i].PRIN = intc_psr[i].PRIN
  BY <1>4 DEF TypeOK, PSR
<1> QED
  BY <1>1, <1>2, <1>3, <1>4, <1>5 DEF TypeOK

LEMMA CoreLines ==
  ASSUME LinesInv, NEW p \in Processors, CoreStep(p), NEW q \in Processors
  PROVE  LineOf(q)'
<1>1. TypeOK /\ HandlerTypeOK /\ intc_bcr = {} /\ StackInv /\ LineOf(p) /\ LineOf(q)
  BY DEF LinesInv, StackInv, HandlerTypeOK
<1>2. q # p => UNCHANGED <<boot[q], frames[q], busy[q]>>
  BY <1>1, CoreTypes DEF OtherCoresSame
<1>3. CASE Accessed(p) /\ ReadIACKR(p)
  <2>1. CASE q = p
    BY <1>1, <1>3, <2>1, AcknowledgeEffect DEF Accessed, LineOf, Negating
  <2>2. CASE q # p
    BY <1>1, <1>2, <1>3, <2>2, AcknowledgeEffect, LineSame DEF Accessed, kernel
  <2> QED
    BY <2>1, <2>2
<1>4. CASE Accessed(p) /\ UNCHANGED <<irq_b, p_out, gen_irq_b_event>>
  <2>1. CASE q = p
    BY <1>1, <1>4, <2>1 DEF Accessed, LineOf, Negating, kernel
  <2>2. CASE q # p
    BY <1>1, <1>2, <1>4, <2>2, LineSame DEF Accessed, kernel
  <2> QED
    BY <2>1, <2>2
<1>5. CASE /\ UNCHANGED <<vars, busy, boot>>
           /\ Step(p)' = "iackr" => boot[p] = "done" /\ ~busy[p] /\ ~p_out[p].irq_b
  <2>1. UNCHANGED <<irq_b, p_out, gen_irq_b_event, runnable>>
    BY <1>5 DEF vars, output, kernel
  <2>2. CASE q = p
    BY <1>1, <1>5, <2>1, <2>2 DEF LineOf, Negating
  <2>3. CASE q # p
    BY <1>1, <1>2, <2>1, <2>3, LineSame
  <2> QED
    BY <2>2, <2>3
<1>6. WriteCPR(p, 0) \/ WritePSR(Setup[p]) \/ WriteEOIR(p) \/ Latched => UNCHANGED <<irq_b, p_out, gen_irq_b_event>>
  BY DEF WriteCPR, WritePSR, WriteEOIR, Latched, output
<1> QED
  BY <1>1, <1>3, <1>4, <1>5, <1>6, CoreStepShape

LEMMA LinesStep == LinesInv /\ [HandlerNext]_hvars => LinesInv'
<1> SUFFICES ASSUME LinesInv, [HandlerNext]_hvars PROVE LinesInv'
  OBVIOUS
<1>1. TypeOK /\ \A p \in Processors : LineOf(p)
  BY DEF LinesInv, StackInv, HandlerTypeOK
<1>2. StackInv'
  BY StackStep DEF LinesInv
<1>3. SUFFICES ASSUME NEW q \in Processors PROVE LineOf(q)'
  BY <1>2 DEF LinesInv
<1>4. ASSUME NEW p \in Processors, CoreStep(p) PROVE LineOf(q)'
  BY <1>4, CoreLines
<1>5. ASSUME NEW i \in IRQs, Raise(i) PROVE LineOf(q)'
  <2>1. Latched /\ UNCHANGED <<kernel, cores>>
    BY <1>5, LatchesOnly DEF Raise
  <2> QED
    BY <1>1, <2>1, LineSame DEF Latched, output, kernel, cores
<1>6. ASSUME NEW p \in Processors, IRQ_Select_Process(p), UNCHANGED cores PROVE LineOf(q)'
  <2>1. /\ UNCHANGED <<p_out, boot, frames, busy>>
        /\ <<"IRQ_B", q>> \in runnable => <<"IRQ_B", q>> \in runnable'
    BY <1>6 DEF IRQ_Select_Process, cores
  <2>2. CASE SelectSource(p) /\ q = p
    BY <1>1, <1>6, <2>1, <2>2 DEF SelectSource, LineOf, Negating, Step, TypeOK
  <2>3. CASE SelectSource(p) /\ q # p
    <3>1. irq_b'[q] = irq_b[q] /\ gen_irq_b_event'[q] = gen_irq_b_event[q]
      BY <1>1, <2>3 DEF SelectSource, GenIrqB, TypeOK
    <3> QED
      BY <1>1, <2>1, <3>1, LineSame
  <2>4. CASE SelectNothing(p)
    BY <1>1, <2>1, <2>4, LineSame DEF SelectNothing
  <2> QED
    BY <1>6, <2>2, <2>3, <2>4 DEF IRQ_Select_Process
<1>7. ASSUME NEW p \in Processors, IRQ_B_Process(p), UNCHANGED cores PROVE LineOf(q)'
  <2>1. /\ UNCHANGED <<irq_b, boot, frames, busy>> /\ runnable' = runnable \ {<<"IRQ_B", p>>}
        /\ Assert(p) \/ AlreadyAsserted(p) \/ Negate(p)
    BY <1>7 DEF IRQ_B_Process, cores
  <2>2. CASE q = p
    <3>1. CASE ~irq_b[p]
      BY <1>1, <2>1, <2>2, <3>1 DEF LineOf, Negating, Step
    <3>2. CASE irq_b[p]
      <4>1. Negate(p)
        BY <2>1, <3>2 DEF Assert, AlreadyAsserted
      <4>2. p_out'[p].irq_b = TRUE
        BY <1>1, <4>1 DEF Negate, TypeOK, Wires
      <4> QED
        BY <1>1, <2>1, <2>2, <4>2 DEF LineOf, Negating, Step
    <3> QED
      BY <3>1, <3>2
  <2>3. CASE q # p
    <3>1. p_out'[q] = p_out[q]
      BY <1>1, <2>1, <2>3 DEF Assert, AlreadyAsserted, Negate, TypeOK
    <3>2. gen_irq_b_event'[q] = gen_irq_b_event[q]
      BY <1>1, <2>1, <2>3 DEF Assert, AlreadyAsserted, Negate, GenIrqB, TypeOK
    <3> QED
      BY <1>1, <2>1, <2>3, <3>1, <3>2, LineSame
  <2> QED
    BY <2>2, <2>3
<1>8. CASE Delta /\ UNCHANGED cores
  <2>1. UNCHANGED <<irq_b, p_out, boot, frames, busy>> /\ runnable = {} /\ runnable' = Woken(0)
    BY <1>8 DEF Delta, output, cores
  <2>2. gen_irq_b_event[q] = 0 => <<"IRQ_B", q>> \in runnable'
    BY <2>1 DEF Woken
  <2> QED
    BY <1>1, <2>1, <2>2, LineSame
<1>9. CASE HandlerTick
  <2>1. /\ UNCHANGED <<irq_b, p_out, boot, frames>> /\ runnable = {} /\ Woken(0) = {}
    BY <1>9 DEF HandlerTick, Tick
  <2>2. gen_irq_b_event[q] # 0
    BY <2>1 DEF Woken
  <2>3. ~Negating(q)
    BY <1>1, <2>1, <2>2 DEF LineOf
  <2> QED
    BY <1>1, <2>1, <2>3 DEF LineOf, Negating, Step
<1>10. CASE UNCHANGED hvars
  BY <1>1, <1>10, LineSame DEF hvars, cores, vars, output, kernel
<1> QED
  BY <1>4, <1>5, <1>6, <1>7, <1>8, <1>9, <1>10 DEF HandlerNext, Kernel

LEMMA LinesInit == HandlerInit => LinesInv
<1> SUFFICES ASSUME HandlerInit, NEW p \in Processors PROVE LineOf(p)
  BY StackInit DEF LinesInv
<1>1. irq_b[p] = FALSE /\ frames[p] = <<>>
  BY DEF HandlerInit, Init
<1> QED
  BY <1>1 DEF LineOf, Negating, Step

-----------------------------------------------------------------------------
(***************************************************************************)
(* The controller under the cores keeps what it promises.                  *)
(***************************************************************************)

LEMMA TreeSame ==
  ASSUME TreeIsSound, UNCHANGED <<intc_psr, priority_tree>>
  PROVE  TreeIsSound'
BY DEF TreeIsSound, Mirror

LEMMA TreesStep ==
  ASSUME LinesInv, TreeIsSound, [HandlerNext]_hvars
  PROVE  TreeIsSound'
<1>1. TypeOK /\ intc_bcr = {} /\ StackInv
  BY DEF LinesInv, StackInv, HandlerTypeOK
<1>2. ASSUME NEW p \in Processors, CoreStep(p) PROVE TreeIsSound'
  <2>1. CASE ReadIACKR(p)
    BY <1>1, <2>1, AcknowledgeTree DEF ReadIACKR
  <2>2. CASE WritePSR(Setup[p])
    <3>1. PICK D \in SUBSET IRQs : Setup[p] \in [D -> PSR]
      BY SetupAssumption
    <3> QED
      BY <1>1, <2>2, <3>1, WritePSRTree
  <2>3. WriteCPR(p, 0) \/ WriteEOIR(p) \/ Latched \/ UNCHANGED vars => UNCHANGED <<intc_psr, priority_tree>>
    BY DEF WriteCPR, WriteEOIR, Latched, sources, vars
  <2> QED
    BY <1>1, <1>2, <2>1, <2>2, <2>3, CoreStepShape, TreeSame
<1>3. ASSUME NEW i \in IRQs, Raise(i) PROVE TreeIsSound'
  BY <1>3, LatchesOnly, TreeSame DEF Raise, Latched
<1>4. CASE Kernel \/ HandlerTick
  BY <1>1, <1>4, TreeIsSoundStep DEF Kernel, HandlerTick, Next
<1>5. CASE UNCHANGED hvars
  BY <1>5, TreeSame DEF hvars, vars, sources
<1> QED
  BY <1>2, <1>3, <1>4, <1>5 DEF HandlerNext

\* No source and no line waits for a selection or an update that is not coming.
LEMMA NothingMissedStep ==
  ASSUME LinesInv, NoMissedSelection, NoMissedOutput, [HandlerNext]_hvars
  PROVE  NoMissedSelection' /\ NoMissedOutput'
<1>1. TypeOK /\ intc_bcr = {} /\ StackInv
  BY DEF LinesInv, StackInv, HandlerTypeOK
<1>2. ASSUME UNCHANGED <<runnable, irq_b, p_out, gen_irq_b_event>> PROVE NoMissedOutput'
  BY <1>2 DEF NoMissedOutput
<1>3. ASSUME NEW p \in Processors, CoreStep(p) PROVE NoMissedSelection' /\ NoMissedOutput'
  <2>1. UNCHANGED runnable
    BY <1>1, <1>3, CoreStepShape DEF Accessed, kernel, vars
  <2>2. CASE ReadIACKR(p)
    BY <1>1, <2>1, <2>2, ReadIACKRSelection, AcknowledgeOutput DEF ReadIACKR
  <2>3. CASE WriteCPR(p, 0)
    BY <1>1, <1>2, <2>1, <2>3, WriteCPRSelection DEF WriteCPR, output
  <2>4. CASE WritePSR(Setup[p])
    BY <1>1, <1>2, <2>1, <2>4, WritePSRSelection DEF WritePSR, output
  <2>5. CASE WriteEOIR(p)
    BY <1>1, <1>2, <2>1, <2>5, WriteEOIRSelection DEF WriteEOIR, output
  <2>6. CASE ISR(p)
    <3>1. NoMissedOutput'
      BY <1>2, <2>1, <2>6, LatchesOnly DEF ISR, Latched, output
    <3>2. ASSUME Refused PROVE NoMissedSelection'
      BY <2>1, <3>2 DEF Refused, sources, output, priority, SelectComing, NoMissedSelection, Candidates
    <3> QED
      BY <1>1, <2>1, <2>6, <3>1, <3>2, WriteSSCIRSelection, LineSelection DEF ISR
  <2>7. CASE UNCHANGED vars
    BY <2>7 DEF vars, sources, output, priority, kernel, NoMissedSelection, NoMissedOutput, Candidates
  <2> QED
    BY <1>3, <2>2, <2>3, <2>4, <2>5, <2>6, <2>7
       DEF CoreStep, intc_acknowledge_interrupt, intc_set_current_irq_priority, intc_select_irq,
           TakeInterrupt, Prologue, Epilogue, ReturnFromInterrupt
<1>4. ASSUME NEW i \in IRQs, Raise(i) PROVE NoMissedSelection' /\ NoMissedOutput'
  <2>1. UNCHANGED runnable
    BY <1>4 DEF Raise, kernel
  <2> QED
    BY <1>1, <1>2, <1>4, <2>1, LatchesOnly, WriteSSCIRSelection, LineSelection DEF Raise, Latched, output
<1>5. CASE Kernel \/ HandlerTick
  BY <1>1, <1>5, NoMissedSelectionStep, NoMissedOutputStep DEF Kernel, HandlerTick, Next
<1>6. CASE UNCHANGED hvars
  BY <1>6 DEF hvars, vars, sources, output, priority, kernel, NoMissedSelection, NoMissedOutput, Candidates
<1> QED
  BY <1>3, <1>4, <1>5, <1>6 DEF HandlerNext

-----------------------------------------------------------------------------
(***************************************************************************)
(* The priorities.  The start-up code of a core may write the INTC_PSRn of *)
(* a source another core already serves: the priorities rise only if the   *)
(* cores agree on those of the sources they share.                         *)
(***************************************************************************)

\* The priority of a source is that of the reset or that of its setting.
SetupIsKept ==
  \A i \in IRQs : \/ intc_psr[i].PRIN = 0
                  \/ \E p \in Processors : i \in DOMAIN Setup[p] /\ intc_psr[i].PRIN = Setup[p][i].PRIN

\* A priority above the lowest stands.
PrioritiesStand == \A i \in IRQs : intc_psr[i].PRIN # 0 => intc_psr'[i].PRIN = intc_psr[i].PRIN

\* The request under way beats the current priority.
SelectedBeats(p) == boot[p] # "ack" /\ ~irq_b[p] => intc_psr[selected_irq_num[p]].PRIN > intc_cpr[p]

\* The priorities of a core rise with its handlers, from 0 at the least.
Rising(cpr, s) ==
  /\ cpr >= Len(s) - 1
  /\ Len(s) > 1 => cpr > s[1]
  /\ \A k \in 1 .. Len(s) - 1 : s[k] >= Len(s) - 1 - k
  /\ \A k \in 1 .. Len(s) - 2 : s[k] > s[k + 1]

RaisedOf(p) == boot[p] = "done" => Rising(intc_cpr[p], lifo[p])

NestInv == /\ LinesInv
           /\ TreeIsSound
           /\ SetupIsKept
           /\ \A p \in Processors : SelectedBeats(p) /\ RaisedOf(p)

LEMMA SetupWritten ==
  ASSUME SetupAgrees, TypeOK, SetupIsKept, NEW p \in Processors, WritePSR(Setup[p])
  PROVE  SetupIsKept' /\ PrioritiesStand
<1>1. PICK D \in SUBSET IRQs : Setup[p] \in [D -> PSR]
  BY SetupAssumption
<1> DEFINE data == Setup[p]
<1>2. ASSUME NEW i \in IRQs
      PROVE  intc_psr'[i].PRIN = IF i \in DOMAIN data THEN data[i].PRIN ELSE intc_psr[i].PRIN
  <2>1. intc_psr'[i] = IF i \notin DOMAIN data THEN intc_psr[i]
                       ELSE [data[i] EXCEPT !.SWTN = @ /\ i \in HwIrqs]
    BY DEF WritePSR
  <2>2. i \in DOMAIN data => data[i] \in PSR
    BY <1>1
  <2> QED
    BY <2>1, <2>2 DEF PSR
<1>3. SetupIsKept'
  BY <1>2 DEF SetupIsKept
<1>4. PrioritiesStand
  BY <1>2 DEF SetupIsKept, SetupAgrees, PrioritiesStand
<1> QED
  BY <1>3, <1>4

\* Every other step leaves the priorities of the sources alone.
LEMMA PrioritiesKept ==
  ASSUME SetupAgrees, LinesInv, SetupIsKept, [HandlerNext]_hvars
  PROVE  SetupIsKept' /\ PrioritiesStand
<1>1. TypeOK /\ intc_bcr = {} /\ StackInv
  BY DEF LinesInv, StackInv, HandlerTypeOK
<1>2. ASSUME \A i \in IRQs : intc_psr'[i].PRIN = intc_psr[i].PRIN PROVE SetupIsKept' /\ PrioritiesStand
  BY <1>2 DEF SetupIsKept, PrioritiesStand
<1>3. ASSUME NEW p \in Processors, CoreStep(p) PROVE SetupIsKept' /\ PrioritiesStand
  <2>1. CASE ReadIACKR(p)
    BY <1>1, <1>2, <2>1, AcknowledgeEffect
  <2>2. CASE WritePSR(Setup[p])
    BY <1>1, <2>2, SetupWritten
  <2>3. WriteCPR(p, 0) \/ WriteEOIR(p) \/ Latched \/ UNCHANGED vars => UNCHANGED intc_psr
    BY DEF WriteCPR, WriteEOIR, Latched, sources, vars
  <2> QED
    BY <1>1, <1>2, <1>3, <2>1, <2>2, <2>3, CoreStepShape
<1>4. ASSUME NEW i \in IRQs, Raise(i) PROVE SetupIsKept' /\ PrioritiesStand
  BY <1>2, <1>4, LatchesOnly DEF Raise, Latched
<1>5. CASE Kernel \/ HandlerTick
  BY <1>2, <1>5 DEF Kernel, HandlerTick, Delta, Tick, IRQ_Select_Process, IRQ_B_Process, sources
<1>6. CASE UNCHANGED hvars
  BY <1>2, <1>6 DEF hvars, vars, sources
<1> QED
  BY <1>3, <1>4, <1>5, <1>6 DEF HandlerNext

\* A request under way still beats a current priority that does not rise.
LEMMA StillBeats ==
  ASSUME TypeOK, TypeOK', PrioritiesStand, NEW p \in Processors, SelectedBeats(p),
         boot'[p] # "ack" => boot[p] # "ack", ~irq_b'[p] => ~irq_b[p],
         selected_irq_num'[p] = selected_irq_num[p],
         boot[p] # "ack" => intc_cpr'[p] <= intc_cpr[p]
  PROVE  SelectedBeats(p)'
<1> DEFINE i == selected_irq_num[p]
<1>1. i \in IRQs /\ intc_cpr[p] \in Nat /\ intc_cpr'[p] \in Nat
      /\ intc_psr[i].PRIN \in Nat /\ intc_psr'[i].PRIN \in Nat
  BY DEF TypeOK, Priorities, PSR
<1>2. intc_psr[i].PRIN # 0 => intc_psr'[i].PRIN = intc_psr[i].PRIN
  BY <1>1 DEF PrioritiesStand
<1>3. CASE boot'[p] # "ack" /\ ~irq_b'[p]
  <2>1. intc_psr[i].PRIN > intc_cpr[p] /\ intc_cpr'[p] <= intc_cpr[p]
    BY <1>3 DEF SelectedBeats
  <2>2. intc_psr'[i].PRIN > intc_cpr'[p]
    BY <1>1, <1>2, <2>1
  <2> QED
    BY <2>2 DEF SelectedBeats
<1> QED
  BY <1>3 DEF SelectedBeats

LEMMA RaisedSame ==
  ASSUME NEW p \in Processors, RaisedOf(p), boot'[p] = "done" => boot[p] = "done",
         UNCHANGED <<intc_cpr[p], lifo[p]>>
  PROVE  RaisedOf(p)'
BY DEF RaisedOf

\* One more handler, of a higher priority, and one less.
LEMMA RaisedPushed ==
  ASSUME NEW s \in Seq(Nat), NEW cpr \in Nat, NEW new \in Nat, NEW t, t = <<cpr>> \o s, new > cpr,
         Len(s) > 0, Rising(cpr, s)
  PROVE  Rising(new, t)
<1>1. Len(t) = Len(s) + 1 /\ t[1] = cpr /\ \A k \in 2 .. Len(t) : t[k] = s[k - 1]
  OBVIOUS
<1>2. Len(s) \in Nat /\ \A k \in 1 .. Len(s) : s[k] \in Nat
  OBVIOUS
<1>3. \A k \in 1 .. Len(t) - 1 : t[k] >= Len(t) - 1 - k
  <2> SUFFICES ASSUME NEW k \in 1 .. Len(t) - 1 PROVE t[k] >= Len(t) - 1 - k
    OBVIOUS
  <2>1. CASE k = 1
    BY <1>1, <1>2, <2>1 DEF Rising
  <2>2. CASE k # 1
    <3>1. k - 1 \in 1 .. Len(s) - 1 /\ t[k] = s[k - 1]
      BY <1>1, <1>2, <2>2
    <3>2. s[k - 1] >= Len(s) - 1 - (k - 1)
      BY <3>1 DEF Rising
    <3> QED
      BY <1>1, <1>2, <3>1, <3>2
  <2> QED
    BY <2>1, <2>2
<1>4. \A k \in 1 .. Len(t) - 2 : t[k] > t[k + 1]
  <2> SUFFICES ASSUME NEW k \in 1 .. Len(t) - 2 PROVE t[k] > t[k + 1]
    OBVIOUS
  <2>1. CASE k = 1
    BY <1>1, <1>2, <2>1 DEF Rising
  <2>2. CASE k # 1
    <3>1. k - 1 \in 1 .. Len(s) - 2 /\ t[k] = s[k - 1] /\ t[k + 1] = s[(k - 1) + 1]
      BY <1>1, <1>2, <2>2
    <3> QED
      BY <3>1 DEF Rising
  <2> QED
    BY <2>1, <2>2
<1>5. new >= Len(t) - 1 /\ new > t[1]
  BY <1>1, <1>2 DEF Rising
<1> QED
  BY <1>3, <1>4, <1>5 DEF Rising

LEMMA RaisedPopped ==
  ASSUME NEW s \in Seq(Nat), NEW cpr, NEW t, t = Tail(s), Len(s) > 1, Rising(cpr, s)
  PROVE  Rising(s[1], t) /\ cpr > s[1]
<1>1. Len(t) = Len(s) - 1 /\ \A k \in 1 .. Len(t) : t[k] = s[k + 1]
  OBVIOUS
<1>2. Len(s) \in Nat /\ \A k \in 1 .. Len(s) : s[k] \in Nat
  OBVIOUS
<1>3. \A k \in 1 .. Len(t) - 1 : t[k] >= Len(t) - 1 - k
  <2> SUFFICES ASSUME NEW k \in 1 .. Len(t) - 1 PROVE t[k] >= Len(t) - 1 - k
    OBVIOUS
  <2>1. k + 1 \in 1 .. Len(s) - 1 /\ t[k] = s[k + 1]
    BY <1>1, <1>2
  <2>2. s[k + 1] >= Len(s) - 1 - (k + 1)
    BY <2>1 DEF Rising
  <2> QED
    BY <1>1, <1>2, <2>1, <2>2
<1>4. \A k \in 1 .. Len(t) - 2 : t[k] > t[k + 1]
  <2> SUFFICES ASSUME NEW k \in 1 .. Len(t) - 2 PROVE t[k] > t[k + 1]
    OBVIOUS
  <2>1. k + 1 \in 1 .. Len(s) - 2 /\ t[k] = s[k + 1] /\ t[k + 1] = s[(k + 1) + 1]
    BY <1>1, <1>2
  <2> QED
    BY <2>1 DEF Rising
<1>5. s[1] >= Len(s) - 1 - 1 /\ cpr > s[1]
  BY <1>2 DEF Rising
<1>6. Len(t) > 1 => s[1] > s[2] /\ t[1] = s[2]
  <2> SUFFICES ASSUME Len(t) > 1 PROVE s[1] > s[2] /\ t[1] = s[2]
    OBVIOUS
  <2>1. 1 \in 1 .. Len(s) - 2 /\ 1 \in 1 .. Len(t)
    BY <1>1, <1>2
  <2>2. s[1] > s[1 + 1] /\ t[1] = s[1 + 1]
    BY <1>1, <2>1 DEF Rising
  <2> QED
    BY <2>2
<1>7. s[1] >= Len(t) - 1 /\ (Len(t) > 1 => s[1] > t[1])
  BY <1>1, <1>2, <1>5, <1>6
<1> QED
  BY <1>3, <1>4, <1>5, <1>7 DEF Rising

\* Levels are numbers.
LEMMA LevelsAreNumbers ==
  ASSUME NEW s \in Seq(Priorities)
  PROVE  s \in Seq(Nat)
<1>1. s \in [1 .. Len(s) -> Priorities] /\ Len(s) \in Nat
  OBVIOUS
<1>2. s \in [1 .. Len(s) -> Nat]
  BY <1>1 DEF Priorities
<1> QED
  BY <1>1, <1>2

\* What a core does to the request and the priorities of another.
LEMMA OtherRequests ==
  ASSUME StackInv, NEW p \in Processors, CoreStep(p), NEW q \in Processors \ {p}
  PROVE  /\ UNCHANGED <<boot[q], irq_b[q], selected_irq_num[q], intc_cpr[q], lifo[q]>>
<1>1. TypeOK /\ intc_bcr = {} /\ HandlerTypeOK
  BY DEF StackInv, HandlerTypeOK
<1>2. UNCHANGED <<boot[q], lifo[q]>>
  BY <1>1, CoreTypes, OtherStacks DEF OtherCoresSame
<1>3. CASE ReadIACKR(p)
  BY <1>1, <1>2, <1>3, AcknowledgeEffect
<1>4. CASE WriteCPR(p, 0) \/ WritePSR(Setup[p]) \/ WriteEOIR(p) \/ Latched \/ UNCHANGED vars
  <2>1. irq_b' = irq_b /\ selected_irq_num' = selected_irq_num
    BY <1>4 DEF WriteCPR, WritePSR, WriteEOIR, Latched, output, vars
  <2>2. intc_cpr'[q] = intc_cpr[q]
    BY <1>1, <1>4 DEF WriteCPR, WritePSR, WriteEOIR, EndOfInterrupt, Latched, priority, vars, TypeOK
  <2> QED
    BY <1>2, <2>1, <2>2
<1> QED
  BY <1>3, <1>4, CoreStepShape

LEMMA CoreNests ==
  ASSUME NestInv, PrioritiesStand, TypeOK', NEW p \in Processors, CoreStep(p)
  PROVE  SelectedBeats(p)' /\ RaisedOf(p)'
<1>1. /\ TypeOK /\ HandlerTypeOK /\ intc_bcr = {} /\ StackInv /\ LineOf(p)
      /\ StackOf(p) /\ SelectedBeats(p) /\ RaisedOf(p)
  BY DEF NestInv, LinesInv, StackInv, HandlerTypeOK
<1>2. /\ lifo[p] \in Seq(Nat) /\ intc_cpr[p] \in Nat /\ intc_cpr'[p] \in Nat /\ lifo[p] # Corrupt
      /\ Len(lifo[p]) = Depth(p) /\ frames[p] \in Seq(Frame) /\ (boot[p] # "done" => frames[p] = <<>>)
  BY <1>1, LevelsAreNumbers DEF StackOf, TypeOK, HandlerTypeOK, Priorities
<1>3. CASE boot[p] = "ack" /\ boot'[p] = "cpr" /\ ReadIACKR(p)
  BY <1>1, <1>3, AcknowledgeEffect DEF SelectedBeats, RaisedOf
<1>4. CASE boot[p] = "cpr" /\ boot'[p] = "psr" /\ WriteCPR(p, 0)
  <2>1. intc_cpr'[p] = 0 /\ UNCHANGED <<irq_b, selected_irq_num>>
    BY <1>1, <1>4 DEF WriteCPR, output, TypeOK
  <2> QED
    BY <1>1, <1>2, <1>4, <2>1, StillBeats DEF RaisedOf
<1>5. CASE boot[p] = "psr" /\ boot'[p] = "done" /\ WritePSR(Setup[p])
  <2>1. UNCHANGED <<irq_b, selected_irq_num, intc_cpr, lifo>>
    BY <1>5 DEF WritePSR, output, priority
  <2>2. Len(lifo[p]) = 1
    <3>1. Depth(p) = 1 + 0
      BY <1>2, <1>5 DEF Depth, Step
    <3> QED
      BY <1>2, <3>1
  <2>3. Rising(intc_cpr[p], lifo[p])
    <3>1. 1 .. Len(lifo[p]) - 1 = {} /\ 1 .. Len(lifo[p]) - 2 = {}
      BY <2>2
    <3> QED
      BY <1>2, <2>2, <3>1 DEF Rising
  <2> QED
    BY <1>1, <1>2, <1>5, <2>1, <2>3, StillBeats DEF RaisedOf
<1>6. CASE boot[p] = "done" /\ boot' = boot /\ Step(p) = "iackr" /\ ReadIACKR(p)
  <2>1. /\ irq_b'[p] = TRUE /\ intc_cpr'[p] = intc_psr[selected_irq_num[p]].PRIN
        /\ lifo'[p] = <<intc_cpr[p]>> \o lifo[p]
    BY <1>1, <1>6, AcknowledgeEffect, LifoPushed DEF StackOf
  <2>2. intc_cpr'[p] > intc_cpr[p]
    BY <1>1, <1>6, <2>1 DEF LineOf, SelectedBeats
  <2>3. Len(lifo[p]) > 0
    <3>1. frames[p] # <<>>
      BY <1>6 DEF Step
    <3>2. Depth(p) = 1 + (Len(frames[p]) - 1) /\ Len(frames[p]) > 0
      BY <1>2, <1>6, <3>1 DEF Depth
    <3> QED
      BY <1>2, <3>2
  <2>4. Rising(intc_cpr'[p], lifo'[p])
    BY <1>1, <1>2, <1>6, <2>1, <2>2, <2>3, RaisedPushed DEF RaisedOf
  <2> QED
    BY <2>1, <2>4 DEF SelectedBeats, RaisedOf
<1>7. CASE boot[p] = "done" /\ boot' = boot /\ Len(lifo[p]) > 1 /\ WriteEOIR(p)
  <2>1. intc_cpr'[p] = lifo[p][1] /\ lifo'[p] = Tail(lifo[p]) /\ UNCHANGED <<irq_b, selected_irq_num>>
    BY <1>1, <1>2, <1>7, LifoPopped DEF WriteEOIR, output
  <2>2. Rising(lifo[p][1], lifo'[p]) /\ intc_cpr[p] > lifo[p][1]
    BY <1>1, <1>2, <1>7, <2>1, RaisedPopped DEF RaisedOf
  <2>3. intc_cpr'[p] <= intc_cpr[p]
    BY <1>2, <2>1, <2>2
  <2> QED
    BY <1>1, <1>7, <2>1, <2>2, <2>3, StillBeats DEF RaisedOf
<1>8. CASE boot' = boot /\ (Latched \/ UNCHANGED vars)
  <2>1. UNCHANGED <<irq_b, selected_irq_num, intc_cpr, lifo>>
    BY <1>8 DEF Latched, vars, output, priority
  <2> QED
    BY <1>1, <1>2, <1>8, <2>1, StillBeats, RaisedSame
<1> QED
  BY <1>1, <1>3, <1>4, <1>5, <1>6, <1>7, <1>8, CoreStepShape

LEMMA NestStep ==
  ASSUME SetupAgrees
  PROVE  NestInv /\ [HandlerNext]_hvars => NestInv'
<1> SUFFICES ASSUME NestInv, [HandlerNext]_hvars PROVE NestInv'
  OBVIOUS
<1>1. /\ TypeOK /\ LinesInv /\ StackInv /\ TreeIsSound
      /\ \A p \in Processors : SelectedBeats(p) /\ RaisedOf(p)
  BY DEF NestInv, LinesInv, StackInv, HandlerTypeOK
<1>2. LinesInv' /\ TreeIsSound' /\ SetupIsKept' /\ PrioritiesStand /\ TypeOK'
  <2>1. LinesInv' /\ TreeIsSound' /\ SetupIsKept' /\ PrioritiesStand
    BY LinesStep, TreesStep, PrioritiesKept DEF NestInv
  <2> QED
    BY <2>1 DEF LinesInv, StackInv, HandlerTypeOK
<1>3. SUFFICES ASSUME NEW q \in Processors PROVE SelectedBeats(q)' /\ RaisedOf(q)'
  BY <1>2 DEF NestInv
<1>4. intc_cpr[q] \in Nat
  BY <1>1 DEF TypeOK, Priorities
<1>5. ASSUME UNCHANGED <<boot[q], irq_b[q], selected_irq_num[q], intc_cpr[q], lifo[q]>>
      PROVE  SelectedBeats(q)' /\ RaisedOf(q)'
  BY <1>1, <1>2, <1>4, <1>5, StillBeats, RaisedSame
<1>6. ASSUME NEW p \in Processors, CoreStep(p) PROVE SelectedBeats(q)' /\ RaisedOf(q)'
  <2>1. CASE q = p
    BY <1>2, <1>6, <2>1, CoreNests
  <2>2. CASE q # p
    BY <1>1, <1>5, <1>6, <2>2, OtherRequests
  <2> QED
    BY <2>1, <2>2
<1>7. ASSUME NEW i \in IRQs, Raise(i) PROVE SelectedBeats(q)' /\ RaisedOf(q)'
  BY <1>5, <1>7, LatchesOnly DEF Raise, Latched, output, priority, cores
<1>8. ASSUME NEW p \in Processors, IRQ_Select_Process(p), UNCHANGED cores
      PROVE  SelectedBeats(q)' /\ RaisedOf(q)'
  <2>1. UNCHANGED <<boot, intc_cpr, lifo, intc_psr>>
    BY <1>8 DEF IRQ_Select_Process, priority, sources, cores
  <2>2. CASE SelectNothing(p)
    BY <1>5, <2>1, <2>2 DEF SelectNothing
  <2>3. CASE SelectSource(p) /\ q # p
    BY <1>1, <1>5, <2>1, <2>3 DEF SelectSource, TypeOK
  <2>4. CASE SelectSource(p) /\ q = p
    <3>1. PICK e \in Candidates(p) : selected_irq_num' = [selected_irq_num EXCEPT ![p] = e.irq]
      BY <2>4 DEF SelectSource
    <3>2. e.priority > intc_cpr[p] /\ e \in Mirror(p)
      BY <1>1 DEF Candidates, TreeIsSound
    <3>3. intc_psr[e.irq].PRIN = e.priority /\ selected_irq_num'[p] = e.irq
      BY <1>1, <3>1, <3>2 DEF Mirror, TypeOK
    <3> QED
      BY <1>1, <2>1, <2>4, <3>2, <3>3, RaisedSame DEF SelectedBeats
  <2> QED
    BY <1>8, <2>2, <2>3, <2>4 DEF IRQ_Select_Process
<1>9. ASSUME NEW p \in Processors, IRQ_B_Process(p) \/ Delta, UNCHANGED cores
      PROVE  SelectedBeats(q)' /\ RaisedOf(q)'
  BY <1>5, <1>9 DEF IRQ_B_Process, Delta, priority, output, cores
<1>10. CASE HandlerTick
  BY <1>5, <1>10 DEF HandlerTick, Tick, priority
<1>11. CASE UNCHANGED hvars
  BY <1>5, <1>11 DEF hvars, vars, cores, priority, output
<1> QED
  BY <1>6, <1>7, <1>8, <1>9, <1>10, <1>11 DEF HandlerNext, Kernel

LEMMA NestInit == HandlerInit => NestInv
<1> SUFFICES ASSUME HandlerInit PROVE NestInv
  OBVIOUS
<1>1. /\ \A p \in Processors : boot[p] = "ack" /\ priority_tree[p] = {}
      /\ \A i \in IRQs : intc_psr[i].PRIN = 0 /\ intc_psr[i].PRC_SELN = {}
  BY DEF HandlerInit, Init, PSRReset
<1> QED
  BY <1>1, LinesInit DEF NestInv, TreeIsSound, Mirror, SetupIsKept, SelectedBeats, RaisedOf

\* The trees are sound with the cores setting them up, in whatever order.
THEOREM HandlerTreesSound == HandlerSpec => []TreeIsSound
<1>1. HandlerInit => LinesInv /\ TreeIsSound
  BY LinesInit, NestInit DEF NestInv
<1>2. LinesInv /\ TreeIsSound /\ [HandlerNext]_hvars => LinesInv' /\ TreeIsSound'
  BY LinesStep, TreesStep
<1> QED
  BY <1>1, <1>2, PTL DEF HandlerSpec

\* A source that could be signalled always has a selection coming, and a line to
\* update an update, with the cores taking, acknowledging and ending interrupts.
THEOREM HandlerNothingMissed == HandlerSpec => [](NoMissedSelection /\ NoMissedOutput)
<1>1. HandlerInit => LinesInv /\ NoMissedSelection /\ NoMissedOutput
  <2> SUFFICES ASSUME HandlerInit PROVE NoMissedSelection /\ NoMissedOutput
    BY LinesInit
  <2>1. /\ \A p \in Processors : irq_b[p] = FALSE /\ p_out[p].irq_b = FALSE
        /\ irqs = {}
    BY DEF HandlerInit, Init
  <2> QED
    BY <2>1 DEF NoMissedSelection, NoMissedOutput
<1>2. LinesInv /\ NoMissedSelection /\ NoMissedOutput /\ [HandlerNext]_hvars
      => LinesInv' /\ NoMissedSelection' /\ NoMissedOutput'
  BY LinesStep, NothingMissedStep
<1> QED
  BY <1>1, <1>2, PTL DEF HandlerSpec

\* A handler is interrupted only for a higher priority, however the cores boot,
\* as long as they agree on the priorities of the sources they share.
THEOREM HandlersRise ==
  ASSUME SetupAgrees
  PROVE  HandlerSpec => []NestingRaisesPriority
<1>1. NestInv => NestingRaisesPriority
  <2> SUFFICES ASSUME NestInv, NEW p \in Processors, boot[p] = "done", NEW k \in 1 .. Len(lifo[p]) - 1
               PROVE  (<<intc_cpr[p]>> \o lifo[p])[k] > (<<intc_cpr[p]>> \o lifo[p])[k + 1]
    BY DEF NestingRaisesPriority
  <2>1. lifo[p] \in Seq(Nat) /\ intc_cpr[p] \in Nat /\ Rising(intc_cpr[p], lifo[p])
    BY LevelsAreNumbers DEF NestInv, LinesInv, StackInv, StackOf, HandlerTypeOK, TypeOK, Priorities, RaisedOf
  <2>2. CASE k = 1
    BY <2>1, <2>2 DEF Rising
  <2>3. CASE k # 1
    <3>1. k - 1 \in 1 .. Len(lifo[p]) - 2
      BY <2>1, <2>3
    <3>2. lifo[p][k - 1] > lifo[p][(k - 1) + 1]
      BY <2>1, <3>1 DEF Rising
    <3> QED
      BY <2>1, <2>3, <3>2
  <2> QED
    BY <2>2, <2>3
<1> QED
  BY <1>1, NestInit, NestStep, PTL DEF HandlerSpec

\* A core nests no deeper than there are priorities: its LIFO holds one more than
\* MAX_PRIORITY_LEVEL entries at the most (IRQAcknowledge), and no request beats
\* the current priority then, so that a MaxDepth that is not lower bounds nothing.
NestingIsBounded ==
  \A p \in Processors : boot[p] = "done" => Len(lifo[p]) <= MaxPriority + 1

\* The LIFO of no core outgrows the priorities.
THEOREM HandlersAreBounded ==
  ASSUME SetupAgrees
  PROVE  HandlerSpec => []NestingIsBounded
<1>1. NestInv => NestingIsBounded
  <2> SUFFICES ASSUME NestInv, NEW p \in Processors, boot[p] = "done" PROVE Len(lifo[p]) <= MaxPriority + 1
    BY DEF NestingIsBounded
  <2>1. lifo[p] \in Seq(Priorities) /\ intc_cpr[p] \in Priorities /\ intc_cpr[p] >= Len(lifo[p]) - 1
    BY DEF NestInv, LinesInv, StackInv, StackOf, HandlerTypeOK, TypeOK, RaisedOf, Rising
  <2> QED
    BY <2>1, PriorityAssumption DEF Priorities
<1> QED
  BY <1>1, NestInit, NestStep, PTL DEF HandlerSpec
=============================================================================
