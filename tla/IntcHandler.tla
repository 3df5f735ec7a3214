---------------------------- MODULE IntcHandler ----------------------------
(***************************************************************************)
(* The cores of the MPC5777M serving interrupts in software vector mode:   *)
(* intc_init at boot (soft/libsys/src/drv/intc.c), IVOR4_Handler           *)
(* (soft/libsys/src/core/intc_sw_handlers.S) and the external interrupt    *)
(* input of the e200 core.  Handlers nest: frames[p] holds, innermost      *)
(* first, the interrupts core p is serving.  A core that has made an       *)
(* access is busy for a cycle.                                             *)
(***************************************************************************)
EXTENDS Intc, FiniteSets

CONSTANT Setup      \* Setup[p]: the INTC_PSRn core p writes at boot

ASSUME SetupAssumption == /\ Processors \subseteq Masters
                          /\ Setup \in [Processors -> UNION {[D -> PSR] : D \in SUBSET IRQs}]

VARIABLES boot,     \* boot[p]: next step of the start-up code, or "done"
          frames,   \* frames[p]: nested runs of IVOR4_Handler, each with its step and its vector
          busy      \* busy[p]: an access of p has not completed

cores == <<boot, frames, busy>>
hvars == <<vars, cores>>

NoVector == NumSwIrqs + NumHwIrqs

HandlerInit ==
  /\ Init
  /\ boot = [p \in Processors |-> "ack"]
  /\ frames = [p \in Processors |-> <<>>]
  /\ busy = [p \in Processors |-> FALSE]

-----------------------------------------------------------------------------
\* Core p makes an access to a register.
CoreAccess(p) ==
  /\ ~busy[p]
  /\ busy' = [busy EXCEPT ![p] = TRUE]
  /\ UNCHANGED <<kernel, acts>>

BootStep(p, step, next) ==
  /\ boot[p] = step
  /\ boot' = [boot EXCEPT ![p] = next]
  /\ CoreAccess(p)
  /\ UNCHANGED frames

\* intc_init, then the settings of the interrupts; interrupts are enabled last.
intc_acknowledge_interrupt(p)    == BootStep(p, "ack", "cpr") /\ ReadIACKR(p)
intc_set_current_irq_priority(p) == BootStep(p, "cpr", "psr") /\ WriteCPR(p, 0)
intc_select_irq(p)               == BootStep(p, "psr", "done") /\ WritePSR(Setup[p])

\* The step of the innermost handler of p.
Step(p) == IF frames[p] = <<>> THEN "background" ELSE Head(frames[p]).step

\* MSR[EE]: set in the background and from wrteei 1 to wrteei 0.
EE(p) == boot[p] = "done" /\ Step(p) \in {"background", "isr", "served"}

\* The core samples its request line low and branches to IVOR4_Handler.
TakeInterrupt(p) ==
  /\ EE(p)
  /\ ~busy[p]
  /\ ~p_out[p].irq_b
  /\ frames' = [frames EXCEPT ![p] = <<[vector |-> NoVector, step |-> "iackr"]>> \o @]
  /\ UNCHANGED <<vars, boot, busy>>

\* The innermost handler of p goes from one step to the next.
Advance(p, step, next) ==
  /\ Step(p) = step
  /\ frames' = [frames EXCEPT ![p][1].step = next]
  /\ UNCHANGED boot

\* The prologue reads the vector, then sets MSR[EE] again.
Prologue(p) ==
  /\ Step(p) = "iackr"
  /\ frames' = [frames EXCEPT ![p][1] = [vector |-> intc_iack[p], step |-> "isr"]]
  /\ UNCHANGED boot
  /\ CoreAccess(p)
  /\ ReadIACKR(p)

\* The ISR clears the source of its vector, when it finds it set.
ISR(p) ==
  LET i == Head(frames[p]).vector
  IN  /\ Advance(p, "isr", "served")
      /\ CoreAccess(p)
      /\ \/ i \in intc_sscir /\ WriteSSCIR(p, [j \in {i} |-> [SET |-> FALSE, CLR |-> TRUE]])
         \/ i \in hw_irq /\ HW_IRQ_Process(i)
         \/ i \notin intc_sscir \union hw_irq /\ Refused

\* Mutant of Epilogue: the handler returns without the end of interrupt.
Epilogue_NoEOI(p) ==
  /\ Advance(p, "served", "rfi")
  /\ CoreAccess(p)
  /\ Refused

\* The epilogue clears MSR[EE] and writes INTC_EOIR.
Epilogue(p) ==
  /\ Advance(p, "served", "rfi")
  /\ CoreAccess(p)
  /\ WriteEOIR(p)

\* se_rfi returns to what was interrupted.
ReturnFromInterrupt(p) ==
  /\ ~busy[p]
  /\ Step(p) = "rfi"
  /\ frames' = [frames EXCEPT ![p] = Tail(@)]
  /\ UNCHANGED <<vars, boot, busy>>

CoreStep(p) == \/ intc_acknowledge_interrupt(p) \/ intc_set_current_irq_priority(p) \/ intc_select_irq(p)
               \/ TakeInterrupt(p) \/ Prologue(p) \/ ISR(p) \/ Epilogue(p) \/ ReturnFromInterrupt(p)

\* A source that is not pending is raised: a device drives its line, or some
\* core writes SET.
Raise(i) ==
  /\ acts < MaxActs
  /\ acts' = acts + 1
  /\ i \notin irqs
  /\ \/ i \in SwIrqs /\ WriteSSCIR(0, [j \in {i} |-> [SET |-> TRUE, CLR |-> FALSE]])
     \/ i \in HwIrqs /\ HW_IRQ_Process(i)
  /\ UNCHANGED <<kernel, cores>>

\* Accesses complete as time passes.
HandlerTick ==
  /\ Tick
  /\ busy' = [p \in Processors |-> FALSE]
  /\ UNCHANGED <<boot, frames>>

Kernel == (\E p \in Processors : IRQ_Select_Process(p) \/ IRQ_B_Process(p)) \/ Delta

HandlerNext == \/ \E p \in Processors : CoreStep(p)
               \/ \E i \in IRQs : Raise(i)
               \/ Kernel /\ UNCHANGED cores
               \/ HandlerTick

\* The cores run, the kernel runs what is runnable, and time advances.
HandlerFairness ==
  /\ \A p \in Processors : WF_hvars(CoreStep(p))
  /\ WF_hvars(Kernel /\ UNCHANGED cores)
  /\ WF_hvars(HandlerTick)

HandlerSpec == HandlerInit /\ [][HandlerNext]_hvars /\ HandlerFairness

-----------------------------------------------------------------------------
Acknowledged(p) == {k \in 1 .. Len(frames[p]) : frames[p][k].step \in {"isr", "served"}}

\* The LIFO of a core holds one priority per handler between its read of
\* INTC_IACKR and its write of INTC_EOIR, over the one the start-up code pushed:
\* no end of interrupt ever finds it empty (EndOfInterrupt pops it blindly).
LifoMatchesFrames ==
  \A p \in Processors :
    /\ lifo[p] # Corrupt
    /\ Len(lifo[p]) = Cardinality(Acknowledged(p)) + (IF boot[p] = "ack" THEN 0 ELSE 1)

\* The cores agree on the priorities of the sources they share.
SetupAgrees ==
  \A p, q \in Processors : \A i \in DOMAIN Setup[p] \intersect DOMAIN Setup[q] :
    Setup[p][i].PRIN = Setup[q][i].PRIN

\* A handler is interrupted only for a higher priority: the saved priorities
\* grow with the nesting, up to the current one (IRQAcknowledge).
NestingRaisesPriority ==
  \A p \in Processors :
    boot[p] = "done" =>
      LET levels == <<intc_cpr[p]>> \o lifo[p]
      IN  \A k \in 1 .. Len(lifo[p]) - 1 : levels[k] > levels[k + 1]

\* A source of the highest priority that is pending is served, whatever the
\* others do, through the wrong vectors of the acknowledge race too.
Highest(i) == \E p \in Processors : /\ p \in intc_psr[i].PRC_SELN
                                    /\ \A j \in IRQs \ {i} : intc_psr[j].PRIN < intc_psr[i].PRIN
HighestIsServed == \A i \in IRQs : i \in irqs /\ Highest(i) ~> i \notin irqs
=============================================================================
