----------------------------- MODULE Sema4Driver -----------------------------
(***************************************************************************)
(* The cores of the MPC5777M running the semaphore driver of the system    *)
(* library (soft/libsys/src/drv/sema4.c) on the SEMA42 device.  The master *)
(* id of a core on the bus is its processor number (simulator.cc), so that *)
(* GTFSM = core + 1 names the core for the driver and for the device.      *)
(*                                                                         *)
(* pc[m] is the statement of the driver core m executes; a statement that  *)
(* touches the device issues one access and ends when it returns.          *)
(***************************************************************************)
EXTENDS Sema42

CONSTANTS NO_PPC_WAIT,  \* compiled with PPC_WAIT expanded to nothing?
          Resetters,    \* cores that call sema4_reset_gate
          MaxResets     \* bound on the calls each of them makes

ASSUME PpcWaitAssumption   == NO_PPC_WAIT \in BOOLEAN
ASSUME ResettersAssumption == Resetters \subseteq Masters /\ MaxResets \in Nat

VARIABLES pc,       \* pc[m]: statement of the driver, or "idle"
          arg,      \* arg[m]: gate number the function was called with
          rstgdp,   \* rstgdp[m]: data pattern sema4_reset_gate is about to write
          resets,   \* resets[m]: calls of sema4_reset_gate made so far
          held,     \* held[m]: gates sema4_lock_gate gave m and m has not unlocked
          unfreed   \* unfreed[m]: the gate m is resetting has not been free since the call

driver == <<pc, arg, rstgdp, resets, held, unfreed>>
dvars  == <<vars, driver>>

LockLines   == {"trylock_write", "trylock_read", "wait"}
UnlockLines == {"unlock_read", "unlock_write"}
ResetLines  == {"reset_read", "reset_write", "reset_check"}

AllGates    == MaxGates   \* sema4_reset_all_gates resets "gate" 64
ResetNumbers == Gates \union {AllGates}

DriverInit ==
  /\ Init
  /\ pc = [m \in Masters |-> "idle"]
  /\ arg = [m \in Masters |-> 0]
  /\ rstgdp = [m \in Masters |-> 0]
  /\ resets = [m \in Masters |-> 0]
  /\ held = [m \in Masters |-> {}]
  /\ unfreed = [m \in Masters |-> FALSE]

-----------------------------------------------------------------------------
WriteGate(g, value) == [op |-> "write_gates", data |-> [i \in {g} |-> value]]
ReadGate(g)         == [op |-> "read_gates", addresses |-> {g}]
ReadRSTGT           == [op |-> "read_rstgt"]
WriteRSTGT(dp, tn)  == [op |-> "write_rstgt", data |-> [RSTGDP |-> dp, RSTGTN |-> tn]]

\* The access of the statement core m executes.
Statement(m) ==
  CASE pc[m] = "trylock_write"                 -> WriteGate(arg[m], m + 1)
    [] pc[m] \in {"trylock_read", "unlock_read"} -> ReadGate(arg[m])
    [] pc[m] = "unlock_write"                  -> WriteGate(arg[m], 0)
    [] pc[m] \in {"reset_read", "reset_check"} -> ReadRSTGT
    [] pc[m] = "reset_write"                   -> WriteRSTGT(rstgdp[m], arg[m])

\* Has the gate numbered n been freed (all of them, for AllGates)?
Free(n, gates) == \A g \in Gates : n \in {g, AllGates} => gates[g] = 0

Call(m, line, n) ==
  /\ pc[m] = "idle"
  /\ pc' = [pc EXCEPT ![m] = line]
  /\ arg' = [arg EXCEPT ![m] = n]
  /\ UNCHANGED <<vars, rstgdp>>

\* sema4_lock_gate: the gate is tried at once.
sema4_lock_gate(m, g) ==
  Call(m, "trylock_write", g) /\ UNCHANGED <<held, resets, unfreed>>

\* sema4_unlock_gate: from here on the caller has left its critical section.
sema4_unlock_gate(m, g) ==
  /\ Call(m, "unlock_read", g)
  /\ held' = [held EXCEPT ![m] = @ \ {g}]
  /\ UNCHANGED <<resets, unfreed>>

\* sema4_reset_gate, and sema4_reset_all_gates when n is AllGates.
sema4_reset_gate(m, n) ==
  /\ m \in Resetters
  /\ resets[m] < MaxResets
  /\ Call(m, "reset_read", n)
  /\ resets' = [resets EXCEPT ![m] = @ + 1]
  /\ unfreed' = [unfreed EXCEPT ![m] = ~Free(n, gate)]
  /\ UNCHANGED held

\* The statement starts its access.
Issue(m) ==
  /\ pc[m] \notin {"idle", "wait"}
  /\ b_transport(m, Statement(m))
  /\ UNCHANGED driver

\* The device runs the access.
DeviceProcess(m) ==
  /\ Process(m)
  /\ unfreed' = [n \in Masters |-> unfreed[n] /\ ~Free(arg[n], gate')]
  /\ UNCHANGED <<pc, arg, rstgdp, resets, held>>

\* The access returns and the statement ends.
Return(m, line, next) ==
  /\ pc[m] = line
  /\ b_transport_return(m)
  /\ pc' = [pc EXCEPT ![m] = next]
  /\ UNCHANGED <<arg, resets, unfreed>>

\* Mutant of Mine: the gate is locked, by anyone.
Mine_Locked(m) == response[m].value[arg[m]] # 0

\* Does the gate read show this core as the owner?
Mine(m) == response[m].value[arg[m]] = m + 1

TrylockWritten(m) == Return(m, "trylock_write", "trylock_read") /\ UNCHANGED <<held, rstgdp>>

TrylockRead(m) ==
  \/ /\ Return(m, "trylock_read", "idle")
     /\ Mine(m)
     /\ held' = [held EXCEPT ![m] = @ \union {arg[m]}]
     /\ UNCHANGED rstgdp
  \/ /\ Return(m, "trylock_read", "wait")
     /\ ~Mine(m)
     /\ UNCHANGED <<held, rstgdp>>

\* PPC_WAIT ends: at once when it expands to nothing, otherwise when an
\* interrupt comes.
Retry(m) ==
  /\ pc[m] = "wait"
  /\ pc' = [pc EXCEPT ![m] = "trylock_write"]
  /\ UNCHANGED <<vars, arg, rstgdp, resets, held, unfreed>>

\* Mutant of UnlockRead: the function ends without giving the gate back.
UnlockRead_NoWrite(m) == Return(m, "unlock_read", "idle") /\ UNCHANGED <<held, rstgdp>>

UnlockRead(m) ==
  /\ \/ Return(m, "unlock_read", "unlock_write") /\ Mine(m)
     \/ Return(m, "unlock_read", "idle") /\ ~Mine(m)
  /\ UNCHANGED <<held, rstgdp>>

UnlockWritten(m) == Return(m, "unlock_write", "idle") /\ UNCHANGED <<held, rstgdp>>

\* Mutant of ResetRead: the state of the machine is not looked at.
ResetRead_FirstKey(m) ==
  /\ Return(m, "reset_read", "reset_write")
  /\ rstgdp' = [rstgdp EXCEPT ![m] = RESET_GATE_KEY1]
  /\ UNCHANGED held

\* The next data pattern follows from the state of the machine.
ResetRead(m) ==
  /\ Return(m, "reset_read", "reset_write")
  /\ rstgdp' = [rstgdp EXCEPT ![m] =
                  IF response[m].RSTGSM = RSTGSM_WAITING_2ND_WRITE THEN RESET_GATE_KEY2 ELSE RESET_GATE_KEY1]
  /\ UNCHANGED held

ResetWritten(m) == Return(m, "reset_write", "reset_check") /\ UNCHANGED <<held, rstgdp>>

\* Mutant of ResetCheck: the loop ends whoever reset last.
ResetCheck_NoMaster(m) == Return(m, "reset_check", "idle") /\ UNCHANGED <<held, rstgdp>>

\* The loop ends when the device names this core as the resetting master.
ResetCheck(m) ==
  /\ \/ Return(m, "reset_check", "idle") /\ response[m].RSTGMS = m
     \/ Return(m, "reset_check", "reset_read") /\ response[m].RSTGMS # m
  /\ UNCHANGED <<held, rstgdp>>

Resume(m) == \/ TrylockWritten(m) \/ TrylockRead(m)
             \/ UnlockRead(m) \/ UnlockWritten(m)
             \/ ResetRead(m) \/ ResetWritten(m) \/ ResetCheck(m)

LockCall(m) == \E g \in Gates : sema4_lock_gate(m, g) \/ sema4_unlock_gate(m, g)
Run(m)      == Issue(m) \/ DeviceProcess(m) \/ Resume(m) \/ Retry(m)

\* The cores lock and unlock gates; nobody resets one.
LockNext == \E m \in Masters : LockCall(m) \/ Run(m)

DriverNext == \/ LockNext
              \/ \E m \in Masters, n \in ResetNumbers : sema4_reset_gate(m, n)

\* A core keeps executing and the device keeps answering; with the PPC_WAIT
\* instruction nothing promises that an interrupt ends the wait.
DriverFairness ==
  \A m \in Masters : /\ WF_dvars(Issue(m)) /\ WF_dvars(DeviceProcess(m)) /\ WF_dvars(Resume(m))
                     /\ NO_PPC_WAIT => WF_dvars(Retry(m))

LockSpec   == DriverInit /\ [][LockNext]_dvars /\ DriverFairness
DriverSpec == DriverInit /\ [][DriverNext]_dvars /\ DriverFairness

-----------------------------------------------------------------------------
\* Two cores never both come out of sema4_lock_gate with the same gate.
MutualExclusion ==
  \A m, n \in Masters : m # n => held[m] \intersect held[n] = {}

\* A gate some core is waiting for does not stay unused: some core comes out
\* of sema4_lock_gate with it (the while loop of sema4.c:59-65).
Wants(m, g) == pc[m] \in LockLines /\ arg[m] = g
GateIsGranted ==
  \A g \in Gates : (\E m \in Masters : Wants(m, g)) ~> (\E m \in Masters : g \in held[m])

\* RSTGMS tells of a reset of this call: it has not the number of the core from
\* a reset of the device (0) or from an earlier call.
FirstResets == Resetters \subseteq 1 .. 15 /\ MaxResets <= 1

\* When sema4_reset_gate returns, the gate has been free at some moment since
\* the call (sema4.c:76-98, and the boot check of sys.c:340-342).
ResetGateFrees ==
  [][\A m \in Masters : pc[m] = "reset_check" /\ pc'[m] = "idle" => ~unfreed[m]]_dvars

\* sema4_reset_gate returns.
ResetReturns == \A m \in Masters : pc[m] \in ResetLines ~> pc[m] = "idle"
=============================================================================
