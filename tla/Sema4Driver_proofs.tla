------------------------- MODULE Sema4Driver_proofs -------------------------
(***************************************************************************)
(* The semaphore driver, for any set of cores and any number of gates.     *)
(*                                                                         *)
(* When no gate is reset, two cores never hold one gate.  MutualExclusion  *)
(* says nothing of the device, so it is not inductive.  LockInv ties each  *)
(* core to the device: a held gate names its holder, the read of           *)
(* sema4_trylock_gate tells the truth until it is collected (no other core *)
(* can have changed the gate in between), and the only access that frees a *)
(* gate comes from a core that no longer holds it.                         *)
(*                                                                         *)
(* When cores reset gates, ResetInv ties the name of the resetting master  *)
(* to the reset it tells of.                                               *)
(***************************************************************************)
EXTENDS Sema4Driver, TLAPS

StatesOK ==
  /\ gate \in [Gates -> Nat]
  /\ schedule = [m \in Masters |-> schedule[m]]
  /\ response = [m \in Masters |-> response[m]]
  /\ pc \in [Masters -> {"idle"} \union LockLines \union UnlockLines]
  /\ arg \in [Masters -> Gates]
  /\ held \in [Masters -> SUBSET Gates]

\* Core m and its access in flight.
InFlight(m) ==
  /\ schedule[m] # None => /\ response[m] = None
                           /\ pc[m] \notin {"idle", "wait"}
                           /\ schedule[m] = Statement(m)
  /\ response[m] # None => pc[m] \notin {"idle", "wait"}

ReadIsTrue(m) ==
  pc[m] = "trylock_read" /\ response[m] # None /\ Mine(m) => gate[arg[m]] = m + 1

HolderOwns(m) ==
  /\ \A g \in held[m] : gate[g] = m + 1
  /\ pc[m] \in UnlockLines => arg[m] \notin held[m]

LockInv == StatesOK /\ \A m \in Masters : InFlight(m) /\ ReadIsTrue(m) /\ HolderOwns(m)

-----------------------------------------------------------------------------
LEMMA ZeroIsAGate == 0 \in Gates
BY GatesAssumption DEF Gates

\* LockInv says that no two cores hold one gate.
LEMMA LockInvExcludes == LockInv => MutualExclusion
<1> SUFFICES ASSUME LockInv, NEW m \in Masters, NEW n \in Masters, m # n,
                    NEW g \in held[m] \intersect held[n]
             PROVE  FALSE
  BY DEF MutualExclusion
<1>1. gate[g] = m + 1 /\ gate[g] = n + 1
  BY DEF LockInv, HolderOwns
<1>2. m \in Nat /\ n \in Nat
  BY MastersAssumption
<1>3. QED
  BY <1>1, <1>2

LEMMA LockInvInit == DriverInit => LockInv
BY ZeroIsAGate DEF DriverInit, Init, GatesReset, Nibble, LockInv, StatesOK, InFlight, ReadIsTrue,
                   HolderOwns, LockLines, UnlockLines

\* The accesses of the lock and unlock statements.
LEMMA StatementShape ==
  ASSUME LockInv, NEW m \in Masters, pc[m] \notin {"idle", "wait"}
  PROVE  /\ Statement(m) # None
         /\ pc[m] = "trylock_write" => Statement(m) = WriteGate(arg[m], m + 1)
         /\ pc[m] = "unlock_write" => Statement(m) = WriteGate(arg[m], 0)
         /\ pc[m] \in {"trylock_read", "unlock_read"} => Statement(m) = ReadGate(arg[m])
<1>1. pc[m] \in {"trylock_write", "trylock_read", "unlock_read", "unlock_write"}
  BY DEF LockInv, StatesOK, LockLines, UnlockLines
<1>2. /\ pc[m] = "trylock_write" => Statement(m) = WriteGate(arg[m], m + 1)
      /\ pc[m] = "unlock_write" => Statement(m) = WriteGate(arg[m], 0)
      /\ pc[m] \in {"trylock_read", "unlock_read"} => Statement(m) = ReadGate(arg[m])
  BY DEF Statement
<1>3. QED
  BY <1>1, <1>2 DEF WriteGate, ReadGate, None

\* What running an access of core m does to the gates: only the gate of a
\* write changes, and only as GateFSM says.
LEMMA DeviceAccess ==
  ASSUME LockInv, NEW m \in Masters, Process(m)
  PROVE  /\ pc[m] \notin {"idle", "wait"}
         /\ schedule' = [schedule EXCEPT ![m] = None]
         /\ \E outcome : response' = [response EXCEPT ![m] = outcome]
         /\ \/ /\ pc[m] \in {"trylock_read", "unlock_read"}
               /\ gate' = gate
               /\ response'[m].value[arg[m]] = gate[arg[m]]
            \/ \E value \in Nat :
                 /\ \/ pc[m] = "trylock_write" /\ value = m + 1
                    \/ pc[m] = "unlock_write" /\ value = 0
                 /\ gate' = [g \in Gates |-> IF g = arg[m] THEN GateFSM(gate[g], m, value) ELSE gate[g]]
<1>1. schedule[m] # None
  BY DEF Process, None
<1>2. pc[m] \notin {"idle", "wait"} /\ schedule[m] = Statement(m)
  BY <1>1 DEF LockInv, InFlight
<1>3. pc[m] \in {"trylock_write", "trylock_read", "unlock_read", "unlock_write"} /\ arg[m] \in Gates
  BY <1>2 DEF LockInv, StatesOK, LockLines, UnlockLines
<1>4. schedule' = [schedule EXCEPT ![m] = None]
  BY DEF Process
<1>5. CASE pc[m] \in {"trylock_read", "unlock_read"}
  <2>1. schedule[m] = ReadGate(arg[m])
    BY <1>2, <1>5, StatementShape
  <2>2. ReadGates(m, {arg[m]})
    BY <2>1 DEF Process, ReadGate
  <2> DEFINE outcome == [op |-> "gates", status |-> Status({arg[m]}),
                         value |-> [g \in {arg[m]} \intersect Gates |-> gate[g]]]
  <2>3. response' = [response EXCEPT ![m] = outcome]
    BY <2>2 DEF ReadGates
  <2>4. response'[m] = outcome
    BY <2>3 DEF LockInv, StatesOK
  <2>5. gate' = gate
    BY <2>2 DEF ReadGates, registers
  <2>6. outcome.value[arg[m]] = gate[arg[m]]
    BY <1>3
  <2> HIDE DEF outcome
  <2>7. \E o : response' = [response EXCEPT ![m] = o]
    BY <2>3
  <2>8. response'[m].value[arg[m]] = gate[arg[m]]
    BY <2>4, <2>6
  <2>9. QED
    BY <1>2, <1>4, <1>5, <2>5, <2>7, <2>8
<1>6. ASSUME NEW value \in Nat,
             \/ pc[m] = "trylock_write" /\ value = m + 1
             \/ pc[m] = "unlock_write" /\ value = 0
      PROVE  /\ \E outcome : response' = [response EXCEPT ![m] = outcome]
             /\ gate' = [g \in Gates |-> IF g = arg[m] THEN GateFSM(gate[g], m, value) ELSE gate[g]]
  <2>1. schedule[m] = WriteGate(arg[m], value)
    BY <1>2, <1>6, StatementShape
  <2>2. WriteGates(m, [i \in {arg[m]} |-> value])
    BY <2>1 DEF Process, WriteGate
  <2>3. QED
    BY <2>2 DEF WriteGates
<1>7. m + 1 \in Nat /\ 0 \in Nat
  BY MastersAssumption
<1>8. QED
  BY <1>2, <1>3, <1>4, <1>5, <1>6, <1>7

-----------------------------------------------------------------------------
\* A gate another core holds, or has just read as its own, stays its own.
LEMMA OthersKeepGate ==
  ASSUME LockInv, NEW m \in Masters, Process(m),
         NEW n \in Masters, m # n, NEW g \in Gates, gate[g] = n + 1
  PROVE  gate'[g] = n + 1
<1>1. m \in Nat /\ n \in Nat
  BY MastersAssumption
<1>2. gate' = gate \/ \E value : gate'[g] = GateFSM(gate[g], m, value) \/ gate'[g] = gate[g]
  BY DeviceAccess
<1>3. QED
  BY <1>1, <1>2 DEF GateFSM

\* A core that holds a gate does not free it.
LEMMA HolderKeepsGate ==
  ASSUME LockInv, NEW m \in Masters, Process(m), NEW g \in held[m]
  PROVE  gate'[g] = m + 1
<1>1. gate[g] = m + 1 /\ g \in Gates /\ m \in Nat
  BY MastersAssumption DEF LockInv, StatesOK, HolderOwns
<1>2. CASE gate' = gate
  BY <1>1, <1>2
<1>3. ASSUME NEW value \in Nat,
             \/ pc[m] = "trylock_write" /\ value = m + 1
             \/ pc[m] = "unlock_write" /\ value = 0,
             gate' = [h \in Gates |-> IF h = arg[m] THEN GateFSM(gate[h], m, value) ELSE gate[h]]
      PROVE  gate'[g] = m + 1
  <2>1. CASE g # arg[m]
    BY <1>1, <1>3, <2>1
  <2>2. CASE g = arg[m]
    <3>1. pc[m] # "unlock_write"
      BY <2>2 DEF LockInv, HolderOwns, UnlockLines
    <3>2. value = m + 1
      BY <1>3, <3>1
    <3>3. GateFSM(gate[g], m, value) = m + 1
      BY <1>1, <3>2 DEF GateFSM
    <3>4. QED
      BY <1>1, <1>3, <2>2, <3>3
  <2>3. QED
    BY <2>1, <2>2
<1>4. QED
  BY <1>2, <1>3, DeviceAccess

\* Every step of the cores and of the device keeps LockInv.
LEMMA LockInvProcess ==
  ASSUME LockInv, NEW m \in Masters, DeviceProcess(m)
  PROVE  LockInv'
<1>1. Process(m) /\ UNCHANGED <<pc, arg, held, rstgdp>>
  BY DEF DeviceProcess
<1>2. PICK outcome : response' = [response EXCEPT ![m] = outcome]
  BY <1>1, DeviceAccess
<1>3. schedule' = [schedule EXCEPT ![m] = None] /\ pc[m] \notin {"idle", "wait"}
  BY <1>1, DeviceAccess
<1>4. StatesOK'
  <2>1. gate' \in [Gates -> Nat]
    <3>1. gate \in [Gates -> Nat]
      BY DEF LockInv, StatesOK
    <3>2. CASE gate' = gate
      BY <3>1, <3>2
    <3>3. ASSUME NEW value \in Nat,
                 gate' = [h \in Gates |-> IF h = arg[m] THEN GateFSM(gate[h], m, value) ELSE gate[h]]
          PROVE  gate' \in [Gates -> Nat]
      BY <3>1, <3>3 DEF GateFSM
    <3>4. QED
      BY <1>1, <3>2, <3>3, DeviceAccess
  <2>2. schedule' = [n \in Masters |-> schedule'[n]] /\ response' = [n \in Masters |-> response'[n]]
    BY <1>2, <1>3 DEF LockInv, StatesOK
  <2>3. QED
    BY <1>1, <2>1, <2>2 DEF LockInv, StatesOK
<1>5. ASSUME NEW n \in Masters
      PROVE  InFlight(n)'
  <2>1. schedule'[m] = None /\ \A k \in Masters \ {m} : schedule'[k] = schedule[k] /\ response'[k] = response[k]
    BY <1>2, <1>3 DEF LockInv, StatesOK
  <2>2. CASE n = m
    BY <1>1, <1>3, <2>1, <2>2 DEF InFlight
  <2>3. CASE n # m
    BY <1>1, <2>1, <2>3 DEF LockInv, InFlight, Statement
  <2>4. QED
    BY <2>2, <2>3
<1>6. ASSUME NEW n \in Masters
      PROVE  ReadIsTrue(n)'
  <2>1. CASE n = m
    <3>1. SUFFICES ASSUME pc[m] = "trylock_read", response'[m].value[arg[m]] = m + 1
                   PROVE  gate'[arg[m]] = m + 1
      BY <1>1, <2>1 DEF ReadIsTrue, Mine
    <3>2. gate' = gate /\ response'[m].value[arg[m]] = gate[arg[m]]
      BY <1>1, <3>1, DeviceAccess
    <3>3. QED
      BY <3>1, <3>2
  <2>2. CASE n # m
    <3>1. response'[n] = response[n]
      BY <1>2, <2>2 DEF LockInv, StatesOK
    <3>2. SUFFICES ASSUME pc[n] = "trylock_read", response[n] # None, Mine(n)
                   PROVE  gate'[arg[n]] = n + 1
      BY <1>1, <3>1 DEF ReadIsTrue, Mine
    <3>3. gate[arg[n]] = n + 1 /\ arg[n] \in Gates
      BY <3>2 DEF LockInv, ReadIsTrue, StatesOK
    <3>4. QED
      BY <1>1, <2>2, <3>3, OthersKeepGate
  <2>3. QED
    BY <2>1, <2>2
<1>7. ASSUME NEW n \in Masters
      PROVE  HolderOwns(n)'
  <2>1. ASSUME NEW g \in held[n]
        PROVE  gate'[g] = n + 1
    <3>1. gate[g] = n + 1 /\ g \in Gates
      BY DEF LockInv, StatesOK, HolderOwns
    <3>2. CASE n = m
      BY <1>1, <2>1, <3>2, HolderKeepsGate
    <3>3. CASE n # m
      BY <1>1, <3>1, <3>3, OthersKeepGate
    <3>4. QED
      BY <3>2, <3>3
  <2>2. QED
    BY <1>1, <2>1 DEF LockInv, HolderOwns
<1>8. QED
  BY <1>4, <1>5, <1>6, <1>7 DEF LockInv

\* A call puts an idle core on the first line of a function; no access is in
\* flight for it.
LEMMA LockInvCall ==
  ASSUME LockInv, NEW m \in Masters, NEW g \in Gates, (sema4_lock_gate(m, g) \/ sema4_unlock_gate(m, g))
  PROVE  LockInv'
<1>1. PICK line \in {"trylock_write", "unlock_read"} :
        /\ pc[m] = "idle"
        /\ pc' = [pc EXCEPT ![m] = line]
        /\ arg' = [arg EXCEPT ![m] = g]
        /\ \/ held' = held /\ line = "trylock_write"
           \/ held' = [held EXCEPT ![m] = @ \ {g}]
  BY Zenon DEF sema4_lock_gate, sema4_unlock_gate, Call
<1>2. gate' = gate /\ schedule' = schedule /\ response' = response /\ rstgdp' = rstgdp
  BY DEF sema4_lock_gate, sema4_unlock_gate, Call, vars
<1>3. schedule[m] = None /\ response[m] = None
  BY <1>1 DEF LockInv, InFlight
<1>4. /\ pc'[m] = line /\ arg'[m] = g
      /\ \A n \in Masters \ {m} : pc'[n] = pc[n] /\ arg'[n] = arg[n] /\ held'[n] = held[n]
  BY <1>1 DEF LockInv, StatesOK
<1>5. \A n \in Masters : held'[n] \subseteq held[n]
  BY <1>1 DEF LockInv, StatesOK
<1>6. line # "trylock_write" => g \notin held'[m]
  BY <1>1 DEF LockInv, StatesOK
<1>7. StatesOK'
  BY <1>1, <1>2 DEF LockInv, StatesOK, LockLines, UnlockLines
<1>8. ASSUME NEW n \in Masters
      PROVE  InFlight(n)' /\ ReadIsTrue(n)' /\ HolderOwns(n)'
  <2>1. CASE n = m
    BY <1>1, <1>2, <1>3, <1>4, <1>5, <1>6, <2>1
    DEF LockInv, InFlight, ReadIsTrue, HolderOwns, UnlockLines
  <2>2. CASE n # m
    BY <1>2, <1>4, <2>2 DEF LockInv, InFlight, Statement, ReadIsTrue, Mine, HolderOwns
  <2>3. QED
    BY <2>1, <2>2
<1>9. QED
  BY <1>7, <1>8 DEF LockInv

LEMMA LockInvIssue ==
  ASSUME LockInv, NEW m \in Masters, Issue(m)
  PROVE  LockInv'
<1>1. /\ pc[m] \notin {"idle", "wait"}
      /\ schedule[m] = None /\ response[m] = None
      /\ schedule' = [schedule EXCEPT ![m] = Statement(m)]
      /\ UNCHANGED <<gate, response, pc, arg, rstgdp, held>>
  BY DEF Issue, b_transport, driver
<1>2. StatesOK'
  BY <1>1 DEF LockInv, StatesOK
<1>3. \A n \in Masters : schedule'[n] = IF n = m THEN Statement(m) ELSE schedule[n]
  BY <1>1 DEF LockInv, StatesOK
<1>4. ASSUME NEW n \in Masters
      PROVE  InFlight(n)'
  <2>1. Statement(n)' = Statement(n)
    BY <1>1 DEF Statement
  <2>2. QED
    BY <1>1, <1>3, <2>1 DEF LockInv, InFlight
<1>5. ASSUME NEW n \in Masters
      PROVE  ReadIsTrue(n)' /\ HolderOwns(n)'
  BY <1>1 DEF LockInv, ReadIsTrue, Mine, HolderOwns
<1>6. QED
  BY <1>2, <1>4, <1>5 DEF LockInv

\* A core collects its answer and goes to its next line.  It enters the set of
\* holders only on a read that is still true.
LEMMA LockInvResume ==
  ASSUME LockInv, NEW m \in Masters, Resume(m)
  PROVE  LockInv'
<1>1. pc[m] \notin ResetLines
  BY DEF LockInv, StatesOK, LockLines, UnlockLines, ResetLines
<1>2. TrylockWritten(m) \/ TrylockRead(m) \/ UnlockRead(m) \/ UnlockWritten(m)
  BY <1>1 DEF Resume, ResetRead, ResetWritten, ResetCheck, Return, ResetLines
<1>3. /\ response[m] # None
      /\ response' = [response EXCEPT ![m] = None]
      /\ UNCHANGED <<gate, schedule, arg, rstgdp>>
  BY <1>2 DEF TrylockWritten, TrylockRead, UnlockRead, UnlockWritten, Return, b_transport_return
<1>4. PICK next :
        /\ pc' = [pc EXCEPT ![m] = next]
        /\ next \in {"idle"} \union LockLines \union UnlockLines
        /\ next \in UnlockLines => pc[m] \in UnlockLines
        /\ \/ held' = held
           \/ next = "idle" /\ pc[m] = "trylock_read" /\ Mine(m) /\ held' = [held EXCEPT ![m] = @ \union {arg[m]}]
  BY <1>2 DEF TrylockWritten, TrylockRead, UnlockRead, UnlockWritten, Return, LockLines, UnlockLines
<1>5. schedule[m] = None
  BY <1>3 DEF LockInv, InFlight
<1>6. StatesOK'
  <2>1. held' \in [Masters -> SUBSET Gates]
    BY <1>4 DEF LockInv, StatesOK
  <2>2. pc' \in [Masters -> {"idle"} \union LockLines \union UnlockLines]
    BY <1>4 DEF LockInv, StatesOK
  <2>3. response' = [n \in Masters |-> response'[n]]
    BY <1>3 DEF LockInv, StatesOK
  <2>4. QED
    BY <1>3, <2>1, <2>2, <2>3 DEF LockInv, StatesOK
<1>7. /\ pc'[m] = next /\ response'[m] = None
      /\ \A n \in Masters \ {m} : pc'[n] = pc[n] /\ response'[n] = response[n] /\ held'[n] = held[n]
  BY <1>3, <1>4 DEF LockInv, StatesOK
<1>8. ASSUME NEW n \in Masters
      PROVE  InFlight(n)' /\ ReadIsTrue(n)'
  <2>1. CASE n = m
    BY <1>3, <1>5, <1>7, <2>1 DEF InFlight, ReadIsTrue
  <2>2. CASE n # m
    BY <1>3, <1>7, <2>2 DEF LockInv, InFlight, Statement, ReadIsTrue, Mine
  <2>3. QED
    BY <2>1, <2>2
<1>9. ASSUME NEW n \in Masters
      PROVE  HolderOwns(n)'
  <2>1. CASE n # m
    BY <1>3, <1>7, <2>1 DEF LockInv, HolderOwns
  <2>2. CASE n = m /\ held' = held
    BY <1>3, <1>4, <1>7, <2>2 DEF LockInv, HolderOwns
  <2>3. CASE n = m /\ held' # held
    <3>1. next = "idle" /\ pc[m] = "trylock_read" /\ Mine(m) /\ held'[m] = held[m] \union {arg[m]}
      BY <1>4, <2>3 DEF LockInv, StatesOK
    <3>2. gate[arg[m]] = m + 1
      BY <1>3, <3>1 DEF LockInv, ReadIsTrue
    <3>3. \A g \in held'[m] : gate'[g] = m + 1
      BY <1>3, <3>1, <3>2 DEF LockInv, HolderOwns
    <3>4. pc'[m] \notin UnlockLines
      BY <1>7, <3>1 DEF UnlockLines
    <3>5. QED
      BY <2>3, <3>3, <3>4 DEF HolderOwns
  <2>4. QED
    BY <2>1, <2>2, <2>3
<1>10. QED
  BY <1>6, <1>8, <1>9 DEF LockInv

LEMMA LockInvRetry ==
  ASSUME LockInv, NEW m \in Masters, Retry(m)
  PROVE  LockInv'
<1>1. /\ pc[m] = "wait"
      /\ pc' = [pc EXCEPT ![m] = "trylock_write"]
      /\ UNCHANGED <<gate, schedule, response, arg, rstgdp, held>>
  BY DEF Retry, vars
<1>2. schedule[m] = None /\ response[m] = None
  BY <1>1 DEF LockInv, InFlight
<1>3. pc'[m] = "trylock_write" /\ \A n \in Masters \ {m} : pc'[n] = pc[n]
  BY <1>1 DEF LockInv, StatesOK
<1>4. StatesOK'
  BY <1>1 DEF LockInv, StatesOK, LockLines
<1>5. ASSUME NEW n \in Masters
      PROVE  InFlight(n)' /\ ReadIsTrue(n)' /\ HolderOwns(n)'
  BY <1>1, <1>2, <1>3 DEF LockInv, InFlight, Statement, ReadIsTrue, Mine, HolderOwns, UnlockLines
<1>6. QED
  BY <1>4, <1>5 DEF LockInv

-----------------------------------------------------------------------------
\* Whatever the number of cores and gates and the interleaving of their
\* accesses, two cores never both come out of sema4_lock_gate with one gate
\* (sema4.c:52-74 on GateFSM of sema42.tcc), as long as no gate is reset.
THEOREM MutualExclusionHolds == LockSpec => []MutualExclusion
<1>1. DriverInit => LockInv
  BY LockInvInit
<1>2. LockInv /\ [LockNext]_dvars => LockInv'
  <2>1. ASSUME LockInv, NEW m \in Masters, LockCall(m) \/ Run(m)
        PROVE  LockInv'
    BY <2>1, LockInvCall, LockInvProcess, LockInvIssue, LockInvResume, LockInvRetry DEF LockCall, Run
  <2>2. ASSUME LockInv, UNCHANGED dvars
        PROVE  LockInv'
    BY <2>2 DEF dvars, vars, driver, LockInv, StatesOK, InFlight, Statement, ReadIsTrue, Mine, HolderOwns
  <2>3. QED
    BY <2>1, <2>2 DEF LockNext
<1>3. LockInv => MutualExclusion
  BY LockInvExcludes
<1>4. QED
  BY <1>1, <1>2, <1>3, PTL DEF LockSpec

-----------------------------------------------------------------------------
(***************************************************************************)
(* The resets.  The loop of sema4_reset_gate ends on RSTGMS, which only    *)
(* the second write of the core itself sets to its number; that write has  *)
(* freed the gate.  What the other resetters do in between makes no        *)
(* difference to it.                                                       *)
(***************************************************************************)
ShapesOK ==
  /\ sema42_rstgt_r \in [RSTGSM : Nat, RSTGMS : Nat, RSTGTN : Nat]
  /\ schedule = [m \in Masters |-> schedule[m]]
  /\ response = [m \in Masters |-> response[m]]
  /\ pc \in [Masters -> {"idle"} \union LockLines \union UnlockLines \union ResetLines]
  /\ arg \in [Masters -> ResetNumbers]
  /\ rstgdp = [m \in Masters |-> rstgdp[m]]
  /\ resets \in [Masters -> Nat]
  /\ unfreed \in [Masters -> BOOLEAN]

\* A core whose number RSTGMS has, or that has read it, has reset its gate.
NameIsTrue(m) ==
  /\ pc[m] \in ResetLines => m \in Resetters /\ resets[m] >= 1
  /\ m \in Resetters /\ sema42_rstgt_r.RSTGMS = m => resets[m] >= 1 /\ ~unfreed[m]
  /\ pc[m] = "reset_check" /\ response[m] # None /\ response[m].RSTGMS = m => ~unfreed[m]

ResetInv == ShapesOK /\ \A m \in Masters : InFlight(m) /\ NameIsTrue(m)

LEMMA ResetInvInit ==
  ASSUME FirstResets
  PROVE  DriverInit => ResetInv
<1> SUFFICES ASSUME DriverInit PROVE ResetInv
  OBVIOUS
<1>1. ShapesOK
  BY ZeroIsAGate DEF DriverInit, Init, ShapesOK, RstgtRReset, ResetNumbers,
                     RSTGSM_IDLE_WAITING_1ST_WRITE
<1>2. ASSUME NEW m \in Masters PROVE InFlight(m) /\ NameIsTrue(m)
  <2>1. /\ pc[m] = "idle" /\ schedule[m] = None /\ response[m] = None
        /\ sema42_rstgt_r.RSTGMS = 0
    BY DEF DriverInit, Init, RstgtRReset
  <2>2. m \in Resetters => m # 0
    BY DEF FirstResets
  <2> QED
    BY <2>1, <2>2 DEF InFlight, NameIsTrue, ResetLines
<1> QED
  BY <1>1, <1>2 DEF ResetInv

\* The accesses of the statements of sema4_reset_gate.
LEMMA ResetStatement ==
  ASSUME ResetInv, NEW m \in Masters, schedule[m] # None
  PROVE  /\ response[m] = None /\ pc[m] \notin {"idle", "wait"}
         /\ schedule[m].op = "write_rstgt" =>
              pc[m] = "reset_write" /\ schedule[m].data = [RSTGDP |-> rstgdp[m], RSTGTN |-> arg[m]]
         /\ pc[m] = "reset_check" => schedule[m].op = "read_rstgt"
<1>1. /\ response[m] = None /\ pc[m] \notin {"idle", "wait"} /\ schedule[m] = Statement(m)
      /\ pc[m] \in {"idle"} \union LockLines \union UnlockLines \union ResetLines
  BY DEF ResetInv, InFlight, ShapesOK
<1>2. /\ pc[m] = "trylock_write" => Statement(m) = WriteGate(arg[m], m + 1)
      /\ pc[m] = "unlock_write" => Statement(m) = WriteGate(arg[m], 0)
      /\ pc[m] \in {"trylock_read", "unlock_read"} => Statement(m) = ReadGate(arg[m])
      /\ pc[m] \in {"reset_read", "reset_check"} => Statement(m) = ReadRSTGT
      /\ pc[m] = "reset_write" => Statement(m) = WriteRSTGT(rstgdp[m], arg[m])
  BY DEF Statement
<1> QED
  BY <1>1, <1>2 DEF LockLines, UnlockLines, ResetLines, WriteGate, ReadGate, ReadRSTGT, WriteRSTGT

\* The second write resets the gate it names, or all of them.
LEMMA ResetFrees ==
  ASSUME NEW n \in ResetNumbers, gate' = GatesAfterReset(n)
  PROVE  Free(n, gate')
<1>1. NumGates \in Nat /\ MaxGates \in Nat /\ NumGates <= MaxGates
  BY GatesAssumption
<1>2. CASE n \in Gates
  <2>1. n < MaxGates /\ AllGates \notin Gates
    BY <1>1, <1>2 DEF Gates, AllGates
  <2>2. gate' = [g \in Gates |-> IF g = n THEN 0 ELSE gate[g]]
    BY <2>1 DEF GatesAfterReset
  <2> QED
    BY <1>2, <2>1, <2>2 DEF Free
<1>3. CASE n = AllGates
  <2>1. gate' = GatesReset
    BY <1>1, <1>3 DEF GatesAfterReset, AllGates
  <2> QED
    BY <2>1 DEF Free, GatesReset
<1> QED
  BY <1>2, <1>3 DEF ResetNumbers

\* What an access does to the register that names the resetting master.
LEMMA ResetAccess ==
  ASSUME ResetInv, NEW m \in Masters, Process(m)
  PROVE  /\ schedule[m] # None
         /\ schedule' = [schedule EXCEPT ![m] = None]
         /\ \E outcome : response' = [response EXCEPT ![m] = outcome]
         /\ sema42_rstgt_r' \in [RSTGSM : Nat, RSTGMS : Nat, RSTGTN : Nat]
         /\ \/ sema42_rstgt_r'.RSTGMS = sema42_rstgt_r.RSTGMS
            \/ sema42_rstgt_r'.RSTGMS = 0
            \/ /\ pc[m] = "reset_write"
               /\ sema42_rstgt_r'.RSTGMS = m % 16
               /\ gate' = GatesAfterReset(arg[m])
         /\ pc[m] = "reset_check" => response'[m].RSTGMS = sema42_rstgt_r.RSTGMS
<1>1. schedule[m] # None /\ schedule' = [schedule EXCEPT ![m] = None]
  BY DEF Process, None
<1>2. /\ sema42_rstgt_r \in [RSTGSM : Nat, RSTGMS : Nat, RSTGTN : Nat]
      /\ response = [n \in Masters |-> response[n]]
      /\ m \in Nat
  BY MastersAssumption DEF ResetInv, ShapesOK
<1>3. CASE schedule[m].op = "write_gates" /\ WriteGates(m, schedule[m].data)
  BY <1>1, <1>2, <1>3, ResetStatement DEF WriteGates
<1>4. CASE schedule[m].op = "read_gates" /\ ReadGates(m, schedule[m].addresses)
  BY <1>1, <1>2, <1>4, ResetStatement DEF ReadGates, registers
<1>5. CASE schedule[m].op = "write_rstgt" /\ WriteRstgt(m, schedule[m].data)
  <2>1. pc[m] = "reset_write" /\ schedule[m].data = [RSTGDP |-> rstgdp[m], RSTGTN |-> arg[m]]
    BY <1>1, <1>5, ResetStatement
  <2>2. Written(schedule[m].data, "RSTGTN") = arg[m]
    BY <2>1 DEF Written
  <2>3. \E outcome : response' = [response EXCEPT ![m] = outcome]
    BY <1>5 DEF WriteRstgt
  <2>4. CASE ResetGateFSM_1st(schedule[m].data)
    BY <1>1, <1>2, <2>1, <2>3, <2>4
    DEF ResetGateFSM_1st, RstgtRReset, RSTGSM_WAITING_2ND_WRITE, RSTGSM_IDLE_WAITING_1ST_WRITE
  <2>5. CASE ResetGateFSM_2nd(m, schedule[m].data)
    <3>1. \/ sema42_rstgt_r' = RstgtRReset
          \/ /\ gate' = GatesAfterReset(arg[m])
             /\ sema42_rstgt_r' = [sema42_rstgt_r EXCEPT !.RSTGMS = m % 16,
                                                         !.RSTGSM = RSTGSM_IDLE_WAITING_1ST_WRITE]
      BY <2>2, <2>5 DEF ResetGateFSM_2nd
    <3>2. CASE sema42_rstgt_r' = RstgtRReset
      <4>1. /\ sema42_rstgt_r' \in [RSTGSM : Nat, RSTGMS : Nat, RSTGTN : Nat]
            /\ sema42_rstgt_r'.RSTGMS = 0
        BY <3>2 DEF RstgtRReset, RSTGSM_IDLE_WAITING_1ST_WRITE
      <4> QED
        BY <1>1, <2>1, <2>3, <4>1
    <3>3. CASE /\ gate' = GatesAfterReset(arg[m])
               /\ sema42_rstgt_r' = [sema42_rstgt_r EXCEPT !.RSTGMS = m % 16,
                                                           !.RSTGSM = RSTGSM_IDLE_WAITING_1ST_WRITE]
      <4>1. m % 16 \in Nat
        BY <1>2
      <4>2. /\ sema42_rstgt_r' \in [RSTGSM : Nat, RSTGMS : Nat, RSTGTN : Nat]
            /\ sema42_rstgt_r'.RSTGMS = m % 16
        BY <1>2, <3>3, <4>1 DEF RSTGSM_IDLE_WAITING_1ST_WRITE
      <4> QED
        BY <1>1, <2>1, <2>3, <3>3, <4>2
    <3> QED
      BY <3>1, <3>2, <3>3
  <2> QED
    BY <1>5, <2>4, <2>5 DEF WriteRstgt
<1>6. CASE schedule[m].op = "read_rstgt" /\ ReadRstgt(m)
  BY <1>1, <1>2, <1>6 DEF ReadRstgt, registers
<1> QED
  BY <1>3, <1>4, <1>5, <1>6 DEF Process

LEMMA ResetInvProcess ==
  ASSUME FirstResets, ResetInv, NEW m \in Masters, DeviceProcess(m)
  PROVE  ResetInv'
<1>1. /\ Process(m) /\ UNCHANGED <<pc, arg, rstgdp, resets>>
      /\ unfreed' = [n \in Masters |-> unfreed[n] /\ ~Free(arg[n], gate')]
      /\ ShapesOK
  BY DEF DeviceProcess, ResetInv
<1>2. PICK outcome : response' = [response EXCEPT ![m] = outcome]
  BY <1>1, ResetAccess
<1>3. /\ schedule[m] # None /\ schedule' = [schedule EXCEPT ![m] = None]
      /\ pc[m] \notin {"idle", "wait"}
      /\ sema42_rstgt_r' \in [RSTGSM : Nat, RSTGMS : Nat, RSTGTN : Nat]
  BY <1>1, ResetAccess, ResetStatement
<1>4. schedule' = [n \in Masters |-> schedule'[n]] /\ response' = [n \in Masters |-> response'[n]]
  BY <1>1, <1>2, <1>3 DEF ShapesOK
<1>5. unfreed' \in [Masters -> BOOLEAN] /\ \A n \in Masters : unfreed'[n] => unfreed[n] /\ ~Free(arg[n], gate')
  BY <1>1
<1>6. ShapesOK'
  BY <1>1, <1>3, <1>4, <1>5 DEF ShapesOK
<1>7. \A n \in Masters : /\ schedule'[n] = IF n = m THEN None ELSE schedule[n]
                         /\ n # m => response'[n] = response[n]
  BY <1>1, <1>2, <1>3 DEF ShapesOK
<1>8. ASSUME NEW n \in Masters PROVE InFlight(n)'
  <2>1. Statement(n)' = Statement(n)
    BY <1>1 DEF Statement
  <2> QED
    BY <1>1, <1>3, <1>7, <2>1 DEF ResetInv, InFlight
<1>9. ASSUME NEW n \in Masters PROVE NameIsTrue(n)'
  <2>1. NameIsTrue(n) /\ NameIsTrue(m)
    BY DEF ResetInv
  <2>2. ASSUME n \in Resetters, sema42_rstgt_r'.RSTGMS = n PROVE resets[n] >= 1 /\ ~unfreed'[n]
    <3>1. n \in 1 .. 15
      BY <2>2 DEF FirstResets
    <3>2. CASE sema42_rstgt_r'.RSTGMS = sema42_rstgt_r.RSTGMS
      BY <1>5, <2>1, <2>2, <3>2 DEF NameIsTrue
    <3>3. CASE /\ pc[m] = "reset_write"
               /\ sema42_rstgt_r'.RSTGMS = m % 16
               /\ gate' = GatesAfterReset(arg[m])
      <4>1. m \in 1 .. 15 /\ resets[m] >= 1
        BY <2>1, <3>3 DEF NameIsTrue, ResetLines, FirstResets
      <4>2. n = m
        BY <2>2, <3>3, <4>1
      <4>3. arg[m] \in ResetNumbers
        BY <1>1 DEF ShapesOK
      <4>4. Free(arg[m], gate')
        BY <3>3, <4>3, ResetFrees
      <4> QED
        BY <1>5, <4>1, <4>2, <4>4
    <3> QED
      BY <1>1, <2>2, <3>1, <3>2, <3>3, ResetAccess
  <2>3. ASSUME pc[n] = "reset_check", response'[n] # None, response'[n].RSTGMS = n PROVE ~unfreed'[n]
    <3>1. CASE n # m
      BY <1>5, <1>7, <2>1, <2>3, <3>1 DEF NameIsTrue
    <3>2. CASE n = m
      <4>1. sema42_rstgt_r.RSTGMS = n
        BY <1>1, <2>3, <3>2, ResetAccess
      <4> QED
        BY <1>5, <2>1, <2>3, <4>1 DEF NameIsTrue, ResetLines
    <3> QED
      BY <3>1, <3>2
  <2> QED
    BY <1>1, <2>1, <2>2, <2>3 DEF NameIsTrue
<1> QED
  BY <1>6, <1>8, <1>9 DEF ResetInv

\* A statement starts its access.
LEMMA ResetInvIssue ==
  ASSUME ResetInv, NEW m \in Masters, Issue(m)
  PROVE  ResetInv'
<1>1. /\ pc[m] \notin {"idle", "wait"}
      /\ schedule[m] = None /\ response[m] = None
      /\ schedule' = [schedule EXCEPT ![m] = Statement(m)]
      /\ UNCHANGED <<sema42_rstgt_r, response, pc, arg, rstgdp, resets, unfreed>>
  BY DEF Issue, b_transport, driver
<1>2. ShapesOK'
  BY <1>1 DEF ResetInv, ShapesOK
<1>3. \A n \in Masters : schedule'[n] = IF n = m THEN Statement(m) ELSE schedule[n]
  BY <1>1 DEF ResetInv, ShapesOK
<1>4. ASSUME NEW n \in Masters PROVE InFlight(n)' /\ NameIsTrue(n)'
  <2>1. Statement(n)' = Statement(n)
    BY <1>1 DEF Statement
  <2> QED
    BY <1>1, <1>3, <2>1 DEF ResetInv, InFlight, NameIsTrue
<1> QED
  BY <1>2, <1>4 DEF ResetInv

\* A core that executes no access goes to another line.
LEMMA ResetInvElsewhere ==
  ASSUME ResetInv, NEW m \in Masters,
         schedule[m] = None, response'[m] = None,
         \A n \in Masters \ {m} : UNCHANGED <<pc[n], arg[n], resets[n], unfreed[n], response[n], rstgdp[n]>>,
         UNCHANGED <<schedule, sema42_rstgt_r>>,
         ShapesOK', NameIsTrue(m)'
  PROVE  ResetInv'
<1>1. ASSUME NEW n \in Masters \ {m} PROVE InFlight(n)' /\ NameIsTrue(n)'
  <2>1. Statement(n)' = Statement(n)
    BY DEF Statement
  <2> QED
    BY <2>1 DEF ResetInv, InFlight, NameIsTrue
<1>2. InFlight(m)'
  BY DEF InFlight
<1> QED
  BY <1>1, <1>2 DEF ResetInv

\* A core collects its answer and goes to its next line; it leaves the loop of
\* sema4_reset_gate only with its own number.
LEMMA ResetInvResume ==
  ASSUME ResetInv, NEW m \in Masters, Resume(m)
  PROVE  /\ ResetInv'
         /\ pc[m] = "reset_check" /\ pc'[m] = "idle" => ~unfreed[m]
<1> DEFINE Lines == {"idle"} \union LockLines \union UnlockLines \union ResetLines
<1>1. /\ response[m] # None
      /\ response' = [response EXCEPT ![m] = None]
      /\ UNCHANGED <<sema42_rstgt_r, schedule, arg, resets, unfreed>>
  BY DEF Resume, TrylockWritten, TrylockRead, UnlockRead, UnlockWritten, ResetRead, ResetWritten,
         ResetCheck, Return, b_transport_return
<1>2. PICK next \in Lines :
        /\ pc' = [pc EXCEPT ![m] = next]
        /\ next \in ResetLines => pc[m] \in ResetLines
        /\ pc[m] = "reset_check" /\ next = "idle" => response[m].RSTGMS = m
        /\ \A n \in Masters \ {m} : UNCHANGED rstgdp[n]
        /\ rstgdp' = [n \in Masters |-> rstgdp'[n]]
  <2> USE DEF ResetInv, ShapesOK
  <2>1. CASE TrylockWritten(m) \/ TrylockRead(m) \/ UnlockRead(m) \/ UnlockWritten(m)
    BY <2>1 DEF TrylockWritten, TrylockRead, UnlockRead, UnlockWritten, Return,
                LockLines, UnlockLines, ResetLines
  <2>2. CASE ResetRead(m)
    <3>1. PICK key : rstgdp' = [rstgdp EXCEPT ![m] = key]
      BY <2>2 DEF ResetRead
    <3>2. (\A n \in Masters \ {m} : UNCHANGED rstgdp[n]) /\ rstgdp' = [n \in Masters |-> rstgdp'[n]]
      BY <3>1
    <3> QED
      BY <2>2, <3>2 DEF ResetRead, Return, ResetLines
  <2>3. CASE ResetWritten(m) \/ ResetCheck(m)
    BY <2>3 DEF ResetWritten, ResetCheck, Return, ResetLines
  <2> QED
    BY <2>1, <2>2, <2>3 DEF Resume
<1>3. ShapesOK /\ InFlight(m) /\ NameIsTrue(m)
  BY DEF ResetInv
<1>4. /\ pc' \in [Masters -> Lines]
      /\ pc'[m] = next /\ \A n \in Masters \ {m} : pc'[n] = pc[n]
  BY <1>2, <1>3 DEF ShapesOK
<1>5. /\ response' = [n \in Masters |-> response'[n]]
      /\ response'[m] = None /\ \A n \in Masters \ {m} : response'[n] = response[n]
  BY <1>1, <1>3 DEF ShapesOK
<1>6. schedule[m] = None
  BY <1>1, <1>3 DEF InFlight
<1>7. ShapesOK'
  BY <1>1, <1>2, <1>3, <1>4, <1>5 DEF ShapesOK
<1>8. NameIsTrue(m)'
  BY <1>1, <1>2, <1>3, <1>4, <1>5 DEF NameIsTrue
<1>9. ResetInv'
  BY <1>1, <1>2, <1>4, <1>5, <1>6, <1>7, <1>8, ResetInvElsewhere
<1>10. pc[m] = "reset_check" /\ pc'[m] = "idle" => ~unfreed[m]
  BY <1>1, <1>2, <1>3, <1>4 DEF NameIsTrue
<1> QED
  BY <1>9, <1>10

\* The wait of a core ends.
LEMMA ResetInvRetry ==
  ASSUME ResetInv, NEW m \in Masters, Retry(m)
  PROVE  ResetInv'
<1>1. /\ pc[m] = "wait" /\ pc' = [pc EXCEPT ![m] = "trylock_write"]
      /\ UNCHANGED <<sema42_rstgt_r, schedule, response, arg, rstgdp, resets, unfreed>>
  BY DEF Retry, vars
<1>2. ShapesOK /\ schedule[m] = None /\ response[m] = None /\ NameIsTrue(m)
  BY <1>1 DEF ResetInv, InFlight
<1>3. pc'[m] = "trylock_write" /\ \A n \in Masters \ {m} : pc'[n] = pc[n]
  BY <1>1, <1>2 DEF ShapesOK
<1>4. ShapesOK'
  BY <1>1, <1>2 DEF ShapesOK, LockLines
<1>5. NameIsTrue(m)'
  BY <1>1, <1>2, <1>3 DEF NameIsTrue, ResetLines
<1> QED
  BY <1>1, <1>2, <1>3, <1>4, <1>5, ResetInvElsewhere

\* A call of the driver.  A core that calls sema4_reset_gate has not done so
\* before: RSTGMS does not have its number.
LEMMA ResetInvCall ==
  ASSUME FirstResets, ResetInv, NEW m \in Masters, NEW n \in ResetNumbers,
         sema4_lock_gate(m, n) \/ sema4_unlock_gate(m, n) \/ sema4_reset_gate(m, n)
  PROVE  ResetInv'
<1>1. PICK line \in {"trylock_write", "unlock_read", "reset_read"} :
        /\ Call(m, line, n)
        /\ \/ line # "reset_read" /\ UNCHANGED <<resets, unfreed>>
           \/ /\ line = "reset_read" /\ m \in Resetters /\ resets[m] < MaxResets
              /\ resets' = [resets EXCEPT ![m] = @ + 1]
              /\ unfreed' = [unfreed EXCEPT ![m] = ~Free(n, gate)]
  BY Zenon DEF sema4_lock_gate, sema4_unlock_gate, sema4_reset_gate
<1>2. /\ pc[m] = "idle"
      /\ pc' = [pc EXCEPT ![m] = line] /\ arg' = [arg EXCEPT ![m] = n]
      /\ UNCHANGED <<sema42_rstgt_r, schedule, response, rstgdp>>
  BY <1>1 DEF Call, vars
<1>3. ShapesOK /\ schedule[m] = None /\ response[m] = None /\ NameIsTrue(m)
  BY <1>2 DEF ResetInv, InFlight
<1>4. pc'[m] = line /\ \A k \in Masters \ {m} : pc'[k] = pc[k] /\ arg'[k] = arg[k]
  BY <1>2, <1>3 DEF ShapesOK
<1>5. /\ resets' \in [Masters -> Nat] /\ unfreed' \in [Masters -> BOOLEAN]
      /\ \A k \in Masters \ {m} : resets'[k] = resets[k] /\ unfreed'[k] = unfreed[k]
  <2>1. resets' \in [Masters -> Nat] /\ \A k \in Masters \ {m} : resets'[k] = resets[k]
    BY <1>1, <1>3 DEF ShapesOK
  <2>2. ASSUME NEW free \in BOOLEAN, unfreed' = [unfreed EXCEPT ![m] = free]
        PROVE  unfreed' \in [Masters -> BOOLEAN] /\ \A k \in Masters \ {m} : unfreed'[k] = unfreed[k]
    BY <1>3, <2>2 DEF ShapesOK
  <2>3. (~Free(n, gate)) \in BOOLEAN
    OBVIOUS
  <2>4. unfreed' = unfreed \/ \E free \in BOOLEAN : unfreed' = [unfreed EXCEPT ![m] = free]
    BY <1>1, <2>3, Zenon
  <2>5. unfreed' \in [Masters -> BOOLEAN] /\ \A k \in Masters \ {m} : unfreed'[k] = unfreed[k]
    BY <1>3, <2>2, <2>4 DEF ShapesOK
  <2> QED
    BY <2>1, <2>5
<1>6. ShapesOK'
  BY <1>2, <1>3, <1>5 DEF ShapesOK, LockLines, UnlockLines, ResetLines
<1>7. NameIsTrue(m)'
  <2>1. CASE line # "reset_read"
    BY <1>1, <1>2, <1>3, <1>4, <2>1 DEF NameIsTrue, ResetLines
  <2>2. CASE line = "reset_read"
    <3>1. m \in Resetters /\ resets[m] = 0 /\ resets'[m] = 1
      BY <1>1, <1>3, <2>2, ResettersAssumption DEF ShapesOK, FirstResets
    <3>2. sema42_rstgt_r.RSTGMS # m
      BY <1>3, <3>1 DEF NameIsTrue
    <3> QED
      BY <1>2, <1>4, <2>2, <3>1, <3>2 DEF NameIsTrue
  <2> QED
    BY <2>1, <2>2
<1> QED
  BY <1>2, <1>3, <1>4, <1>5, <1>6, <1>7, ResetInvElsewhere

\* Every step keeps ResetInv, and no core leaves the loop with a gate that has
\* not been free.
LEMMA ResetInvStep ==
  ASSUME FirstResets, ResetInv, [DriverNext]_dvars
  PROVE  /\ ResetInv'
         /\ \A m \in Masters : pc[m] = "reset_check" /\ pc'[m] = "idle" => ~unfreed[m]
<1>1. CASE UNCHANGED dvars
  BY <1>1 DEF dvars, vars, driver, ResetInv, ShapesOK, InFlight, Statement, NameIsTrue
<1>2. ASSUME NEW m \in Masters, Resume(m)
      PROVE  /\ ResetInv'
             /\ \A n \in Masters : pc[n] = "reset_check" /\ pc'[n] = "idle" => ~unfreed[n]
  <2>1. \A n \in Masters \ {m} : pc'[n] = pc[n]
    BY <1>2 DEF Resume, TrylockWritten, TrylockRead, UnlockRead, UnlockWritten, ResetRead, ResetWritten,
                ResetCheck, Return, ResetInv, ShapesOK
  <2> QED
    BY <1>2, <2>1, ResetInvResume
<1>3. ASSUME NEW m \in Masters, DeviceProcess(m) \/ Issue(m)
      PROVE  ResetInv' /\ UNCHANGED pc
  BY <1>3, ResetInvProcess, ResetInvIssue DEF DeviceProcess, Issue, driver
<1>4. ASSUME NEW m \in Masters, Retry(m)
      PROVE  /\ ResetInv'
             /\ \A n \in Masters : pc[n] = "reset_check" => pc'[n] = pc[n]
  BY <1>4, ResetInvRetry DEF Retry, ResetInv, ShapesOK
<1>5. ASSUME NEW m \in Masters, NEW n \in ResetNumbers,
             sema4_lock_gate(m, n) \/ sema4_unlock_gate(m, n) \/ sema4_reset_gate(m, n)
      PROVE  /\ ResetInv'
             /\ \A k \in Masters : pc[k] = "reset_check" => pc'[k] = pc[k]
  BY <1>5, ResetInvCall DEF sema4_lock_gate, sema4_unlock_gate, sema4_reset_gate, Call, ResetInv, ShapesOK
<1>6. Gates \subseteq ResetNumbers
  BY DEF ResetNumbers
<1> QED
  BY <1>1, <1>2, <1>3, <1>4, <1>5, <1>6 DEF DriverNext, LockNext, LockCall, Run

\* However the resets of several cores interleave, the first call of a core
\* returns only when its gate has been free: RSTGMS has the number of the core
\* since its own second write only (sema4.c:76-98 on ResetGateFSM of sema42.tcc).
THEOREM ResetsFree ==
  ASSUME FirstResets
  PROVE  DriverSpec => ResetGateFrees
<1>1. DriverInit => ResetInv
  BY ResetInvInit
<1>2. ResetInv /\ [DriverNext]_dvars =>
        /\ ResetInv'
        /\ [\A m \in Masters : pc[m] = "reset_check" /\ pc'[m] = "idle" => ~unfreed[m]]_dvars
  BY ResetInvStep
<1> QED
  BY <1>1, <1>2, PTL DEF DriverSpec, ResetGateFrees
=============================================================================
