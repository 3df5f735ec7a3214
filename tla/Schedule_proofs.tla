-------------------------- MODULE Schedule_proofs --------------------------
(***************************************************************************)
(* A schedule is served in time, for any events and any delays.            *)
(***************************************************************************)
EXTENDS Schedule, SequenceTheorems, TLAPS

-----------------------------------------------------------------------------
(***************************************************************************)
(* The notifications of an event.                                          *)
(***************************************************************************)

\* The event is going to trigger within t.
Wakes(t) ==
  \/ kernel_event = "delta"
  \/ kernel_event = "timed" /\ delay <= t
  \/ \E u \in leftovers : u <= t

\* A timed notification is not due now.
TimedLater == kernel_event = "timed" => delay > 0

KernelTypes ==
  /\ kernel_event \in {"not notified", "delta", "timed"}
  /\ delay \in Nat
  /\ leftovers \in SUBSET (Nat \ {0})

\* A notification makes the event trigger in time, and takes none of the
\* triggers to come away.
LEMMA NotifyWakes ==
  ASSUME KernelTypes, TimedLater, NEW t \in Nat, notify(t)
  PROVE  /\ KernelTypes'
         /\ TimedLater'
         /\ Wakes(t)'
         /\ \A u \in Nat : Wakes(u) => Wakes(u)'
<1>1. CASE /\ kernel_event = "delta" \/ (kernel_event = "timed" /\ t # 0 /\ delay <= t)
           /\ UNCHANGED <<kernel_event, delay, leftovers>>
  BY <1>1 DEF KernelTypes, TimedLater, Wakes
<1>2. CASE /\ kernel_event # "delta" /\ t = 0
           /\ kernel_event' = "delta"
           /\ delay' = 0
           /\ UNCHANGED leftovers
  BY <1>2 DEF KernelTypes, TimedLater, Wakes
<1>3. CASE /\ t # 0
           /\ kernel_event = "not notified" \/ (kernel_event = "timed" /\ delay > t)
           /\ kernel_event' = "timed"
           /\ delay' = t
           /\ leftovers' = IF kernel_event = "timed" THEN leftovers \union {delay} ELSE leftovers
  <2>1. kernel_event' = "timed" /\ delay' = t
    BY <1>3
  <2>5. t \in Nat /\ t > 0
    <3>1. t # 0
      BY <1>3, Zenon
    <3> QED
      BY <3>1
  <2>3. leftovers' \in SUBSET (Nat \ {0}) /\ leftovers \subseteq leftovers'
    <3>1. CASE kernel_event = "timed"
      <4>1. leftovers' = leftovers \union {delay}
        BY <1>3, <3>1, Zenon
      <4>2. delay \in Nat \ {0}
        BY <3>1 DEF KernelTypes, TimedLater
      <4> QED
        BY <4>1, <4>2 DEF KernelTypes
    <3>2. CASE kernel_event # "timed"
      <4>1. leftovers' = leftovers
        BY <1>3, <3>2, Zenon
      <4> QED
        BY <4>1 DEF KernelTypes
    <3> QED
      BY <3>1, <3>2
  <2>4. KernelTypes' /\ TimedLater' /\ Wakes(t)'
    <3>1. KernelTypes'
      BY <2>1, <2>3, <2>5 DEF KernelTypes
    <3>2. TimedLater'
      BY <2>1, <2>5 DEF TimedLater
    <3>3. Wakes(t)'
      BY <2>1, <2>5 DEF Wakes
    <3> QED
      BY <3>1, <3>2, <3>3
  <2>2. ASSUME NEW u \in Nat, Wakes(u) PROVE Wakes(u)'
    <3>1. CASE kernel_event = "timed"
      BY <1>3, <2>2, <3>1 DEF KernelTypes, Wakes
    <3>2. CASE kernel_event = "not notified"
      BY <1>3, <2>2, <3>2 DEF KernelTypes, Wakes
    <3> QED
      BY <1>3, <3>1, <3>2
  <2> QED
    BY <2>2, <2>4
<1> QED
  BY <1>1, <1>2, <1>3 DEF notify

LEMMA CancelTypes ==
  ASSUME KernelTypes, cancel
  PROVE  KernelTypes' /\ TimedLater'
BY DEF KernelTypes, TimedLater, cancel

-----------------------------------------------------------------------------
(***************************************************************************)
(* The order of the schedule.                                              *)
(***************************************************************************)

\* The events are in the order of their dates, and none is there twice.
InOrder ==
  /\ \A i, j \in 1 .. Len(schedule) : i < j => due[schedule[i]] <= due[schedule[j]]
  /\ \A i, j \in 1 .. Len(schedule) : schedule[i] = schedule[j] => i = j

\* A function on 1 .. n is a sequence of length n.
LEMMA FunctionIsSeq ==
  ASSUME NEW S, NEW n \in Nat, NEW f \in [1 .. n -> S]
  PROVE  f \in Seq(S) /\ Len(f) = n
<1>1. f \in Seq(S)
  BY SeqDef
<1>2. Len(f) \in Nat /\ DOMAIN f = 1 .. Len(f)
  BY <1>1, LenProperties
<1>3. 1 .. n = 1 .. Len(f)
  BY <1>2
<1> QED
  BY <1>1, <1>2, <1>3

\* The positions of the schedule.
LEMMA Positions ==
  ASSUME TypeOK
  PROVE  /\ Len(schedule) \in Nat
         /\ \A i \in 1 .. Len(schedule) : schedule[i] \in Events
         /\ Scheduled = {schedule[i] : i \in 1 .. Len(schedule)}
         /\ schedule = <<>> <=> Len(schedule) = 0
<1>1. schedule \in Seq(Events)
  BY DEF TypeOK
<1> QED
  BY <1>1, LenProperties, ElementOfSeq, EmptySeq DEF Scheduled

\* An empty schedule.
LEMMA EmptySchedule ==
  ASSUME schedule = <<>>
  PROVE  schedule \in Seq(Events) /\ Len(schedule) = 0 /\ Scheduled = {}
<1>1. schedule \in Seq(Events)
  BY EmptySeq
<1>2. Len(schedule) = 0
  BY <1>1, EmptySeq
<1>3. DOMAIN schedule = 1 .. Len(schedule)
  BY <1>1, LenProperties
<1> QED
  BY <1>1, <1>2, <1>3 DEF Scheduled

\* An event put in its place leaves the order.
LEMMA InsertInOrder ==
  ASSUME TypeOK, InOrder, NEW e \in Events, e \notin Scheduled, NEW d \in Int, NEW n \in 0 .. Len(schedule),
         \A i \in 1 .. n : due[schedule[i]] <= d,
         \A i \in (n + 1) .. Len(schedule) : due[schedule[i]] > d,
         due' = [due EXCEPT ![e] = d],
         Insert(e, n)
  PROVE  /\ schedule' \in Seq(Events)
         /\ due' \in [Events -> Int]
         /\ InOrder'
         /\ Scheduled' = Scheduled \union {e}
<1> DEFINE m == Len(schedule)
           f(i) == IF i <= n THEN schedule[i] ELSE IF i = n + 1 THEN e ELSE schedule[i - 1]
<1>1. /\ m \in Nat /\ n \in 0 .. m
      /\ \A i \in 1 .. m : schedule[i] \in Events /\ schedule[i] # e
      /\ Scheduled = {schedule[i] : i \in 1 .. m}
  BY Positions
<1>2. \A i \in 1 .. (m + 1) : f(i) \in Events
  BY <1>1
<1>3. schedule' = [i \in 1 .. (m + 1) |-> f(i)]
  BY DEF Insert
<1>4. schedule' \in [1 .. (m + 1) -> Events]
  BY <1>2, <1>3
<1>5. schedule' \in Seq(Events) /\ Len(schedule') = m + 1 /\ DOMAIN schedule' = 1 .. (m + 1)
  BY <1>1, <1>4, FunctionIsSeq
<1>6. due \in [Events -> Int] /\ due' \in [Events -> Int]
  BY DEF TypeOK
<1>7. due'[e] = d /\ \A g \in Events : g # e => due'[g] = due[g]
  BY <1>6
<1>8. \A i \in 1 .. (m + 1) : schedule'[i] = f(i)
  BY <1>3
<1>9. ASSUME NEW i \in 1 .. (m + 1), NEW j \in 1 .. (m + 1), i < j
      PROVE  due'[f(i)] <= due'[f(j)]
  <2>1. \A k \in 1 .. n : due'[schedule[k]] = due[schedule[k]] /\ due'[schedule[k]] <= d
    BY <1>1, <1>7
  <2>2. \A k \in (n + 1) .. m : due'[schedule[k]] = due[schedule[k]] /\ due'[schedule[k]] >= d
    BY <1>1, <1>6, <1>7
  <2>3. \A k, l \in 1 .. m : k < l => due'[schedule[k]] <= due'[schedule[l]]
    BY <1>1, <1>7 DEF InOrder
  <2>4. CASE j <= n
    <3>1. f(i) = schedule[i] /\ f(j) = schedule[j] /\ i \in 1 .. m /\ j \in 1 .. m
      BY <1>1, <1>9, <2>4
    <3> QED
      BY <1>9, <2>3, <3>1
  <2>5. CASE j = n + 1
    <3>1. f(i) = schedule[i] /\ f(j) = e /\ i \in 1 .. n
      BY <1>1, <1>9, <2>5
    <3> QED
      BY <1>7, <2>1, <3>1
  <2>6. CASE j > n + 1 /\ i <= n
    <3>1. f(i) = schedule[i] /\ f(j) = schedule[j - 1] /\ i \in 1 .. m /\ j - 1 \in 1 .. m /\ i < j - 1
      BY <1>1, <2>6
    <3> QED
      BY <2>3, <3>1
  <2>7. CASE j > n + 1 /\ i = n + 1
    <3>1. f(i) = e /\ f(j) = schedule[j - 1] /\ j - 1 \in (n + 1) .. m
      BY <1>1, <2>7
    <3> QED
      BY <1>7, <2>2, <3>1
  <2>8. CASE j > n + 1 /\ i > n + 1
    <3>1. f(i) = schedule[i - 1] /\ f(j) = schedule[j - 1] /\ i - 1 \in 1 .. m /\ j - 1 \in 1 .. m /\ i - 1 < j - 1
      BY <1>1, <1>9, <2>8
    <3> QED
      BY <2>3, <3>1
  <2> QED
    BY <1>1, <2>4, <2>5, <2>6, <2>7, <2>8
<1>10. ASSUME NEW i \in 1 .. (m + 1), NEW j \in 1 .. (m + 1), f(i) = f(j)
       PROVE  i = j
  <2> DEFINE old(k) == IF k <= n THEN k ELSE k - 1
  <2>1. ASSUME NEW k \in 1 .. (m + 1), k # n + 1
        PROVE  old(k) \in 1 .. m /\ f(k) = schedule[old(k)] /\ f(k) # e
    <3>1. old(k) \in 1 .. m /\ f(k) = schedule[old(k)]
      BY <1>1, <2>1
    <3> HIDE DEF old
    <3> QED
      BY <1>1, <3>1
  <2>2. f(n + 1) = e
    BY <1>1
  <2>3. CASE i = n + 1 \/ j = n + 1
    BY <1>1, <1>10, <2>1, <2>2, <2>3
  <2>4. CASE i # n + 1 /\ j # n + 1
    <3>1. old(i) = old(j)
      <4> HIDE DEF f, old
      <4> QED
        BY <1>10, <2>1, <2>4 DEF InOrder
    <3> QED
      BY <1>1, <2>4, <3>1
  <2> QED
    BY <2>3, <2>4
<1>11. InOrder'
  <2>1. \A i, j \in 1 .. (m + 1) : i < j => due'[schedule'[i]] <= due'[schedule'[j]]
    BY <1>8, <1>9
  <2>2. \A i, j \in 1 .. (m + 1) : schedule'[i] = schedule'[j] => i = j
    BY <1>8, <1>10
  <2> QED
    BY <1>5, <2>1, <2>2 DEF InOrder
<1>12. Scheduled' = Scheduled \union {e}
  <2>1. Scheduled' = {schedule'[i] : i \in 1 .. (m + 1)}
    BY <1>5 DEF Scheduled
  <2>2. ASSUME NEW g \in Scheduled' PROVE g \in Scheduled \union {e}
    BY <1>1, <1>8, <2>1
  <2>3. ASSUME NEW g \in Scheduled PROVE g \in Scheduled'
    <3>1. PICK k \in 1 .. m : g = schedule[k]
      BY <1>1
    <3>2. CASE k <= n
      BY <1>1, <1>8, <2>1, <3>1, <3>2
    <3>3. CASE k > n
      <4>1. k + 1 \in 1 .. (m + 1) /\ f(k + 1) = g
        BY <1>1, <3>1, <3>3
      <4> QED
        BY <1>8, <2>1, <4>1
    <3> QED
      BY <1>1, <3>2, <3>3
  <2>4. e \in Scheduled'
    <3>1. n + 1 \in 1 .. (m + 1) /\ f(n + 1) = e
      BY <1>1
    <3> QED
      BY <1>8, <2>1, <3>1
  <2> QED
    BY <2>2, <2>3, <2>4
<1> QED
  BY <1>5, <1>6, <1>11, <1>12

\* So does one that is taken out.
LEMMA EraseInOrder ==
  ASSUME TypeOK, InOrder, NEW k \in 1 .. Len(schedule), Erase(k)
  PROVE  /\ schedule' \in Seq(Events)
         /\ Len(schedule') = Len(schedule) - 1
         /\ due' \in [Events -> Int]
         /\ InOrder'
         /\ Scheduled' = Scheduled \ {schedule[k]}
         /\ \A g \in Scheduled' : due'[g] = due[g]
<1> DEFINE m == Len(schedule)
           f(i) == IF i < k THEN schedule[i] ELSE schedule[i + 1]
<1>1. /\ m \in Nat \ {0} /\ k \in 1 .. m
      /\ \A i \in 1 .. m : schedule[i] \in Events
      /\ Scheduled = {schedule[i] : i \in 1 .. m}
  BY Positions
<1>2. \A i \in 1 .. (m - 1) : f(i) \in Events /\ f(i) # schedule[k]
  BY <1>1 DEF InOrder
<1>3. schedule' = [i \in 1 .. (m - 1) |-> f(i)]
  BY DEF Erase
<1>4. schedule' \in [1 .. (m - 1) -> Events]
  BY <1>2, <1>3
<1>5. schedule' \in Seq(Events) /\ Len(schedule') = m - 1 /\ DOMAIN schedule' = 1 .. (m - 1)
  BY <1>1, <1>4, FunctionIsSeq
<1>6. due \in [Events -> Int] /\ due' \in [Events -> Int] /\ \A g \in Events : g # schedule[k] => due'[g] = due[g]
  <2>1. due \in [Events -> Int] /\ schedule[k] \in Events
    BY <1>1 DEF TypeOK
  <2>2. due' = [due EXCEPT ![schedule[k]] = 0]
    BY DEF Erase
  <2> QED
    BY <2>1, <2>2
<1>7. \A i \in 1 .. (m - 1) : schedule'[i] = f(i) /\ due'[f(i)] = due[f(i)]
  BY <1>2, <1>3, <1>6
<1>8. ASSUME NEW i \in 1 .. (m - 1), NEW j \in 1 .. (m - 1), i < j
      PROVE  due[f(i)] <= due[f(j)]
  BY <1>1, <1>8 DEF InOrder
<1>9. ASSUME NEW i \in 1 .. (m - 1), NEW j \in 1 .. (m - 1), f(i) = f(j)
      PROVE  i = j
  BY <1>1, <1>9 DEF InOrder
<1>10. InOrder'
  <2>1. \A i, j \in 1 .. (m - 1) : i < j => due'[schedule'[i]] <= due'[schedule'[j]]
    BY <1>7, <1>8
  <2>2. \A i, j \in 1 .. (m - 1) : schedule'[i] = schedule'[j] => i = j
    BY <1>7, <1>9
  <2> QED
    BY <1>5, <2>1, <2>2 DEF InOrder
<1>11. Scheduled' = {schedule'[i] : i \in 1 .. (m - 1)}
  BY <1>5 DEF Scheduled
<1>12. \A g \in Scheduled' : g \in Scheduled /\ g # schedule[k] /\ due'[g] = due[g]
  BY <1>1, <1>2, <1>7, <1>11
<1>13. ASSUME NEW g \in Scheduled, g # schedule[k] PROVE g \in Scheduled'
  <2>1. PICK i \in 1 .. m : g = schedule[i] /\ i # k
    BY <1>1, <1>13
  <2>2. CASE i < k
    BY <1>1, <1>7, <1>11, <2>1, <2>2
  <2>3. CASE i > k
    <3>1. i - 1 \in 1 .. (m - 1) /\ f(i - 1) = g
      BY <1>1, <2>1, <2>3
    <3> QED
      BY <1>7, <1>11, <3>1
  <2> QED
    BY <1>1, <2>1, <2>2, <2>3
<1> QED
  BY <1>5, <1>6, <1>10, <1>12, <1>13

-----------------------------------------------------------------------------
(***************************************************************************)
(* The invariant.                                                          *)
(***************************************************************************)

\* The process is going to run no later than each event of the schedule is due.
AllWake == \A e \in Scheduled : Wakes(due[e])

\* The order of the schedule is what lets one notification, for its first event,
\* stand for all of them.
IInv ==
  /\ TypeOK
  /\ TimedLater
  /\ InOrder
  /\ NeverLate
  /\ NoneForgotten
  /\ process = "waits" => AllWake

\* The wake-up of the first event is in time for the others.
LEMMA FirstWakesAll ==
  ASSUME TypeOK, InOrder, schedule # <<>> => Wakes(due[schedule[1]])
  PROVE  AllWake
<1> SUFFICES ASSUME NEW e \in Scheduled PROVE Wakes(due[e])
  BY DEF AllWake
<1>1. /\ Len(schedule) \in Nat
      /\ \A i \in 1 .. Len(schedule) : schedule[i] \in Events
      /\ Scheduled = {schedule[i] : i \in 1 .. Len(schedule)}
      /\ schedule = <<>> <=> Len(schedule) = 0
  BY Positions
<1>2. PICK i \in 1 .. Len(schedule) : e = schedule[i]
  BY <1>1
<1>3. 1 \in 1 .. Len(schedule) /\ schedule # <<>>
  BY <1>1, <1>2
<1>5. due[schedule[1]] \in Int /\ due[e] \in Int
  BY <1>1, <1>2, <1>3 DEF TypeOK
<1>4. due[schedule[1]] <= due[e]
  <2>1. CASE i = 1
    BY <1>2, <1>5, <2>1
  <2>2. CASE 1 < i
    BY <1>2, <1>3, <2>2 DEF InOrder
  <2> QED
    BY <1>1, <2>1, <2>2
<1>6. Wakes(due[schedule[1]])
  BY <1>3
<1>7. delay \in Nat /\ \A u \in leftovers : u \in Nat
  BY DEF TypeOK
<1> QED
  BY <1>4, <1>5, <1>6, <1>7 DEF Wakes

\* The same of the next state.
LEMMA FirstWakesAllNext ==
  ASSUME TypeOK', InOrder', (schedule # <<>> => Wakes(due[schedule[1]]))'
  PROVE  AllWake'
BY FirstWakesAll, PTL

\* Nothing is due at the start.
LEMMA InitHolds == Init => IInv
<1> SUFFICES ASSUME Init PROVE IInv
  OBVIOUS
<1>1. schedule = <<>>
  BY DEF Init
<1>2. schedule \in Seq(Events) /\ Len(schedule) = 0 /\ Scheduled = {}
  BY <1>1, EmptySchedule
<1>3. due \in [Events -> Int]
  <2>1. due = [e \in Events |-> 0]
    BY DEF Init
  <2> QED
    BY <2>1
<1>4. /\ kernel_event = "not notified" /\ delay = 0 /\ leftovers = {}
      /\ process = "runnable" /\ blocked = {} /\ cleared = {} /\ acts = 0
  BY DEF Init
<1>5. TypeOK
  <2>1. delay \in Nat /\ acts \in 0 .. MaxActs
    <3>1. 0 \in Nat /\ 0 \in 0 .. MaxActs
      BY BoundsAssumption
    <3> QED
      BY <1>4, <3>1, Zenon
  <2>2. leftovers \in SUBSET (Nat \ {0}) /\ blocked \in SUBSET Initiators /\ cleared \in SUBSET Initiators
    BY <1>4
  <2> QED
    BY <1>2, <1>3, <1>4, <2>1, <2>2 DEF TypeOK
<1>6. TimedLater /\ NeverLate /\ NoneForgotten
  BY <1>2, <1>4 DEF TimedLater, NeverLate, NoneForgotten
<1>7. InOrder
  BY <1>2 DEF InOrder
<1> QED
  BY <1>4, <1>5, <1>6, <1>7 DEF IInv

\* An event is notified: what is in the schedule keeps its date and its wake-up.
LEMMA NotifyKeeps ==
  ASSUME IInv, NEW e \in Events, NEW d \in 0 .. Horizon, Notify(e, d)
  PROVE  IInv'
<1>1. PICK n \in 0 .. Len(schedule) :
        /\ \A i \in 1 .. n : due[schedule[i]] <= d
        /\ \A i \in (n + 1) .. Len(schedule) : due[schedule[i]] > d
        /\ Insert(e, n)
  BY DEF Notify
<1>2. TypeOK /\ InOrder /\ d \in Nat /\ d \in Int
  BY BoundsAssumption DEF IInv
<1>3. e \notin Scheduled /\ due' = [due EXCEPT ![e] = d]
  BY DEF Notify
<1>4. /\ schedule' \in Seq(Events)
      /\ due' \in [Events -> Int]
      /\ InOrder'
      /\ Scheduled' = Scheduled \union {e}
  BY <1>1, <1>2, <1>3, InsertInOrder
<1>5. due'[e] = d /\ \A g \in Events : g # e => due'[g] = due[g]
  BY <1>2, <1>3 DEF TypeOK
<1>6. Scheduled \subseteq Events
  BY <1>2, Positions
<1>7. /\ KernelTypes'
      /\ TimedLater'
      /\ Wakes(d)'
      /\ \A u \in Nat : Wakes(u) => Wakes(u)'
  <2>1. KernelTypes /\ TimedLater /\ notify(d)
    BY DEF IInv, TypeOK, KernelTypes, Notify
  <2> QED
    BY <1>2, <2>1, NotifyWakes
<1>8. TypeOK'
  <2>0. /\ acts < MaxActs /\ acts' = acts + 1
        /\ blocked' = IF e \in Initiators THEN blocked \union {e} ELSE blocked
        /\ process' = process /\ cleared' = cleared
    BY DEF Notify, Act
  <2>1. acts' \in 0 .. MaxActs
    <3>1. acts \in 0 .. MaxActs
      BY <1>2 DEF TypeOK
    <3> QED
      BY <2>0, <3>1, BoundsAssumption
  <2>2. blocked' \in SUBSET Initiators
    <3>1. blocked \in SUBSET Initiators
      BY <1>2 DEF TypeOK
    <3> QED
      BY <2>0, <3>1
  <2>3. process' \in {"waits", "runnable", "runs"} /\ cleared' \in SUBSET Initiators
    BY <1>2, <2>0 DEF TypeOK
  <2> QED
    BY <1>4, <1>7, <2>1, <2>2, <2>3 DEF TypeOK, KernelTypes
<1>9. NeverLate'
  <2>1. \A g \in Scheduled : due'[g] = due[g] /\ due[g] >= 0
    BY <1>3, <1>5, <1>6 DEF IInv, NeverLate
  <2> QED
    BY <1>2, <1>4, <1>5, <2>1 DEF NeverLate
<1>10. NoneForgotten'
  BY <1>4 DEF IInv, NoneForgotten, Notify
<1>11. ASSUME process' = "waits" PROVE AllWake'
  <2>1. ASSUME NEW g \in Scheduled PROVE Wakes(due[g])'
    <3>1. due'[g] = due[g] /\ due[g] \in Nat
      <4>1. g # e /\ g \in Events
        BY <1>3, <1>6
      <4>2. due[g] \in Int /\ due[g] >= 0
        BY <1>2, <4>1 DEF IInv, NeverLate, TypeOK
      <4> QED
        BY <1>5, <4>1, <4>2
    <3>2. Wakes(due[g])
      BY <1>11 DEF IInv, AllWake, Notify
    <3>3. \A u : u = due'[g] /\ u \in Nat => (kernel_event' = "delta" \/ (kernel_event' = "timed" /\ delay' <= u) \/ \E v \in leftovers' : v <= u)
      BY <1>7, <3>1, <3>2 DEF Wakes
    <3> QED
      BY <3>1, <3>3 DEF Wakes
  <2>2. Wakes(due[e])'
    BY <1>5, <1>7 DEF Wakes
  <2> QED
    BY <1>4, <2>1, <2>2 DEF AllWake
<1> QED
  BY <1>4, <1>7, <1>8, <1>9, <1>10, <1>11 DEF IInv

\* What Erase and a new wake-up, or none, leave.
LEMMA EraseKeeps ==
  ASSUME IInv, NEW k \in 1 .. Len(schedule), Erase(k)
  PROVE  /\ schedule' \in Seq(Events)
         /\ Len(schedule') = Len(schedule) - 1
         /\ due' \in [Events -> Int]
         /\ InOrder'
         /\ NeverLate'
         /\ Scheduled' = Scheduled \ {schedule[k]}
<1>1. TypeOK /\ InOrder
  BY DEF IInv
<1>2. /\ schedule' \in Seq(Events)
      /\ Len(schedule') = Len(schedule) - 1
      /\ due' \in [Events -> Int]
      /\ InOrder'
      /\ Scheduled' = Scheduled \ {schedule[k]}
      /\ \A g \in Scheduled' : due'[g] = due[g]
  BY <1>1, EraseInOrder
<1>3. NeverLate'
  <2>1. \A g \in Scheduled' : g \in Scheduled /\ due'[g] = due[g]
    BY <1>2
  <2>2. \A g \in Scheduled : due[g] >= 0
    BY DEF IInv, NeverLate
  <2> QED
    BY <2>1, <2>2 DEF NeverLate
<1> QED
  BY <1>2, <1>3

\* An event is cancelled while the process runs, which notifies the kernel again.
LEMMA CancelKeeps ==
  ASSUME IInv, NEW e \in Events, Cancel(e)
  PROVE  IInv'
<1>1. TypeOK /\ process = "runs" /\ e \notin Initiators
  BY DEF Cancel, IInv
<1>2. /\ acts < MaxActs /\ acts' = acts + 1
      /\ process' = process /\ blocked' = blocked /\ cleared' = cleared
      /\ IF Len(schedule) = 1 THEN cancel ELSE notify(due[schedule'[1]])
  BY DEF Cancel, Act
<1>3. PICK k \in DOMAIN schedule : schedule[k] = e /\ Erase(k)
  BY DEF Cancel
<1>4. k \in 1 .. Len(schedule) /\ Len(schedule) \in Nat
  BY <1>1, <1>3, LenProperties DEF TypeOK
<1>5. /\ schedule' \in Seq(Events)
      /\ Len(schedule') = Len(schedule) - 1
      /\ due' \in [Events -> Int]
      /\ InOrder'
      /\ NeverLate'
      /\ Scheduled' = Scheduled \ {e}
  BY <1>3, <1>4, EraseKeeps
<1>6. KernelTypes' /\ TimedLater'
  <2>1. KernelTypes /\ TimedLater
    BY DEF IInv, TypeOK, KernelTypes
  <2>2. CASE Len(schedule) = 1
    BY <1>2, <2>1, <2>2, CancelTypes
  <2>3. CASE Len(schedule) # 1
    <3>1. 1 \in 1 .. Len(schedule) /\ 2 \in 1 .. Len(schedule)
      BY <1>4, <2>3
    <3>2. due[schedule'[1]] \in Nat
      <4>1. schedule'[1] \in Scheduled'
        <5>1. DOMAIN schedule' = 1 .. Len(schedule') /\ 1 \in 1 .. Len(schedule')
          BY <1>4, <1>5, <3>1, LenProperties
        <5> QED
          BY <5>1 DEF Scheduled
      <4>2. schedule'[1] \in Scheduled
        BY <1>5, <4>1
      <4>3. schedule'[1] \in Events
        BY <1>1, <4>2, Positions
      <4>4. due[schedule'[1]] \in Int
        BY <1>1, <4>3 DEF TypeOK
      <4>5. due[schedule'[1]] >= 0
        BY <4>2 DEF IInv, NeverLate
      <4> QED
        BY <4>4, <4>5
    <3>3. notify(due[schedule'[1]])
      BY <1>2, <2>3
    <3> QED
      BY <2>1, <3>2, <3>3, NotifyWakes
  <2> QED
    BY <2>2, <2>3
<1>7. TypeOK'
  <2>1. acts' \in 0 .. MaxActs
    <3>1. acts \in 0 .. MaxActs
      BY <1>1 DEF TypeOK
    <3> QED
      BY <1>2, <3>1, BoundsAssumption
  <2>2. /\ process' \in {"waits", "runnable", "runs"}
        /\ blocked' \in SUBSET Initiators
        /\ cleared' \in SUBSET Initiators
    BY <1>1, <1>2 DEF TypeOK
  <2> QED
    BY <1>5, <1>6, <2>1, <2>2 DEF TypeOK, KernelTypes
<1>8. NoneForgotten'
  <2>1. \A g \in blocked : g \in Scheduled \/ g \in cleared
    BY DEF IInv, NoneForgotten
  <2>2. e \notin blocked
    BY <1>1 DEF TypeOK
  <2> QED
    BY <1>2, <1>5, <2>1, <2>2 DEF NoneForgotten
<1>9. process' # "waits"
  BY <1>1, <1>2
<1> QED
  BY <1>5, <1>6, <1>7, <1>8, <1>9 DEF IInv

\* The device is reset.
LEMMA ClearKeeps ==
  ASSUME IInv, Clear
  PROVE  IInv'
<1>1. TypeOK /\ KernelTypes /\ NoneForgotten
  BY DEF IInv, TypeOK, KernelTypes
<1>2. /\ acts < MaxActs /\ acts' = acts + 1
      /\ schedule' = <<>>
      /\ due' = [e \in Events |-> 0]
      /\ cancel
      /\ cleared' = cleared \union (blocked \intersect Scheduled)
      /\ process' = process /\ blocked' = blocked
  BY DEF Clear, Act
<1>3. schedule' \in Seq(Events) /\ Len(schedule') = 0 /\ Scheduled' = {}
  <2>1. schedule' \in Seq(Events)
    BY <1>2, EmptySeq
  <2>2. Len(schedule') = 0
    BY <1>2, <2>1, EmptySeq
  <2>3. DOMAIN schedule' = 1 .. Len(schedule')
    BY <2>1, LenProperties
  <2> QED
    BY <2>1, <2>2, <2>3 DEF Scheduled
<1>4. KernelTypes' /\ TimedLater'
  BY <1>1, <1>2, CancelTypes
<1>5. TypeOK'
  <2>1. acts' \in 0 .. MaxActs
    <3>1. acts \in 0 .. MaxActs
      BY <1>1 DEF TypeOK
    <3> QED
      BY <1>2, <3>1, BoundsAssumption
  <2>2. /\ process' \in {"waits", "runnable", "runs"}
        /\ blocked' \in SUBSET Initiators
        /\ cleared' \in SUBSET Initiators
    <3>1. /\ process \in {"waits", "runnable", "runs"}
          /\ blocked \in SUBSET Initiators
          /\ cleared \in SUBSET Initiators
      BY <1>1 DEF TypeOK
    <3> QED
      BY <1>2, <3>1
  <2>3. due' \in [Events -> Int]
    BY <1>2
  <2> QED
    BY <1>3, <1>4, <2>1, <2>2, <2>3 DEF TypeOK, KernelTypes
<1>6. InOrder' /\ NeverLate' /\ AllWake'
  BY <1>3 DEF InOrder, NeverLate, AllWake
<1>7. NoneForgotten'
  BY <1>1, <1>2 DEF NoneForgotten
<1> QED
  BY <1>4, <1>5, <1>6, <1>7 DEF IInv

\* The process gets an event, waits for the next one, or has none left.
LEMMA GetNextEventKeeps ==
  ASSUME IInv, GetNextEvent
  PROVE  IInv'
<1>1. TypeOK /\ InOrder /\ NeverLate /\ NoneForgotten /\ KernelTypes /\ TimedLater
  BY DEF IInv, TypeOK, KernelTypes
<1>2. process = "runs" /\ cleared' = cleared /\ acts' = acts
  BY DEF GetNextEvent
<1>3. /\ Len(schedule) \in Nat
      /\ \A i \in 1 .. Len(schedule) : schedule[i] \in Events
      /\ Scheduled = {schedule[i] : i \in 1 .. Len(schedule)}
      /\ schedule = <<>> <=> Len(schedule) = 0
  BY <1>1, Positions
<1>4. CASE /\ schedule # <<>> /\ due[schedule[1]] <= 0
           /\ blocked' = blocked \ {schedule[1]}
           /\ Erase(1)
           /\ UNCHANGED <<kernel_event, delay, leftovers, process>>
  <2>1. 1 \in 1 .. Len(schedule)
    BY <1>3, <1>4
  <2>2. /\ schedule' \in Seq(Events)
        /\ due' \in [Events -> Int]
        /\ InOrder'
        /\ NeverLate'
        /\ Scheduled' = Scheduled \ {schedule[1]}
    BY <1>4, <2>1, EraseKeeps
  <2>3. TypeOK'
    <3>1. blocked' \in SUBSET Initiators
      BY <1>1, <1>4 DEF TypeOK
    <3> QED
      BY <1>1, <1>2, <1>4, <2>2, <3>1 DEF TypeOK
  <2>4. NoneForgotten'
    BY <1>1, <1>2, <1>4, <2>2 DEF NoneForgotten
  <2>5. TimedLater' /\ process' = "runs"
    BY <1>1, <1>2, <1>4 DEF TimedLater
  <2> QED
    BY <2>2, <2>3, <2>4, <2>5 DEF IInv
<1>5. CASE /\ schedule # <<>> /\ due[schedule[1]] > 0
           /\ notify(due[schedule[1]])
           /\ process' = "waits"
           /\ UNCHANGED <<schedule, due, blocked>>
  <2>1. 1 \in 1 .. Len(schedule) /\ schedule[1] \in Events
    BY <1>3, <1>5
  <2>2. due[schedule[1]] \in Nat
    <3>1. due[schedule[1]] \in Int
      BY <1>1, <2>1 DEF TypeOK
    <3> QED
      BY <1>5, <3>1
  <2>3. KernelTypes' /\ TimedLater' /\ Wakes(due[schedule[1]])'
    <3>1. KernelTypes' /\ TimedLater' /\ \A t : t = due[schedule[1]] => Wakes(t)'
      BY <1>1, <1>5, <2>2, NotifyWakes
    <3> QED
      BY <1>5, <3>1 DEF Wakes
  <2>4. schedule' = schedule /\ due' = due /\ blocked' = blocked /\ Scheduled' = Scheduled
    BY <1>5 DEF Scheduled
  <2>5. TypeOK'
    BY <1>1, <1>2, <1>5, <2>3, <2>4 DEF TypeOK, KernelTypes
  <2>6. InOrder' /\ NeverLate' /\ NoneForgotten'
    BY <1>1, <1>2, <2>4 DEF InOrder, NeverLate, NoneForgotten
  <2>7. AllWake'
    BY <2>3, <2>5, <2>6, FirstWakesAllNext
  <2> QED
    BY <2>3, <2>5, <2>6, <2>7 DEF IInv
<1>6. CASE /\ schedule = <<>>
           /\ process' = "waits"
           /\ UNCHANGED <<schedule, due, kernel_event, delay, leftovers, blocked>>
  <2>1. Scheduled' = {} /\ Scheduled = {}
    BY <1>6, EmptySchedule DEF Scheduled
  <2>2. TypeOK'
    BY <1>1, <1>2, <1>6 DEF TypeOK
  <2>3. InOrder' /\ TimedLater'
    BY <1>1, <1>6 DEF InOrder, TimedLater
  <2>4. NeverLate' /\ AllWake'
    BY <2>1 DEF NeverLate, AllWake
  <2>5. NoneForgotten'
    BY <1>1, <1>2, <1>6, <2>1 DEF NoneForgotten
  <2> QED
    BY <2>2, <2>3, <2>4, <2>5 DEF IInv
<1> QED
  BY <1>4, <1>5, <1>6 DEF GetNextEvent

\* The process begins a run, or is made runnable: it waits no longer.
LEMMA RunsKeep ==
  ASSUME IInv, Run \/ TriggerDelta
  PROVE  IInv'
<1>1. /\ schedule' = schedule /\ due' = due /\ delay' = delay /\ leftovers' = leftovers
      /\ blocked' = blocked /\ cleared' = cleared /\ acts' = acts
      /\ process' \in {"runs", "runnable"}
      /\ kernel_event' = kernel_event \/ kernel_event' = "not notified"
  BY DEF Run, TriggerDelta
<1>2. Scheduled' = Scheduled
  BY <1>1 DEF Scheduled
<1>3. TypeOK /\ TimedLater /\ InOrder /\ NeverLate /\ NoneForgotten
  BY DEF IInv
<1>4. TypeOK'
  BY <1>1, <1>3 DEF TypeOK
<1>5. TimedLater'
  BY <1>1, <1>3 DEF TimedLater
<1>6. InOrder' /\ NeverLate' /\ NoneForgotten'
  BY <1>1, <1>2, <1>3 DEF InOrder, NeverLate, NoneForgotten
<1> QED
  BY <1>1, <1>4, <1>5, <1>6 DEF IInv

\* Time goes on by one unit: no event of the schedule is due now, since the
\* wake-up that is in time for it is one unit away at least.
LEMMA TickKeeps ==
  ASSUME IInv, Tick
  PROVE  IInv'
<1> DEFINE left == {t - 1 : t \in leftovers}
           now  == kernel_event = "timed" /\ delay = 1
<1>1. TypeOK /\ InOrder /\ NeverLate /\ NoneForgotten /\ TimedLater
  BY DEF IInv
<1>2. /\ process = "waits" /\ kernel_event # "delta"
      /\ due' = [e \in Events |-> IF e \in Scheduled THEN due[e] - 1 ELSE 0]
      /\ acts' = 0 /\ schedule' = schedule /\ blocked' = blocked /\ cleared' = cleared
  BY DEF Tick
<1>3. IF now \/ 0 \in left
      THEN /\ process' = "runnable"
           /\ kernel_event' = "not notified"
           /\ delay' = 0
           /\ leftovers' = (left \union (IF kernel_event = "timed" THEN {delay - 1} ELSE {})) \ {0}
      ELSE /\ leftovers' = left
           /\ delay' = IF kernel_event = "timed" THEN delay - 1 ELSE 0
           /\ UNCHANGED <<process, kernel_event>>
  BY DEF Tick
<1>4. Scheduled' = Scheduled /\ Scheduled \subseteq Events
  BY <1>1, <1>2, Positions DEF Scheduled
<1>5. delay \in Nat /\ leftovers \in SUBSET (Nat \ {0}) /\ left \in SUBSET Nat
  <2>1. delay \in Nat /\ leftovers \in SUBSET (Nat \ {0})
    BY <1>1 DEF TypeOK
  <2>2. \A t \in leftovers : t - 1 \in Nat
    BY <2>1
  <2> QED
    BY <2>1, <2>2
<1>6. due \in [Events -> Int]
  BY <1>1 DEF TypeOK
<1>7. due' \in [Events -> Int] /\ \A e \in Scheduled : due'[e] = due[e] - 1
  BY <1>2, <1>4, <1>6
<1>8. ASSUME NEW e \in Scheduled
      PROVE  /\ due[e] \in Int /\ due[e] >= 1
             /\ (kernel_event = "timed" /\ delay <= due[e]) \/ \E t \in leftovers : t <= due[e]
  <2>1. due[e] \in Int
    BY <1>4, <1>6
  <2>2. Wakes(due[e])
    BY <1>2 DEF IInv, AllWake
  <2>3. (kernel_event = "timed" /\ delay <= due[e]) \/ \E t \in leftovers : t <= due[e]
    BY <1>2, <2>2 DEF Wakes
  <2>4. kernel_event = "timed" => delay >= 1
    BY <1>1, <1>5 DEF TimedLater
  <2>5. \A t \in leftovers : t \in Nat /\ t >= 1
    BY <1>5
  <2>6. due[e] >= 1
    <3>1. CASE kernel_event = "timed" /\ delay <= due[e]
      BY <1>5, <2>1, <2>4, <3>1
    <3>2. CASE \E t \in leftovers : t <= due[e]
      BY <2>1, <2>5, <3>2
    <3> QED
      BY <2>3, <3>1, <3>2
  <2> QED
    BY <2>1, <2>3, <2>6
<1>9. NeverLate'
  <2>1. \A e \in Scheduled : due'[e] >= 0
    BY <1>7, <1>8
  <2> QED
    BY <1>4, <2>1 DEF NeverLate
<1>10. InOrder'
  <2>1. \A i \in 1 .. Len(schedule) : schedule[i] \in Scheduled
    BY <1>1, Positions
  <2>2. \A i \in 1 .. Len(schedule) : due'[schedule[i]] = due[schedule[i]] - 1 /\ due[schedule[i]] \in Int
    BY <1>7, <1>8, <2>1
  <2>3. \A i, j \in 1 .. Len(schedule) : i < j => due'[schedule[i]] <= due'[schedule[j]]
    BY <1>1, <2>2 DEF InOrder
  <2> QED
    BY <1>1, <1>2, <2>3 DEF InOrder
<1>11. NoneForgotten'
  BY <1>1, <1>2, <1>4 DEF NoneForgotten
<1>12. schedule' \in Seq(Events) /\ blocked' \in SUBSET Initiators /\ cleared' \in SUBSET Initiators /\ acts' \in 0 .. MaxActs
  <2>1. schedule \in Seq(Events) /\ blocked \in SUBSET Initiators /\ cleared \in SUBSET Initiators
    BY <1>1 DEF TypeOK
  <2>2. 0 \in 0 .. MaxActs
    BY BoundsAssumption
  <2> QED
    BY <1>2, <2>1, <2>2
<1>13. CASE now \/ 0 \in left
  <2>1. /\ process' = "runnable"
        /\ kernel_event' = "not notified"
        /\ delay' = 0
        /\ leftovers' = (left \union (IF kernel_event = "timed" THEN {delay - 1} ELSE {})) \ {0}
    BY <1>3, <1>13
  <2>2. leftovers' \in SUBSET (Nat \ {0})
    <3>1. (IF kernel_event = "timed" THEN {delay - 1} ELSE {}) \in SUBSET Nat
      <4>1. CASE kernel_event = "timed"
        BY <1>1, <1>5, <4>1 DEF TimedLater
      <4>2. CASE kernel_event # "timed"
        BY <4>2
      <4> QED
        BY <4>1, <4>2
    <3> HIDE DEF left
    <3> QED
      BY <1>5, <2>1, <3>1
  <2>3. TypeOK'
    BY <1>7, <1>12, <2>1, <2>2 DEF TypeOK
  <2> QED
    BY <1>9, <1>10, <1>11, <2>1, <2>3 DEF IInv, TimedLater
<1>14. CASE ~(now \/ 0 \in left)
  <2>1. /\ leftovers' = left
        /\ delay' = IF kernel_event = "timed" THEN delay - 1 ELSE 0
        /\ process' = process /\ kernel_event' = kernel_event
    BY <1>3, <1>14
  <2>2. leftovers' \in SUBSET (Nat \ {0})
    BY <1>5, <1>14, <2>1
  <2>3. /\ delay' \in Nat
        /\ kernel_event = "timed" => delay' = delay - 1 /\ delay' > 0
    <3>1. CASE kernel_event = "timed"
      <4>1. delay > 1
        BY <1>1, <1>5, <1>14, <3>1 DEF TimedLater
      <4> QED
        BY <1>5, <2>1, <3>1, <4>1
    <3>2. CASE kernel_event # "timed"
      BY <2>1, <3>2
    <3> QED
      BY <3>1, <3>2
  <2>4. TypeOK'
    <3>1. process' \in {"waits", "runnable", "runs"} /\ kernel_event' \in {"not notified", "delta", "timed"}
      BY <1>1, <2>1 DEF TypeOK
    <3> QED
      BY <1>7, <1>12, <2>2, <2>3, <3>1 DEF TypeOK
  <2>5. TimedLater'
    BY <2>1, <2>3 DEF TimedLater
  <2>6. AllWake'
    <3>1. ASSUME NEW e \in Scheduled PROVE Wakes(due[e])'
      <4>1. CASE kernel_event = "timed" /\ delay <= due[e]
        <5>1. kernel_event' = "timed" /\ delay' <= due'[e]
          BY <1>5, <1>7, <1>8, <2>1, <2>3, <4>1
        <5> QED
          BY <5>1 DEF Wakes
      <4>2. CASE \E t \in leftovers : t <= due[e]
        <5>1. PICK t \in leftovers : t <= due[e]
          BY <4>2
        <5>2. t - 1 \in leftovers' /\ t - 1 <= due'[e]
          BY <1>5, <1>7, <1>8, <2>1, <5>1
        <5> QED
          BY <5>2 DEF Wakes
      <4> QED
        BY <1>8, <4>1, <4>2
    <3> QED
      BY <1>4, <3>1 DEF AllWake
  <2> QED
    BY <1>9, <1>10, <1>11, <2>4, <2>5, <2>6 DEF IInv
<1> QED
  BY <1>13, <1>14

-----------------------------------------------------------------------------
(***************************************************************************)
(* The theorems.                                                           *)
(***************************************************************************)

\* The invariant is inductive.
THEOREM InvariantHolds == Spec => []IInv
<1>1. IInv /\ [Next]_vars => IInv'
  <2> SUFFICES ASSUME IInv, [Next]_vars PROVE IInv'
    OBVIOUS
  <2>1. ASSUME NEW e \in Events, NEW d \in 0 .. Horizon, Notify(e, d) PROVE IInv'
    BY <2>1, NotifyKeeps
  <2>2. ASSUME NEW e \in Events, Cancel(e) PROVE IInv'
    BY <2>2, CancelKeeps
  <2>3. CASE Clear
    BY <2>3, ClearKeeps
  <2>4. CASE Run \/ TriggerDelta
    BY <2>4, RunsKeep
  <2>5. CASE GetNextEvent
    BY <2>5, GetNextEventKeeps
  <2>6. CASE Tick
    BY <2>6, TickKeeps
  <2>7. CASE UNCHANGED vars
    <3>1. Scheduled' = Scheduled
      BY <2>7 DEF vars, Scheduled
    <3> QED
      BY <2>7, <3>1 DEF vars, IInv, TypeOK, TimedLater, InOrder, NeverLate, NoneForgotten, AllWake, Wakes
  <2> QED
    BY <2>1, <2>2, <2>3, <2>4, <2>5, <2>6, <2>7 DEF Next
<1> QED
  BY InitHolds, <1>1, PTL DEF Spec

\* Dates, the state of the event of the kernel and that of the process stay in
\* their types: no notification is made for the past (sc_event::notify).
THEOREM TypeCorrect == Spec => []TypeOK
<1>1. IInv => TypeOK
  BY DEF IInv
<1> QED
  BY InvariantHolds, <1>1, PTL

\* A process that waits is notified in time for every event of its schedule
\* (Schedule::Notify, Cancel and GetNextEvent over sc_event::notify and cancel).
THEOREM WakesAreInTime == Spec => []WakesInTime
<1>1. IInv => WakesInTime
  BY DEF IInv, AllWake, Wakes, NeverLate, WakesInTime
<1> QED
  BY InvariantHolds, <1>1, PTL

\* No event is got after its date: the devices' check of the time stamp of an
\* event never fails ("unexpected event time stamp").
THEOREM NothingIsLate == Spec => []NeverLate
<1>1. IInv => NeverLate
  BY DEF IInv
<1> QED
  BY InvariantHolds, <1>1, PTL

\* An initiator that waits in b_transport has its event in the schedule, unless
\* a reset has taken it (Schedule::Clear).
THEOREM NobodyIsForgotten == Spec => []NoneForgotten
<1>1. IInv => NoneForgotten
  BY DEF IInv
<1> QED
  BY InvariantHolds, <1>1, PTL

-----------------------------------------------------------------------------
(***************************************************************************)
(* The schedule is a calendar.                                             *)
(***************************************************************************)

\* The order of two events is that of their positions, before a step and after.
LEMMA PrecedesByPosition ==
  ASSUME DOMAIN schedule = 1 .. Len(schedule), InOrder,
         DOMAIN schedule' = 1 .. Len(schedule'), InOrder',
         NEW f, NEW g,
         NEW i \in 1 .. Len(schedule), NEW j \in 1 .. Len(schedule), schedule[i] = f, schedule[j] = g,
         NEW p \in 1 .. Len(schedule'), NEW q \in 1 .. Len(schedule'), schedule'[p] = f, schedule'[q] = g,
         i < j <=> p < q
  PROVE  Precedes(f, g)' <=> Precedes(f, g)
<1>1. Precedes(f, g) <=> i < j
  BY DEF Precedes, InOrder
<1>2. Precedes(f, g)' <=> p < q
  BY DEF Precedes, InOrder
<1> QED
  BY <1>1, <1>2

\* An event put in its place comes after those of its date, and leaves the order
\* of the others.
LEMMA InsertPrecedes ==
  ASSUME TypeOK, InOrder, NEW e \in Events, e \notin Scheduled, NEW d \in Int, NEW n \in 0 .. Len(schedule),
         \A i \in 1 .. n : due[schedule[i]] <= d,
         \A i \in (n + 1) .. Len(schedule) : due[schedule[i]] > d,
         due' = [due EXCEPT ![e] = d],
         Insert(e, n)
  PROVE  /\ \A f, g \in Scheduled : Precedes(f, g)' <=> Precedes(f, g)
         /\ \A f \in Scheduled : due[f] = d => Precedes(f, e)' /\ ~Precedes(e, f)'
         /\ ~Precedes(e, e)'
<1> DEFINE m == Len(schedule)
           new(i) == IF i <= n THEN i ELSE i + 1
<1>1. /\ m \in Nat /\ n \in 0 .. m
      /\ Scheduled = {schedule[i] : i \in 1 .. m}
      /\ DOMAIN schedule = 1 .. m
  BY Positions, LenProperties DEF TypeOK
<1>2. schedule' \in Seq(Events) /\ InOrder'
  BY InsertInOrder
<1>3. schedule' = [i \in 1 .. (m + 1) |-> IF i <= n THEN schedule[i] ELSE IF i = n + 1 THEN e ELSE schedule[i - 1]]
  BY DEF Insert
<1>4. DOMAIN schedule' = 1 .. Len(schedule') /\ 1 .. Len(schedule') = 1 .. (m + 1)
  BY <1>2, <1>3, LenProperties
<1>5. \A i \in 1 .. m : new(i) \in 1 .. Len(schedule') /\ schedule'[new(i)] = schedule[i]
  BY <1>1, <1>3, <1>4
<1>6. n + 1 \in 1 .. Len(schedule') /\ schedule'[n + 1] = e
  BY <1>1, <1>3, <1>4
<1>7. ASSUME NEW f \in Scheduled, NEW g \in Scheduled PROVE Precedes(f, g)' <=> Precedes(f, g)
  <2>1. PICK i \in 1 .. m, j \in 1 .. m : schedule[i] = f /\ schedule[j] = g
    BY <1>1
  <2>2. i < j <=> new(i) < new(j)
    BY <1>1
  <2> HIDE DEF new
  <2> QED
    BY <1>1, <1>2, <1>4, <1>5, <2>1, <2>2, PrecedesByPosition
<1>8. ASSUME NEW f \in Scheduled, due[f] = d PROVE Precedes(f, e)' /\ ~Precedes(e, f)'
  <2>1. PICK i \in 1 .. m : schedule[i] = f
    BY <1>1
  <2>2. i <= n
    BY <1>1, <1>8, <2>1
  <2>3. i \in 1 .. Len(schedule') /\ schedule'[i] = f /\ i < n + 1
    BY <1>1, <1>5, <2>1, <2>2
  <2>4. Precedes(f, e)'
    BY <1>4, <1>6, <2>3 DEF Precedes
  <2>5. ASSUME Precedes(e, f)' PROVE FALSE
    <3>1. PICK k \in 1 .. Len(schedule'), l \in 1 .. Len(schedule') : k < l /\ schedule'[k] = e /\ schedule'[l] = f
      BY <1>4, <2>5 DEF Precedes
    <3>2. k = n + 1 /\ l = i
      BY <1>2, <1>6, <2>3, <3>1 DEF InOrder
    <3> QED
      BY <1>1, <2>3, <3>1, <3>2
  <2> QED
    BY <2>4, <2>5
<1>9. ASSUME Precedes(e, e)' PROVE FALSE
  <2>1. PICK k \in 1 .. Len(schedule'), l \in 1 .. Len(schedule') : k < l /\ schedule'[k] = e /\ schedule'[l] = e
    BY <1>4, <1>9 DEF Precedes
  <2>2. k = l
    BY <1>2, <2>1 DEF InOrder
  <2>3. k \in Int
    BY <2>1
  <2> QED
    BY <2>1, <2>2, <2>3
<1> QED
  BY <1>7, <1>8, <1>9

\* Taking an event out leaves the order of the others.
LEMMA ErasePrecedes ==
  ASSUME TypeOK, InOrder, NEW k \in 1 .. Len(schedule), Erase(k)
  PROVE  \A f, g \in Scheduled' : Precedes(f, g)' <=> Precedes(f, g)
<1> DEFINE m == Len(schedule)
           old(i) == IF i < k THEN i ELSE i + 1
<1>1. /\ m \in Nat /\ k \in 1 .. m
      /\ DOMAIN schedule = 1 .. m
  BY LenProperties DEF TypeOK
<1>2. schedule' \in Seq(Events) /\ InOrder' /\ Len(schedule') = m - 1
  BY EraseInOrder
<1>3. DOMAIN schedule' = 1 .. Len(schedule')
  BY <1>2, LenProperties
<1>4. schedule' = [i \in 1 .. (m - 1) |-> IF i < k THEN schedule[i] ELSE schedule[i + 1]]
  BY DEF Erase
<1>5. \A p \in 1 .. (m - 1) : old(p) \in 1 .. m /\ schedule[old(p)] = schedule'[p]
  BY <1>1, <1>4
<1>6. Scheduled' = {schedule'[p] : p \in 1 .. (m - 1)}
  BY <1>2, <1>3 DEF Scheduled
<1> SUFFICES ASSUME NEW f \in Scheduled', NEW g \in Scheduled'
             PROVE  Precedes(f, g)' <=> Precedes(f, g)
  OBVIOUS
<1>7. PICK p \in 1 .. (m - 1), q \in 1 .. (m - 1) : schedule'[p] = f /\ schedule'[q] = g
  BY <1>6
<1>8. old(p) < old(q) <=> p < q
  BY <1>1
<1> HIDE DEF old
<1> QED
  BY <1>1, <1>2, <1>3, <1>5, <1>7, <1>8, PrecedesByPosition

\* A step that leaves the schedule, its dates and its initiators alone is none
\* of the calendar's.
LEMMA BookUnchanged ==
  ASSUME UNCHANGED <<schedule, due, blocked>>
  PROVE  UNCHANGED Book!vars
BY DEF Book!vars, Dates, Ahead, Scheduled, Precedes

\* Notifying an event notes it.
LEMMA NotifyRefines ==
  ASSUME IInv, NEW e \in Events, NEW d \in 0 .. Horizon, Notify(e, d)
  PROVE  Book!Note(e)
<1>1. PICK n \in 0 .. Len(schedule) :
        /\ \A i \in 1 .. n : due[schedule[i]] <= d
        /\ \A i \in (n + 1) .. Len(schedule) : due[schedule[i]] > d
        /\ Insert(e, n)
  BY DEF Notify
<1>2. TypeOK /\ InOrder /\ d \in Nat /\ d \in Int
  BY BoundsAssumption DEF IInv
<1>3. e \notin Scheduled /\ e \notin blocked /\ due' = [due EXCEPT ![e] = d]
  BY DEF Notify
<1>4. Scheduled' = Scheduled \union {e}
  BY <1>1, <1>2, <1>3, InsertInOrder
<1>5. /\ \A f, g \in Scheduled : Precedes(f, g)' <=> Precedes(f, g)
      /\ \A f \in Scheduled : due[f] = d => Precedes(f, e)' /\ ~Precedes(e, f)'
      /\ ~Precedes(e, e)'
  BY <1>1, <1>2, <1>3, InsertPrecedes
<1>6. Scheduled \subseteq Events
  BY <1>2, Positions
<1>7. due'[e] = d /\ \A f \in Scheduled : due'[f] = due[f]
  BY <1>2, <1>3, <1>6 DEF TypeOK
<1>8. /\ DOMAIN Dates = Scheduled
      /\ DOMAIN Dates' = Scheduled \union {e}
      /\ Dates'[e] = d
      /\ \A f \in Scheduled : Dates'[f] = Dates[f] /\ Dates[f] = due[f]
  BY <1>4, <1>7 DEF Dates
<1>9. Ahead' = [f \in Scheduled \union {e} |-> IF f = e THEN {g \in Scheduled : Dates[g] = Dates'[e]} ELSE Ahead[f]]
  <2>1. Ahead' = [f \in Scheduled \union {e} |-> {g \in Scheduled \union {e} : due'[g] = due'[f] /\ Precedes(g, f)'}]
    BY <1>4 DEF Ahead
  <2>2. {g \in Scheduled \union {e} : due'[g] = due'[e] /\ Precedes(g, e)'} = {g \in Scheduled : Dates[g] = Dates'[e]}
    BY <1>5, <1>7, <1>8
  <2>3. ASSUME NEW f \in Scheduled
        PROVE  {g \in Scheduled \union {e} : due'[g] = due'[f] /\ Precedes(g, f)'} = Ahead[f]
    <3>1. Ahead[f] = {g \in Scheduled : due[g] = due[f] /\ Precedes(g, f)}
      BY DEF Ahead
    <3>2. ~(due'[e] = due'[f] /\ Precedes(e, f)')
      BY <1>5, <1>7
    <3>3. \A g \in Scheduled : due'[g] = due'[f] /\ Precedes(g, f)' <=> due[g] = due[f] /\ Precedes(g, f)
      BY <1>5, <1>7
    <3> QED
      BY <3>1, <3>2, <3>3
  <2> QED
    BY <1>3, <2>1, <2>2, <2>3
<1>10. blocked' = blocked \union ({e} \intersect Initiators)
  BY DEF Notify
<1> QED
  BY <1>2, <1>3, <1>8, <1>9, <1>10 DEF Book!Note, Book!Noted

\* Taking an event out keeps the others.
LEMMA EraseRefines ==
  ASSUME TypeOK, InOrder, NEW k \in 1 .. Len(schedule), Erase(k)
  PROVE  Book!Keep(Book!Noted \ {schedule[k]})
<1>1. /\ Scheduled' = Scheduled \ {schedule[k]}
      /\ \A g \in Scheduled' : due'[g] = due[g]
  BY EraseInOrder
<1>2. \A f, g \in Scheduled' : Precedes(f, g)' <=> Precedes(f, g)
  BY ErasePrecedes
<1>3. Book!Noted \ {schedule[k]} = Scheduled'
  BY <1>1 DEF Book!Noted, Dates
<1>4. Dates' = [f \in Scheduled' |-> Dates[f]]
  BY <1>1 DEF Dates
<1>5. Ahead' = [f \in Scheduled' |-> Ahead[f] \intersect Scheduled']
  <2>1. ASSUME NEW f \in Scheduled'
        PROVE  {g \in Scheduled' : due'[g] = due'[f] /\ Precedes(g, f)'} = Ahead[f] \intersect Scheduled'
    BY <1>1, <1>2 DEF Ahead
  <2> QED
    BY <2>1 DEF Ahead
<1> QED
  BY <1>3, <1>4, <1>5 DEF Book!Keep

\* Cancelling an event that no initiator waits for.
LEMMA CancelRefines ==
  ASSUME IInv, NEW e \in Events, Cancel(e)
  PROVE  Book!Cancel(e)
<1>1. TypeOK /\ InOrder /\ e \notin Initiators /\ blocked' = blocked
  BY DEF Cancel, IInv
<1>2. PICK k \in DOMAIN schedule : schedule[k] = e /\ Erase(k)
  BY DEF Cancel
<1>3. k \in 1 .. Len(schedule) /\ e \in Scheduled
  BY <1>1, <1>2, LenProperties DEF TypeOK, Scheduled
<1>4. Book!Keep(Book!Noted \ {e})
  BY <1>1, <1>2, <1>3, EraseRefines
<1> QED
  BY <1>1, <1>3, <1>4 DEF Book!Cancel, Book!Noted, Dates

\* What the process gets is served: it is due now, and first of its date.
LEMMA GetNextEventRefines ==
  ASSUME IInv, GetNextEvent
  PROVE  (\E e \in Events : Book!Serve(e)) \/ UNCHANGED Book!vars
<1>1. TypeOK /\ InOrder /\ NeverLate
  BY DEF IInv
<1>2. /\ Len(schedule) \in Nat
      /\ \A i \in 1 .. Len(schedule) : schedule[i] \in Events
      /\ schedule = <<>> <=> Len(schedule) = 0
      /\ DOMAIN schedule = 1 .. Len(schedule)
  BY <1>1, Positions, LenProperties DEF TypeOK
<1>3. CASE /\ schedule # <<>> /\ due[schedule[1]] <= 0
           /\ blocked' = blocked \ {schedule[1]}
           /\ Erase(1)
  <2> DEFINE e == schedule[1]
  <2>1. 1 \in 1 .. Len(schedule) /\ e \in Events /\ e \in Scheduled
    BY <1>2, <1>3 DEF Scheduled
  <2>2. due[e] = 0
    <3>1. due[e] \in Int /\ due[e] >= 0
      BY <1>1, <2>1 DEF TypeOK, NeverLate
    <3> QED
      BY <1>3, <3>1
  <2>3. ASSUME NEW f \in Scheduled, Precedes(f, e) PROVE FALSE
    <3>1. PICK i \in 1 .. Len(schedule), j \in 1 .. Len(schedule) : i < j /\ schedule[j] = schedule[1]
      BY <1>2, <2>3 DEF Precedes
    <3>2. j = 1
      BY <1>1, <2>1, <3>1 DEF InOrder
    <3> QED
      BY <3>1, <3>2
  <2>4. e \in Book!Noted /\ Dates[e] = 0 /\ Ahead[e] = {}
    BY <2>1, <2>2, <2>3 DEF Book!Noted, Dates, Ahead
  <2>5. Book!Keep(Book!Noted \ {e})
    BY <1>1, <1>3, <2>1, EraseRefines
  <2>6. blocked' = blocked \ {e}
    BY <1>3
  <2>7. Book!Serve(e)
    BY <2>4, <2>5, <2>6 DEF Book!Serve
  <2> QED
    BY <2>1, <2>7
<1>4. CASE UNCHANGED <<schedule, due, blocked>>
  BY <1>4, BookUnchanged
<1> QED
  BY <1>3, <1>4 DEF GetNextEvent

\* The reset of the device clears the calendar.
LEMMA ClearRefines ==
  ASSUME Clear
  PROVE  Book!Clear
<1>1. schedule' = <<>> /\ blocked' = blocked
  BY DEF Clear
<1>2. Scheduled' = {}
  BY <1>1, EmptySeq, LenProperties DEF Scheduled
<1>3. Dates' = [f \in {} |-> Dates[f]] /\ Ahead' = [f \in {} |-> Ahead[f] \intersect {}]
  BY <1>2 DEF Dates, Ahead
<1> QED
  BY <1>1, <1>3 DEF Book!Clear, Book!Keep

\* Time passes for the calendar when it does for the device.
LEMMA TickRefines ==
  ASSUME IInv, IInv', Tick
  PROVE  Book!Pass
<1>1. /\ schedule' = schedule /\ blocked' = blocked
      /\ due' = [e \in Events |-> IF e \in Scheduled THEN due[e] - 1 ELSE 0]
  BY DEF Tick
<1>2. Scheduled' = Scheduled /\ Scheduled \subseteq Events /\ due \in [Events -> Int]
  BY <1>1, Positions DEF IInv, TypeOK, Scheduled
<1>3. \A e \in Scheduled : due'[e] = due[e] - 1 /\ due[e] \in Int
  BY <1>1, <1>2
<1>4. \A e \in Scheduled : due[e] > 0
  <2>1. \A e \in Scheduled : due'[e] >= 0
    BY <1>2 DEF IInv, NeverLate
  <2> QED
    BY <1>3, <2>1
<1>5. Dates' = [e \in Scheduled |-> Dates[e] - 1]
  BY <1>2, <1>3 DEF Dates
<1>6. Ahead' = Ahead
  <2>1. \A e, f \in Scheduled : due'[f] = due'[e] <=> due[f] = due[e]
    BY <1>3
  <2>2. \A e, f \in Scheduled : Precedes(f, e)' <=> Precedes(f, e)
    BY <1>1 DEF Precedes
  <2>3. ASSUME NEW e \in Scheduled
        PROVE  {f \in Scheduled : due'[f] = due'[e] /\ Precedes(f, e)'} = {f \in Scheduled : due[f] = due[e] /\ Precedes(f, e)}
    BY <2>1, <2>2
  <2> QED
    BY <1>2, <2>3 DEF Ahead
<1> QED
  BY <1>1, <1>4, <1>5, <1>6 DEF Book!Pass, Book!Noted, Dates

\* The schedule of a device over the event of the kernel implements a calendar:
\* each event is got at its date and in its turn, its initiator is answered then
\* and not before, and time waits for it (Schedule::Notify, Cancel, GetNextEvent,
\* Clear).
THEOREM ScheduleIsCalendar == Spec => IsCalendar
<1>1. Init => Book!Init
  <2> SUFFICES ASSUME Init PROVE Book!Init
    OBVIOUS
  <2>1. Scheduled = {} /\ blocked = {}
    BY EmptySchedule DEF Init
  <2> QED
    BY <2>1 DEF Book!Init, Book!Noted, Dates, Ahead
<1>2. IInv /\ IInv' /\ [Next]_vars => [Book!Next]_(Book!vars)
  <2> SUFFICES ASSUME IInv, IInv', [Next]_vars PROVE Book!Next \/ UNCHANGED Book!vars
    OBVIOUS
  <2>1. ASSUME NEW e \in Events, NEW d \in 0 .. Horizon, Notify(e, d) PROVE Book!Next
    BY <2>1, NotifyRefines DEF Book!Next
  <2>2. ASSUME NEW e \in Events, Cancel(e) PROVE Book!Next
    BY <2>2, CancelRefines DEF Book!Next
  <2>3. CASE Clear
    BY <2>3, ClearRefines DEF Book!Next
  <2>4. CASE GetNextEvent
    BY <2>4, GetNextEventRefines DEF Book!Next
  <2>5. CASE Tick
    BY <2>5, TickRefines DEF Book!Next
  <2>6. CASE Run \/ TriggerDelta \/ UNCHANGED vars
    BY <2>6, BookUnchanged DEF Run, TriggerDelta, vars
  <2> QED
    BY <2>1, <2>2, <2>3, <2>4, <2>5, <2>6 DEF Next
<1> QED
  BY <1>1, <1>2, InvariantHolds, PTL DEF Spec, IsCalendar, Book!Spec

=============================================================================
