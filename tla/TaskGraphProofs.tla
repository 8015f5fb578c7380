--------------------------- MODULE TaskGraphProofs ---------------------------
(***************************************************************************)
(* Proofs about TaskGraph, for any sets of tasks, buffers, queues and host *)
(* threads and for both execution modes.                                   *)
(***************************************************************************)
EXTENDS TaskGraph, FiniteSetTheorems, TLAPS

(* The state of the host threads is coherent with the task they build and the
   object they wait on, no two threads build the same task, and only a task in
   release_buffers has released some of its buffers. *)
HostInv ==
  /\ \A h \in Host :
       /\ at[h] \in {"group", "linking"} =>
            /\ group[h] \in Task
            /\ phase[group[h]] = "building"
       /\ at[h] = "linking" =>
            /\ buffers_in_use[group[h]] # << >>
            /\ mode[h] \in Mode
       /\ at[h] = "inline" => group[h] \in Task
       /\ at[h] = "queue_wait" => waits_on[h] \in Queue
       /\ at[h] = "buffer_wait" => waits_on[h] \in Buffer
  /\ \A g, h \in Host :
       /\ at[g] \in {"group", "linking"}
       /\ at[h] \in {"group", "linking"}
       /\ group[g] = group[h]
       => g = h
  /\ \A t \in Task :
       /\ phase[t] # "none" => owner_queue[t] \in Queue
       /\ phase[t] = "dropped" => t \in KernelLess
       /\ phase[t] # "releasing" => released[t] = 0
       /\ released[t] <= Len(buffers_in_use[t])
       /\ Len(buffers_in_use[t]) <= MaxAccessors

(* TypeOK with the two counters in Int: that they stay above zero follows
   from CountersExact. *)
WeakTypeOK ==
  /\ phase \in [Task -> {"none", "building", "waiting", "running", "releasing",
                         "notifying", "ending", "exited", "dropped"}]
  /\ owner_queue \in [Task -> Queue \cup {None}]
  /\ buffers_in_use \in [Task -> Seq(Buffer)]
  /\ released \in [Task -> Nat]
  /\ producer_tasks \in [Task -> SUBSET Task]
  /\ latest_producer \in [Buffer -> Task \cup {None}]
  /\ number_of_users \in [Buffer -> Int]
  /\ running_kernels \in [Queue -> Int]
  /\ at \in [Host -> {"idle", "group", "linking", "inline", "queue_wait",
                      "buffer_wait"}]
  /\ group \in [Host -> Task \cup {None}]
  /\ mode \in [Host -> Mode \cup {"none"}]
  /\ waits_on \in [Host -> Queue \cup Buffer \cup {None}]
  /\ writers \in [Buffer -> SUBSET Task]
  /\ earlier \in [Task -> SUBSET Task]

Base == WeakTypeOK /\ HostInv

-----------------------------------------------------------------------------
(* The initial state satisfies Base. *)
LEMMA BaseInit == Init => Base
  BY BoundAssumption DEF Init, Base, WeakTypeOK, HostInv

(* The last element of a non-empty sequence is an element of it. *)
LEMMA LastElement ==
  ASSUME NEW S, NEW s \in Seq(S), s # << >>
  PROVE  s[Len(s)] \in S
OBVIOUS

(* An index of a bounded sequence is within the bound. *)
LEMMA IndexBound ==
  ASSUME NEW S, NEW s \in Seq(S), NEW n \in Nat, Len(s) <= n, NEW i \in 1..Len(s)
  PROVE  i \in 1..n /\ 0 < i /\ i <= Len(s)
OBVIOUS

(* The weak_ptr of a buffer to a task that a command group or a thread still
   owns has not expired. *)
LEMMA OwnedIsAlive ==
  ASSUME NEW t \in Task, Owned(t)
  PROVE  Alive(t)
  BY DEF Alive

(* No step falsifies WeakTypeOK. *)
LEMMA WeakTypeOKStep == Base /\ [Next]_vars => WeakTypeOK'
<1> SUFFICES ASSUME Base, [Next]_vars PROVE WeakTypeOK'
  OBVIOUS
<1> USE DEF Base, WeakTypeOK, HostInv, taskVars, countVars, hostVars, history
<1>1. ASSUME NEW h \in Host, NEW q \in Queue, NEW t \in Task, Submit(h, q, t)
      PROVE WeakTypeOK'
  BY <1>1 DEF Submit
<1>2. ASSUME NEW h \in Host, NEW b \in Buffer, NEW m \in Mode, UseBuffer(h, b, m)
      PROVE WeakTypeOK'
  BY <1>2 DEF UseBuffer, use
<1>3. ASSUME NEW h \in Host, LinkProducer(h)
      PROVE WeakTypeOK'
  <2> DEFINE t == group[h]
             b == buffers_in_use[t][Len(buffers_in_use[t])]
             p == latest_producer[b]
  <2>1. t \in Task /\ b \in Buffer
    <3>1. t \in Task /\ buffers_in_use[t] # << >>
      BY <1>3, Zenon DEF LinkProducer
    <3>2. buffers_in_use[t] \in Seq(Buffer)
      BY <3>1, Zenon
    <3> HIDE DEF Base, WeakTypeOK, HostInv
    <3> QED
      BY <3>1, <3>2, LastElement DEF b
  <2>2. NewestProducer(mode[h], p, t) \in Task \cup {None}
    BY <2>1 DEF NewestProducer
  <2>3. {x \in {p} : LinksTo(x, t)} \subseteq Task
    BY <2>1 DEF LinksTo
  <2> QED
    <3>1. latest_producer' \in [Buffer -> Task \cup {None}]
      BY <1>3, <2>1, <2>2 DEF LinkProducer
    <3>2. producer_tasks' \in [Task -> SUBSET Task]
      BY <1>3, <2>1, <2>3 DEF LinkProducer
    <3>3. /\ at' \in [Host -> {"idle", "group", "linking", "inline", "queue_wait",
                             "buffer_wait"}]
          /\ mode' \in [Host -> Mode \cup {"none"}]
      <4>1. at' = [at EXCEPT ![h] = "group"] /\ mode' = [mode EXCEPT ![h] = "none"]
        BY <1>3, Zenon DEF LinkProducer
      <4>2. /\ at \in [Host -> {"idle", "group", "linking", "inline", "queue_wait",
                               "buffer_wait"}]
            /\ mode \in [Host -> Mode \cup {"none"}]
        BY Zenon
      <4> HIDE DEF Base, WeakTypeOK, HostInv
      <4> QED
        BY <4>1, <4>2
    <3>4. writers' \in [Buffer -> SUBSET Task] /\ earlier' \in [Task -> SUBSET Task]
      <4>1. /\ writers' = [writers EXCEPT ![b] = @ \cup {x \in {t} : may_modify(mode[h])}]
            /\ earlier' = [earlier EXCEPT ![t] = @ \cup (writers[b] \ {t})]
        BY <1>3, Zenon DEF LinkProducer
      <4>2. writers \in [Buffer -> SUBSET Task] /\ earlier \in [Task -> SUBSET Task]
        BY Zenon
      <4> HIDE DEF Base, WeakTypeOK, HostInv, t, b
      <4> QED
        BY <2>1, <4>1, <4>2
    <3>5. UNCHANGED <<phase, owner_queue, buffers_in_use, released,
                      number_of_users, running_kernels, group, waits_on>>
      BY <1>3, Zenon DEF LinkProducer
    <3> QED
      BY <3>1, <3>2, <3>3, <3>4, <3>5, Zenon
<1>4. ASSUME NEW h \in Host, Schedule(h)
      PROVE WeakTypeOK'
  BY <1>4 DEF Schedule, kernel_start
<1>5. ASSUME NEW h \in Host, EndKernelLess(h)
      PROVE WeakTypeOK'
  BY <1>5 DEF EndKernelLess
<1>6. ASSUME NEW h \in Host, InlineReturn(h)
      PROVE WeakTypeOK'
  BY <1>6 DEF InlineReturn
<1>7. ASSUME NEW h \in Host, QueueWaitReturns(h)
      PROVE WeakTypeOK'
  BY <1>7 DEF QueueWaitReturns
<1>8. ASSUME NEW h \in Host, HostAccessGranted(h)
      PROVE WeakTypeOK'
  BY <1>8 DEF HostAccessGranted
<1>9. ASSUME NEW h \in Host, NEW q \in Queue, QueueWait(h, q)
      PROVE WeakTypeOK'
  BY <1>9 DEF QueueWait
<1>10. ASSUME NEW h \in Host, NEW b \in Buffer, HostAccess(h, b)
       PROVE WeakTypeOK'
  BY <1>10 DEF HostAccess
<1>11. ASSUME NEW t \in Task, TaskStep(t)
       PROVE WeakTypeOK'
  <2>1. CASE WaitForProducers(t)
    BY <2>1 DEF WaitForProducers
  <2>2. CASE KernelReturns(t)
    BY <2>2 DEF KernelReturns
  <2>3. CASE ReleaseBuffer(t)
    BY <2>3 DEF ReleaseBuffer, release
  <2>4. CASE ClearBuffers(t)
    BY <2>4 DEF ClearBuffers
  <2>5. CASE NotifyConsumers(t)
    BY <2>5 DEF NotifyConsumers
  <2>6. CASE KernelEnd(t)
    BY <2>6 DEF KernelEnd, kernel_end
  <2> QED
    BY <1>11, <2>1, <2>2, <2>3, <2>4, <2>5, <2>6 DEF TaskStep
<1>12. CASE UNCHANGED vars
  BY <1>12 DEF vars
<1> QED
  BY Zenon, <1>1, <1>2, <1>3, <1>4, <1>5, <1>6, <1>7, <1>8, <1>9, <1>10, <1>11, <1>12
  DEF Next, HostProgress, HostCall

(* No step falsifies HostInv. *)
LEMMA HostInvStep == Base /\ [Next]_vars => HostInv'
<1> SUFFICES ASSUME Base, [Next]_vars PROVE HostInv'
  OBVIOUS
<1> USE DEF Base, WeakTypeOK, HostInv, taskVars, countVars, hostVars, history
<1>1. ASSUME NEW h \in Host, NEW q \in Queue, NEW t \in Task, Submit(h, q, t)
      PROVE HostInv'
  BY <1>1 DEF Submit
<1>2. ASSUME NEW h \in Host, NEW b \in Buffer, NEW m \in Mode, UseBuffer(h, b, m)
      PROVE HostInv'
  <2> DEFINE t == group[h]
  <2>1. t \in Task /\ Len(buffers_in_use[t]) \in Nat
    BY <1>2 DEF UseBuffer
  <2>2. /\ buffers_in_use'[t] = Append(buffers_in_use[t], b)
        /\ buffers_in_use'[t] # << >>
        /\ Len(buffers_in_use'[t]) = Len(buffers_in_use[t]) + 1
        /\ \A u \in Task : u # t => buffers_in_use'[u] = buffers_in_use[u]
    BY <1>2, <2>1 DEF UseBuffer
  <2> QED
    <3>1. \A u \in Task : /\ released'[u] <= Len(buffers_in_use'[u])
                          /\ Len(buffers_in_use'[u]) <= MaxAccessors
      BY <1>2, <2>1, <2>2, BoundAssumption DEF UseBuffer
    <3>2. /\ group' = group /\ phase' = phase /\ owner_queue' = owner_queue
          /\ released' = released /\ waits_on' = waits_on
          /\ at[h] = "group"
          /\ at' = [at EXCEPT ![h] = "linking"]
          /\ mode' = [mode EXCEPT ![h] = m]
      BY <1>2, Zenon DEF UseBuffer
    <3>3. \A g \in Host : group[g] = t => at[g] # "linking"
      BY <1>2, <3>2, <2>1
    <3>4. \A g \in Host : g # h /\ at[g] = "linking" =>
                           buffers_in_use'[group[g]] # << >>
      BY <2>1, <2>2, <3>3
    <3> QED
      BY <2>2, <3>1, <3>2, <3>4
<1>3. ASSUME NEW h \in Host, LinkProducer(h)
      PROVE HostInv'
  <2>1. /\ at[h] = "linking"
        /\ at' = [at EXCEPT ![h] = "group"]
        /\ mode' = [mode EXCEPT ![h] = "none"]
        /\ UNCHANGED <<phase, owner_queue, buffers_in_use, released, group, waits_on>>
    BY <1>3, Zenon DEF LinkProducer
  <2> QED
    BY <2>1
<1>4. ASSUME NEW h \in Host, Schedule(h)
      PROVE HostInv'
  BY <1>4 DEF Schedule
<1>5. ASSUME NEW h \in Host, EndKernelLess(h)
      PROVE HostInv'
  BY <1>5 DEF EndKernelLess
<1>6. ASSUME NEW h \in Host, InlineReturn(h)
      PROVE HostInv'
  BY <1>6 DEF InlineReturn
<1>7. ASSUME NEW h \in Host, QueueWaitReturns(h)
      PROVE HostInv'
  BY <1>7 DEF QueueWaitReturns
<1>8. ASSUME NEW h \in Host, HostAccessGranted(h)
      PROVE HostInv'
  BY <1>8 DEF HostAccessGranted
<1>9. ASSUME NEW h \in Host, NEW q \in Queue, QueueWait(h, q)
      PROVE HostInv'
  BY <1>9 DEF QueueWait
<1>10. ASSUME NEW h \in Host, NEW b \in Buffer, HostAccess(h, b)
       PROVE HostInv'
  BY <1>10 DEF HostAccess
<1>11. ASSUME NEW t \in Task, TaskStep(t)
       PROVE HostInv'
  <2>1. CASE WaitForProducers(t)
    BY <2>1 DEF WaitForProducers
  <2>2. CASE KernelReturns(t)
    BY <2>2 DEF KernelReturns
  <2>3. CASE ReleaseBuffer(t)
    BY <2>3 DEF ReleaseBuffer
  <2>4. CASE ClearBuffers(t)
    BY <2>4, BoundAssumption DEF ClearBuffers
  <2>5. CASE NotifyConsumers(t)
    BY <2>5 DEF NotifyConsumers
  <2>6. CASE KernelEnd(t)
    BY <2>6 DEF KernelEnd
  <2> QED
    BY <1>11, <2>1, <2>2, <2>3, <2>4, <2>5, <2>6 DEF TaskStep
<1>12. CASE UNCHANGED vars
  BY <1>12 DEF vars
<1> QED
  BY Zenon, <1>1, <1>2, <1>3, <1>4, <1>5, <1>6, <1>7, <1>8, <1>9, <1>10, <1>11, <1>12
  DEF Next, HostProgress, HostCall

(* The base invariant holds in every behaviour. *)
LEMMA BaseInvariant == Spec => []Base
<1>1. Base /\ [Next]_vars => Base'
  BY WeakTypeOKStep, HostInvStep DEF Base
<1> QED
  BY BaseInit, <1>1, PTL DEF Spec

-----------------------------------------------------------------------------
(* The two sets that the counters count are finite. *)
LEMMA CountedFinite ==
  /\ \A b \in Buffer : IsFiniteSet(Uses(b))
  /\ \A q \in Queue : IsFiniteSet(Running(q))
<1>1. IsFiniteSet(1..MaxAccessors)
  BY FS_Interval, BoundAssumption
<1>2. IsFiniteSet(Task \X (1..MaxAccessors))
  BY Zenon, <1>1, FS_Product, TaskAssumption
<1>3. \A b \in Buffer : Uses(b) \subseteq Task \X (1..MaxAccessors)
  BY DEF Uses
<1>4. \A q \in Queue : Running(q) \subseteq Task
  BY DEF Running
<1> QED
  BY <1>2, <1>3, <1>4, FS_Subset, TaskAssumption

(* Adding an element to a finite set, or removing one, changes its cardinality
   by one. *)
LEMMA CardinalityAdd ==
  ASSUME NEW S, NEW T, NEW x, IsFiniteSet(S), x \notin S, T = S \cup {x}
  PROVE  Cardinality(T) = Cardinality(S) + 1
  BY FS_AddElement

LEMMA CardinalityRemove ==
  ASSUME NEW S, NEW T, NEW x, IsFiniteSet(S), x \in S, T = S \ {x}
  PROVE  Cardinality(T) = Cardinality(S) - 1
  BY FS_RemoveElement

UsersExact == \A b \in Buffer : number_of_users[b] = Cardinality(Uses(b))
KernelsExact == \A q \in Queue : running_kernels[q] = Cardinality(Running(q))

(* A step leaves the number of users of the buffers, and what determines it,
   alone unless it registers or releases an accessor. *)
LEMMA UsersFrame ==
  ASSUME Next
  PROVE  \/ \E h \in Host, b \in Buffer, m \in Mode : UseBuffer(h, b, m)
         \/ \E t \in Task : ReleaseBuffer(t) \/ ClearBuffers(t)
         \/ UNCHANGED <<buffers_in_use, released, number_of_users>>
<1> DEFINE Frame == UNCHANGED <<buffers_in_use, released, number_of_users>>
<1>1. ASSUME NEW t \in Task, TaskStep(t)
      PROVE  ReleaseBuffer(t) \/ ClearBuffers(t) \/ Frame
  BY <1>1, ZenonT(30) DEF TaskStep, WaitForProducers, KernelReturns,
     NotifyConsumers, KernelEnd, countVars
<1>2. ASSUME NEW h \in Host, HostProgress(h)
      PROVE  Frame
  BY <1>2, ZenonT(30) DEF HostProgress, LinkProducer, Schedule, EndKernelLess,
     InlineReturn, QueueWaitReturns, HostAccessGranted, taskVars, countVars
<1>3. ASSUME NEW h \in Host, HostCall(h)
      PROVE  (\E b \in Buffer, m \in Mode : UseBuffer(h, b, m)) \/ Frame
  BY <1>3, ZenonT(30) DEF HostCall, Submit, QueueWait, HostAccess, taskVars,
     countVars
<1> HIDE DEF Frame
<1>4. \/ \E h \in Host, b \in Buffer, m \in Mode : UseBuffer(h, b, m)
      \/ \E t \in Task : ReleaseBuffer(t) \/ ClearBuffers(t)
      \/ Frame
  BY <1>1, <1>2, <1>3 DEF Next
<1> QED
  BY <1>4 DEF Frame

(* number_of_users follows the accessors in use. *)
LEMMA UsersExactStep == Base /\ UsersExact /\ [Next]_vars => UsersExact'
<1> SUFFICES ASSUME Base, UsersExact, [Next]_vars PROVE UsersExact'
  OBVIOUS
<1>1. ASSUME NEW h \in Host, NEW b \in Buffer, NEW m \in Mode, UseBuffer(h, b, m)
      PROVE UsersExact'
  <2> DEFINE t == group[h]
             n == Len(buffers_in_use[t])
  <2>1. /\ t \in Task /\ n \in Nat /\ n < MaxAccessors /\ released[t] = 0
        /\ number_of_users \in [Buffer -> Int]
    BY <1>1 DEF UseBuffer, Base, WeakTypeOK, HostInv
  <2>2. /\ released' = released
        /\ number_of_users' = [number_of_users EXCEPT ![b] = @ + 1]
        /\ Len(buffers_in_use'[t]) = n + 1
        /\ buffers_in_use'[t][n + 1] = b
        /\ \A i \in 1..n : buffers_in_use'[t][i] = buffers_in_use[t][i]
        /\ \A u \in Task : u # t => buffers_in_use'[u] = buffers_in_use[u]
    BY <1>1, <2>1 DEF UseBuffer, use, Base, WeakTypeOK
  <2> HIDE DEF t, n
  <2>3. ASSUME NEW c \in Buffer, NEW u \in Task, NEW i \in 1..MaxAccessors
        PROVE  InUse(c, u, i)' <=> InUse(c, u, i) \/ (c = b /\ u = t /\ i = n + 1)
    <3>1. CASE u # t
      BY <2>2, <3>1 DEF InUse
    <3>2. CASE u = t /\ i <= n
      BY <2>1, <2>2, <3>2, BoundAssumption, SMTT(60) DEF InUse, n
    <3>3. CASE u = t /\ i = n + 1
      BY <2>1, <2>2, <3>3 DEF InUse, n
    <3>4. CASE u = t /\ i > n + 1
      BY <2>1, <2>2, <3>4, BoundAssumption DEF InUse, n
    <3> QED
      BY <2>1, <3>1, <3>2, <3>3, <3>4, BoundAssumption
  <2>4. \A c \in Buffer : c # b => Uses(c)' = Uses(c)
    BY <2>3 DEF Uses
  <2>5. Uses(b)' = Uses(b) \cup {<<t, n + 1>>}
    BY <2>1, <2>3, BoundAssumption DEF Uses
  <2>6. <<t, n + 1>> \notin Uses(b)
    BY <2>1 DEF Uses, InUse, n
  <2>7. Cardinality(Uses(b)') = Cardinality(Uses(b)) + 1
    BY <2>5, <2>6, CountedFinite, CardinalityAdd
  <2> QED
    BY <2>1, <2>2, <2>4, <2>7 DEF UsersExact
<1>2. ASSUME NEW t \in Task, ReleaseBuffer(t)
      PROVE UsersExact'
  <2> DEFINE n == released[t]
  <2>0. PICK b \in Buffer : b = buffers_in_use[t][n + 1]
    BY <1>2 DEF ReleaseBuffer, Base, WeakTypeOK, HostInv
  <2>1. /\ n \in Nat /\ n < Len(buffers_in_use[t])
        /\ Len(buffers_in_use[t]) \in Nat
        /\ Len(buffers_in_use[t]) <= MaxAccessors
        /\ released \in [Task -> Nat]
        /\ number_of_users \in [Buffer -> Int]
    BY <1>2 DEF ReleaseBuffer, Base, WeakTypeOK, HostInv
  <2>2. /\ buffers_in_use' = buffers_in_use
        /\ released' = [released EXCEPT ![t] = n + 1]
        /\ number_of_users' = [number_of_users EXCEPT ![b] = @ - 1]
    BY <1>2, <2>0 DEF ReleaseBuffer, release
  <2>3. ASSUME NEW c \in Buffer, NEW u \in Task, NEW i \in 1..MaxAccessors
        PROVE  InUse(c, u, i)' <=> InUse(c, u, i) /\ ~(c = b /\ u = t /\ i = n + 1)
    BY <2>0, <2>1, <2>2, BoundAssumption DEF InUse
  <2>4. InUse(b, t, n + 1) /\ n + 1 \in 1..MaxAccessors
    BY <2>0, <2>1, BoundAssumption DEF InUse
  <2> HIDE DEF n
  <2>5. \A c \in Buffer : c # b => Uses(c)' = Uses(c)
    BY <2>3 DEF Uses
  <2>6. Uses(b)' = Uses(b) \ {<<t, n + 1>>}
    BY <2>1, <2>3 DEF Uses
  <2>7. <<t, n + 1>> \in Uses(b)
    BY <2>4 DEF Uses
  <2>8. Cardinality(Uses(b)') = Cardinality(Uses(b)) - 1
    BY <2>1, <2>6, <2>7, CountedFinite, CardinalityRemove
  <2> QED
    BY <2>1, <2>2, <2>5, <2>8 DEF UsersExact
<1>3. ASSUME NEW t \in Task, ClearBuffers(t)
      PROVE UsersExact'
  <2>1. /\ number_of_users' = number_of_users
        /\ released[t] = Len(buffers_in_use[t])
        /\ Len(buffers_in_use[t]) \in Nat
        /\ Len(buffers_in_use'[t]) = 0
        /\ released'[t] = 0
        /\ \A u \in Task : u # t => /\ buffers_in_use'[u] = buffers_in_use[u]
                                   /\ released'[u] = released[u]
    BY <1>3 DEF ClearBuffers, countVars, Base, WeakTypeOK
  <2>2. \A c \in Buffer, u \in Task, i \in 1..MaxAccessors :
          InUse(c, u, i)' <=> InUse(c, u, i)
    BY <2>1, BoundAssumption DEF InUse
  <2>3. \A b \in Buffer : Uses(b)' = Uses(b)
    BY <2>2 DEF Uses
  <2> QED
    BY <2>1, <2>3 DEF UsersExact
<1>4. CASE UNCHANGED <<buffers_in_use, released, number_of_users>>
  BY Zenon, <1>4 DEF UsersExact, Uses, InUse
<1>5. CASE UNCHANGED vars
  BY <1>5 DEF UsersExact, Uses, InUse, vars, taskVars, countVars
<1> QED
  BY <1>1, <1>2, <1>3, <1>4, <1>5, UsersFrame

(* A step leaves running_kernels and the set of running tasks alone unless it
   schedules a task or ends one. *)
LEMMA KernelsFrame ==
  ASSUME Base, Next
  PROVE  \/ \E h \in Host : Schedule(h)
         \/ \E t \in Task : KernelEnd(t)
         \/ /\ running_kernels' = running_kernels
            /\ \A q \in Queue : Running(q)' = Running(q)
<1> USE DEF Base, WeakTypeOK, HostInv, Running, Owned
<1>1. CASE UNCHANGED <<phase, owner_queue, running_kernels>>
  BY <1>1
<1>2. ASSUME NEW h \in Host, NEW q \in Queue, NEW t \in Task, Submit(h, q, t)
      PROVE  /\ running_kernels' = running_kernels
             /\ \A r \in Queue : Running(r)' = Running(r)
  <2>1. /\ phase[t] = "none"
        /\ phase' = [phase EXCEPT ![t] = "building"]
        /\ owner_queue' = [owner_queue EXCEPT ![t] = q]
        /\ running_kernels' = running_kernels
    BY <1>2, Zenon DEF Submit, countVars
  <2> QED
    BY <2>1
<1>3. ASSUME NEW h \in Host, EndKernelLess(h)
      PROVE  /\ running_kernels' = running_kernels
             /\ \A r \in Queue : Running(r)' = Running(r)
  BY <1>3 DEF EndKernelLess, countVars
<1>4. ASSUME NEW t \in Task,
             \/ WaitForProducers(t)
             \/ KernelReturns(t)
             \/ ClearBuffers(t)
             \/ NotifyConsumers(t)
      PROVE  /\ running_kernels' = running_kernels
             /\ \A r \in Queue : Running(r)' = Running(r)
  <2>1. CASE WaitForProducers(t)
    BY <2>1 DEF WaitForProducers, countVars
  <2>2. CASE KernelReturns(t)
    BY <2>2 DEF KernelReturns, countVars
  <2>3. CASE ClearBuffers(t)
    BY <2>3 DEF ClearBuffers, countVars
  <2>4. CASE NotifyConsumers(t)
    BY <2>4 DEF NotifyConsumers, countVars
  <2> QED
    BY <1>4, <2>1, <2>2, <2>3, <2>4
<1> HIDE DEF Base, WeakTypeOK, HostInv, Running, Owned
<1> DEFINE Frame == UNCHANGED <<phase, owner_queue, running_kernels>>
<1>5. ASSUME NEW t \in Task, TaskStep(t)
      PROVE  \/ WaitForProducers(t) \/ KernelReturns(t) \/ ClearBuffers(t)
             \/ NotifyConsumers(t) \/ KernelEnd(t) \/ Frame
  BY <1>5, ZenonT(30) DEF TaskStep, ReleaseBuffer
<1>6. ASSUME NEW h \in Host, HostProgress(h)
      PROVE  Schedule(h) \/ EndKernelLess(h) \/ Frame
  BY <1>6, ZenonT(30) DEF HostProgress, LinkProducer, InlineReturn,
     QueueWaitReturns, HostAccessGranted, taskVars, countVars
<1>7. ASSUME NEW h \in Host, HostCall(h)
      PROVE  (\E q \in Queue, t \in Task : Submit(h, q, t)) \/ Frame
  BY <1>7, ZenonT(30) DEF HostCall, UseBuffer, QueueWait, HostAccess, taskVars,
     countVars
<1>8. CASE Frame
  BY <1>1, <1>8
<1> HIDE DEF Frame
<1> QED
  BY <1>2, <1>3, <1>4, <1>5, <1>6, <1>7, <1>8 DEF Next

(* running_kernels follows the tasks between schedule and kernel_end. *)
LEMMA KernelsExactStep == Base /\ KernelsExact /\ [Next]_vars => KernelsExact'
<1> SUFFICES ASSUME Base, KernelsExact, [Next]_vars PROVE KernelsExact'
  OBVIOUS
<1>1. ASSUME NEW h \in Host, Schedule(h)
      PROVE KernelsExact'
  <2>1. PICK t \in Task : t = group[h] /\ phase[t] = "building"
    BY <1>1 DEF Schedule, Base, HostInv
  <2>2. PICK q \in Queue : q = owner_queue[t]
    BY <2>1 DEF Base, HostInv
  <2>3. /\ running_kernels' = [running_kernels EXCEPT ![q] = @ + 1]
        /\ running_kernels \in [Queue -> Int]
        /\ phase' = [phase EXCEPT ![t] = "waiting"]
        /\ phase \in [Task -> {"none", "building", "waiting", "running", "releasing",
                         "notifying", "ending", "exited", "dropped"}]
        /\ owner_queue' = owner_queue
    BY <1>1, <2>1, <2>2 DEF Schedule, kernel_start, Base, WeakTypeOK
  <2>4. \A r \in Queue : r # q => Running(r)' = Running(r)
    BY <2>2, <2>3 DEF Running, Owned
  <2>5. Running(q)' = Running(q) \cup {t}
    BY <2>2, <2>3 DEF Running, Owned
  <2>6. t \notin Running(q)
    BY <2>1 DEF Running
  <2>7. Cardinality(Running(q)') = Cardinality(Running(q)) + 1
    BY <2>5, <2>6, CountedFinite, CardinalityAdd
  <2> QED
    BY <2>3, <2>4, <2>7 DEF KernelsExact
<1>2. ASSUME NEW t \in Task, KernelEnd(t)
      PROVE KernelsExact'
  <2>1. phase[t] = "ending"
    BY <1>2 DEF KernelEnd
  <2>2. PICK q \in Queue : q = owner_queue[t]
    BY <2>1 DEF Base, HostInv
  <2>3. /\ running_kernels' = [running_kernels EXCEPT ![q] = @ - 1]
        /\ running_kernels \in [Queue -> Int]
        /\ phase' = [phase EXCEPT ![t] = "exited"]
        /\ phase \in [Task -> {"none", "building", "waiting", "running", "releasing",
                         "notifying", "ending", "exited", "dropped"}]
        /\ owner_queue' = owner_queue
    BY <1>2, <2>2 DEF KernelEnd, kernel_end, Base, WeakTypeOK
  <2>4. \A r \in Queue : r # q => Running(r)' = Running(r)
    BY <2>2, <2>3 DEF Running, Owned
  <2>5. Running(q)' = Running(q) \ {t}
    BY <2>2, <2>3 DEF Running, Owned
  <2>6. t \in Running(q)
    BY <2>1, <2>2 DEF Running, Owned
  <2>7. Cardinality(Running(q)') = Cardinality(Running(q)) - 1
    BY <2>5, <2>6, CountedFinite, CardinalityRemove
  <2> QED
    BY <2>3, <2>4, <2>7 DEF KernelsExact
<1>3. CASE /\ running_kernels' = running_kernels
           /\ \A q \in Queue : Running(q)' = Running(q)
  BY <1>3 DEF KernelsExact
<1>4. CASE UNCHANGED vars
  BY <1>4 DEF KernelsExact, Running, Owned, vars, taskVars, countVars
<1> QED
  BY <1>1, <1>2, <1>3, <1>4, KernelsFrame

(* The two reference counters are exact in every behaviour. *)
THEOREM CountersAreExact == Spec => []CountersExact
<1> DEFINE Inv == Base /\ UsersExact /\ KernelsExact
<1>1. Init => UsersExact /\ KernelsExact
  <2> SUFFICES ASSUME Init PROVE UsersExact /\ KernelsExact
    OBVIOUS
  <2>1. \A b \in Buffer : Uses(b) = {}
    BY DEF Init, Uses, InUse
  <2>2. \A q \in Queue : Running(q) = {}
    BY DEF Init, Running, Owned
  <2> QED
    BY Zenon, <2>1, <2>2, FS_EmptySet DEF Init, UsersExact, KernelsExact
<1>2. Inv /\ [Next]_vars => Inv'
  BY WeakTypeOKStep, HostInvStep, UsersExactStep, KernelsExactStep DEF Base
<1>3. Inv => CountersExact
  BY DEF UsersExact, KernelsExact, CountersExact
<1> QED
  BY BaseInit, <1>1, <1>2, <1>3, PTL DEF Spec

(* The type invariant: number_of_users and running_kernels, of an unsigned
   type, never underflow. *)
THEOREM TypeCorrect == Spec => []TypeOK
<1>1. Base /\ CountersExact => TypeOK
  <2> SUFFICES ASSUME Base, CountersExact PROVE TypeOK
    OBVIOUS
  <2>1. \A b \in Buffer : number_of_users[b] \in Nat
    BY CountedFinite, FS_CardinalityType DEF CountersExact
  <2>2. \A q \in Queue : running_kernels[q] \in Nat
    BY CountedFinite, FS_CardinalityType DEF CountersExact
  <2> QED
    BY <2>1, <2>2 DEF Base, WeakTypeOK, TypeOK
<1> QED
  BY BaseInvariant, CountersAreExact, <1>1, PTL

-----------------------------------------------------------------------------
(* A host thread leaves a blocking call only through the return of this call. *)
LEMMA WaitExit ==
  ASSUME Base, Next, NEW h \in Host, at'[h] = "idle"
  PROVE  /\ at[h] = "buffer_wait" => HostAccessGranted(h)
         /\ at[h] = "queue_wait" => QueueWaitReturns(h)
<1> USE DEF Base, WeakTypeOK
<1>1. ASSUME NEW g \in Host, HostProgress(g), at[h] \in {"buffer_wait", "queue_wait"}
      PROVE  h = g /\ (HostAccessGranted(h) \/ QueueWaitReturns(h))
  <2>1. CASE LinkProducer(g)
    BY <1>1, <2>1 DEF LinkProducer
  <2>2. CASE Schedule(g)
    BY <1>1, <2>2 DEF Schedule
  <2>3. CASE EndKernelLess(g)
    BY <1>1, <2>3 DEF EndKernelLess
  <2>4. CASE InlineReturn(g)
    BY <1>1, <2>4 DEF InlineReturn
  <2>5. CASE QueueWaitReturns(g)
    BY Zenon, <1>1, <2>5 DEF QueueWaitReturns
  <2>6. CASE HostAccessGranted(g)
    BY Zenon, <1>1, <2>6 DEF HostAccessGranted
  <2> QED
    BY <1>1, <2>1, <2>2, <2>3, <2>4, <2>5, <2>6 DEF HostProgress
<1>2. ASSUME NEW g \in Host, HostCall(g)
      PROVE  at[h] \notin {"buffer_wait", "queue_wait"}
  <2>1. ASSUME NEW q \in Queue, NEW t \in Task, Submit(g, q, t)
        PROVE  at[h] \notin {"buffer_wait", "queue_wait"}
    BY <2>1 DEF Submit
  <2>2. ASSUME NEW b \in Buffer, NEW m \in Mode, UseBuffer(g, b, m)
        PROVE  at[h] \notin {"buffer_wait", "queue_wait"}
    BY <2>2 DEF UseBuffer
  <2>3. ASSUME NEW q \in Queue, QueueWait(g, q)
        PROVE  at[h] \notin {"buffer_wait", "queue_wait"}
    BY <2>3 DEF QueueWait
  <2>4. ASSUME NEW b \in Buffer, HostAccess(g, b)
        PROVE  at[h] \notin {"buffer_wait", "queue_wait"}
    BY <2>4 DEF HostAccess
  <2> QED
    BY <1>2, <2>1, <2>2, <2>3, <2>4 DEF HostCall
<1>3. ASSUME NEW t \in Task, TaskStep(t)
      PROVE  at[h] \notin {"buffer_wait", "queue_wait"}
  BY <1>3 DEF TaskStep, WaitForProducers, KernelReturns, ReleaseBuffer,
     ClearBuffers, NotifyConsumers, KernelEnd, hostVars
<1> QED
  BY <1>1, <1>2, <1>3 DEF Next, HostAccessGranted, QueueWaitReturns

(* The constructor of a host accessor returns only when no pending or running
   kernel uses the buffer. *)
THEOREM HostAccessIsSafe == Spec => HostAccessAfterKernels
<1> DEFINE After(h, b, t) ==
      /\ at[h] = "buffer_wait" /\ at'[h] = "idle" /\ waits_on[h] = b
      /\ phase[t] \in {"waiting", "running"}
      => \A i \in 1..Len(buffers_in_use[t]) : buffers_in_use[t][i] # b
<1>1. Base /\ CountersExact /\ [Next]_vars
      => [\A h \in Host, b \in Buffer, t \in Task : After(h, b, t)]_vars
  <2> SUFFICES ASSUME Base, CountersExact, Next,
                      NEW h \in Host, NEW b \in Buffer, NEW t \in Task,
                      at[h] = "buffer_wait", at'[h] = "idle", waits_on[h] = b,
                      phase[t] \in {"waiting", "running"},
                      NEW i \in 1..Len(buffers_in_use[t]),
                      buffers_in_use[t][i] = b
               PROVE  FALSE
    OBVIOUS
  <2>1. number_of_users[b] = 0
    BY WaitExit DEF HostAccessGranted, buffer_ready
  <2>2. Uses(b) = {}
    BY <2>1, CountedFinite, FS_EmptySet DEF CountersExact
  <2>3. i \in 1..MaxAccessors /\ InUse(b, t, i)
    <3>1. buffers_in_use[t] \in Seq(Buffer)
      BY Zenon DEF Base, WeakTypeOK
    <3>2. Len(buffers_in_use[t]) <= MaxAccessors
      BY Zenon DEF Base, HostInv
    <3>3. phase[t] # "releasing"
      OBVIOUS
    <3>4. released[t] = 0
      BY <3>3, Zenon DEF Base, HostInv
    <3>5. i \in 1..MaxAccessors /\ 0 < i /\ i <= Len(buffers_in_use[t])
      BY <3>1, <3>2, IndexBound, BoundAssumption, Zenon
    <3> QED
      BY <3>4, <3>5, Zenon DEF InUse
  <2>4. <<t, i>> \in Uses(b)
    BY <2>3 DEF Uses
  <2> QED
    BY <2>2, <2>4
<1> QED
  BY BaseInvariant, CountersAreExact, <1>1, PTL DEF Spec, HostAccessAfterKernels

(* queue::wait returns only when every task submitted to the queue has run to
   its end. *)
THEOREM QueueWaitIsSafe == Spec => QueueWaitAfterKernels
<1> DEFINE After(h, q, t) ==
      /\ at[h] = "queue_wait" /\ at'[h] = "idle" /\ waits_on[h] = q
      /\ owner_queue[t] = q /\ Owned(t)
      => phase[t] = "building"
<1>1. Base /\ CountersExact /\ [Next]_vars
      => [\A h \in Host, q \in Queue, t \in Task : After(h, q, t)]_vars
  <2> SUFFICES ASSUME Base, CountersExact, Next,
                      NEW h \in Host, NEW q \in Queue, NEW t \in Task,
                      at[h] = "queue_wait", at'[h] = "idle", waits_on[h] = q,
                      owner_queue[t] = q, Owned(t), phase[t] # "building"
               PROVE  FALSE
    OBVIOUS
  <2>1. running_kernels[q] = 0
    BY WaitExit DEF QueueWaitReturns, queue_idle
  <2>2. Running(q) = {}
    BY <2>1, CountedFinite, FS_EmptySet DEF CountersExact
  <2> QED
    BY <2>2 DEF Running
<1> QED
  BY BaseInvariant, CountersAreExact, <1>1, PTL DEF Spec, QueueWaitAfterKernels

-----------------------------------------------------------------------------
(***************************************************************************)
(* The order of the kernels that share a buffer, for any number of tasks,  *)
(* buffers, queues and host threads.  add_buffer links a task only to the  *)
(* latest producer of a buffer, found through a weak_ptr; the invariant    *)
(* below says why this is enough: whatever else modified the buffer either *)
(* precedes the latest producer, or has completed when the weak_ptr has    *)
(* expired.  With one host thread the producers of a task are older tasks, *)
(* hence no cycle of waiting tasks, and no wait for one without threads.   *)
(***************************************************************************)

(* The latest producer of a buffer comes after all the others, *)
LatestIsLast ==
  \A b \in Buffer : \A w \in writers[b] :
    /\ latest_producer[b] \in Task
    /\ w = latest_producer[b] \/ w \in earlier[latest_producer[b]]

(* it has been submitted, *)
LatestIsSubmitted ==
  \A b \in Buffer : latest_producer[b] # None => phase[latest_producer[b]] # "none"

(* and every task that must precede a task not started yet has completed, or is
   covered by one of its producers. *)
Covered(w, t) ==
  \/ KernelDone(w)
  \/ \E p \in producer_tasks[t] : w = p \/ w \in earlier[p]

PendingCovered ==
  \A t \in Task : ~KernelStarted(t) => \A w \in earlier[t] : Covered(w, t)

OrderInv == /\ LatestIsLast
            /\ LatestIsSubmitted
            /\ PendingCovered
            /\ ProducersFirst

-----------------------------------------------------------------------------
(* add_buffer covers every task that precedes. *)
LEMMA LinkProducerOrder ==
  ASSUME KernelLess = {}, "atomic" \notin Mode,
         Base, OrderInv, NEW h \in Host, LinkProducer(h)
  PROVE  OrderInv'
<1>1. PICK t \in Task : t = group[h] /\ phase[t] = "building"
  BY DEF LinkProducer, Base, HostInv
<1>2. PICK b \in Buffer : b = buffers_in_use[t][Len(buffers_in_use[t])]
  BY <1>1 DEF LinkProducer, Base, WeakTypeOK, HostInv
<1>3. PICK p \in Task \cup {None} : p = latest_producer[b]
  BY DEF Base, WeakTypeOK
<1>4. PICK m \in Mode : m = mode[h] /\ m # "atomic"
  BY DEF LinkProducer, Base, HostInv
<1>5. /\ latest_producer' =
           [latest_producer EXCEPT ![b] = IF is_write_access(m) THEN t ELSE p]
      /\ producer_tasks' =
           [producer_tasks EXCEPT ![t] = @ \cup {x \in {p} : LinksTo(x, t)}]
      /\ earlier' = [earlier EXCEPT ![t] = @ \cup (writers[b] \ {t})]
      /\ writers' =
           [writers EXCEPT ![b] = @ \cup {x \in {t} : is_write_access(m)}]
      /\ phase' = phase
  BY Zenon, <1>1, <1>2, <1>3, <1>4 DEF LinkProducer, NewestProducer, may_modify
<1>6. /\ latest_producer \in [Buffer -> Task \cup {None}]
      /\ producer_tasks \in [Task -> SUBSET Task]
      /\ earlier \in [Task -> SUBSET Task]
      /\ writers \in [Buffer -> SUBSET Task]
      /\ None \notin Task
  BY NoneAssumption DEF Base, WeakTypeOK
<1>7. /\ \A u \in Task : /\ KernelDone(u)' <=> KernelDone(u)
                         /\ KernelStarted(u)' <=> KernelStarted(u)
                         /\ earlier[u] \subseteq earlier'[u]
                         /\ u # t => earlier'[u] = earlier[u]
                         /\ producer_tasks[u] \subseteq producer_tasks'[u]
      /\ ~KernelStarted(t)
  BY <1>1, <1>5, <1>6 DEF KernelDone, KernelStarted
<1>8. LatestIsLast'
  BY <1>3, <1>5, <1>6 DEF OrderInv, LatestIsLast
<1>9. LatestIsSubmitted'
  BY <1>1, <1>3, <1>5, <1>6 DEF OrderInv, LatestIsSubmitted
<1>10. PendingCovered'
  <2>1. ASSUME NEW u \in Task, NEW w \in Task, Covered(w, u)
        PROVE  Covered(w, u)'
    BY <1>6, <1>7, <2>1 DEF Covered
  <2>2. ASSUME NEW w \in writers[b], w # t
        PROVE  Covered(w, t)'
    <3>1. p \in Task /\ (w = p \/ w \in earlier[p]) /\ w \in Task
      BY <1>3, <1>6 DEF OrderInv, LatestIsLast
    <3>2. CASE p = t
      BY <1>7, <2>1, <2>2, <3>1, <3>2 DEF OrderInv, PendingCovered
    <3>3. CASE p # t /\ Owned(p)
      <4>1. p \in producer_tasks'[t]
        BY <1>5, <1>6, <3>1, <3>3, OwnedIsAlive DEF LinksTo
      <4> QED
        BY <1>7, <3>1, <3>3, <4>1 DEF Covered
    <3>4. CASE ~Owned(p)
      <4>1. phase[p] = "exited"
        BY <1>3, <1>6, <3>1, <3>4
        DEF Owned, Base, HostInv, OrderInv, LatestIsSubmitted
      <4>2. KernelDone(w)
        BY <3>1, <4>1 DEF KernelDone, KernelStarted, OrderInv, ProducersFirst
      <4> QED
        BY <1>7, <3>1, <4>2 DEF Covered
    <3> QED
      BY <3>2, <3>3, <3>4
  <2>3. SUFFICES ASSUME NEW u \in Task, ~KernelStarted(u), NEW w \in earlier'[u]
                 PROVE  Covered(w, u)'
    BY <1>7 DEF PendingCovered
  <2>4. CASE w \in earlier[u]
    BY <1>6, <2>1, <2>3, <2>4 DEF OrderInv, PendingCovered
  <2>5. CASE w \notin earlier[u]
    BY <1>5, <1>6, <2>2, <2>3, <2>5
  <2> QED
    BY <2>4, <2>5
<1>11. ProducersFirst'
  BY <1>6, <1>7 DEF OrderInv, ProducersFirst
<1> QED
  BY <1>8, <1>9, <1>10, <1>11 DEF OrderInv

(* wait_for_producers lets a kernel start after all that precede it. *)
LEMMA WaitForProducersOrder ==
  ASSUME Base, OrderInv, NEW t \in Task, WaitForProducers(t)
  PROVE  OrderInv'
<1>1. /\ phase' = [phase EXCEPT ![t] = "running"]
      /\ producer_tasks' = [producer_tasks EXCEPT ![t] = {}]
      /\ UNCHANGED <<latest_producer, writers, earlier>>
      /\ phase[t] = "waiting"
  BY DEF WaitForProducers, countVars, history
<1>2. /\ phase \in [Task -> {"none", "building", "waiting", "running", "releasing",
                         "notifying", "ending", "exited", "dropped"}]
      /\ latest_producer \in [Buffer -> Task \cup {None}]
      /\ producer_tasks \in [Task -> SUBSET Task]
      /\ earlier \in [Task -> SUBSET Task]
      /\ None \notin Task
  BY NoneAssumption DEF Base, WeakTypeOK
<1>3. \A u \in Task : /\ KernelDone(u)' <=> KernelDone(u)
                      /\ u # t => /\ KernelStarted(u)' <=> KernelStarted(u)
                                  /\ producer_tasks'[u] = producer_tasks[u]
  BY <1>1, <1>2 DEF KernelDone, KernelStarted
<1>4. KernelStarted(t)' /\ ~KernelStarted(t)
  BY <1>1, <1>2 DEF KernelDone, KernelStarted
<1>5. LatestIsLast' /\ LatestIsSubmitted'
  BY <1>1, <1>2 DEF OrderInv, LatestIsLast, LatestIsSubmitted
<1>6. PendingCovered'
  BY <1>1, <1>2, <1>3, <1>4 DEF OrderInv, PendingCovered, Covered
<1>7. ASSUME NEW w \in earlier[t]
      PROVE  KernelDone(w)
  <2>1. CASE ~KernelDone(w)
    <3>1. PICK p \in producer_tasks[t] : w = p \/ w \in earlier[p]
      BY <1>4, <2>1 DEF OrderInv, PendingCovered, Covered
    <3>2. p \in Task /\ KernelDone(p) /\ KernelStarted(p)
      BY <1>2 DEF WaitForProducers, execution_ended, KernelDone, KernelStarted
    <3> QED
      BY <3>1, <3>2 DEF OrderInv, ProducersFirst
  <2> QED
    BY <2>1
<1>8. ProducersFirst'
  BY <1>1, <1>2, <1>3, <1>7 DEF OrderInv, ProducersFirst
<1> QED
  BY <1>5, <1>6, <1>8 DEF OrderInv

(* The other steps of the phases only let kernels complete. *)
LEMMA PhaseOrder ==
  ASSUME Base, OrderInv,
         UNCHANGED <<latest_producer, producer_tasks, writers, earlier>>,
         \A t \in Task : /\ KernelStarted(t)' <=> KernelStarted(t)
                         /\ KernelDone(t) => KernelDone(t)'
                         /\ phase[t] # "none" => phase'[t] # "none"
  PROVE  OrderInv'
<1>1. /\ latest_producer \in [Buffer -> Task \cup {None}]
      /\ producer_tasks \in [Task -> SUBSET Task]
      /\ earlier \in [Task -> SUBSET Task]
  BY DEF Base, WeakTypeOK
<1>2. LatestIsLast' /\ LatestIsSubmitted'
  BY <1>1 DEF OrderInv, LatestIsLast, LatestIsSubmitted
<1>3. PendingCovered'
  BY <1>1 DEF OrderInv, PendingCovered, Covered
<1>4. ProducersFirst'
  BY <1>1 DEF OrderInv, ProducersFirst
<1> QED
  BY <1>2, <1>3, <1>4 DEF OrderInv

(* Every step preserves the order. *)
LEMMA OrderStep ==
  ASSUME KernelLess = {}, "atomic" \notin Mode,
         Base, OrderInv, [Next]_vars
  PROVE  OrderInv'
<1> DEFINE Monotone ==
      /\ UNCHANGED <<latest_producer, producer_tasks, writers, earlier>>
      /\ \A t \in Task : /\ KernelStarted(t)' <=> KernelStarted(t)
                         /\ KernelDone(t) => KernelDone(t)'
                         /\ phase[t] # "none" => phase'[t] # "none"
<1> USE DEF Base, WeakTypeOK, HostInv, KernelStarted, KernelDone,
            taskVars, countVars, hostVars, history
<1>1. ASSUME NEW h \in Host, NEW q \in Queue, NEW t \in Task, Submit(h, q, t)
      PROVE  Monotone
  BY <1>1 DEF Submit
<1>2. ASSUME NEW h \in Host, Schedule(h)
      PROVE  Monotone
  BY <1>2 DEF Schedule
<1>3. ASSUME NEW t \in Task, KernelReturns(t)
      PROVE  Monotone
  BY <1>3 DEF KernelReturns
<1>4. ASSUME NEW t \in Task, ClearBuffers(t)
      PROVE  Monotone
  BY <1>4 DEF ClearBuffers
<1>5. ASSUME NEW t \in Task, NotifyConsumers(t)
      PROVE  Monotone
  BY <1>5 DEF NotifyConsumers
<1>6. ASSUME NEW t \in Task, KernelEnd(t)
      PROVE  Monotone
  BY <1>6 DEF KernelEnd
<1>7. ASSUME NEW h \in Host
      PROVE  ~EndKernelLess(h)
  BY DEF EndKernelLess
<1> HIDE DEF Base, WeakTypeOK, HostInv, KernelStarted, KernelDone
<1> DEFINE Frame == UNCHANGED <<phase, latest_producer, producer_tasks, writers, earlier>>
<1>8. ASSUME NEW t \in Task, TaskStep(t)
      PROVE  \/ WaitForProducers(t) \/ KernelReturns(t) \/ ClearBuffers(t)
             \/ NotifyConsumers(t) \/ KernelEnd(t) \/ Frame
  BY <1>8, ZenonT(30) DEF TaskStep, ReleaseBuffer
<1>9. ASSUME NEW h \in Host, HostProgress(h)
      PROVE  Schedule(h) \/ EndKernelLess(h) \/ LinkProducer(h) \/ Frame
  BY <1>9, ZenonT(30) DEF HostProgress, InlineReturn, QueueWaitReturns,
     HostAccessGranted
<1>10. ASSUME NEW h \in Host, HostCall(h)
       PROVE  (\E q \in Queue, t \in Task : Submit(h, q, t)) \/ Frame
  BY <1>10, ZenonT(30) DEF HostCall, UseBuffer, QueueWait, HostAccess
<1>11. CASE Monotone
  BY <1>11, PhaseOrder
<1>12. CASE Frame
  BY <1>12, PhaseOrder DEF KernelStarted, KernelDone
<1>13. CASE UNCHANGED vars
  BY <1>12, <1>13 DEF vars
<1> HIDE DEF Monotone, Frame
<1> QED
  BY <1>1, <1>2, <1>3, <1>4, <1>5, <1>6, <1>7, <1>8, <1>9, <1>10, <1>11, <1>12,
     <1>13, LinkProducerOrder, WaitForProducersOrder DEF Next

(* A kernel runs only after every kernel registered earlier as modifying one of
   its buffers, when every command group has a kernel and no accessor has the
   atomic mode: the two hypotheses cannot be dropped. *)
THEOREM KernelsInOrder ==
  ASSUME KernelLess = {}, "atomic" \notin Mode
  PROVE  Spec => []ProducersFirst
<1>1. Init => OrderInv
  BY NoneAssumption
  DEF Init, OrderInv, LatestIsLast, LatestIsSubmitted, PendingCovered,
      ProducersFirst, KernelStarted, KernelDone
<1>2. Base /\ OrderInv /\ [Next]_vars => OrderInv'
  BY OrderStep
<1>3. OrderInv => ProducersFirst
  BY DEF OrderInv
<1> QED
  BY BaseInvariant, <1>1, <1>2, <1>3, PTL DEF Spec

-----------------------------------------------------------------------------
(* One host thread: OneThread is what the application must respect for the
   results that follow; with two threads tasks can wait for one another. *)
OneThread == \A g, h \in Host : g = h

(* The task a command group builds is the one of a host thread in the functor
   passed to queue::submit. *)
BuildingHasHost ==
  \A t \in Task : phase[t] = "building" =>
    \E h \in Host : at[h] \in {"group", "linking"} /\ group[h] = t

(* No task waits for one that is not scheduled yet. *)
ProducersScheduled ==
  /\ \A t, u \in Task : u \in producer_tasks[t] => phase[u] \notin {"none", "building"}
  /\ \A t \in Task : phase[t] = "none" => producer_tasks[t] = {}

CycleInv == BuildingHasHost /\ LatestIsSubmitted /\ ProducersScheduled /\ NoWaitCycle

(* No step falsifies BuildingHasHost. *)
LEMMA BuildingHasHostStep == Base /\ BuildingHasHost /\ [Next]_vars => BuildingHasHost'
<1> SUFFICES ASSUME Base, BuildingHasHost, [Next]_vars, NEW t \in Task,
                    phase'[t] = "building"
             PROVE  \E h \in Host : at'[h] \in {"group", "linking"} /\ group'[h] = t
  BY DEF BuildingHasHost
<1> USE DEF Base, WeakTypeOK
<1>1. ASSUME NEW h \in Host, NEW q \in Queue, NEW u \in Task, Submit(h, q, u)
      PROVE  \E g \in Host : at'[g] \in {"group", "linking"} /\ group'[g] = t
  <2>1. CASE t = u
    BY <1>1, <2>1 DEF Submit
  <2>2. CASE t # u
    <3>1. PICK g \in Host : at[g] \in {"group", "linking"} /\ group[g] = t
      BY <1>1, <2>2 DEF Submit, BuildingHasHost
    <3>2. at'[g] = at[g] /\ group'[g] = group[g]
      BY <1>1, <3>1 DEF Submit
    <3> QED
      BY <3>1, <3>2
  <2> QED
    BY <2>1, <2>2
<1>2. ASSUME NEW h \in Host, Schedule(h) \/ EndKernelLess(h)
      PROVE  \E g \in Host : at'[g] \in {"group", "linking"} /\ group'[g] = t
  <2>1. phase[t] = "building" /\ t # group[h]
    BY <1>2 DEF Schedule, EndKernelLess, HostInv
  <2>2. PICK g \in Host : at[g] \in {"group", "linking"} /\ group[g] = t
    BY <2>1 DEF BuildingHasHost
  <2>3. at'[g] = at[g] /\ group'[g] = group[g]
    BY <1>2, <2>1, <2>2 DEF Schedule, EndKernelLess
  <2> QED
    BY <2>2, <2>3
<1>3. ASSUME phase[t] = "building",
             \A g \in Host : at[g] \in {"group", "linking"} =>
               at'[g] \in {"group", "linking"} /\ group'[g] = group[g]
      PROVE  \E g \in Host : at'[g] \in {"group", "linking"} /\ group'[g] = t
  <2>1. PICK g \in Host : at[g] \in {"group", "linking"} /\ group[g] = t
    BY <1>3 DEF BuildingHasHost
  <2> QED
    BY Zenon, <1>3, <2>1
<1>4. ASSUME NEW h \in Host,
             \/ LinkProducer(h) \/ InlineReturn(h) \/ QueueWaitReturns(h) \/ HostAccessGranted(h)
             \/ \E b \in Buffer, m \in Mode : UseBuffer(h, b, m)
             \/ \E q \in Queue : QueueWait(h, q)
             \/ \E b \in Buffer : HostAccess(h, b)
      PROVE  \E g \in Host : at'[g] \in {"group", "linking"} /\ group'[g] = t
  <2>1. phase' = phase
    BY Zenon, <1>4 DEF LinkProducer, InlineReturn, QueueWaitReturns, HostAccessGranted, UseBuffer,
                QueueWait, HostAccess, taskVars
  <2>2. \A g \in Host : at[g] \in {"group", "linking"} =>
          at'[g] \in {"group", "linking"} /\ group'[g] = group[g]
    BY ZenonT(30), <1>4 DEF LinkProducer, InlineReturn, QueueWaitReturns, HostAccessGranted, UseBuffer,
                QueueWait, HostAccess
  <2> QED
    BY <1>3, <2>1, <2>2
<1>5. ASSUME NEW u \in Task, TaskStep(u)
      PROVE  \E g \in Host : at'[g] \in {"group", "linking"} /\ group'[g] = t
  <2>1. phase[t] = "building" /\ UNCHANGED <<at, group>>
    BY <1>5 DEF TaskStep, WaitForProducers, KernelReturns, ReleaseBuffer, ClearBuffers,
                NotifyConsumers, KernelEnd, hostVars
  <2> QED
    BY <1>3, <2>1
<1>6. CASE UNCHANGED vars
  BY <1>3, <1>6 DEF vars, taskVars, hostVars
<1> QED
  BY <1>1, <1>2, <1>4, <1>5, <1>6 DEF Next, HostProgress, HostCall

(* With one host thread, one task is built at a time. *)
LEMMA OneBuilds ==
  ASSUME OneThread, BuildingHasHost, NEW h \in Host, at[h] \in {"group", "linking"},
         NEW u \in Task, phase[u] = "building"
  PROVE  u = group[h]
BY DEF OneThread, BuildingHasHost

(* A step that neither starts a task nor links one. *)
LEMMA CycleFrame ==
  ASSUME Base, LatestIsSubmitted, ProducersScheduled, NoWaitCycle,
         UNCHANGED latest_producer,
         \A t \in Task : /\ Owned(t)' => Owned(t)
                         /\ producer_tasks'[t] \subseteq producer_tasks[t]
                         /\ phase[t] # "none" => phase'[t] # "none"
                         /\ phase[t] \notin {"none", "building"} =>
                              phase'[t] \notin {"none", "building"}
  PROVE  LatestIsSubmitted' /\ ProducersScheduled' /\ NoWaitCycle'
<1>1. LatestIsSubmitted'
  BY DEF LatestIsSubmitted, Base, WeakTypeOK
<1>2. ProducersScheduled'
  BY DEF ProducersScheduled
<1>3. NoWaitCycle'
  <2> SUFFICES ASSUME NEW S \in SUBSET {t \in Task : Owned(t)'}, S # {}
               PROVE  \E t \in S : producer_tasks'[t] \cap S = {}
    BY DEF NoWaitCycle
  <2>1. S \in SUBSET {t \in Task : Owned(t)}
    OBVIOUS
  <2>2. PICK t \in S : producer_tasks[t] \cap S = {}
    BY <2>1 DEF NoWaitCycle
  <2> QED
    BY <2>2
<1> QED
  BY <1>1, <1>2, <1>3

(* A new task, or new producers of a task, make no cycle when no task waits for
   that task. *)
LEMMA LastMakesNoCycle ==
  ASSUME NoWaitCycle, NEW t \in Task,
         \A u \in Task : Owned(u)' => Owned(u) \/ u = t,
         \A u \in Task \ {t} : producer_tasks'[u] = producer_tasks[u],
         \A u \in Task : t \notin producer_tasks'[u]
  PROVE  NoWaitCycle'
<1> SUFFICES ASSUME NEW S \in SUBSET {u \in Task : Owned(u)'}, S # {}
             PROVE  \E u \in S : producer_tasks'[u] \cap S = {}
  BY DEF NoWaitCycle
<1>1. CASE S \ {t} = {}
  <2>1. S = {t}
    BY <1>1
  <2> QED
    BY <2>1
<1>2. CASE S \ {t} # {}
  <2>1. S \ {t} \in SUBSET {u \in Task : Owned(u)}
    OBVIOUS
  <2>2. PICK u \in S \ {t} : producer_tasks[u] \cap (S \ {t}) = {}
    BY Zenon, <1>2, <2>1 DEF NoWaitCycle
  <2>3. producer_tasks'[u] = producer_tasks[u] /\ t \notin producer_tasks'[u]
    BY <2>2
  <2> QED
    BY <2>2, <2>3
<1> QED
  BY <1>1, <1>2

(* queue::submit: the new task has no producer and is nobody's. *)
LEMMA CycleSubmit ==
  ASSUME Base, CycleInv, NEW h \in Host, NEW q \in Queue, NEW t \in Task, Submit(h, q, t)
  PROVE  LatestIsSubmitted' /\ ProducersScheduled' /\ NoWaitCycle'
<1> USE DEF CycleInv
<1>1. /\ phase[t] = "none" /\ phase' = [phase EXCEPT ![t] = "building"]
      /\ UNCHANGED <<producer_tasks, latest_producer>>
  BY DEF Submit, countVars
<1>2. /\ phase'[t] = "building"
      /\ \A u \in Task \ {t} : phase'[u] = phase[u]
  BY <1>1 DEF Base, WeakTypeOK
<1>3. LatestIsSubmitted'
  BY <1>1, <1>2 DEF LatestIsSubmitted, Base, WeakTypeOK
<1>4. ProducersScheduled'
  BY <1>1, <1>2 DEF ProducersScheduled
<1>5. NoWaitCycle'
  <2>1. \A u \in Task : Owned(u)' => Owned(u) \/ u = t
    BY <1>2 DEF Owned
  <2>2. \A u \in Task : t \notin producer_tasks'[u]
    BY <1>1 DEF ProducersScheduled
  <2> QED
    BY <1>1, <2>1, <2>2, LastMakesNoCycle
<1> QED
  BY <1>3, <1>4, <1>5

(* add_buffer: with one host thread the latest producer is another task, which
   is already scheduled, and the task being built is nobody's producer. *)
LEMMA CycleLink ==
  ASSUME OneThread, Base, CycleInv, NEW h \in Host, LinkProducer(h)
  PROVE  LatestIsSubmitted' /\ ProducersScheduled' /\ NoWaitCycle'
<1> USE DEF CycleInv
<1>1. PICK t \in Task : t = group[h] /\ phase[t] = "building"
  BY DEF LinkProducer, Base, HostInv
<1>2. PICK b \in Buffer : b = buffers_in_use[t][Len(buffers_in_use[t])]
  BY <1>1, LastElement DEF LinkProducer, Base, HostInv, WeakTypeOK
<1>3. /\ UNCHANGED phase
      /\ latest_producer' =
           [latest_producer EXCEPT ![b] = NewestProducer(mode[h], latest_producer[b], t)]
      /\ producer_tasks' =
           [producer_tasks EXCEPT ![t] = @ \cup {x \in {latest_producer[b]} : LinksTo(x, t)}]
  BY <1>1, <1>2 DEF LinkProducer
<1>4. /\ \A c \in Buffer : latest_producer'[c] \in {latest_producer[c], t}
      /\ \A u \in Task \ {t} : producer_tasks'[u] = producer_tasks[u]
  BY <1>3 DEF NewestProducer, Base, WeakTypeOK
<1>5. ASSUME NEW u \in producer_tasks'[t], u \notin producer_tasks[t]
      PROVE  u # t /\ u \in Task /\ phase[u] \notin {"none", "building"}
  <2>1. u = latest_producer[b] /\ LinksTo(u, t)
    BY <1>3, <1>5 DEF Base, WeakTypeOK
  <2>2. u # t /\ u \in Task
    BY <2>1 DEF LinksTo, Base, WeakTypeOK
  <2>3. phase[u] # "none"
    BY <2>1, <2>2, NoneAssumption DEF LatestIsSubmitted
  <2>4. phase[u] # "building"
    BY <1>1, <2>2, OneBuilds DEF LinkProducer
  <2> QED
    BY <2>2, <2>3, <2>4
<1>6. LatestIsSubmitted'
  BY <1>1, <1>3, <1>4 DEF LatestIsSubmitted
<1>7. ProducersScheduled'
  BY <1>1, <1>3, <1>4, <1>5 DEF ProducersScheduled
<1>8. NoWaitCycle'
  <2>1. \A u \in Task : Owned(u)' => Owned(u)
    BY <1>3 DEF Owned
  <2>2. \A u \in Task : t \notin producer_tasks'[u]
    BY <1>1, <1>4, <1>5 DEF ProducersScheduled
  <2> QED
    BY <1>4, <2>1, <2>2, LastMakesNoCycle
<1> QED
  BY <1>6, <1>7, <1>8

(* No step falsifies CycleInv. *)
LEMMA CycleStep ==
  ASSUME OneThread, Base, CycleInv, [Next]_vars
  PROVE  CycleInv'
<1> DEFINE Goal == LatestIsSubmitted' /\ ProducersScheduled' /\ NoWaitCycle'
<1>1. ASSUME UNCHANGED <<phase, producer_tasks, latest_producer>> PROVE Goal
  BY <1>1, CycleFrame DEF CycleInv, Owned
<1>2. ASSUME NEW t \in Task, TaskStep(t) PROVE Goal
  <2>1. \A u \in Task : producer_tasks'[u] \subseteq producer_tasks[u]
    BY Zenon, <1>2 DEF TaskStep, WaitForProducers, KernelReturns, ReleaseBuffer, ClearBuffers,
                NotifyConsumers, KernelEnd, Base, WeakTypeOK
  <2>2. UNCHANGED latest_producer
    BY <1>2 DEF TaskStep, WaitForProducers, KernelReturns, ReleaseBuffer, ClearBuffers,
                NotifyConsumers, KernelEnd, countVars
  <2>3. \/ UNCHANGED phase
        \/ /\ phase[t] \in {"waiting", "running", "releasing", "notifying", "ending"}
           /\ \E p \in {"running", "releasing", "notifying", "ending", "exited"} :
                phase' = [phase EXCEPT ![t] = p]
    BY <1>2 DEF TaskStep, WaitForProducers, KernelReturns, ReleaseBuffer, ClearBuffers,
                NotifyConsumers, KernelEnd
  <2>4. \A u \in Task : /\ Owned(u)' => Owned(u)
                        /\ phase[u] # "none" => phase'[u] # "none"
                        /\ phase[u] \notin {"none", "building"} =>
                             phase'[u] \notin {"none", "building"}
    BY <2>3 DEF Owned, Base, WeakTypeOK
  <2> QED
    BY <2>1, <2>2, <2>4, CycleFrame DEF CycleInv
<1>3. ASSUME NEW h \in Host, Schedule(h) \/ EndKernelLess(h) PROVE Goal
  <2>1. UNCHANGED <<latest_producer, producer_tasks>>
    BY <1>3 DEF Schedule, EndKernelLess, countVars
  <2>2. /\ phase[group[h]] = "building" /\ group[h] \in Task
        /\ \E p \in {"waiting", "dropped"} : phase' = [phase EXCEPT ![group[h]] = p]
    BY <1>3 DEF Schedule, EndKernelLess, Base, HostInv
  <2>3. \A u \in Task : /\ Owned(u)' => Owned(u)
                        /\ phase[u] # "none" => phase'[u] # "none"
                        /\ phase[u] \notin {"none", "building"} =>
                             phase'[u] \notin {"none", "building"}
    BY <2>2 DEF Owned, Base, WeakTypeOK
  <2> QED
    BY <2>1, <2>3, CycleFrame DEF CycleInv
<1>4. ASSUME NEW h \in Host, HostProgress(h) PROVE Goal
  <2>1. CASE LinkProducer(h)
    BY <2>1, CycleLink
  <2>2. CASE UNCHANGED <<phase, producer_tasks, latest_producer>>
    BY <1>1, <2>2
  <2> QED
    BY <1>3, <1>4, <2>1, <2>2
    DEF HostProgress, InlineReturn, QueueWaitReturns, HostAccessGranted, taskVars, countVars
<1>5. ASSUME NEW h \in Host, HostCall(h) PROVE Goal
  <2>1. ASSUME NEW q \in Queue, NEW t \in Task, Submit(h, q, t) PROVE Goal
    BY <2>1, CycleSubmit
  <2>2. CASE UNCHANGED <<phase, producer_tasks, latest_producer>>
    BY <1>1, <2>2
  <2> QED
    BY <1>5, <2>1, <2>2
    DEF HostCall, UseBuffer, QueueWait, HostAccess, taskVars, countVars
<1>6. ASSUME UNCHANGED vars PROVE Goal
  BY <1>1, <1>6 DEF vars, taskVars, countVars
<1>7. Goal
  BY <1>2, <1>4, <1>5, <1>6 DEF Next
<1> QED
  BY <1>7, BuildingHasHostStep DEF CycleInv

(* With one host thread, in both execution modes, tasks never wait for one
   another in a circle. *)
THEOREM NoCycleWithOneThread ==
  ASSUME OneThread
  PROVE  Spec => []NoWaitCycle
<1>1. Init => CycleInv
  BY DEF Init, CycleInv, BuildingHasHost, LatestIsSubmitted, ProducersScheduled, NoWaitCycle,
         Owned
<1>2. Base /\ CycleInv /\ [Next]_vars => CycleInv'
  BY CycleStep
<1>3. CycleInv => NoWaitCycle
  BY DEF CycleInv
<1> QED
  BY <1>1, <1>2, <1>3, BaseInvariant, PTL DEF Spec

-----------------------------------------------------------------------------
(* In synchronous mode a task that is built or executed is the one of a host
   thread inside queue::submit, *)
OwnedHasHost ==
  \A t \in Task : Owned(t) =>
    \E h \in Host : at[h] \in {"group", "linking", "inline"} /\ group[h] = t

(* and with one host thread it is the only one alive: no task is ever linked. *)
NothingToWaitFor == \A t \in Task : producer_tasks[t] = {}

SyncInv == OwnedHasHost /\ NothingToWaitFor

(* No step falsifies OwnedHasHost. *)
LEMMA OwnedHasHostStep ==
  ASSUME Async = FALSE, Base, OwnedHasHost, [Next]_vars
  PROVE  OwnedHasHost'
<1> DEFINE Inside(g) == at[g] \in {"group", "linking", "inline"}
<1> SUFFICES ASSUME NEW t \in Task, Owned(t)'
             PROVE  \E g \in Host : Inside(g)' /\ group'[g] = t
  BY DEF OwnedHasHost
<1> USE DEF Base, WeakTypeOK
<1>1. ASSUME Owned(t),
             \A g \in Host : Inside(g) /\ group[g] = t => Inside(g)' /\ group'[g] = t
      PROVE  \E g \in Host : Inside(g)' /\ group'[g] = t
  <2>1. PICK g \in Host : Inside(g) /\ group[g] = t
    BY <1>1 DEF OwnedHasHost
  <2> QED
    BY <1>1, <2>1
<1>2. ASSUME NEW u \in Task, TaskStep(u) PROVE \E g \in Host : Inside(g)' /\ group'[g] = t
  <2>1. UNCHANGED <<at, group>>
    BY <1>2 DEF TaskStep, WaitForProducers, KernelReturns, ReleaseBuffer, ClearBuffers,
                NotifyConsumers, KernelEnd, hostVars
  <2>2. \/ UNCHANGED phase
        \/ /\ phase[u] \in {"waiting", "running", "releasing", "notifying", "ending"}
           /\ \E p \in {"running", "releasing", "notifying", "ending", "exited"} :
                phase' = [phase EXCEPT ![u] = p]
    BY <1>2 DEF TaskStep, WaitForProducers, KernelReturns, ReleaseBuffer, ClearBuffers,
                NotifyConsumers, KernelEnd
  <2>3. Owned(t)
    BY <2>2 DEF Owned
  <2> QED
    BY <1>1, <2>1, <2>3
<1>3. ASSUME NEW h \in Host, NEW q \in Queue, NEW u \in Task, Submit(h, q, u)
      PROVE  \E g \in Host : Inside(g)' /\ group'[g] = t
  <2>1. CASE t = u
    BY <1>3, <2>1 DEF Submit
  <2>2. CASE t # u
    <3>1. Owned(t)
      BY <1>3, <2>2 DEF Submit, Owned
    <3>2. \A g \in Host : Inside(g) => at'[g] = at[g] /\ group'[g] = group[g]
      BY <1>3 DEF Submit
    <3> QED
      BY <1>1, <3>1, <3>2
  <2> QED
    BY <2>1, <2>2
<1>4. ASSUME NEW h \in Host, Schedule(h) PROVE \E g \in Host : Inside(g)' /\ group'[g] = t
  <2>1. Owned(t)
    BY <1>4 DEF Schedule, Owned, HostInv
  <2>2. group' = group /\ at' = [at EXCEPT ![h] = "inline"]
    BY <1>4 DEF Schedule
  <2> QED
    BY <1>1, <2>1, <2>2
<1>5. ASSUME NEW h \in Host, EndKernelLess(h) \/ InlineReturn(h)
      PROVE  \E g \in Host : Inside(g)' /\ group'[g] = t
  <2>1. Owned(t) /\ t # group[h]
    BY <1>5 DEF EndKernelLess, InlineReturn, Owned, HostInv, taskVars
  <2>2. \A g \in Host \ {h} : at'[g] = at[g] /\ group'[g] = group[g]
    BY <1>5 DEF EndKernelLess, InlineReturn
  <2> QED
    BY <1>1, <2>1, <2>2
<1>6. ASSUME NEW h \in Host,
             \/ LinkProducer(h) \/ QueueWaitReturns(h) \/ HostAccessGranted(h)
             \/ \E b \in Buffer, m \in Mode : UseBuffer(h, b, m)
             \/ \E q \in Queue : QueueWait(h, q)
             \/ \E b \in Buffer : HostAccess(h, b)
      PROVE  \E g \in Host : Inside(g)' /\ group'[g] = t
  <2>1. UNCHANGED phase
    BY Zenon, <1>6 DEF LinkProducer, QueueWaitReturns, HostAccessGranted, UseBuffer, QueueWait,
                HostAccess, taskVars
  <2>2. \A g \in Host : Inside(g) => Inside(g)' /\ group'[g] = group[g]
    BY ZenonT(30), <1>6 DEF LinkProducer, QueueWaitReturns, HostAccessGranted, UseBuffer, QueueWait,
                HostAccess
  <2>3. Owned(t)
    BY <2>1 DEF Owned
  <2> QED
    BY <1>1, <2>2, <2>3
<1>7. ASSUME UNCHANGED vars PROVE \E g \in Host : Inside(g)' /\ group'[g] = t
  <2>1. Owned(t) /\ UNCHANGED <<at, group>>
    BY <1>7 DEF Owned, vars, taskVars, hostVars
  <2> QED
    BY <1>1, <2>1
<1> QED
  BY <1>2, <1>3, <1>4, <1>5, <1>6, <1>7 DEF Next, HostProgress, HostCall

(* add_buffer in synchronous mode: the weak_ptr of the latest producer has
   expired, unless it is the task itself. *)
LEMMA SyncLink ==
  ASSUME OneThread, Base, SyncInv, NEW h \in Host, LinkProducer(h)
  PROVE  NothingToWaitFor'
<1>1. PICK t \in Task : t = group[h] /\ phase[t] = "building"
  BY DEF LinkProducer, Base, HostInv
<1>2. \A p : LinksTo(p, t) => p \notin Task
  <2> SUFFICES ASSUME NEW p \in Task, Alive(p) PROVE p = t
    BY DEF LinksTo
  <2>1. {u \in Task : Owned(u)} \subseteq {t}
    BY <1>1 DEF SyncInv, OwnedHasHost, OneThread
  <2>2. \A u \in {t} : producer_tasks[u] \subseteq {t}
    BY DEF SyncInv, NothingToWaitFor
  <2> QED
    BY Zenon, <2>1, <2>2 DEF Alive
<1>3. PICK b \in Buffer : b = buffers_in_use[t][Len(buffers_in_use[t])]
  BY <1>1, LastElement DEF LinkProducer, Base, HostInv, WeakTypeOK
<1>4. producer_tasks' =
        [producer_tasks EXCEPT ![t] = @ \cup {x \in {latest_producer[b]} : LinksTo(x, t)}]
  BY <1>1, <1>3 DEF LinkProducer
<1>5. {x \in {latest_producer[b]} : LinksTo(x, t)} = {}
  BY <1>2 DEF LinksTo, Base, WeakTypeOK
<1> QED
  BY <1>4, <1>5 DEF SyncInv, NothingToWaitFor, Base, WeakTypeOK

(* With one host thread and TRISYCL_NO_ASYNC, wait_for_producers finds every
   producer ended when the kernel is submitted: it never blocks the thread that
   should have run them. *)
THEOREM SyncNeverBlocks ==
  ASSUME OneThread, Async = FALSE
  PROVE  Spec => []ProducersReady
<1>1. Init => SyncInv
  BY DEF Init, SyncInv, OwnedHasHost, NothingToWaitFor, Owned
<1>2. Base /\ SyncInv /\ [Next]_vars => SyncInv'
  <2> SUFFICES ASSUME Base, SyncInv, [Next]_vars PROVE NothingToWaitFor'
    BY Zenon, OwnedHasHostStep DEF SyncInv
  <2>1. CASE UNCHANGED producer_tasks
    BY <2>1 DEF SyncInv, NothingToWaitFor
  <2>2. ASSUME NEW t \in Task, WaitForProducers(t) PROVE NothingToWaitFor'
    BY <2>2 DEF WaitForProducers, SyncInv, NothingToWaitFor, Base, WeakTypeOK
  <2>3. ASSUME NEW h \in Host, LinkProducer(h) PROVE NothingToWaitFor'
    BY <2>3, SyncLink
  <2>4. ASSUME NEW t \in Task, TaskStep(t) PROVE NothingToWaitFor'
    BY <2>1, <2>2, <2>4
    DEF TaskStep, KernelReturns, ReleaseBuffer, ClearBuffers, NotifyConsumers, KernelEnd
  <2>5. ASSUME NEW h \in Host, HostProgress(h) PROVE NothingToWaitFor'
    BY <2>1, <2>3, <2>5
    DEF HostProgress, Schedule, EndKernelLess, InlineReturn, QueueWaitReturns,
        HostAccessGranted, taskVars
  <2>6. ASSUME NEW h \in Host, HostCall(h) PROVE NothingToWaitFor'
    BY <2>1, <2>6 DEF HostCall, Submit, UseBuffer, QueueWait, HostAccess, taskVars
  <2>7. CASE UNCHANGED vars
    BY <2>1, <2>7 DEF vars, taskVars
  <2> QED
    BY <2>4, <2>5, <2>6, <2>7 DEF Next
<1>3. SyncInv => ProducersReady
  BY DEF SyncInv, NothingToWaitFor, ProducersReady
<1> QED
  BY <1>1, <1>2, <1>3, BaseInvariant, PTL DEF Spec

=============================================================================
