------------------------------ MODULE TaskGraph ------------------------------
(***************************************************************************)
(* The dataflow runtime of triSYCL on the host: command groups submitted   *)
(* by host threads become tasks, accessors register buffers with the task  *)
(* under construction (task::add_buffer), and every task runs in a thread  *)
(* of its own (task::schedule) that waits for the producers of its         *)
(* buffers, runs the kernel, releases the buffers, wakes the consumers and *)
(* tells its queue.  Host threads synchronise through queue::wait() and    *)
(* through host accessors (buffer_base::wait()).                           *)
(*                                                                         *)
(* The three condition variables (task::ready, buffer_base::ready,         *)
(* queue::finished) are modelled by the predicate they wait for; that the  *)
(* lock/notify code really implements such a wait is module                *)
(* CountedWait's subject.                                                  *)
(***************************************************************************)
EXTENDS Integers, Sequences, FiniteSets

CONSTANTS
  Task,          \* one per command group submitted
  Buffer,
  Queue,
  Host,          \* the application's threads
  Mode,          \* the access modes the accessors use
  KernelLess,    \* the command groups that invoke no kernel
  Async,         \* FALSE when compiled with TRISYCL_NO_ASYNC
  MaxAccessors,  \* bound on the accessors of one command group
  None           \* a null pointer

AccessMode == {"read", "write", "read_write", "discard_write",
               "discard_read_write", "atomic"}

ASSUME ModeAssumption == Mode \subseteq AccessMode
ASSUME AsyncAssumption == Async \in BOOLEAN
ASSUME NoneAssumption == None \notin Task \cup Buffer \cup Queue
ASSUME BoundAssumption == MaxAccessors \in Nat
ASSUME TaskAssumption == IsFiniteSet(Task) /\ KernelLess \subseteq Task

VARIABLES
  phase,            \* where each task stands
  owner_queue,      \* task::owner_queue
  buffers_in_use,   \* task::buffers_in_use
  released,         \* how far task::release_buffers has gone
  producer_tasks,   \* task::producer_tasks
  latest_producer,  \* buffer_base::latest_producer
  number_of_users,  \* buffer_base::number_of_users
  running_kernels,  \* queue::running_kernels
  at,               \* where each host thread stands
  group,            \* the task of the command group a host thread executes
  mode,             \* the mode of the accessor a host thread constructs
  waits_on,         \* the queue or buffer a host thread is blocked on
  writers,          \* history: the tasks that may modify each buffer
  earlier           \* history: the tasks registered before this one as
                    \* modifying a buffer that this one accesses

taskVars == <<phase, owner_queue, buffers_in_use, released, producer_tasks>>
countVars == <<latest_producer, number_of_users, running_kernels>>
hostVars == <<at, group, mode, waits_on>>
history == <<writers, earlier>>
vars == <<taskVars, countVars, hostVars, history>>

-----------------------------------------------------------------------------
(* accessor::is_write_access: the accesses that make a task a producer *)
is_write_access(m) ==
  m \in {"write", "read_write", "discard_write", "discard_read_write"}

(* buffer::track_access_mode: the accesses that mark a buffer modified *)
may_modify(m) == is_write_access(m) \/ m = "atomic"

(* task::execution_ended *)
execution_ended(t) == phase[t] \in {"ending", "exited"}

(* The kernel of t has returned *)
KernelDone(t) == phase[t] \in {"releasing", "notifying", "ending", "exited"}

(* The kernel of t has been allowed to start *)
KernelStarted(t) == phase[t] = "running" \/ KernelDone(t)

(* The handler, or the functor a thread executes, owns the task. *)
Owned(t) == phase[t] \notin {"none", "exited", "dropped"}

(* What weak_ptr::lock() finds alive: the owned tasks and, transitively, the
   tasks that a live task keeps in producer_tasks. *)
Alive(t) ==
  \A S \in SUBSET Task :
    /\ {u \in Task : Owned(u)} \subseteq S
    /\ \A u \in S : producer_tasks[u] \subseteq S
    => t \in S

(* Slips in the operators that follow, for mutation testing: a task that may
   wait for itself, a write that does not take over as latest producer, a lost
   release, off-by-one wait predicates and an uncounted or twice counted end
   of kernel. *)
LinksTo_self(p, t) == p # None /\ Alive(p)
NewestProducer_keep(m, p, t) == IF p = None /\ is_write_access(m) THEN t ELSE p
release_lost(b) == UNCHANGED number_of_users
buffer_ready_early(b) == number_of_users[b] <= 1
kernel_end_twice(q) == running_kernels' = [running_kernels EXCEPT ![q] = @ - 2]
kernel_end_lost(q) == UNCHANGED running_kernels
queue_idle_early(q) == running_kernels[q] <= 1

(* task::add_buffer: p is pushed on the producers of t *)
LinksTo(p, t) == p # None /\ p # t /\ Alive(p)

(* buffer_base::set_latest_producer for a write, get_latest_producer else *)
NewestProducer(m, p, t) == IF is_write_access(m) THEN t ELSE p

(* buffer_base::use and release, and the predicate of buffer_base::wait *)
use(b) == number_of_users' = [number_of_users EXCEPT ![b] = @ + 1]
release(b) == number_of_users' = [number_of_users EXCEPT ![b] = @ - 1]
buffer_ready(b) == number_of_users[b] = 0

(* queue::kernel_start and kernel_end, and the predicate of
   queue::wait_for_kernel_execution *)
kernel_start(q) == running_kernels' = [running_kernels EXCEPT ![q] = @ + 1]
kernel_end(q) == running_kernels' = [running_kernels EXCEPT ![q] = @ - 1]
queue_idle(q) == running_kernels[q] = 0

-----------------------------------------------------------------------------
Init ==
  /\ phase = [t \in Task |-> "none"]
  /\ owner_queue = [t \in Task |-> None]
  /\ buffers_in_use = [t \in Task |-> << >>]
  /\ released = [t \in Task |-> 0]
  /\ producer_tasks = [t \in Task |-> {}]
  /\ latest_producer = [b \in Buffer |-> None]
  /\ number_of_users = [b \in Buffer |-> 0]
  /\ running_kernels = [q \in Queue |-> 0]
  /\ at = [h \in Host |-> "idle"]
  /\ group = [h \in Host |-> None]
  /\ mode = [h \in Host |-> "none"]
  /\ waits_on = [h \in Host |-> None]
  /\ writers = [b \in Buffer |-> {}]
  /\ earlier = [t \in Task |-> {}]

(* queue::submit creates the handler, hence the task, and calls the functor *)
Submit(h, q, t) ==
  /\ at[h] = "idle"
  /\ phase[t] = "none"
  /\ phase' = [phase EXCEPT ![t] = "building"]
  /\ owner_queue' = [owner_queue EXCEPT ![t] = q]
  /\ group' = [group EXCEPT ![h] = t]
  /\ at' = [at EXCEPT ![h] = "group"]
  /\ UNCHANGED <<buffers_in_use, released, producer_tasks, countVars, mode,
                 waits_on, history>>

(* task::add_buffer, up to the registration of the use *)
UseBuffer(h, b, m) ==
  LET t == group[h] IN
  /\ at[h] = "group"
  /\ Len(buffers_in_use[t]) < MaxAccessors
  /\ buffers_in_use' = [buffers_in_use EXCEPT ![t] = Append(@, b)]
  /\ use(b)
  /\ mode' = [mode EXCEPT ![h] = m]
  /\ at' = [at EXCEPT ![h] = "linking"]
  /\ UNCHANGED <<phase, owner_queue, released, producer_tasks,
                 latest_producer, running_kernels, group, waits_on, history>>

(* task::add_buffer, from set_latest_producer or get_latest_producer on *)
LinkProducer(h) ==
  LET t == group[h]
      b == buffers_in_use[t][Len(buffers_in_use[t])]
      p == latest_producer[b]
  IN
  /\ at[h] = "linking"
  /\ latest_producer' =
       [latest_producer EXCEPT ![b] = NewestProducer(mode[h], p, t)]
  /\ producer_tasks' =
       [producer_tasks EXCEPT ![t] = @ \cup {x \in {p} : LinksTo(x, t)}]
  /\ at' = [at EXCEPT ![h] = "group"]
  /\ mode' = [mode EXCEPT ![h] = "none"]
  /\ earlier' = [earlier EXCEPT ![t] = @ \cup (writers[b] \ {t})]
  /\ writers' =
       [writers EXCEPT ![b] = @ \cup {x \in {t} : may_modify(mode[h])}]
  /\ UNCHANGED <<phase, owner_queue, buffers_in_use, released,
                 number_of_users, running_kernels, group, waits_on>>

(* task::schedule: queue::kernel_start, then the functor is executed by a new
   thread, or by the submitting one in synchronous mode *)
Schedule(h) ==
  LET t == group[h] IN
  /\ at[h] = "group"
  /\ t \notin KernelLess
  /\ kernel_start(owner_queue[t])
  /\ phase' = [phase EXCEPT ![t] = "waiting"]
  /\ at' = [at EXCEPT ![h] = IF Async THEN "idle" ELSE "inline"]
  /\ group' = IF Async THEN [group EXCEPT ![h] = None] ELSE group
  /\ UNCHANGED <<owner_queue, buffers_in_use, released, producer_tasks,
                 latest_producer, number_of_users, mode, waits_on, history>>

(* The functor passed to queue::submit returns without any kernel: the
   handler drops its reference to the task. *)
EndKernelLess(h) ==
  LET t == group[h] IN
  /\ at[h] = "group"
  /\ t \in KernelLess
  /\ phase' = [phase EXCEPT ![t] = "dropped"]
  /\ at' = [at EXCEPT ![h] = "idle"]
  /\ group' = [group EXCEPT ![h] = None]
  /\ UNCHANGED <<owner_queue, buffers_in_use, released, producer_tasks,
                 countVars, mode, waits_on, history>>

-----------------------------------------------------------------------------
(* task::wait_for_producers.  execution_ended never goes back to false, so
   waiting for the producers in turn is waiting for all of them. *)
WaitForProducers(t) ==
  /\ phase[t] = "waiting"
  /\ \A p \in producer_tasks[t] : execution_ended(p)
  /\ producer_tasks' = [producer_tasks EXCEPT ![t] = {}]
  /\ phase' = [phase EXCEPT ![t] = "running"]
  /\ UNCHANGED <<owner_queue, buffers_in_use, released, countVars, hostVars,
                 history>>

(* prelude, kernel and postlude return *)
KernelReturns(t) ==
  /\ phase[t] = "running"
  /\ phase' = [phase EXCEPT ![t] = "releasing"]
  /\ UNCHANGED <<owner_queue, buffers_in_use, released, producer_tasks,
                 countVars, hostVars, history>>

(* One iteration of task::release_buffers *)
ReleaseBuffer(t) ==
  LET b == buffers_in_use[t][released[t] + 1] IN
  /\ phase[t] = "releasing"
  /\ released[t] < Len(buffers_in_use[t])
  /\ release(b)
  /\ released' = [released EXCEPT ![t] = @ + 1]
  /\ UNCHANGED <<phase, owner_queue, buffers_in_use, producer_tasks,
                 latest_producer, running_kernels, hostVars, history>>

(* Mutation: the list is cleared before all its buffers are released *)
ClearBuffers_first(t) ==
  /\ phase[t] = "releasing"
  /\ buffers_in_use' = [buffers_in_use EXCEPT ![t] = << >>]
  /\ released' = [released EXCEPT ![t] = 0]
  /\ phase' = [phase EXCEPT ![t] = "notifying"]
  /\ UNCHANGED <<owner_queue, producer_tasks, countVars, hostVars, history>>

(* The end of task::release_buffers: the list is cleared *)
ClearBuffers(t) ==
  /\ phase[t] = "releasing"
  /\ released[t] = Len(buffers_in_use[t])
  /\ buffers_in_use' = [buffers_in_use EXCEPT ![t] = << >>]
  /\ released' = [released EXCEPT ![t] = 0]
  /\ phase' = [phase EXCEPT ![t] = "notifying"]
  /\ UNCHANGED <<owner_queue, producer_tasks, countVars, hostVars, history>>

(* task::notify_consumers *)
NotifyConsumers(t) ==
  /\ phase[t] = "notifying"
  /\ phase' = [phase EXCEPT ![t] = "ending"]
  /\ UNCHANGED <<owner_queue, buffers_in_use, released, producer_tasks,
                 countVars, hostVars, history>>

(* queue::kernel_end, and the thread exits *)
KernelEnd(t) ==
  /\ phase[t] = "ending"
  /\ kernel_end(owner_queue[t])
  /\ phase' = [phase EXCEPT ![t] = "exited"]
  /\ UNCHANGED <<owner_queue, buffers_in_use, released, producer_tasks,
                 latest_producer, number_of_users, hostVars, history>>

-----------------------------------------------------------------------------
(* In synchronous mode task::schedule returns when the functor does *)
InlineReturn(h) ==
  /\ at[h] = "inline"
  /\ phase[group[h]] = "exited"
  /\ at' = [at EXCEPT ![h] = "idle"]
  /\ group' = [group EXCEPT ![h] = None]
  /\ UNCHANGED <<taskVars, countVars, mode, waits_on, history>>

(* queue::wait is called *)
QueueWait(h, q) ==
  /\ at[h] = "idle"
  /\ at' = [at EXCEPT ![h] = "queue_wait"]
  /\ waits_on' = [waits_on EXCEPT ![h] = q]
  /\ UNCHANGED <<taskVars, countVars, group, mode, history>>

(* queue::wait_for_kernel_execution returns *)
QueueWaitReturns(h) ==
  /\ at[h] = "queue_wait"
  /\ queue_idle(waits_on[h])
  /\ at' = [at EXCEPT ![h] = "idle"]
  /\ waits_on' = [waits_on EXCEPT ![h] = None]
  /\ UNCHANGED <<taskVars, countVars, group, mode, history>>

(* A host accessor is constructed *)
HostAccess(h, b) ==
  /\ at[h] = "idle"
  /\ at' = [at EXCEPT ![h] = "buffer_wait"]
  /\ waits_on' = [waits_on EXCEPT ![h] = b]
  /\ UNCHANGED <<taskVars, countVars, group, mode, history>>

(* buffer_base::wait returns in the constructor of the host accessor *)
HostAccessGranted(h) ==
  /\ at[h] = "buffer_wait"
  /\ buffer_ready(waits_on[h])
  /\ at' = [at EXCEPT ![h] = "idle"]
  /\ waits_on' = [waits_on EXCEPT ![h] = None]
  /\ UNCHANGED <<taskVars, countVars, group, mode, history>>

TaskStep(t) ==
  \/ WaitForProducers(t)
  \/ KernelReturns(t)
  \/ ReleaseBuffer(t)
  \/ ClearBuffers(t)
  \/ NotifyConsumers(t)
  \/ KernelEnd(t)

(* What a host thread does once its present call has begun *)
HostProgress(h) ==
  \/ LinkProducer(h)
  \/ Schedule(h)
  \/ EndKernelLess(h)
  \/ InlineReturn(h)
  \/ QueueWaitReturns(h)
  \/ HostAccessGranted(h)

(* The calls a host thread may choose to make *)
HostCall(h) ==
  \/ \E q \in Queue, t \in Task : Submit(h, q, t)
  \/ \E b \in Buffer, m \in Mode : UseBuffer(h, b, m)
  \/ \E q \in Queue : QueueWait(h, q)
  \/ \E b \in Buffer : HostAccess(h, b)

Next ==
  \/ \E t \in Task : TaskStep(t)
  \/ \E h \in Host : HostProgress(h) \/ HostCall(h)

Spec == Init /\ [][Next]_vars

(* The operating system schedules every thread, kernels and command group
   functors return.  Nothing obliges a host thread to call the runtime. *)
Fairness ==
  /\ \A t \in Task : WF_vars(TaskStep(t))
  /\ \A h \in Host : WF_vars(HostProgress(h))

FairSpec == Spec /\ Fairness

-----------------------------------------------------------------------------
(* Every variable keeps its type; in particular the two atomic counters, of
   the unsigned type size_t, never go below zero. *)
TypeOK ==
  /\ phase \in [Task -> {"none", "building", "waiting", "running", "releasing",
                         "notifying", "ending", "exited", "dropped"}]
  /\ owner_queue \in [Task -> Queue \cup {None}]
  /\ buffers_in_use \in [Task -> Seq(Buffer)]
  /\ released \in [Task -> Nat]
  /\ producer_tasks \in [Task -> SUBSET Task]
  /\ latest_producer \in [Buffer -> Task \cup {None}]
  /\ number_of_users \in [Buffer -> Nat]
  /\ running_kernels \in [Queue -> Nat]
  /\ at \in [Host -> {"idle", "group", "linking", "inline", "queue_wait",
                      "buffer_wait"}]
  /\ group \in [Host -> Task \cup {None}]
  /\ mode \in [Host -> Mode \cup {"none"}]
  /\ waits_on \in [Host -> Queue \cup Buffer \cup {None}]
  /\ writers \in [Buffer -> SUBSET Task]
  /\ earlier \in [Task -> SUBSET Task]

(* The read-after-write and write-after-write order of the accessors: when a
   kernel runs, every kernel registered earlier as modifying one of its
   buffers has completed.  add_buffer links a task only to the *latest*
   producer of a buffer, and only while that task is alive. *)
ProducersFirst ==
  \A t \in Task : KernelStarted(t) => \A w \in earlier[t] : KernelDone(w)

(* The accessors that have been registered and not yet released: the i-th
   accessor of task t is one of them, and is on buffer b *)
InUse(b, t, i) ==
  /\ released[t] < i /\ i <= Len(buffers_in_use[t])
  /\ buffers_in_use[t][i] = b
Uses(b) == {u \in Task \X (1..MaxAccessors) : InUse(b, u[1], u[2])}

(* The tasks of a queue between schedule and kernel_end *)
Running(q) == {t \in Task : /\ owner_queue[t] = q
                            /\ phase[t] # "building" /\ Owned(t)}

(* buffer_base::number_of_users counts exactly the accessors in use, and
   queue::running_kernels exactly the tasks between schedule and kernel_end. *)
CountersExact ==
  /\ \A b \in Buffer : number_of_users[b] = Cardinality(Uses(b))
  /\ \A q \in Queue : running_kernels[q] = Cardinality(Running(q))

(* When the constructor of a host accessor returns, no kernel that uses the
   buffer is pending or running: "the SYCL runtime ensures that c is ready
   when the accessor is returned". *)
HostAccessAfterKernels ==
  [][\A h \in Host, b \in Buffer, t \in Task :
       /\ at[h] = "buffer_wait" /\ at'[h] = "idle" /\ waits_on[h] = b
       /\ phase[t] \in {"waiting", "running"}
       => \A i \in 1..Len(buffers_in_use[t]) : buffers_in_use[t][i] # b]_vars

(* queue::wait returns only when every task submitted to the queue has run to
   its end, its buffers released and its consumers notified. *)
QueueWaitAfterKernels ==
  [][\A h \in Host, q \in Queue, t \in Task :
       /\ at[h] = "queue_wait" /\ at'[h] = "idle" /\ waits_on[h] = q
       /\ owner_queue[t] = q /\ Owned(t)
       => phase[t] = "building"]_vars

(* No set of tasks wait for one another: "the task will add itself as a
   producer and will wait for itself when calling wait_for_producers, we avoid
   this". *)
NoWaitCycle ==
  \A S \in SUBSET {t \in Task : Owned(t)} :
    S # {} => \E t \in S : producer_tasks[t] \cap S = {}

(* In synchronous mode and with a single host thread, a kernel finds its
   producers ended when it is submitted: the dead-lock that doc/macros.rst
   announces for TRISYCL_NO_ASYNC "if the dependencies are not ready" needs
   more than buffers and one thread. *)
ProducersReady ==
  \A t \in Task : phase[t] = "waiting" =>
    \A p \in producer_tasks[t] : execution_ended(p)

(* Every kernel that is scheduled is eventually executed to its end. *)
KernelsComplete ==
  \A t \in Task : phase[t] = "waiting" ~> phase[t] = "exited"

(* A host thread blocked in queue::wait is eventually released. *)
QueueWaitsReturn ==
  \A h \in Host : at[h] = "queue_wait" ~> at[h] = "idle"

(* A host thread that constructs a host accessor eventually gets it. *)
HostAccessesReturn ==
  \A h \in Host : at[h] = "buffer_wait" ~> at[h] = "idle"

=============================================================================
