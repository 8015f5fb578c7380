------------------------------- MODULE Errors -------------------------------
(***************************************************************************)
(* Kernels that throw.  The execution of a task (task::schedule) has no    *)
(* handler: in a thread of its own an exception ends the process; without  *)
(* threads (TRISYCL_NO_ASYNC) it leaves queue::submit, and the task never  *)
(* releases its buffers, its consumers nor its queue.  What becomes of the *)
(* task depends on the queue: that of a host queue is destroyed in the     *)
(* unwinding, and buffer_base::latest_producer, a weak_ptr, with it; that  *)
(* of an OpenCL queue is kept by the accessors in its own epilogues.       *)
(*                                                                         *)
(* A program submits its tasks in a try block with one clause, and may     *)
(* submit the rest after it has caught an exception; then it waits for the *)
(* queue (queue::wait, wait_and_throw or the destructor: the part of the   *)
(* asynchronous handler is not implemented).                               *)
(***************************************************************************)
EXTENDS Integers, FiniteSets

CONSTANTS ETasks        \* number of tasks

ASSUME ErrorsAssumption == ETasks \in Nat

VARIABLES emode,      \* "threads" or "no_async"
          equeue,     \* "host" or "opencl"
          edeps,      \* the tasks that read what the task before them writes
          eclause,    \* the class of the clause
          epc, enext, \* step of the program and next task it submits
          etask,      \* state of each task
          ekernels,   \* queue::running_kernels
          eflying,    \* the class of the exception in flight
          ecaught     \* the program has caught an exception

evars == <<emode, equeue, edeps, eclause, epc, enext, etask, ekernels, eflying, ecaught>>

\* exception.hpp: the classes and their bases
Bases == [exception |-> "none", cl_exception |-> "exception", async_exception |-> "exception",
          runtime_error |-> "exception", device_error |-> "exception",
          kernel_error |-> "runtime_error", accessor_error |-> "runtime_error",
          nd_range_error |-> "runtime_error", event_error |-> "runtime_error",
          invalid_parameter_error |-> "runtime_error", pipe_error |-> "runtime_error",
          non_cl_error |-> "runtime_error",
          compile_program_error |-> "device_error", link_program_error |-> "device_error",
          invalid_object_error |-> "device_error", memory_allocation_error |-> "device_error",
          platform_error |-> "device_error", profiling_error |-> "device_error",
          feature_not_supported |-> "device_error", domain_error |-> "none"]
Classes == DOMAIN Bases
BasesOf(c) == IF c = "none" THEN {} ELSE {c, Bases[c]}

\* catch (clause&) takes an exception of the class or of a class derived from it
Catches(clause, c) == clause \in BasesOf(c) \union UNION {BasesOf(b) : b \in BasesOf(c)}

ThrowingTasks == 1 .. ETasks
Clauses == {"exception", "runtime_error"}
Thrown == {"non_cl_error", "feature_not_supported", "domain_error"}

EInit == /\ emode \in {"threads", "no_async"} /\ equeue \in {"host", "opencl"}
         /\ edeps \in SUBSET (2 .. ETasks) /\ eclause \in Clauses
         /\ epc = "submit" /\ enext = 1 /\ etask = [t \in ThrowingTasks |-> "new"]
         /\ ekernels = 0 /\ eflying = "none" /\ ecaught = FALSE
-----------------------------------------------------------------------------
\* The task has lost its last shared_ptr in the unwinding
Destroyed(t) == etask[t] = "failed" /\ emode = "no_async" /\ equeue = "host"

\* add_buffer, which finds no producer that is destroyed, and wait_for_producers
ProducersEnded(t) == t \in edeps => etask[t - 1] = "ended" \/ Destroyed(t - 1)

\* task::schedule up to the execution
ESubmit == /\ epc = "submit" /\ enext <= ETasks
           /\ ekernels' = ekernels + 1
           /\ etask' = [etask EXCEPT ![enext] = "waiting"]
           /\ enext' = enext + 1
           /\ epc' = IF emode = "threads" THEN "submit" ELSE "executing"
           /\ UNCHANGED <<emode, equeue, edeps, eclause, eflying, ecaught>>

\* The execution: wait_for_producers, the prelude and the start of the kernel
EStart(t) == /\ epc # "dead" /\ etask[t] = "waiting" /\ ProducersEnded(t)
             /\ etask' = [etask EXCEPT ![t] = "running"]
             /\ UNCHANGED <<emode, equeue, edeps, eclause, epc, enext, ekernels, eflying, ecaught>>

\* The kernel ends; postlude, release_buffers, notify_consumers, kernel_end
EEnd(t) == /\ epc # "dead" /\ etask[t] = "running"
           /\ etask' = [etask EXCEPT ![t] = "ended"]
           /\ ekernels' = ekernels - 1
           /\ epc' = IF emode = "threads" THEN epc ELSE "submit"
           /\ UNCHANGED <<emode, equeue, edeps, eclause, enext, eflying, ecaught>>

\* Mutation: the kernel that failed is counted out and the process goes on
EThrow_released(t, c) ==
  /\ epc # "dead" /\ etask[t] = "running"
  /\ etask' = [etask EXCEPT ![t] = "failed"]
  /\ ekernels' = ekernels - 1
  /\ IF emode = "threads" THEN UNCHANGED <<epc, eflying>>
     ELSE epc' = "unwinding" /\ eflying' = c
  /\ UNCHANGED <<emode, equeue, edeps, eclause, enext, ecaught>>

\* The kernel throws, or get_kernel in the prelude: nothing after it is called
EThrow(t, c) ==
  /\ epc # "dead" /\ etask[t] = "running"
  /\ etask' = [etask EXCEPT ![t] = "failed"]
  /\ IF emode = "threads" THEN epc' = "dead" /\ UNCHANGED eflying    \* std::terminate
     ELSE epc' = "unwinding" /\ eflying' = c
  /\ UNCHANGED <<emode, equeue, edeps, eclause, enext, ekernels, ecaught>>

\* The exception reaches the try block of the program
EUnwind == /\ epc = "unwinding"
           /\ IF Catches(eclause, eflying)
              THEN ecaught' = TRUE /\ eflying' = "none" /\ epc' \in {"submit", "wait"}
              ELSE epc' = "dead" /\ UNCHANGED <<ecaught, eflying>>
           /\ UNCHANGED <<emode, equeue, edeps, eclause, enext, etask, ekernels>>

\* queue::wait_for_kernel_execution
EWait == /\ epc = "submit" /\ enext > ETasks
         /\ epc' = "wait"
         /\ UNCHANGED <<emode, equeue, edeps, eclause, enext, etask, ekernels, eflying, ecaught>>
EReturn == /\ epc = "wait" /\ ekernels = 0
           /\ epc' = "returned"
           /\ UNCHANGED <<emode, equeue, edeps, eclause, enext, etask, ekernels, eflying, ecaught>>

\* The process has ended, or waits for a task that has failed
EHangs == /\ ecaught
          /\ \/ epc = "wait" /\ ekernels > 0
             \/ epc = "executing" /\ \E t \in edeps : etask[t] = "waiting" /\ ~ProducersEnded(t)
EDone == (epc \in {"returned", "dead"} \/ EHangs) /\ UNCHANGED evars

ENext == \/ ESubmit \/ EUnwind \/ EWait \/ EReturn \/ EDone
         \/ \E t \in ThrowingTasks : \/ EStart(t) \/ EEnd(t)
                                \/ \E c \in Thrown : EThrow(t, c)

ESpec == EInit /\ [][ENext]_evars
-----------------------------------------------------------------------------
(* A failure is never taken for a success: once a kernel has thrown, the wait for    *)
(* the queue does not return, whatever the program has caught, and a task that reads *)
(* the results of that kernel starts only on a host queue without threads, submitted *)
(* by a program that has caught the exception (task::schedule, task::add_buffer).    *)
FailureNotHidden ==
  \A t \in ThrowingTasks :
    etask[t] = "failed" =>
      /\ epc # "returned"
      /\ t + 1 \in edeps /\ etask[t + 1] \notin {"new", "waiting"} =>
           emode = "no_async" /\ equeue = "host" /\ ecaught

(* The process ends by an exception exactly when a kernel has thrown one that the    *)
(* program cannot catch: any one in a thread; without threads one of the classes of  *)
(* the C++ library, or of another branch than the clause (exception.hpp).            *)
DiesOfUncaught ==
  /\ (\E t \in ThrowingTasks : etask[t] = "failed") /\ emode = "threads" => epc = "dead"
  /\ epc = "dead" =>
       /\ \E t \in ThrowingTasks : etask[t] = "failed"
       /\ emode = "no_async" =>
            eflying \in {"domain_error"} \union IF eclause = "exception" THEN {} ELSE {"feature_not_supported"}

(* A failure of a kernel is neither taken for a success nor survives uncaught          *)
(* (task::schedule, exception.hpp).                                                    *)
FailuresShown == FailureNotHidden /\ DiesOfUncaught
=============================================================================
