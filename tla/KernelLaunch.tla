---------------------------- MODULE KernelLaunch ----------------------------
(***************************************************************************)
(* The launch of OpenCL kernels by the tasks of command groups (handler,   *)
(* detail::task, detail::opencl_kernel and the device runtime drt).        *)
(*                                                                         *)
(* The accessors of a command group register a copy-in in the prologue of  *)
(* its task, in the order of their creation.  For a kernel object of the   *)
(* user, set_args adds to the prologue the setting of each argument; a     *)
(* kernel outlined by the device compiler is created by the task itself,   *)
(* which then serialises the arguments.  An OpenCL kernel holds one value  *)
(* per argument: the launch takes the values set at that time.  Tasks run  *)
(* in threads of their own; a task waits only for the latest task to write *)
(* each of its buffers, so that two readers of a buffer run at once.       *)
(***************************************************************************)
EXTENDS Naturals, Sequences, SequencesExt

CONSTANTS CommandGroups,   \* number of command groups, submitted in order
          Programs,        \* the accesses of the groups of the programs run: a
                           \* sequence per group, of the buffer of each access
                           \* and of whether it is a write access
          UserKernel       \* the kernel object of the user

VARIABLES kind,       \* object or outlined kernel of each group
          accessors,  \* task::accessors, in registration order
          tstep,      \* step of each task
          prologues,  \* task::prologues, those left to run
          kernel,     \* task::kernel
          kargs,      \* arguments set on each OpenCL kernel
          clbuffer,   \* the buffers with a cl_mem in the context
          ran_with,   \* arguments each kernel was launched with
          failed      \* a task read a cl_mem that does not exist

klvars == <<kind, accessors, tstep, prologues, kernel, kargs, clbuffer, ran_with, failed>>

CGs == 1..CommandGroups
NoKernel == 0
\* An outlined kernel has the number of its group, the object of the user another
KernelIds == CGs \cup {UserKernel}

KLInit == /\ kind \in [CGs -> {"object", "outlined"}]
          /\ accessors \in Programs
          /\ \A g, h \in CGs :   \* the object of the user has one arity
               kind[g] = "object" /\ kind[h] = "object" => Len(accessors[g]) = Len(accessors[h])
          /\ tstep = [g \in CGs |-> "new"]
          /\ prologues = [g \in CGs |-> << >>]
          /\ kernel = [g \in CGs |-> NoKernel]
          /\ kargs = [k \in KernelIds |-> << >>]
          /\ clbuffer = {}
          /\ ran_with = [g \in CGs |-> << >>]
          /\ failed = FALSE

TaskTo(g, s) == tstep' = [tstep EXCEPT ![g] = s]

\* The arguments of a group: its accessors, then a scalar of its own
Arity(g) == Len(accessors[g]) + 1

\* accessor::register_accessor adds the copy of the i-th accessor
CopyIns(g) == [i \in 1..Len(accessors[g]) |-> <<"copy_in", i>>]
\* handler::set_args, for arguments in increasing order
SetArgs(g) == [i \in 1..Arity(g) |-> <<"set_arg", i>>]

\* The accessors exist before set_args takes them
ObjectPrologues(g) == CopyIns(g) \o SetArgs(g)

\* The command group is executed by the host: handler::single_task or parallel_for
Schedule(g) ==
  /\ tstep[g] = "new" /\ \A h \in CGs : h < g => tstep[h] # "new"
  /\ prologues' = [prologues EXCEPT ![g] =
                     IF kind[g] = "object" THEN ObjectPrologues(g) ELSE CopyIns(g)]
  /\ kernel' = [kernel EXCEPT ![g] = IF kind[g] = "object" THEN UserKernel ELSE NoKernel]
  /\ TaskTo(g, "wait")
  /\ UNCHANGED <<kind, accessors, kargs, clbuffer, ran_with, failed>>

\* The groups before g that write the buffer b
WritersBefore(g, b) == {h \in CGs : h < g /\ [buffer |-> b, write |-> TRUE] \in Range(accessors[h])}

\* task::add_buffer: the latest producer of each buffer the task accesses.  One
\* that is done may be destroyed, and is not waited for either way.
producer_tasks(g) ==
  {h \in CGs : \E a \in Range(accessors[g]) :
                 /\ h \in WritersBefore(g, a.buffer)
                 /\ \A k \in WritersBefore(g, a.buffer) : k <= h}

\* task::wait_for_producers
WaitForProducers(g) ==
  /\ tstep[g] = "wait"
  /\ \A h \in producer_tasks(g) : tstep[h] = "done"
  /\ TaskTo(g, "prelude")
  /\ UNCHANGED <<kind, accessors, prologues, kernel, kargs, clbuffer, ran_with, failed>>

\* The value of the i-th argument: the buffer of an accessor, or the scalar
ArgValue(g, i) == IF i <= Len(accessors[g]) THEN <<"buffer", accessors[g][i].buffer>>
                                            ELSE <<"scalar", g>>

\* task::set_arg, on the kernel k; an accessor must have its cl_mem
SetArg(g, k, i) ==
  /\ kargs' = [kargs EXCEPT ![k] = [j \in 1..(IF i > Len(@) THEN i ELSE Len(@)) |->
                                      IF j = i THEN ArgValue(g, i) ELSE @[j]]]
  /\ failed' = (failed \/ (i <= Len(accessors[g]) /\ accessors[g][i].buffer \notin clbuffer))

\* task::prelude runs the functions in order
Prelude(g) ==
  /\ tstep[g] = "prelude" /\ prologues[g] # << >>
  /\ LET p == Head(prologues[g]) IN
       \/ /\ p[1] = "copy_in"
          /\ clbuffer' = clbuffer \cup {accessors[g][p[2]].buffer}
          /\ UNCHANGED <<kargs, failed>>
       \/ /\ p[1] = "set_arg"
          /\ SetArg(g, kernel[g], p[2])
          /\ UNCHANGED clbuffer
  /\ prologues' = [prologues EXCEPT ![g] = Tail(@)]
  /\ UNCHANGED <<kind, accessors, tstep, kernel, ran_with>>

\* Mutation: outlined kernels are cached by name
NewKernel_cached(g) == CHOOSE h \in CGs : kind[h] = "outlined"
\* drt::set_kernel makes a new OpenCL kernel
NewKernel(g) == g

SetKernel(g) ==
  /\ tstep[g] = "prelude" /\ prologues[g] = << >>
  /\ \/ /\ kind[g] = "object" /\ TaskTo(g, "launch") /\ UNCHANGED kernel
     \/ /\ kind[g] = "outlined" /\ TaskTo(g, "serialize")
        /\ kernel' = [kernel EXCEPT ![g] = NewKernel(g)]
  /\ UNCHANGED <<kind, accessors, prologues, kargs, clbuffer, ran_with, failed>>

\* drt::serialize_accessor_arg finds the accessor by its order, serialize_arg
\* takes the bytes of a scalar: the calls the device compiler has put in, one
\* per argument
Serialize(g) ==
  LET i == Len(kargs[kernel[g]]) + 1 IN
  /\ tstep[g] = "serialize"
  /\ IF i <= Arity(g) THEN SetArg(g, kernel[g], i) /\ UNCHANGED tstep
                      ELSE TaskTo(g, "launch") /\ UNCHANGED <<kargs, failed>>
  /\ UNCHANGED <<kind, accessors, prologues, kernel, clbuffer, ran_with>>

\* opencl_kernel::single_task or parallel_for: enqueue
Enqueue(g) ==
  /\ tstep[g] = "launch"
  /\ ran_with' = [ran_with EXCEPT ![g] = kargs[kernel[g]]]
  /\ TaskTo(g, "finish")
  /\ UNCHANGED <<kind, accessors, prologues, kernel, kargs, clbuffer, failed>>

\* finish() waits for the device; the postlude copies nothing
FinishKernel(g) == /\ tstep[g] = "finish" /\ TaskTo(g, "done")
                   /\ UNCHANGED <<kind, accessors, prologues, kernel, kargs, clbuffer,
                                  ran_with, failed>>

KLDone == (\A g \in CGs : tstep[g] = "done") /\ UNCHANGED klvars

KLNext == \/ \E g \in CGs : \/ Schedule(g) \/ WaitForProducers(g) \/ Prelude(g)
                            \/ SetKernel(g) \/ Serialize(g) \/ Enqueue(g) \/ FinishKernel(g)
          \/ KLDone

KLSpec == KLInit /\ [][KLNext]_klvars
-----------------------------------------------------------------------------
\* The groups g waits for, directly or not
WaitsFor[g \in CGs] == producer_tasks(g) \cup UNION {WaitsFor[h] : h \in producer_tasks(g)}

\* The groups whose tasks may run at the same time as that of g, on the same
\* kernel object
Rivals(g) == {h \in CGs \ {g} : /\ kind[g] = "object" /\ kind[h] = "object"
                                /\ h \notin WaitsFor[g] /\ g \notin WaitsFor[h]}

(* Handler, task, drt: a kernel is launched with the arguments of its own command
   group.  Only when it is a kernel object that a command group neither before
   nor after it in the task graph uses too, be it a reader of the same buffer,
   may an argument be the one the other group has set.                      *)
OwnArguments ==
  \A g \in CGs : tstep[g] \in {"finish", "done"} =>
    /\ Len(ran_with[g]) = Arity(g)
    /\ \A i \in 1..Arity(g) : ran_with[g][i] \in {ArgValue(h, i) : h \in {g} \cup Rivals(g)}

(* task::prelude, get_cl_buffer: the cl_mem of an accessor exists when the argument
   that passes it is set, so that get_cl_buffer never throws in the task.    *)
ArgumentsHaveBuffers == ~failed
=============================================================================
