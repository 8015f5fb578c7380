------------------------------- MODULE Lifetime -------------------------------
(***************************************************************************)
(* The life of the objects of the user around the task graph: a buffer and *)
(* its buffer_waiter, the host memory it was built from, its accessors and *)
(* the queue.                                                              *)
(*                                                                         *)
(* The user objects hold a shared_ptr to an implementation that the tasks  *)
(* share.  The step that drops the last reference runs the destructor, be  *)
(* it in the thread of a task.  ~buffer writes the content back, then      *)
(* ~buffer_base fulfils the promise that ~buffer_waiter may be waiting on. *)
(***************************************************************************)
EXTENDS TaskGraph

CONSTANTS
  Kind,    \* the constructors of detail::buffer the user calls
  Owner,   \* the host threads in whose scopes the buffers and the queues live
  Direct   \* TRUE if accessors are also built without buffer::get_access

ASSUME KindAssumption == Kind \subseteq {"host", "const", "own"}
ASSUME OwnerAssumption == Owner \subseteq Host
ASSUME DirectAssumption == Direct \in BOOLEAN
ASSUME AsyncKernels == Async /\ KernelLess = {}

(* How far the copy on write of a host thread is: the buffer, the mode of the
   access, the next statement, and whether the accessor took its pointer before *)
CopyStates ==
  [buffer : Buffer, mode : Mode, next : {"clear", "move", "take"}, early : BOOLEAN]
ASSUME NoCopyAssumption == None \notin CopyStates

VARIABLES
  kind,              \* the constructor of each buffer
  data_host,         \* buffer::data_host
  copy_if_modified,  \* buffer::copy_if_modified
  modified,          \* buffer::modified
  final_write_back,  \* buffer::final_write_back is set
  user,              \* the state of the user's buffer
  destroyed,         \* the detail::buffer objects destroyed
  written_back,      \* those whose content was copied to its final place
  host_accessor,     \* the buffer of the host accessor a host thread holds
  closing,           \* the buffer a host thread is destroying
  copying,           \* the copy on write a host thread is making
  captured,          \* the buffers of the accessors a kernel captures
  user_writes,       \* the buffers whose user memory a task may write
  closed             \* the queues whose user object is destroyed

bufferVars == <<kind, data_host, copy_if_modified, modified, final_write_back>>
closeVars == <<user, closing>>
useVars == <<host_accessor, copying, captured, user_writes>>
ltVars == <<vars, bufferVars, closeVars, useVars, destroyed, written_back,
            closed>>

-----------------------------------------------------------------------------
Elements(s) == {s[i] : i \in 1..Len(s)}

(* The shared_ptr of detail::buffer in the live tasks, in the kernels they
   still own and in the host accessors *)
Shared(b) ==
  \/ \E t \in Task : Alive(t) /\ b \in Elements(buffers_in_use[t])
  \/ \E t \in Task : Owned(t) /\ b \in captured[t]
  \/ \E h \in Host : host_accessor[h] = b

Referenced(b) == user[b] \in {"live", "closing"} \/ Shared(b)

(* Mutation: the destructor of a user buffer considers only set_final_data *)
MustWait_final(b) == Shared(b) /\ modified[b] /\ final_write_back[b]

(* buffer::get_destructor_future gives a future to wait for *)
MustWait(b) == Shared(b) /\ modified[b] /\ (final_write_back[b] \/ data_host[b])

(* The last shared_ptr of some buffers goes: ~buffer, then ~buffer_base *)
DropReferences ==
  /\ destroyed' = {b \in Buffer : ~Referenced(b)'}
  /\ written_back' =
       written_back \cup {b \in destroyed' \ destroyed :
                            modified[b] /\ final_write_back[b]}

(* buffer::track_access_mode has a copy to make for this access *)
MustCopy(b, m) == may_modify(m) /\ copy_if_modified[b]

(* The host thread is between two statements of the copy on write of buffer b,
   the next one being s *)
Copies(h, b, s) == copying[h] # None /\ copying[h].buffer = b /\ copying[h].next = s

-----------------------------------------------------------------------------
(* The buffers are constructed: from host memory, from constant host memory,
   or with memory of their own *)
LTInit ==
  /\ Init
  /\ kind \in [Buffer -> Kind]
  /\ data_host = [b \in Buffer |-> kind[b] # "own"]
  /\ copy_if_modified = [b \in Buffer |-> kind[b] = "const"]
  /\ modified = [b \in Buffer |-> FALSE]
  /\ final_write_back = [b \in Buffer |-> FALSE]
  /\ user = [b \in Buffer |-> "live"]
  /\ destroyed = {}
  /\ written_back = {}
  /\ host_accessor = [h \in Host |-> None]
  /\ closing = [h \in Host |-> None]
  /\ copying = [h \in Host |-> None]
  /\ captured = [t \in Task |-> {}]
  /\ user_writes = [t \in Task |-> {}]
  /\ closed = {}

(* The user's thread calls nothing on an object it has destroyed, and one call
   at a time *)
Free(h) == at[h] = "idle" /\ closing[h] = None /\ copying[h] = None

(* queue::submit *)
LTSubmit(h, q, t) ==
  /\ Free(h) /\ q \notin closed
  /\ Submit(h, q, t)
  /\ UNCHANGED <<bufferVars, closeVars, useVars, destroyed, written_back, closed>>

(* buffer::track_access_mode, called by the host thread for a new accessor up to
   its test of copy_if_modified, when there is a copy to make.  Nothing orders
   the statements that follow with those of another host thread.  An accessor
   built by its own constructor has its pointer already. *)
StartCopy(h, b, m) ==
  /\ user[b] = "live" /\ copying[h] = None
  /\ \/ at[h] = "group" /\ Len(buffers_in_use[group[h]]) < MaxAccessors
     \/ Free(h) /\ host_accessor[h] = None
  /\ MustCopy(b, m)
  /\ modified' = [modified EXCEPT ![b] = TRUE]
  /\ \E early \in {FALSE} \cup {Direct} :
       copying' = [copying EXCEPT ![h] =
                     [buffer |-> b, mode |-> m, next |-> "clear", early |-> early]]
  /\ UNCHANGED <<vars, kind, data_host, copy_if_modified, final_write_back, closeVars,
                 host_accessor, captured, user_writes, destroyed, written_back, closed>>

(* It clears copy_if_modified *)
ClearCopy(h) ==
  /\ copying[h] # None /\ copying[h].next = "clear"
  /\ copy_if_modified' = [copy_if_modified EXCEPT ![copying[h].buffer] = FALSE]
  /\ copying' = [copying EXCEPT ![h].next = "move"]
  /\ UNCHANGED <<vars, kind, data_host, modified, final_write_back, closeVars,
                 host_accessor, captured, user_writes, destroyed, written_back, closed>>

(* Mutation: the content is no longer copied before it is modified *)
MoveData_alias(h) ==
  /\ copying[h] # None /\ copying[h].next = "move"
  /\ copying' = [copying EXCEPT ![h].next = "take"]
  /\ UNCHANGED <<vars, bufferVars, closeVars, host_accessor, captured, user_writes,
                 destroyed, written_back, closed>>

(* It allocates, points access to the allocation and copies the content there;
   data_host, read only once the buffer is destroyed, changes with access here *)
MoveData(h) ==
  /\ copying[h] # None /\ copying[h].next = "move"
  /\ data_host' = [data_host EXCEPT ![copying[h].buffer] = FALSE]
  /\ copying' = [copying EXCEPT ![h].next = "take"]
  /\ UNCHANGED <<vars, kind, copy_if_modified, modified, final_write_back, closeVars,
                 host_accessor, captured, user_writes, destroyed, written_back, closed>>

(* buffer::track_access_mode has returned, or returns at once as there is no copy
   to make; the pointer of the accessor, taken here, is then the one that
   the test of copy_if_modified was about, or a later one. *)
Tracked(h, b, m) ==
  /\ user[b] = "live"
  /\ \/ copying[h] = None /\ ~MustCopy(b, m)
     \/ Copies(h, b, "take") /\ copying[h].mode = m
  /\ modified' = [modified EXCEPT ![b] = @ \/ may_modify(m)]
  /\ copying' = [copying EXCEPT ![h] = None]
  /\ UNCHANGED <<kind, data_host, copy_if_modified, final_write_back>>

(* The accessor of a command group writes where its pointer leads: access, or
   what access was before the copy when it was taken early *)
WritesUser(h, b, m) ==
  may_modify(m) /\ (data_host[b] \/ (copying[h] # None /\ copying[h].early))

LTUseBuffer(h, b, m) ==
  /\ Tracked(h, b, m)
  /\ UseBuffer(h, b, m)
  /\ user_writes' = [user_writes EXCEPT ![group[h]] =
                       @ \cup {c \in {b} : WritesUser(h, b, m)}]
  /\ UNCHANGED <<closeVars, host_accessor, captured, destroyed, written_back, closed>>

(* The kernel captures some of the accessors of the command group; the others
   die with the functor passed to queue::submit. *)
LTSchedule(h) ==
  /\ copying[h] = None
  /\ Schedule(h)
  /\ \E C \in SUBSET Elements(buffers_in_use[group[h]]) :
       captured' = [captured EXCEPT ![group[h]] = C]
  /\ UNCHANGED <<bufferVars, closeVars, host_accessor, copying, user_writes,
                 destroyed, written_back, closed>>

(* The constructor of a host accessor begins, and keeps the buffer *)
LTHostAccess(h, b, m) ==
  /\ closing[h] = None /\ host_accessor[h] = None
  /\ Tracked(h, b, m)
  /\ HostAccess(h, b)
  /\ host_accessor' = [host_accessor EXCEPT ![h] = b]
  /\ UNCHANGED <<closeVars, captured, user_writes, destroyed, written_back, closed>>

(* The host accessor is destroyed *)
DropHostAccessor(h) ==
  /\ Free(h) /\ host_accessor[h] # None
  /\ host_accessor' = [host_accessor EXCEPT ![h] = None]
  /\ UNCHANGED <<vars, bufferVars, closeVars, copying, captured, user_writes, closed>>
  /\ DropReferences

(* buffer::set_final_data, with a destination or with nullptr *)
set_final_data(h, b, f) ==
  /\ h \in Owner /\ Free(h) /\ user[b] = "live"
  /\ final_write_back' = [final_write_back EXCEPT ![b] = f]
  /\ UNCHANGED <<vars, kind, data_host, copy_if_modified, modified, closeVars,
                 useVars, destroyed, written_back, closed>>

(* buffer::mark_as_written *)
mark_as_written(h, b) ==
  /\ h \in Owner /\ Free(h) /\ user[b] = "live"
  /\ modified' = [modified EXCEPT ![b] = TRUE]
  /\ UNCHANGED <<vars, kind, data_host, copy_if_modified, final_write_back,
                 closeVars, useVars, destroyed, written_back, closed>>

(* The last user copy of a buffer is destroyed: ~buffer_waiter up to
   get_destructor_future.  Without future the implementation is dropped.  The
   thread has no host accessor on the buffer: it would wait for itself. *)
CloseBuffer(h, b) ==
  /\ h \in Owner /\ Free(h) /\ user[b] = "live"
  /\ host_accessor[h] # b
  /\ \A g \in Host : /\ waits_on[g] # b
                     /\ copying[g] # None => copying[g].buffer # b
  /\ \A t \in Task : phase[t] = "building" => b \notin Elements(buffers_in_use[t])
  /\ user' = [user EXCEPT ![b] = IF MustWait(b) THEN "closing" ELSE "gone"]
  /\ closing' = IF MustWait(b) THEN [closing EXCEPT ![h] = b] ELSE closing
  /\ UNCHANGED <<vars, bufferVars, useVars, closed>>
  /\ DropReferences

(* ~buffer_waiter: implementation.reset() *)
ResetBuffer(h) ==
  /\ closing[h] # None /\ user[closing[h]] = "closing"
  /\ user' = [user EXCEPT ![closing[h]] = "waiting"]
  /\ UNCHANGED <<vars, bufferVars, closing, useVars, closed>>
  /\ DropReferences

(* ~buffer_waiter: the future is ready, which the end of ~buffer_base makes it *)
CloseReturns(h) ==
  /\ closing[h] # None /\ user[closing[h]] = "waiting"
  /\ closing[h] \in destroyed /\ buffer_ready(closing[h])
  /\ user' = [user EXCEPT ![closing[h]] = "gone"]
  /\ closing' = [closing EXCEPT ![h] = None]
  /\ UNCHANGED <<vars, bufferVars, useVars, destroyed, written_back, closed>>

(* The last user copy of a queue is destroyed *)
CloseQueue(h, q) ==
  /\ h \in Owner /\ Free(h) /\ q \notin closed
  /\ \A g \in Host : waits_on[g] # q
  /\ \A t \in Task : phase[t] = "building" => owner_queue[t] # q
  /\ closed' = closed \cup {q}
  /\ UNCHANGED <<vars, bufferVars, closeVars, useVars, destroyed, written_back>>

(* The steps of the thread of a task; the last one destroys its functor *)
LTTaskStep(t) ==
  /\ TaskStep(t)
  /\ captured' = [captured EXCEPT ![t] = IF phase'[t] = "exited" THEN {} ELSE @]
  /\ UNCHANGED <<bufferVars, closeVars, host_accessor, copying, user_writes, closed>>
  /\ DropReferences

(* The steps of a host thread inside its present call *)
LTHostProgress(h) ==
  \/ LTSchedule(h)
  \/ ClearCopy(h)
  \/ MoveData(h)
  \/ ResetBuffer(h)
  \/ CloseReturns(h)
  \/ /\ \/ LinkProducer(h)
        \/ QueueWaitReturns(h)
        \/ HostAccessGranted(h)
     /\ UNCHANGED <<bufferVars, closeVars, useVars, destroyed, written_back,
                    closed>>

LTHostCall(h) ==
  \/ \E q \in Queue, t \in Task : LTSubmit(h, q, t)
  \/ \E b \in Buffer, m \in Mode :
       StartCopy(h, b, m) \/ LTUseBuffer(h, b, m) \/ LTHostAccess(h, b, m)
  \/ \E b \in Buffer, f \in BOOLEAN : set_final_data(h, b, f)
  \/ \E b \in Buffer : mark_as_written(h, b) \/ CloseBuffer(h, b)
  \/ \E q \in Queue :
       \/ CloseQueue(h, q)
       \/ /\ h \in Owner /\ Free(h) /\ q \notin closed
          /\ QueueWait(h, q)
          /\ UNCHANGED <<bufferVars, closeVars, useVars, destroyed,
                         written_back, closed>>
  \/ DropHostAccessor(h)

LTNext ==
  \/ \E t \in Task : LTTaskStep(t)
  \/ \E h \in Host : LTHostProgress(h) \/ LTHostCall(h)

LTSpec == LTInit /\ [][LTNext]_ltVars

(* As for the task graph: every thread is scheduled *)
LTFairSpec ==
  /\ LTSpec
  /\ \A t \in Task : WF_ltVars(LTTaskStep(t))
  /\ \A h \in Host : WF_ltVars(LTHostProgress(h))

-----------------------------------------------------------------------------
(* ~buffer runs before the wait of ~buffer_base, which is harmless only if that
   wait never blocks: a buffer is destroyed with no accessor counted. *)
DestructorNeverBlocks == \A b \in destroyed : number_of_users[b] = 0

(* When the destructor of a user buffer returns, the kernels that modify the
   memory of the user, or whose result is to be copied to its final place, have
   completed and the copy is made: "it first waits for kernel completion, then
   its destructor copies back its content".  Constant memory, which no kernel
   should write, is the matter of ConstMemoryKept. *)
ClosedIsWritten ==
  \A b \in Buffer : user[b] = "gone" =>
    /\ kind[b] # "const" => \A t \in Task : b \in user_writes[t] => KernelDone(t)
    /\ modified[b] /\ final_write_back[b] => b \in written_back
    /\ b \in written_back => \A w \in writers[b] : KernelDone(w)

(* The destructor of a user buffer returns, unless some thread keeps a host
   accessor on the buffer. *)
ClosesReturn ==
  \A b \in Buffer :
    user[b] = "closing" ~> \/ user[b] = "gone"
                          \/ \E h \in Host : host_accessor[h] = b

(* No kernel gets a pointer to the constant memory a buffer was built from, to
   write it: "this pointer should not be written".  The one exception is an
   accessor built while another thread is inside track_access_mode for the same
   buffer, past copy_if_modified = false and before the update of access: no lock
   keeps it out. *)
ConstMemoryKept ==
  [][\A b \in Buffer, t \in Task :
       kind[b] = "const" /\ b \in user_writes'[t] \ user_writes[t]
       => \E g \in Host : Copies(g, b, "move")]_ltVars

(* The detail::queue outlives its user object until its last kernel ended: it
   is never destroyed with a kernel counted, so that ~queue never blocks in the
   thread of a task.  Its owners are the user object and the live tasks. *)
QueueReferenced(q) ==
  \/ q \notin closed
  \/ \E t \in Task : Alive(t) /\ owner_queue[t] = q
QueueOutlivesKernels ==
  \A q \in Queue : ~QueueReferenced(q) => queue_idle(q)

(* The last references to buffers and queues go when nothing is in use any more: the  *)
(* destructors of the implementations neither block nor leave a kernel behind.        *)
ReleasedWhenIdle == DestructorNeverBlocks /\ QueueOutlivesKernels
=============================================================================
