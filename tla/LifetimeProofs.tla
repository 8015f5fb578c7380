--------------------------- MODULE LifetimeProofs ---------------------------
(***************************************************************************)
(* The destruction of buffers and queues, for any number of them, of tasks *)
(* and of host threads.  A buffer that is destroyed or written back is in  *)
(* the list of no task, because a task keeps the buffers its kernel uses   *)
(* in buffers_in_use until the kernel has returned, and the list keeps the *)
(* implementation of the buffer alive.                                     *)
(***************************************************************************)
EXTENDS Lifetime, TaskGraphProofs

LTTypeOK ==
  /\ kind \in [Buffer -> {"host", "const", "own"}]
  /\ data_host \in [Buffer -> BOOLEAN]
  /\ copy_if_modified \in [Buffer -> BOOLEAN]
  /\ modified \in [Buffer -> BOOLEAN]
  /\ final_write_back \in [Buffer -> BOOLEAN]
  /\ user \in [Buffer -> {"live", "closing", "waiting", "gone"}]
  /\ closing \in [Host -> Buffer \cup {None}]
  /\ copying \in [Host -> CopyStates \cup {None}]
  /\ user_writes \in [Task -> SUBSET Buffer]
  /\ destroyed \subseteq Buffer
  /\ written_back \subseteq Buffer

(* Until its kernel has returned, a task has in buffers_in_use the buffers it
   modifies; when it has released them, and before it is submitted, the list
   is empty. *)
UsesKept ==
  /\ \A t \in Task :
       phase[t] \in {"none", "notifying", "ending", "exited", "dropped"}
       => buffers_in_use[t] = << >>
  /\ \A t \in Task : \A b \in user_writes[t] :
       KernelDone(t) \/ b \in Elements(buffers_in_use[t])
  /\ \A b \in Buffer : \A w \in writers[b] :
       KernelDone(w) \/ b \in Elements(buffers_in_use[w])

(* No task can use a buffer that is destroyed or written back, nor will one. *)
NoLongerUsed ==
  \A b \in destroyed \cup written_back :
    /\ user[b] \in {"waiting", "gone"}
    /\ \A t \in Task : b \notin Elements(buffers_in_use[t])

(* ~buffer has written back what it had to. *)
WrittenBack ==
  \A b \in destroyed : modified[b] /\ final_write_back[b] => b \in written_back

(* Only constant memory is ever left: a kernel that writes other memory of the
   user works on a buffer that is marked modified and stays there. *)
UserMemory ==
  /\ \A b \in Buffer : kind[b] # "const" => ~copy_if_modified[b]
  /\ \A h \in Host : copying[h] # None => kind[copying[h].buffer] = "const"
  /\ \A t \in Task : \A b \in user_writes[t] :
       kind[b] # "const" => modified[b] /\ data_host[b]

(* The user memory of a buffer whose destructor has returned is written by no
   kernel any more, unless it is constant, and the copy to the final place is
   made. *)
GoneIsDone ==
  \A b \in Buffer : user[b] = "gone" =>
    /\ kind[b] # "const" => \A t \in Task : b \in user_writes[t] => KernelDone(t)
    /\ modified[b] /\ final_write_back[b] => b \in written_back

(* The content of a buffer built from constant memory is still there only as long
   as the copy is to be made, or is being made; a thread that has made it leaves
   track_access_mode with a pointer taken after. *)
ConstMemory ==
  /\ \A b \in Buffer : kind[b] = "const" /\ data_host[b] =>
       copy_if_modified[b] \/ \E g \in Host : Copies(g, b, "move")
  /\ \A h \in Host : copying[h] # None =>
       /\ ~copying[h].early
       /\ copying[h].next = "take" => ~data_host[copying[h].buffer]

LifeInv == LTTypeOK /\ UsesKept /\ NoLongerUsed
CloseInv == WrittenBack /\ UserMemory /\ GoneIsDone

-----------------------------------------------------------------------------
(* What Lifetime adds to a step of the task graph leaves it one. *)
LEMMA LifetimeIsTaskGraph == LTSpec => Spec
<1>1. [LTNext]_ltVars => [Next]_vars
  <2> USE DEF Next, HostProgress, HostCall
  <2>1. ASSUME NEW t \in Task, LTTaskStep(t) PROVE Next
    BY <2>1 DEF LTTaskStep
  <2>2. ASSUME NEW h \in Host, LTHostProgress(h) PROVE [Next]_vars
    BY <2>2 DEF LTHostProgress, LTSchedule, ResetBuffer, CloseReturns, ClearCopy, MoveData
  <2>3. ASSUME NEW h \in Host, LTHostCall(h) PROVE [Next]_vars
    BY <2>3 DEF LTHostCall, LTSubmit, LTUseBuffer, LTHostAccess, set_final_data,
                mark_as_written, CloseBuffer, CloseQueue, DropHostAccessor, StartCopy
  <2> QED
    BY <2>1, <2>2, <2>3 DEF LTNext, ltVars
<1> QED
  BY <1>1, PTL DEF LTSpec, LTInit, Spec

(* A new accessor adds its buffer to the list of the task. *)
LEMMA ElementsAppend ==
  ASSUME NEW s \in Seq(Buffer), NEW b \in Buffer
  PROVE  Elements(Append(s, b)) = Elements(s) \cup {b}
BY DEF Elements

(* A task that lists buffers is owned, hence alive. *)
LEMMA UserIsAlive ==
  ASSUME Base, UsesKept, NEW t \in Task, NEW b \in Elements(buffers_in_use[t])
  PROVE  Owned(t) /\ Alive(t)
<1>1. Owned(t)
  <2>1. buffers_in_use[t] # << >>
    BY DEF Elements
  <2>2. phase[t] \notin {"none", "exited", "dropped"}
    BY <2>1 DEF UsesKept
  <2> QED
    BY <2>2 DEF Owned
<1> QED
  BY <1>1, OwnedIsAlive

-----------------------------------------------------------------------------
(* The initial state. *)
LEMMA LifeInit == LTInit => LifeInv
<1> SUFFICES ASSUME LTInit PROVE LifeInv
  OBVIOUS
<1>1. LTTypeOK
  BY Zenon, KindAssumption DEF LTInit, LTTypeOK
<1>2. UsesKept /\ NoLongerUsed
  BY DEF LTInit, Init, UsesKept, NoLongerUsed
<1> QED
  BY <1>1, <1>2 DEF LifeInv

(* The end of track_access_mode touches one buffer; a buffer marked modified stays
   so. *)
LEMMA TrackedFrame ==
  ASSUME LTTypeOK, NEW h \in Host, NEW b \in Buffer, NEW m \in Mode, Tracked(h, b, m)
  PROVE  /\ modified' \in [Buffer -> BOOLEAN]
         /\ copying' \in [Host -> CopyStates \cup {None}]
         /\ \A c \in Buffer : /\ c # b => modified'[c] = modified[c]
                              /\ modified[c] => modified'[c]
                              /\ may_modify(m) /\ c = b => modified'[c]
<1>1. modified' \in [Buffer -> BOOLEAN] /\ copying' \in [Host -> CopyStates \cup {None}]
  BY DEF LTTypeOK, Tracked, may_modify, is_write_access
<1>2. ASSUME NEW c \in Buffer
      PROVE  /\ c # b => modified'[c] = modified[c]
             /\ modified[c] => modified'[c]
             /\ may_modify(m) /\ c = b => modified'[c]
  <2>1. CASE c = b
    BY Zenon, <2>1 DEF Tracked, LTTypeOK
  <2>2. CASE c # b
    BY <2>2 DEF Tracked, LTTypeOK
  <2> QED
    BY <2>1, <2>2
<1> QED
  BY <1>1, <1>2

(* The copy on write is about a buffer, and touches no other. *)
LEMMA CopyFrame ==
  ASSUME LTTypeOK, NEW h \in Host, copying[h] # None
  PROVE  copying[h] \in CopyStates /\ copying[h].buffer \in Buffer
BY DEF LTTypeOK, CopyStates

(* No step falsifies LTTypeOK. *)
LEMMA LTTypeOKStep == Base /\ LTTypeOK /\ [LTNext]_ltVars => LTTypeOK'
<1> SUFFICES ASSUME Base, LTTypeOK, [LTNext]_ltVars PROVE LTTypeOK'
  OBVIOUS
<1> DEFINE Kept == UNCHANGED <<bufferVars, closeVars, copying, user_writes>>
<1>0. DropReferences => destroyed' \subseteq Buffer /\ written_back' \subseteq Buffer
  BY DEF DropReferences, LTTypeOK
<1>1. ASSUME NEW t \in Task, LTTaskStep(t) PROVE LTTypeOK'
  BY <1>0, <1>1 DEF LTTaskStep, LTTypeOK, bufferVars, closeVars
<1>2. ASSUME NEW h \in Host, LTHostProgress(h) PROVE LTTypeOK'
  <2>1. CASE ResetBuffer(h)
    BY <1>0, <2>1 DEF ResetBuffer, LTTypeOK, bufferVars, useVars
  <2>2. CASE CloseReturns(h)
    BY <2>2 DEF CloseReturns, LTTypeOK, bufferVars, useVars
  <2>3. CASE Kept /\ UNCHANGED <<destroyed, written_back>>
    BY <2>3 DEF LTTypeOK, bufferVars, closeVars
  <2>4. CASE ClearCopy(h)
    <3>1. copying[h] \in CopyStates /\ copying[h].buffer \in Buffer
      BY <2>4, CopyFrame DEF ClearCopy
    <3>2. copy_if_modified' \in [Buffer -> BOOLEAN] /\ copying' \in [Host -> CopyStates \cup {None}]
      BY <2>4, <3>1 DEF ClearCopy, LTTypeOK, CopyStates
    <3> QED
      BY <2>4, <3>2 DEF ClearCopy, LTTypeOK, closeVars
  <2>5. CASE MoveData(h)
    <3>1. copying[h] \in CopyStates /\ copying[h].buffer \in Buffer
      BY <2>5, CopyFrame DEF MoveData
    <3>2. data_host' \in [Buffer -> BOOLEAN] /\ copying' \in [Host -> CopyStates \cup {None}]
      BY <2>5, <3>1 DEF MoveData, LTTypeOK, CopyStates
    <3> QED
      BY <2>5, <3>2 DEF MoveData, LTTypeOK, closeVars
  <2> QED
    BY <1>2, <2>1, <2>2, <2>3, <2>4, <2>5 DEF LTHostProgress, LTSchedule, useVars
<1>3. ASSUME NEW h \in Host, LTHostCall(h) PROVE LTTypeOK'
  <2>1. ASSUME NEW b \in Buffer, NEW m \in Mode, LTUseBuffer(h, b, m) PROVE LTTypeOK'
    <3>1. group[h] \in Task
      BY <2>1 DEF LTUseBuffer, UseBuffer, Base, HostInv
    <3>2. user_writes' \in [Task -> SUBSET Buffer]
      BY <2>1, <3>1 DEF LTUseBuffer, LTTypeOK
    <3> QED
      BY <2>1, <3>2, TrackedFrame DEF LTUseBuffer, Tracked, LTTypeOK, closeVars
  <2>2. ASSUME NEW b \in Buffer, NEW m \in Mode, LTHostAccess(h, b, m) PROVE LTTypeOK'
    BY <2>2, TrackedFrame DEF LTHostAccess, Tracked, LTTypeOK, closeVars
  <2>8. ASSUME NEW b \in Buffer, NEW m \in Mode, StartCopy(h, b, m) PROVE LTTypeOK'
    <3>1. modified' \in [Buffer -> BOOLEAN] /\ copying' \in [Host -> CopyStates \cup {None}]
      <4>1. PICK early \in BOOLEAN : copying' = [copying EXCEPT ![h] =
              [buffer |-> b, mode |-> m, next |-> "clear", early |-> early]]
        BY Zenon, <2>8, DirectAssumption DEF StartCopy
      <4>2. [buffer |-> b, mode |-> m, next |-> "clear", early |-> early] \in CopyStates
        BY DEF CopyStates
      <4>3. copying' \in [Host -> CopyStates \cup {None}]
        BY <4>1, <4>2 DEF LTTypeOK
      <4>4. modified' \in [Buffer -> BOOLEAN]
        BY <2>8 DEF StartCopy, LTTypeOK
      <4> QED
        BY <4>3, <4>4
    <3> QED
      BY <2>8, <3>1 DEF StartCopy, LTTypeOK, closeVars
  <2>3. ASSUME NEW b \in Buffer, NEW f \in BOOLEAN, set_final_data(h, b, f) PROVE LTTypeOK'
    BY <2>3 DEF set_final_data, LTTypeOK, closeVars, useVars
  <2>4. ASSUME NEW b \in Buffer, mark_as_written(h, b) PROVE LTTypeOK'
    BY <2>4 DEF mark_as_written, LTTypeOK, closeVars, useVars
  <2>5. ASSUME NEW b \in Buffer, CloseBuffer(h, b) PROVE LTTypeOK'
    BY <1>0, <2>5 DEF CloseBuffer, LTTypeOK, bufferVars, useVars
  <2>6. CASE DropHostAccessor(h)
    BY <1>0, <2>6 DEF DropHostAccessor, LTTypeOK, bufferVars, closeVars
  <2>7. CASE Kept /\ UNCHANGED <<destroyed, written_back>>
    BY <2>7 DEF LTTypeOK, bufferVars, closeVars
  <2> QED
    BY <1>3, <2>1, <2>2, <2>3, <2>4, <2>5, <2>6, <2>7, <2>8
    DEF LTHostCall, LTSubmit, CloseQueue, useVars
<1>4. CASE UNCHANGED ltVars
  BY <1>4 DEF LTTypeOK, ltVars, bufferVars, closeVars, useVars
<1> QED
  BY <1>1, <1>2, <1>3, <1>4 DEF LTNext

-----------------------------------------------------------------------------
(* The tasks whose list of buffers is empty *)
Unlisted(t) == phase[t] \in {"none", "notifying", "ending", "exited", "dropped"}

(* A step that changes no list, only the phase of tasks. *)
LEMMA UsesKeptFrame ==
  ASSUME UsesKept, UNCHANGED <<buffers_in_use, writers, user_writes>>,
         \A t \in Task : /\ Unlisted(t)' => Unlisted(t)
                         /\ KernelDone(t) => KernelDone(t)',
         WeakTypeOK
  PROVE  UsesKept'
BY DEF UsesKept, Unlisted, WeakTypeOK

(* The steps of the thread of a task: ClearBuffers empties the list when the
   kernel has returned. *)
LEMMA UsesKeptTask ==
  ASSUME Base, LTTypeOK, UsesKept, NEW t \in Task, TaskStep(t), UNCHANGED user_writes
  PROVE  UsesKept'
<1> USE DEF Base, WeakTypeOK
<1>1. CASE ClearBuffers(t)
  <2>1. \A u \in Task : u # t => UNCHANGED <<phase[u], buffers_in_use[u]>>
    BY <1>1 DEF ClearBuffers
  <2>2. KernelDone(t)' /\ buffers_in_use'[t] = << >>
    BY <1>1 DEF ClearBuffers, KernelDone
  <2>3. \A u \in Task : u # t => (KernelDone(u)' <=> KernelDone(u))
    BY <2>1 DEF KernelDone
  <2>4. writers' = writers
    BY <1>1 DEF ClearBuffers, history
  <2> QED
    BY Zenon, <2>1, <2>2, <2>3, <2>4 DEF UsesKept, LTTypeOK
<1>2. CASE ~ClearBuffers(t)
  <2>1. UNCHANGED <<buffers_in_use, writers>>
    BY <1>2 DEF TaskStep, WaitForProducers, KernelReturns, ReleaseBuffer,
                NotifyConsumers, KernelEnd, history
  <2>2. \/ UNCHANGED phase
        \/ /\ phase' = [phase EXCEPT ![t] = "running"] /\ phase[t] = "waiting"
        \/ /\ phase' = [phase EXCEPT ![t] = "releasing"] /\ phase[t] = "running"
        \/ /\ phase' = [phase EXCEPT ![t] = "ending"] /\ phase[t] = "notifying"
        \/ /\ phase' = [phase EXCEPT ![t] = "exited"] /\ phase[t] = "ending"
    BY <1>2 DEF TaskStep, WaitForProducers, KernelReturns, ReleaseBuffer,
                NotifyConsumers, KernelEnd
  <2>3. \A u \in Task : /\ Unlisted(u)' => Unlisted(u)
                        /\ KernelDone(u) => KernelDone(u)'
    BY <2>2 DEF Unlisted, KernelDone
  <2> QED
    BY <2>1, <2>3, UsesKeptFrame
<1> QED
  BY <1>1, <1>2

(* The accessor of a command group is on a buffer that the user still has, *)
LEMMA UseFrame ==
  ASSUME Base, NEW h \in Host, NEW b \in Buffer, NEW m \in Mode, LTUseBuffer(h, b, m)
  PROVE  /\ group[h] \in Task /\ phase[group[h]] = "building"
         /\ user[b] = "live" /\ Tracked(h, b, m)
         /\ UNCHANGED <<phase, writers, user, destroyed, written_back, kind,
                        final_write_back>>
<1>1. group[h] \in Task /\ phase[group[h]] = "building"
  BY Zenon DEF LTUseBuffer, UseBuffer, Base, HostInv
<1>2. /\ user[b] = "live" /\ Tracked(h, b, m)
      /\ UNCHANGED <<phase, writers, user, destroyed, written_back, kind,
                     final_write_back>>
  BY DEF LTUseBuffer, Tracked, UseBuffer, history, closeVars
<1> QED
  BY <1>1, <1>2

(* the task lists this buffer *)
LEMMA UseLists ==
  ASSUME Base, NEW h \in Host, NEW b \in Buffer, NEW m \in Mode, LTUseBuffer(h, b, m),
         NEW u \in Task
  PROVE  /\ u = group[h] => Elements(buffers_in_use'[u]) = Elements(buffers_in_use[u]) \cup {b}
         /\ u # group[h] => buffers_in_use'[u] = buffers_in_use[u]
<1>1. buffers_in_use' = [buffers_in_use EXCEPT ![group[h]] = Append(@, b)]
  BY DEF LTUseBuffer, UseBuffer
<1>2. buffers_in_use \in [Task -> Seq(Buffer)] /\ group[h] \in Task
  BY UseFrame DEF Base, WeakTypeOK
<1>3. CASE u = group[h]
  <2>1. buffers_in_use'[u] = Append(buffers_in_use[u], b) /\ buffers_in_use[u] \in Seq(Buffer)
    BY <1>1, <1>2, <1>3
  <2> QED
    BY <1>3, <2>1, ElementsAppend
<1>4. CASE u # group[h]
  BY <1>1, <1>2, <1>4
<1> QED
  BY <1>3, <1>4

(* and is said to write at most this one more, *)
LEMMA UseWrites ==
  ASSUME Base, LTTypeOK, NEW h \in Host, NEW b \in Buffer, NEW m \in Mode,
         LTUseBuffer(h, b, m), NEW u \in Task, NEW c, c \in user_writes'[u]
  PROVE  c \in user_writes[u] \/ (u = group[h] /\ c = b)
<1>1. group[h] \in Task /\ user_writes \in [Task -> SUBSET Buffer]
  BY UseFrame DEF LTTypeOK
<1>2. PICK W \in SUBSET {b} : user_writes' = [user_writes EXCEPT ![group[h]] = @ \cup W]
  BY Zenon DEF LTUseBuffer
<1> QED
  BY <1>1, <1>2

(* and that only if its pointer leads to the memory of the user. *)
LEMMA UseWritesThere ==
  ASSUME Base, LTTypeOK, NEW h \in Host, NEW b \in Buffer, NEW m \in Mode,
         LTUseBuffer(h, b, m), NEW u \in Task, NEW c, c \in user_writes'[u]
  PROVE  c \in user_writes[u] \/ (c = b /\ WritesUser(h, b, m))
<1>1. group[h] \in Task /\ user_writes \in [Task -> SUBSET Buffer]
  BY UseFrame DEF LTTypeOK
<1>2. user_writes' = [user_writes EXCEPT ![group[h]] =
        @ \cup {x \in {b} : WritesUser(h, b, m)}]
  BY Zenon DEF LTUseBuffer
<1> QED
  BY <1>1, <1>2

(* A new accessor is listed before its task can be said to write. *)
LEMMA UsesKeptUse ==
  ASSUME Base, LTTypeOK, UsesKept,
         NEW h \in Host, NEW b \in Buffer, NEW m \in Mode, LTUseBuffer(h, b, m)
  PROVE  UsesKept'
<1>1. /\ UNCHANGED <<phase, writers>>
      /\ group[h] \in Task /\ phase[group[h]] = "building"
  BY UseFrame
<1>2. \A u \in Task : Elements(buffers_in_use[u]) \subseteq Elements(buffers_in_use'[u])
  BY UseLists
<1>3. \A u : KernelDone(u)' <=> KernelDone(u)
  BY <1>1 DEF KernelDone
<1>4. ASSUME NEW u \in Task, Unlisted(u)' PROVE buffers_in_use'[u] = << >>
  <2>1. u # group[h] /\ Unlisted(u)
    BY <1>1, <1>4 DEF Unlisted
  <2> QED
    BY <2>1, UseLists DEF UsesKept, Unlisted
<1>5. ASSUME NEW u \in Task, NEW c \in user_writes'[u]
      PROVE  KernelDone(u)' \/ c \in Elements(buffers_in_use'[u])
  <2>1. CASE c \in user_writes[u]
    BY <1>2, <1>3, <2>1 DEF UsesKept
  <2>2. CASE u = group[h] /\ c = b
    BY <2>2, UseLists
  <2> QED
    <3>1. c \in user_writes[u] \/ (u = group[h] /\ c = b)
      BY UseWrites
    <3> QED
      BY <2>1, <2>2, <3>1
<1>6. ASSUME NEW c \in Buffer, NEW w \in writers'[c]
      PROVE  KernelDone(w)' \/ c \in Elements(buffers_in_use'[w])
  <2>1. w \in Task /\ w \in writers[c]
    BY <1>1 DEF Base, WeakTypeOK
  <2> QED
    BY <1>2, <1>3, <2>1 DEF UsesKept
<1> QED
  BY <1>4, <1>5, <1>6 DEF UsesKept, Unlisted

(* The task that add_buffer registers as modifying a buffer lists it. *)
LEMMA UsesKeptLink ==
  ASSUME Base, LTTypeOK, UsesKept, NEW h \in Host, LinkProducer(h), UNCHANGED user_writes
  PROVE  UsesKept'
<1>1. PICK t \in Task : t = group[h] /\ phase[t] = "building"
  BY Zenon DEF LinkProducer, Base, HostInv
<1>2. PICK b \in Buffer : b = buffers_in_use[t][Len(buffers_in_use[t])]
  BY <1>1, LastElement DEF LinkProducer, Base, HostInv, WeakTypeOK
<1>3. b \in Elements(buffers_in_use[t])
  <2>1. buffers_in_use[t] # << >> /\ buffers_in_use[t] \in Seq(Buffer)
    BY <1>1 DEF LinkProducer, Base, HostInv, WeakTypeOK
  <2> QED
    BY <1>2, <2>1 DEF Elements
<1>4. UNCHANGED <<phase, buffers_in_use>>
  BY Zenon DEF LinkProducer
<1>5. /\ writers'[b] \subseteq writers[b] \cup {t}
      /\ \A c \in Buffer \ {b} : writers'[c] = writers[c]
  BY <1>1, <1>2 DEF LinkProducer, Base, WeakTypeOK
<1>6. \A u : KernelDone(u)' <=> KernelDone(u)
  BY <1>4 DEF KernelDone
<1> QED
  BY <1>3, <1>4, <1>5, <1>6 DEF UsesKept

(* No step falsifies UsesKept. *)
LEMMA UsesKeptStep == Base /\ LTTypeOK /\ UsesKept /\ [LTNext]_ltVars => UsesKept'
<1> SUFFICES ASSUME Base, LTTypeOK, UsesKept, [LTNext]_ltVars PROVE UsesKept'
  OBVIOUS
<1> USE DEF Base, WeakTypeOK, Unlisted, KernelDone
<1>1. ASSUME NEW t \in Task, LTTaskStep(t) PROVE UsesKept'
  BY <1>1, UsesKeptTask DEF LTTaskStep
<1>2. CASE UNCHANGED <<phase, buffers_in_use, writers, user_writes>>
  BY <1>2, UsesKeptFrame
<1>3. ASSUME NEW h \in Host, LTHostProgress(h) PROVE UsesKept'
  <2>1. CASE LTSchedule(h)
    <3>1. UNCHANGED <<buffers_in_use, writers, user_writes>>
      BY Zenon, <2>1 DEF LTSchedule, Schedule, history
    <3>2. \A t \in Task : /\ Unlisted(t)' => Unlisted(t)
                          /\ KernelDone(t) => KernelDone(t)'
      BY <2>1 DEF LTSchedule, Schedule, HostInv
    <3> QED
      BY Zenon, <3>1, <3>2, UsesKeptFrame
  <2>2. CASE LinkProducer(h) /\ UNCHANGED useVars
    BY <2>2, UsesKeptLink DEF useVars
  <2> QED
    BY Zenon, <1>2, <1>3, <2>1, <2>2
    DEF LTHostProgress, ResetBuffer, CloseReturns, QueueWaitReturns, HostAccessGranted,
        ClearCopy, MoveData, useVars, vars, taskVars, history
<1>4. ASSUME NEW h \in Host, LTHostCall(h) PROVE UsesKept'
  <2>1. ASSUME NEW q \in Queue, NEW t \in Task, LTSubmit(h, q, t) PROVE UsesKept'
    <3>1. UNCHANGED <<buffers_in_use, writers, user_writes>>
      BY <2>1 DEF LTSubmit, Submit, history, useVars
    <3>2. \A u \in Task : /\ Unlisted(u)' => Unlisted(u)
                          /\ KernelDone(u) => KernelDone(u)'
      BY <2>1 DEF LTSubmit, Submit
    <3> QED
      BY <3>1, <3>2, UsesKeptFrame
  <2>2. ASSUME NEW b \in Buffer, NEW m \in Mode, LTUseBuffer(h, b, m) PROVE UsesKept'
    BY <2>2, UsesKeptUse
  <2> QED
    BY Zenon, <1>2, <1>4, <2>1, <2>2
    DEF LTHostCall, LTHostAccess, HostAccess, set_final_data, mark_as_written,
        CloseBuffer, CloseQueue, QueueWait, DropHostAccessor, StartCopy, useVars, vars,
        taskVars, history
<1>5. CASE UNCHANGED ltVars
  BY <1>2, <1>5 DEF ltVars, useVars, vars, taskVars, history
<1> QED
  BY <1>1, <1>3, <1>4, <1>5 DEF LTNext

-----------------------------------------------------------------------------
(* The buffers destroyed when references are dropped are listed by no task. *)
LEMMA DroppedUnused ==
  ASSUME Base', LTTypeOK', UsesKept', DropReferences, NEW b \in destroyed'
  PROVE  /\ user'[b] \in {"waiting", "gone"}
         /\ \A t \in Task : b \notin Elements(buffers_in_use'[t])
<1>1. b \in Buffer /\ ~Referenced(b)'
  BY DEF DropReferences
<1>2. user'[b] \in {"waiting", "gone"}
  BY <1>1 DEF Referenced, LTTypeOK
<1>3. ASSUME NEW t \in Task, b \in Elements(buffers_in_use'[t]) PROVE FALSE
  <2>1. Owned(t)'
    <3>1. buffers_in_use'[t] # << >>
      BY <1>3 DEF Elements
    <3>2. phase'[t] \notin {"none", "exited", "dropped"}
      BY <3>1 DEF UsesKept
    <3> QED
      BY <3>2 DEF Owned
  <2>2. Alive(t)'
    BY <2>1 DEF Alive
  <2> QED
    BY <1>1, <1>3, <2>2 DEF Referenced, Shared
<1> QED
  BY <1>2, <1>3

(* A step that drops references, when buffers leave the lists only and no buffer
   comes back into use. *)
LEMMA NoLongerUsedDrop ==
  ASSUME Base', LTTypeOK, LTTypeOK', UsesKept', NoLongerUsed, DropReferences,
         \A t \in Task : Elements(buffers_in_use'[t]) \subseteq Elements(buffers_in_use[t]),
         \A b \in Buffer : user[b] \in {"waiting", "gone"} => user'[b] \in {"waiting", "gone"}
  PROVE  NoLongerUsed'
<1>1. \A b \in destroyed' : /\ user'[b] \in {"waiting", "gone"}
                            /\ \A t \in Task : b \notin Elements(buffers_in_use'[t])
  BY DroppedUnused
<1>2. written_back' \subseteq written_back \cup destroyed'
  BY DEF DropReferences
<1> QED
  BY Zenon, <1>1, <1>2 DEF NoLongerUsed, LTTypeOK

(* No step falsifies NoLongerUsed. *)
LEMMA NoLongerUsedStep ==
  ASSUME Base, Base', LTTypeOK, LTTypeOK', UsesKept, UsesKept', NoLongerUsed,
         [LTNext]_ltVars
  PROVE  NoLongerUsed'
<1>1. CASE UNCHANGED <<buffers_in_use, user, destroyed, written_back>>
  BY <1>1 DEF NoLongerUsed
<1>2. ASSUME NEW t \in Task, LTTaskStep(t) PROVE NoLongerUsed'
  <2>1. \A u \in Task : Elements(buffers_in_use'[u]) \subseteq Elements(buffers_in_use[u])
    <3>1. CASE ClearBuffers(t)
      <4>1. buffers_in_use' = [buffers_in_use EXCEPT ![t] = << >>]
        BY <3>1 DEF ClearBuffers
      <4>2. \A u \in Task : buffers_in_use'[u] \in {buffers_in_use[u], << >>}
        <5>1. buffers_in_use \in [Task -> Seq(Buffer)]
          BY DEF Base, WeakTypeOK
        <5> QED
          BY <4>1, <5>1
      <4>3. Elements(<< >>) = {}
        BY DEF Elements
      <4> QED
        BY <4>2, <4>3
    <3>2. CASE UNCHANGED buffers_in_use
      BY <3>2
    <3> QED
      BY Zenon, <1>2, <3>1, <3>2
      DEF LTTaskStep, TaskStep, WaitForProducers, KernelReturns, ReleaseBuffer,
          NotifyConsumers, KernelEnd
  <2> QED
    BY <1>2, <2>1, NoLongerUsedDrop DEF LTTaskStep, closeVars
<1>3. ASSUME NEW h \in Host, LTHostProgress(h) PROVE NoLongerUsed'
  <2>1. CASE ResetBuffer(h)
    <3>1. UNCHANGED buffers_in_use /\ DropReferences
      BY <2>1 DEF ResetBuffer, vars, taskVars
    <3>2. \A b \in Buffer : user'[b] \in {user[b], "waiting"}
      BY <2>1 DEF ResetBuffer, LTTypeOK
    <3> QED
      BY <3>1, <3>2, NoLongerUsedDrop
  <2>2. CASE CloseReturns(h)
    BY <2>2 DEF CloseReturns, NoLongerUsed, LTTypeOK, vars, taskVars
  <2> QED
    BY Zenon, <1>1, <1>3, <2>1, <2>2
    DEF LTHostProgress, LTSchedule, Schedule, LinkProducer, QueueWaitReturns,
        HostAccessGranted, ClearCopy, MoveData, closeVars, vars, taskVars
<1>4. ASSUME NEW h \in Host, LTHostCall(h) PROVE NoLongerUsed'
  <2>1. ASSUME NEW b \in Buffer, NEW m \in Mode, LTUseBuffer(h, b, m) PROVE NoLongerUsed'
    <3>1. UNCHANGED <<user, destroyed, written_back>> /\ user[b] = "live"
      BY Zenon, <2>1, UseFrame
    <3>2. \A u \in Task : Elements(buffers_in_use'[u]) \subseteq Elements(buffers_in_use[u]) \cup {b}
      BY Zenon, <2>1, UseLists
    <3> QED
      BY Zenon, <3>1, <3>2 DEF NoLongerUsed
  <2>2. ASSUME NEW b \in Buffer, CloseBuffer(h, b) PROVE NoLongerUsed'
    <3>1. UNCHANGED buffers_in_use /\ DropReferences
      BY <2>2 DEF CloseBuffer, vars, taskVars
    <3>2. \A c \in Buffer : c # b => user'[c] = user[c]
      BY Zenon, <2>2 DEF CloseBuffer, LTTypeOK
    <3>3. user[b] = "live"
      BY <2>2 DEF CloseBuffer
    <3> QED
      BY Zenon, <3>1, <3>2, <3>3, NoLongerUsedDrop
  <2>3. CASE DropHostAccessor(h)
    BY <2>3, NoLongerUsedDrop DEF DropHostAccessor, closeVars, vars, taskVars
  <2> QED
    BY Zenon, <1>1, <1>4, <2>1, <2>2, <2>3
    DEF LTHostCall, LTSubmit, Submit, LTHostAccess, HostAccess, set_final_data,
        mark_as_written, CloseQueue, QueueWait, StartCopy, closeVars, vars, taskVars
<1>5. CASE UNCHANGED ltVars
  BY <1>1, <1>5 DEF ltVars, closeVars, vars, taskVars
<1> QED
  BY <1>2, <1>3, <1>4, <1>5 DEF LTNext

(* Every reachable state satisfies LifeInv. *)
LEMMA LifeInvariant == LTSpec => [](Base /\ LifeInv)
<1>1. Base /\ Base' /\ LifeInv /\ [LTNext]_ltVars => LifeInv'
  BY LTTypeOKStep, UsesKeptStep, NoLongerUsedStep DEF LifeInv
<1> QED
  BY <1>1, LifeInit, LifetimeIsTaskGraph, BaseInvariant, PTL DEF LTSpec

(* detail::buffer and detail::queue are destroyed with nothing in use, however
   the last reference goes: neither ~buffer_base nor ~queue ever blocks the
   thread that happens to run it, be it the thread of a task. *)
THEOREM DestructorsNeverBlock == LTSpec => []ReleasedWhenIdle
<1>1. Base /\ LifeInv /\ CountersExact => DestructorNeverBlocks
  <2> SUFFICES ASSUME Base, LifeInv, CountersExact, NEW b \in destroyed
               PROVE  number_of_users[b] = 0
    BY DEF DestructorNeverBlocks
  <2>1. b \in Buffer /\ \A t \in Task : b \notin Elements(buffers_in_use[t])
    BY Zenon DEF LifeInv, LTTypeOK, NoLongerUsed
  <2>2. ASSUME NEW u \in Uses(b) PROVE FALSE
    <3>1. /\ u[1] \in Task /\ u[2] \in 1..MaxAccessors
          /\ buffers_in_use[u[1]][u[2]] = b
          /\ released[u[1]] < u[2] /\ u[2] <= Len(buffers_in_use[u[1]])
      BY <2>2 DEF Uses, InUse
    <3>2. u[2] \in 1..Len(buffers_in_use[u[1]])
      BY <3>1 DEF Base, WeakTypeOK
    <3> QED
      BY <2>1, <3>1, <3>2 DEF Elements
  <2>3. Uses(b) = {}
    BY <2>2
  <2> QED
    BY <2>1, <2>3, FS_EmptySet DEF CountersExact
<1>2. Base /\ CountersExact => QueueOutlivesKernels
  <2> SUFFICES ASSUME Base, CountersExact, NEW q \in Queue, ~QueueReferenced(q)
               PROVE  queue_idle(q)
    BY DEF QueueOutlivesKernels
  <2>1. Running(q) = {}
    BY OwnedIsAlive DEF QueueReferenced, Running
  <2> QED
    BY <2>1, FS_EmptySet DEF CountersExact, queue_idle
<1> QED
  BY <1>1, <1>2, LifeInvariant, LifetimeIsTaskGraph, CountersAreExact, PTL
  DEF ReleasedWhenIdle

-----------------------------------------------------------------------------
(* No new accessor falsifies UserMemory, *)
LEMMA UserMemoryUse ==
  ASSUME Base, LTTypeOK, UserMemory,
         NEW h \in Host, NEW b \in Buffer, NEW m \in Mode, LTUseBuffer(h, b, m)
  PROVE  UserMemory'
<1>1. \A t \in Task : \A c \in user_writes'[t] :
        c \in user_writes[t] \/ (c = b /\ WritesUser(h, b, m))
  BY Zenon, UseWritesThere
<1>2. Tracked(h, b, m) /\ UNCHANGED <<kind, data_host, copy_if_modified>>
  BY Zenon DEF LTUseBuffer, Tracked
<1>3. ASSUME NEW t \in Task, NEW c \in user_writes'[t], kind'[c] # "const"
      PROVE  modified'[c] /\ data_host'[c]
  <2>1. CASE c \in user_writes[t]
    BY Zenon, <1>2, <1>3, <2>1, TrackedFrame DEF UserMemory, LTTypeOK
  <2>2. CASE c = b /\ WritesUser(h, b, m)
    <3>1. copying[h] = None
      BY Zenon, <1>2, <1>3, <2>2 DEF Tracked, Copies, UserMemory
    <3> QED
      BY Zenon, <1>2, <2>2, <3>1, TrackedFrame DEF WritesUser
  <2> QED
    BY <1>1, <1>3, <2>1, <2>2
<1>4. \A g \in Host : copying'[g] # None => copying'[g] = copying[g]
  BY <1>2 DEF Tracked, LTTypeOK
<1> QED
  BY Zenon, <1>2, <1>3, <1>4 DEF UserMemory

(* nor the steps of the copy on write. *)
LEMMA UserMemoryCopy ==
  ASSUME LTTypeOK, UserMemory, NEW h \in Host,
         \/ \E b \in Buffer, m \in Mode : StartCopy(h, b, m)
         \/ ClearCopy(h) \/ MoveData(h)
  PROVE  UserMemory'
<1>1. ASSUME NEW b \in Buffer, NEW m \in Mode, StartCopy(h, b, m) PROVE UserMemory'
  <2>1. UNCHANGED <<kind, data_host, copy_if_modified, user_writes>> /\ copy_if_modified[b]
    BY Zenon, <1>1 DEF StartCopy, MustCopy
  <2>2. \A c \in Buffer : modified[c] => modified'[c]
    BY Zenon, <1>1 DEF StartCopy, LTTypeOK
  <2>3. \A g \in Host : copying'[g] = copying[g] \/ copying'[g].buffer = b
    <3>1. PICK early : copying' = [copying EXCEPT ![h] =
                         [buffer |-> b, mode |-> m, next |-> "clear", early |-> early]]
      BY Zenon, <1>1 DEF StartCopy
    <3>2. copying \in [Host -> {None} \cup CopyStates]
      BY Zenon DEF LTTypeOK
    <3> QED
      BY <3>1, <3>2
  <2>4. \A g \in Host : copying'[g] # None => kind'[copying'[g].buffer] = "const"
    BY Zenon, <2>1, <2>3 DEF UserMemory
  <2> QED
    BY Zenon, <2>1, <2>2, <2>4 DEF UserMemory, LTTypeOK
<1>2. CASE ClearCopy(h)
  <2>1. UNCHANGED <<kind, data_host, modified, user_writes>>
    BY <1>2 DEF ClearCopy
  <2>2. \A c \in Buffer : copy_if_modified'[c] => copy_if_modified[c]
    BY Zenon, <1>2 DEF ClearCopy, LTTypeOK
  <2>3. \A g \in Host : copying'[g] # None =>
          copying[g] # None /\ copying'[g].buffer = copying[g].buffer
    BY <1>2, CopyFrame DEF ClearCopy, LTTypeOK, CopyStates
  <2> QED
    BY Zenon, <2>1, <2>2, <2>3 DEF UserMemory
<1>3. CASE MoveData(h)
  <2>1. UNCHANGED <<kind, copy_if_modified, modified, user_writes>>
    BY <1>3 DEF MoveData
  <2>2. \A c \in Buffer : kind[c] # "const" => data_host'[c] = data_host[c]
    BY <1>3 DEF MoveData, LTTypeOK, UserMemory
  <2>3. \A g \in Host : copying'[g] # None =>
          copying[g] # None /\ copying'[g].buffer = copying[g].buffer
    BY <1>3, CopyFrame DEF MoveData, LTTypeOK, CopyStates
  <2> QED
    BY Zenon, <2>1, <2>2, <2>3 DEF UserMemory, LTTypeOK
<1> QED
  BY <1>1, <1>2, <1>3

(* No step falsifies UserMemory. *)
LEMMA UserMemoryStep ==
  ASSUME Base, LTTypeOK, UserMemory, [LTNext]_ltVars
  PROVE  UserMemory'
<1>1. CASE UNCHANGED <<kind, data_host, copy_if_modified, modified, copying, user_writes>>
  BY <1>1 DEF UserMemory
<1>2. ASSUME NEW t \in Task, LTTaskStep(t) PROVE UserMemory'
  BY <1>1, <1>2 DEF LTTaskStep, bufferVars
<1>3. ASSUME NEW h \in Host, LTHostProgress(h) PROVE UserMemory'
  BY Zenon, <1>1, <1>3, UserMemoryCopy
  DEF LTHostProgress, LTSchedule, ResetBuffer, CloseReturns, bufferVars, useVars
<1>4. ASSUME NEW h \in Host, LTHostCall(h) PROVE UserMemory'
  <2>1. ASSUME NEW b \in Buffer, NEW m \in Mode, LTUseBuffer(h, b, m) PROVE UserMemory'
    BY Zenon, <2>1, UserMemoryUse
  <2>2. ASSUME NEW b \in Buffer, NEW m \in Mode, LTHostAccess(h, b, m) PROVE UserMemory'
    <3>1. Tracked(h, b, m) /\ UNCHANGED <<kind, data_host, copy_if_modified, user_writes>>
      BY <2>2 DEF LTHostAccess, Tracked
    <3>2. \A g \in Host : copying'[g] # None => copying'[g] = copying[g]
      BY <3>1 DEF Tracked, LTTypeOK
    <3> QED
      BY Zenon, <3>1, <3>2, TrackedFrame DEF UserMemory, LTTypeOK
  <2>3. ASSUME NEW b \in Buffer, mark_as_written(h, b) PROVE UserMemory'
    BY <2>3 DEF mark_as_written, UserMemory, LTTypeOK, useVars
  <2>4. ASSUME NEW b \in Buffer, NEW m \in Mode, StartCopy(h, b, m) PROVE UserMemory'
    BY Zenon, <2>4, UserMemoryCopy
  <2> QED
    BY Zenon, <1>1, <1>4, <2>1, <2>2, <2>3, <2>4
    DEF LTHostCall, LTSubmit, set_final_data, CloseBuffer, CloseQueue, DropHostAccessor,
        bufferVars, useVars
<1>5. CASE UNCHANGED ltVars
  BY Zenon, <1>1, <1>5 DEF ltVars, bufferVars, useVars
<1> QED
  BY <1>2, <1>3, <1>4, <1>5 DEF LTNext

(* No step falsifies WrittenBack: a buffer that is destroyed has no user object
   left to change what it must write back. *)
LEMMA WrittenBackStep ==
  ASSUME LTTypeOK, NoLongerUsed, WrittenBack, [LTNext]_ltVars
  PROVE  WrittenBack'
<1> DEFINE Touched(b) == /\ user[b] = "live" /\ UNCHANGED <<destroyed, written_back>>
                         /\ \A c \in Buffer \ {b} :
                              UNCHANGED <<modified[c], final_write_back[c]>>
<1>1. CASE UNCHANGED <<modified, final_write_back, destroyed, written_back>>
  BY <1>1 DEF WrittenBack
<1>2. CASE UNCHANGED bufferVars /\ DropReferences
  BY Zenon, <1>2 DEF WrittenBack, DropReferences, bufferVars
<1>3. ASSUME NEW b \in Buffer, Touched(b) PROVE WrittenBack'
  <2>1. b \notin destroyed
    BY <1>3 DEF NoLongerUsed
  <2> QED
    BY <1>3, <2>1 DEF WrittenBack, LTTypeOK
<1>4. ASSUME NEW t \in Task, LTTaskStep(t) PROVE WrittenBack'
  BY <1>2, <1>4 DEF LTTaskStep
<1>5. ASSUME NEW h \in Host, LTHostProgress(h) PROVE WrittenBack'
  BY Zenon, <1>1, <1>2, <1>5
  DEF LTHostProgress, LTSchedule, ResetBuffer, CloseReturns, ClearCopy, MoveData, bufferVars
<1>6. ASSUME NEW h \in Host, LTHostCall(h) PROVE WrittenBack'
  <2>1. ASSUME NEW b \in Buffer, NEW m \in Mode, LTUseBuffer(h, b, m) PROVE WrittenBack'
    BY Zenon, <1>3, <2>1, TrackedFrame DEF LTUseBuffer, Tracked
  <2>2. ASSUME NEW b \in Buffer, NEW m \in Mode, LTHostAccess(h, b, m) PROVE WrittenBack'
    BY Zenon, <1>3, <2>2, TrackedFrame DEF LTHostAccess, Tracked
  <2>7. ASSUME NEW b \in Buffer, NEW m \in Mode, StartCopy(h, b, m) PROVE WrittenBack'
    BY Zenon, <1>3, <2>7 DEF StartCopy, LTTypeOK
  <2>3. ASSUME NEW b \in Buffer, NEW f \in BOOLEAN, set_final_data(h, b, f) PROVE WrittenBack'
    BY <1>3, <2>3 DEF set_final_data, LTTypeOK
  <2>4. ASSUME NEW b \in Buffer, mark_as_written(h, b) PROVE WrittenBack'
    BY Zenon, <1>3, <2>4 DEF mark_as_written, LTTypeOK
  <2>5. ASSUME NEW b \in Buffer, CloseBuffer(h, b) PROVE WrittenBack'
    BY <1>2, <2>5 DEF CloseBuffer
  <2>6. CASE DropHostAccessor(h)
    BY <1>2, <2>6 DEF DropHostAccessor
  <2> QED
    BY Zenon, <1>1, <1>6, <2>1, <2>2, <2>3, <2>4, <2>5, <2>6, <2>7
    DEF LTHostCall, LTSubmit, CloseQueue, bufferVars
<1>7. CASE UNCHANGED ltVars
  BY <1>1, <1>7 DEF ltVars, bufferVars
<1> QED
  BY <1>4, <1>5, <1>6, <1>7 DEF LTNext

-----------------------------------------------------------------------------
(* The kernels that have returned. *)
LEMMA DoneStaysDone ==
  ASSUME Base, [LTNext]_ltVars, NEW t \in Task, KernelDone(t)
  PROVE  KernelDone(t)'
<1> USE DEF KernelDone, Base, WeakTypeOK
<1>1. CASE UNCHANGED phase
  BY <1>1
<1>2. ASSUME NEW u \in Task, LTTaskStep(u) PROVE KernelDone(t)'
  <2>1. \/ UNCHANGED phase
        \/ phase' = [phase EXCEPT ![u] = "running"] /\ phase[u] = "waiting"
        \/ \E p \in {"releasing", "notifying", "ending", "exited"} :
             phase' = [phase EXCEPT ![u] = p]
    BY Zenon, <1>2 DEF LTTaskStep, TaskStep, WaitForProducers, KernelReturns, ReleaseBuffer,
                ClearBuffers, NotifyConsumers, KernelEnd
  <2> QED
    BY <2>1
<1>3. ASSUME NEW h \in Host, LTHostProgress(h) PROVE KernelDone(t)'
  <2>1. CASE LTSchedule(h)
    BY <2>1 DEF LTSchedule, Schedule, HostInv
  <2> QED
    BY Zenon, <1>1, <1>3, <2>1
    DEF LTHostProgress, ResetBuffer, CloseReturns, LinkProducer, QueueWaitReturns,
        HostAccessGranted, ClearCopy, MoveData, vars, taskVars
<1>4. ASSUME NEW h \in Host, LTHostCall(h) PROVE KernelDone(t)'
  <2>1. ASSUME NEW q \in Queue, NEW u \in Task, LTSubmit(h, q, u) PROVE KernelDone(t)'
    BY <2>1 DEF LTSubmit, Submit
  <2> QED
    BY Zenon, <1>1, <1>4, <2>1
    DEF LTHostCall, LTUseBuffer, UseBuffer, LTHostAccess, HostAccess, set_final_data,
        mark_as_written, CloseBuffer, CloseQueue, QueueWait, DropHostAccessor, StartCopy,
        vars, taskVars
<1>5. CASE UNCHANGED ltVars
  BY Zenon, <1>1, <1>5 DEF ltVars, vars, taskVars
<1> QED
  BY <1>2, <1>3, <1>4, <1>5 DEF LTNext

(* ~buffer_waiter that does not wait: the kernels that may write the memory of
   the user share the buffer, and a shared buffer with something to write back
   is waited for. *)
LEMMA GoneWithoutWait ==
  ASSUME Base, LifeInv, UserMemory, NEW h \in Host, NEW b \in Buffer,
         CloseBuffer(h, b), ~MustWait(b)
  PROVE  /\ kind'[b] # "const" => \A t \in Task : b \in user_writes'[t] => KernelDone(t)'
         /\ modified'[b] /\ final_write_back'[b] => b \in written_back'
<1> USE DEF LifeInv
<1>1. UNCHANGED <<vars, bufferVars, useVars>> /\ DropReferences /\ user[b] = "live"
      /\ user'[b] = "gone"
  BY Zenon DEF CloseBuffer, LTTypeOK
<1>2. ASSUME kind[b] # "const", NEW t \in Task, b \in user_writes[t], ~KernelDone(t) PROVE FALSE
  <2>1. b \in Elements(buffers_in_use[t])
    BY Zenon, <1>2 DEF UsesKept
  <2>2. Shared(b)
    BY <2>1, UserIsAlive DEF Shared
  <2> QED
    BY Zenon, <1>2, <2>2 DEF MustWait, UserMemory
<1>3. kind[b] # "const" => \A t \in Task : b \in user_writes'[t] => KernelDone(t)'
  BY <1>1, <1>2 DEF KernelDone, vars, taskVars, useVars
<1>4. ASSUME modified[b], final_write_back[b] PROVE b \in written_back'
  <2>1. ~Shared(b)
    BY Zenon, <1>4 DEF MustWait
  <2>2. ~Shared(b)'
    <3>1. UNCHANGED <<phase, producer_tasks, buffers_in_use, captured, host_accessor>>
      BY Zenon, <1>1 DEF vars, taskVars, useVars
    <3>2. \A t \in Task : (Alive(t)' <=> Alive(t)) /\ (Owned(t)' <=> Owned(t))
      BY <3>1 DEF Alive, Owned
    <3> QED
      BY <2>1, <3>1, <3>2 DEF Shared
  <2>3. b \in destroyed' \ destroyed
    BY Zenon, <1>1, <2>2 DEF DropReferences, Referenced, NoLongerUsed
  <2> QED
    BY <1>4, <2>3, <1>1 DEF DropReferences
<1> QED
  BY <1>1, <1>3, <1>4 DEF bufferVars

(* ~buffer_waiter that waits: the buffer is destroyed when it returns. *)
LEMMA GoneAfterWait ==
  ASSUME Base, LifeInv, WrittenBack, NEW b \in destroyed
  PROVE  /\ \A t \in Task : b \in user_writes[t] => KernelDone(t)
         /\ modified[b] /\ final_write_back[b] => b \in written_back
BY Zenon DEF LifeInv, NoLongerUsed, UsesKept, WrittenBack

(* No step falsifies GoneIsDone. *)
LEMMA GoneIsDoneStep ==
  ASSUME Base, LifeInv, LTTypeOK', CloseInv, [LTNext]_ltVars
  PROVE  GoneIsDone'
<1> USE DEF LifeInv, CloseInv
<1>0. /\ \A t \in Task : KernelDone(t) => KernelDone(t)'
      /\ DropReferences => written_back \subseteq written_back'
  BY Zenon, DoneStaysDone DEF DropReferences
<1>1. CASE /\ UNCHANGED <<kind, user, modified, final_write_back, user_writes>>
           /\ written_back \subseteq written_back'
  BY Zenon, <1>0, <1>1 DEF GoneIsDone
<1>2. ASSUME NEW b \in Buffer, user[b] = "live",
             UNCHANGED <<kind, user, written_back>>,
             \A c \in Buffer \ {b} :
               /\ UNCHANGED <<modified[c], final_write_back[c]>>
               /\ \A t \in Task : c \in user_writes'[t] => c \in user_writes[t]
      PROVE  GoneIsDone'
  BY <1>0, <1>2 DEF GoneIsDone
<1>3. ASSUME NEW t \in Task, LTTaskStep(t) PROVE GoneIsDone'
  BY <1>0, <1>1, <1>3 DEF LTTaskStep, bufferVars, closeVars
<1>4. ASSUME NEW h \in Host, LTHostProgress(h) PROVE GoneIsDone'
  <2>1. CASE ResetBuffer(h)
    <3>1. /\ \A c \in Buffer : user'[c] = "gone" => user[c] = "gone"
          /\ UNCHANGED <<kind, modified, final_write_back, user_writes>>
          /\ written_back \subseteq written_back'
      BY <1>0, <2>1 DEF ResetBuffer, LTTypeOK, bufferVars, useVars
    <3> QED
      BY Zenon, <1>0, <3>1 DEF GoneIsDone
  <2>2. CASE CloseReturns(h)
    <3>1. PICK b \in destroyed : b = closing[h]
      BY <2>2 DEF CloseReturns
    <3>2. /\ UNCHANGED <<kind, modified, final_write_back, user_writes, written_back>>
          /\ \A c \in Buffer : user'[c] = "gone" => user[c] = "gone" \/ c = b
      BY <2>2, <3>1 DEF CloseReturns, LTTypeOK, bufferVars, useVars
    <3> QED
      BY Zenon, <1>0, <3>2, GoneAfterWait DEF GoneIsDone
  <2> QED
    BY Zenon, <1>1, <1>4, <2>1, <2>2
    DEF LTHostProgress, LTSchedule, ClearCopy, MoveData, bufferVars, closeVars, useVars
<1>5. ASSUME NEW h \in Host, LTHostCall(h) PROVE GoneIsDone'
  <2>1. ASSUME NEW b \in Buffer, NEW m \in Mode, LTUseBuffer(h, b, m) PROVE GoneIsDone'
    <3>1. \A c \in Buffer \ {b} :
            \A t \in Task : c \in user_writes'[t] => c \in user_writes[t]
      BY Zenon, <2>1, UseWrites
    <3>2. /\ user[b] = "live" /\ UNCHANGED <<kind, user, written_back, final_write_back>>
          /\ Tracked(h, b, m)
      BY Zenon, <2>1, UseFrame
    <3>3. \A c \in Buffer \ {b} : modified'[c] = modified[c]
      BY <3>2, TrackedFrame
    <3> QED
      BY Zenon, <1>2, <3>1, <3>2, <3>3
  <2>2. ASSUME NEW b \in Buffer, NEW m \in Mode, LTHostAccess(h, b, m) PROVE GoneIsDone'
    BY Zenon, <1>2, <2>2, TrackedFrame DEF LTHostAccess, Tracked, closeVars
  <2>7. ASSUME NEW b \in Buffer, NEW m \in Mode, StartCopy(h, b, m) PROVE GoneIsDone'
    BY Zenon, <1>2, <2>7 DEF StartCopy, LTTypeOK, closeVars
  <2>3. ASSUME NEW b \in Buffer, NEW f \in BOOLEAN, set_final_data(h, b, f) PROVE GoneIsDone'
    BY <1>2, <2>3 DEF set_final_data, LTTypeOK, closeVars, useVars
  <2>4. ASSUME NEW b \in Buffer, mark_as_written(h, b) PROVE GoneIsDone'
    BY Zenon, <1>2, <2>4 DEF mark_as_written, LTTypeOK, closeVars, useVars
  <2>5. ASSUME NEW b \in Buffer, CloseBuffer(h, b) PROVE GoneIsDone'
    <3>1. /\ UNCHANGED <<kind, modified, final_write_back, user_writes>>
          /\ written_back \subseteq written_back'
      BY Zenon, <1>0, <2>5 DEF CloseBuffer, bufferVars, useVars
    <3>3. user' = [user EXCEPT ![b] = IF MustWait(b) THEN "closing" ELSE "gone"]
      BY <2>5 DEF CloseBuffer
    <3>4. /\ \A c \in Buffer : user'[c] = "gone" => user[c] = "gone" \/ c = b
          /\ user'[b] = "gone" => ~MustWait(b)
      BY <3>3 DEF LTTypeOK
    <3>2. ~MustWait(b) => /\ kind'[b] # "const" =>
                               \A t \in Task : b \in user_writes'[t] => KernelDone(t)'
                          /\ modified'[b] /\ final_write_back'[b] => b \in written_back'
      BY Zenon, <2>5, GoneWithoutWait
    <3> QED
      BY <1>0, <3>1, <3>2, <3>4 DEF GoneIsDone
  <2>6. CASE DropHostAccessor(h)
    BY <1>0, <1>1, <2>6 DEF DropHostAccessor, bufferVars, closeVars
  <2> QED
    BY Zenon, <1>1, <1>5, <2>1, <2>2, <2>3, <2>4, <2>5, <2>6, <2>7
    DEF LTHostCall, LTSubmit, CloseQueue, bufferVars, closeVars, useVars
<1>6. CASE UNCHANGED ltVars
  BY <1>1, <1>6 DEF ltVars, bufferVars, closeVars, useVars
<1> QED
  BY <1>3, <1>4, <1>5, <1>6 DEF LTNext

(* Every reachable state satisfies CloseInv. *)
LEMMA CloseInvariant == LTSpec => [](Base /\ LifeInv /\ CloseInv)
<1>1. LTInit => CloseInv
  BY DEF LTInit, CloseInv, WrittenBack, UserMemory, GoneIsDone
<1>2. Base /\ LifeInv /\ LifeInv' /\ CloseInv /\ [LTNext]_ltVars => CloseInv'
  BY Zenon, UserMemoryStep, WrittenBackStep, GoneIsDoneStep DEF LifeInv, CloseInv
<1> QED
  BY <1>1, <1>2, LifeInvariant, PTL DEF LTSpec

(* When the destructor of a user buffer returns, no kernel writes the memory of
   the user any more, unless it is constant, and the content was copied to its
   final place, once all the kernels that modify it had completed. *)
THEOREM ClosedBuffersAreWritten == LTSpec => []ClosedIsWritten
<1>1. Base /\ LifeInv /\ CloseInv => ClosedIsWritten
  BY Zenon DEF Base, WeakTypeOK, LifeInv, CloseInv, ClosedIsWritten, UsesKept, NoLongerUsed,
         GoneIsDone
<1> QED
  BY <1>1, CloseInvariant, PTL

-----------------------------------------------------------------------------
(* The threads that make a copy keep ConstMemory. *)
LEMMA ConstMemoryCopy ==
  ASSUME Direct = FALSE, LTTypeOK, ConstMemory, NEW h \in Host,
         \/ \E b \in Buffer, m \in Mode : StartCopy(h, b, m)
         \/ ClearCopy(h) \/ MoveData(h)
  PROVE  ConstMemory'
<1>1. \A g \in Host : g # h => copying'[g] = copying[g]
  BY DEF StartCopy, ClearCopy, MoveData, LTTypeOK
<1>2. UNCHANGED kind
  BY DEF StartCopy, ClearCopy, MoveData
<1>3. ASSUME NEW b \in Buffer, NEW m \in Mode, StartCopy(h, b, m) PROVE ConstMemory'
  <2>1. UNCHANGED <<data_host, copy_if_modified>> /\ copying[h] = None
    BY <1>3 DEF StartCopy
  <2>2. copying'[h].next = "clear" /\ ~copying'[h].early
    <3>1. copying' = [copying EXCEPT ![h] =
            [buffer |-> b, mode |-> m, next |-> "clear", early |-> FALSE]]
      BY Zenon, <1>3 DEF StartCopy
    <3> QED
      BY <3>1 DEF LTTypeOK
  <2>3. \A g \in Host, c \in Buffer : Copies(g, c, "move") => Copies(g, c, "move")'
    BY Zenon, <1>1, <2>1 DEF Copies
  <2>4. \A g \in Host : copying'[g] # None =>
          /\ ~copying'[g].early
          /\ copying'[g].next = "take" => ~data_host'[copying'[g].buffer]
    BY Zenon, <1>1, <2>1, <2>2 DEF ConstMemory
  <2> QED
    BY Zenon, <1>2, <2>1, <2>3, <2>4 DEF ConstMemory
<1>4. CASE ClearCopy(h)
  <2>1. copying[h] # None /\ copying[h] \in CopyStates /\ UNCHANGED data_host
    BY <1>4, CopyFrame DEF ClearCopy
  <2>2. /\ copying'[h] # None /\ copying'[h].next = "move" /\ copying[h].next = "clear"
        /\ copying'[h].buffer = copying[h].buffer /\ copying'[h].early = copying[h].early
    BY <1>4, <2>1, NoCopyAssumption DEF ClearCopy, LTTypeOK, CopyStates
  <2>3. \A c \in Buffer : c # copying[h].buffer => copy_if_modified'[c] = copy_if_modified[c]
    BY <1>4 DEF ClearCopy, LTTypeOK
  <2>4. \A g \in Host, c \in Buffer : Copies(g, c, "move") => Copies(g, c, "move")'
    BY Zenon, <1>1, <2>2 DEF Copies
  <2>5. \A c \in Buffer : c = copying[h].buffer => Copies(h, c, "move")'
    BY Zenon, <2>2 DEF Copies
  <2>6. \A g \in Host : copying'[g] # None =>
          /\ ~copying'[g].early
          /\ copying'[g].next = "take" => ~data_host'[copying'[g].buffer]
    BY Zenon, <1>1, <2>1, <2>2 DEF ConstMemory
  <2> QED
    BY Zenon, <1>2, <2>1, <2>3, <2>4, <2>5, <2>6 DEF ConstMemory
<1>5. CASE MoveData(h)
  <2>1. /\ copying[h] # None /\ copying[h] \in CopyStates /\ copying[h].buffer \in Buffer
        /\ UNCHANGED copy_if_modified
    BY <1>5, CopyFrame DEF MoveData
  <2>2. /\ copying'[h] # None /\ copying'[h].next = "take" /\ copying[h].next = "move"
        /\ copying'[h].buffer = copying[h].buffer /\ copying'[h].early = copying[h].early
    BY <1>5, <2>1, NoCopyAssumption DEF MoveData, LTTypeOK, CopyStates
  <2>3. /\ ~data_host'[copying[h].buffer]
        /\ \A c \in Buffer : data_host'[c] => data_host[c]
    BY Zenon, <1>5, <2>1 DEF MoveData, LTTypeOK
  <2>4. \A g \in Host, c \in Buffer :
          Copies(g, c, "move") /\ c # copying[h].buffer => Copies(g, c, "move")'
    BY Zenon, <1>1, <2>2 DEF Copies
  <2>5. \A g \in Host : copying'[g] # None =>
          /\ ~copying'[g].early
          /\ copying'[g].next = "take" => ~data_host'[copying'[g].buffer]
    BY Zenon, <1>1, <2>1, <2>2, <2>3, CopyFrame DEF ConstMemory
  <2> QED
    BY Zenon, <1>2, <2>1, <2>3, <2>4, <2>5 DEF ConstMemory
<1> QED
  BY <1>3, <1>4, <1>5

(* No step falsifies ConstMemory: track_access_mode returns to a thread that has
   no copy to make, or has made it. *)
LEMMA ConstMemoryStep ==
  ASSUME Direct = FALSE, LTTypeOK, ConstMemory, [LTNext]_ltVars
  PROVE  ConstMemory'
<1>1. CASE UNCHANGED <<kind, data_host, copy_if_modified, copying>>
  BY Zenon, <1>1 DEF ConstMemory, Copies
<1>2. ASSUME NEW h \in Host, NEW b \in Buffer, NEW m \in Mode, Tracked(h, b, m)
      PROVE  ConstMemory'
  <2>1. UNCHANGED <<kind, data_host, copy_if_modified>> /\ copying'[h] = None
    BY <1>2 DEF Tracked, LTTypeOK
  <2>2. \A g \in Host : g # h => copying'[g] = copying[g]
    BY <1>2 DEF Tracked, LTTypeOK
  <2>3. \A c \in Buffer : ~Copies(h, c, "move")
    BY Zenon, <1>2 DEF Tracked, Copies
  <2>4. \A g \in Host, c \in Buffer : Copies(g, c, "move") => Copies(g, c, "move")'
    BY Zenon, <2>2, <2>3 DEF Copies
  <2>5. \A g \in Host : copying'[g] # None =>
          /\ ~copying'[g].early
          /\ copying'[g].next = "take" => ~data_host'[copying'[g].buffer]
    BY Zenon, <2>1, <2>2 DEF ConstMemory
  <2> QED
    BY Zenon, <2>1, <2>4, <2>5 DEF ConstMemory
<1>3. ASSUME NEW t \in Task, LTTaskStep(t) PROVE ConstMemory'
  BY <1>1, <1>3 DEF LTTaskStep, bufferVars
<1>4. ASSUME NEW h \in Host, LTHostProgress(h) PROVE ConstMemory'
  BY Zenon, <1>1, <1>4, ConstMemoryCopy
  DEF LTHostProgress, LTSchedule, ResetBuffer, CloseReturns, bufferVars, useVars
<1>5. ASSUME NEW h \in Host, LTHostCall(h) PROVE ConstMemory'
  <2>1. ASSUME NEW b \in Buffer, NEW m \in Mode, StartCopy(h, b, m) PROVE ConstMemory'
    BY Zenon, <2>1, ConstMemoryCopy
  <2>2. ASSUME NEW b \in Buffer, NEW m \in Mode, LTUseBuffer(h, b, m) \/ LTHostAccess(h, b, m)
        PROVE  ConstMemory'
    BY Zenon, <1>2, <2>2 DEF LTUseBuffer, LTHostAccess
  <2> QED
    BY Zenon, <1>1, <1>5, <2>1, <2>2
    DEF LTHostCall, LTSubmit, set_final_data, mark_as_written, CloseBuffer, CloseQueue,
        DropHostAccessor, bufferVars, useVars
<1>6. CASE UNCHANGED ltVars
  BY <1>1, <1>6 DEF ltVars, bufferVars, useVars
<1> QED
  BY <1>3, <1>4, <1>5, <1>6 DEF LTNext

(* The steps that let a kernel write one more buffer. *)
LEMMA NewUserWrite ==
  ASSUME LTTypeOK, [LTNext]_ltVars, user_writes' # user_writes
  PROVE  \E h \in Host, b \in Buffer, m \in Mode : LTUseBuffer(h, b, m)
<1>1. ASSUME NEW t \in Task, LTTaskStep(t) PROVE FALSE
  BY <1>1 DEF LTTaskStep
<1>2. ASSUME NEW h \in Host, LTHostProgress(h) PROVE FALSE
  BY Zenon, <1>2 DEF LTHostProgress, LTSchedule, ResetBuffer, CloseReturns, ClearCopy,
                     MoveData, useVars
<1>3. ASSUME NEW h \in Host, LTHostCall(h)
      PROVE  \E b \in Buffer, m \in Mode : LTUseBuffer(h, b, m)
  BY Zenon, <1>3 DEF LTHostCall, LTSubmit, StartCopy, LTHostAccess, set_final_data,
                     mark_as_written, CloseBuffer, CloseQueue, DropHostAccessor, useVars
<1> QED
  BY Zenon, <1>1, <1>2, <1>3 DEF LTNext, ltVars, useVars

(* No kernel gets the constant memory a buffer was built from, to write it, when
   the accessors are obtained from the buffer, unless two threads obtain one at
   the same time. *)
THEOREM ConstMemoryIsKept ==
  ASSUME Direct = FALSE
  PROVE  LTSpec => ConstMemoryKept
<1>1. LTInit => ConstMemory
  BY DEF LTInit, ConstMemory
<1>2. ASSUME Base, LifeInv, ConstMemory, [LTNext]_ltVars, NEW b \in Buffer, NEW t \in Task,
             kind[b] = "const", b \in user_writes'[t] \ user_writes[t]
      PROVE  \E g \in Host : Copies(g, b, "move")
  <2>1. user_writes' # user_writes
    BY <1>2
  <2>2. PICK h \in Host, c \in Buffer, m \in Mode : LTUseBuffer(h, c, m)
    BY Zenon, <1>2, <2>1, NewUserWrite DEF LifeInv
  <2>3. c = b /\ WritesUser(h, b, m)
    <3>1. LTTypeOK /\ b \in user_writes'[t] /\ b \notin user_writes[t]
      BY Zenon, <1>2 DEF LifeInv
    <3>2. b \in user_writes[t] \/ (b = c /\ WritesUser(h, c, m))
      BY Zenon, <1>2, <2>2, <3>1, UseWritesThere
    <3> QED
      BY Zenon, <3>1, <3>2
  <2>4. Tracked(h, b, m) /\ may_modify(m) /\ data_host[b]
    BY Zenon, <1>2, <2>2, <2>3 DEF LTUseBuffer, WritesUser, ConstMemory
  <2>5. ~copy_if_modified[b]
    BY Zenon, <1>2, <2>4 DEF Tracked, Copies, MustCopy, ConstMemory
  <2> QED
    BY Zenon, <1>2, <2>4, <2>5 DEF ConstMemory
<1>3. Base /\ LifeInv /\ ConstMemory /\ [LTNext]_ltVars =>
        [\A b \in Buffer, t \in Task :
           kind[b] = "const" /\ b \in user_writes'[t] \ user_writes[t]
           => \E g \in Host : Copies(g, b, "move")]_ltVars
  BY Zenon, <1>2
<1>4. LifeInv /\ ConstMemory /\ [LTNext]_ltVars => ConstMemory'
  BY Zenon, ConstMemoryStep DEF LifeInv
<1> QED
  BY <1>1, <1>3, <1>4, LifeInvariant, PTL DEF LTSpec, ConstMemoryKept

=============================================================================
