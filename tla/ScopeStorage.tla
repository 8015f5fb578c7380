---------------------------- MODULE ScopeStorage ----------------------------
(*****************************************************************************)
(* The storage scopes of the triSYCL extension: a scoped device holds a      *)
(* storage, shared by its copies; a scoped queue holds a copy of a scoped    *)
(* device, and the kernels it submits reach the storage through a reference  *)
(* to that copy.  Kernels run in threads of their own and update the storage *)
(* by a read and a write; the queue below them does not keep the scoped      *)
(* queue alive.                                                              *)
(*****************************************************************************)
EXTENDS Naturals, FiniteSets

CONSTANTS ScopedQueues,   \* the scoped queues built from copies of one device
          MaxKernels      \* bound on the kernels submitted to each of them

VARIABLES device_handle,  \* the scoped device of the user is alive
          sq,             \* each scoped queue: new, open or destroyed
          sk,             \* state of each kernel <<queue, n>>
          seen,           \* the value a kernel has read
          counter,        \* the value in each storage
          dangling,       \* a kernel used a destroyed scoped queue
          hasty,          \* a queue was destroyed before its kernels had run
          overlapping     \* two kernels were inside their updates together

scvars == <<device_handle, sq, sk, seen, counter, dangling, hasty, overlapping>>

ScopedKernels == ScopedQueues \X (1..MaxKernels)
Storages == {"device"} \cup ScopedQueues

SCInit == /\ device_handle = TRUE
          /\ sq = [q \in ScopedQueues |-> "new"]
          /\ sk = [k \in ScopedKernels |-> "none"]
          /\ seen = [k \in ScopedKernels |-> 0]
          /\ counter = [s \in Storages |-> 0]
          /\ dangling = FALSE /\ hasty = FALSE /\ overlapping = FALSE

\* detail::queue: device_with_scope is a copy of the device, which shares the
\* storage
StorageOf(q) == "device"

Construct(q) == /\ sq[q] = "new" /\ device_handle
                /\ sq' = [sq EXCEPT ![q] = "open"]
                /\ UNCHANGED <<device_handle, sk, seen, counter, dangling, hasty,
                               overlapping>>

\* The user destroys the scoped device; the queues keep their copies
DropDevice == /\ device_handle
              /\ device_handle' = FALSE
              /\ UNCHANGED <<sq, sk, seen, counter, dangling, hasty, overlapping>>

\* queue::submit, and a kernel that captures the reference to the device
ScopeSubmit(k) == /\ sq[k[1]] = "open" /\ sk[k] = "none"
                  /\ \A n \in 1..(k[2] - 1) : sk[<<k[1], n>>] # "none"
                  /\ sk' = [sk EXCEPT ![k] = "queued"]
                  /\ UNCHANGED <<device_handle, sq, seen, counter, dangling, hasty,
                                 overlapping>>

\* queue::wait returns: no kernel of the queue is left
NoKernelLeft(q) == \A n \in 1..MaxKernels : sk[<<q, n>>] \in {"none", "done"}

\* The last copy of the scoped queue goes, and its device handle with it
DestroyQueue(q) == /\ sq[q] = "open"
                   /\ sq' = [sq EXCEPT ![q] = "destroyed"]
                   /\ hasty' = (hasty \/ ~NoKernelLeft(q))
                   /\ UNCHANGED <<device_handle, sk, seen, counter, dangling, overlapping>>

\* command_group::device_scope, and the value read there
ReadScope(k) == /\ sk[k] = "queued"
                /\ sk' = [sk EXCEPT ![k] = "read"]
                /\ seen' = [seen EXCEPT ![k] = counter[StorageOf(k[1])]]
                /\ dangling' = (dangling \/ sq[k[1]] = "destroyed")
                /\ overlapping' = (overlapping \/ \E j \in ScopedKernels : sk[j] = "read")
                /\ UNCHANGED <<device_handle, sq, counter, hasty>>

WriteScope(k) == LET s == StorageOf(k[1]) IN
                 /\ sk[k] = "read"
                 /\ sk' = [sk EXCEPT ![k] = "done"]
                 /\ counter' = [counter EXCEPT ![s] = seen[k] + 1]
                 /\ dangling' = (dangling \/ sq[k[1]] = "destroyed")
                 /\ UNCHANGED <<device_handle, sq, seen, hasty, overlapping>>

\* The storage lives as long as a copy of the scoped device
StorageAlive == device_handle \/ \E q \in ScopedQueues : sq[q] = "open"

SCStop == UNCHANGED scvars

SCNext == \/ \E q \in ScopedQueues : Construct(q) \/ DestroyQueue(q)
          \/ DropDevice
          \/ \E k \in ScopedKernels : ScopeSubmit(k) \/ ReadScope(k) \/ WriteScope(k)
          \/ SCStop

SCSpec == SCInit /\ [][SCNext]_scvars
-----------------------------------------------------------------------------
(* scope::detail::queue: the queues built from copies of a device share its
   storage, so that the updates of all their kernels are counted there, but for
   those that two kernels make at the same time.                            *)
OneStorage == ~overlapping => counter["device"] =
                Cardinality({k \in ScopedKernels : sk[k] = "done"})

(* scope::queue: a kernel finds the storage and its scoped queue alive, in whatever
   order the handles go, if each queue is waited for before its last copy goes. *)
ScopesAlive == ~hasty =>
                 /\ ~dangling
                 /\ (\E k \in ScopedKernels : sk[k] \in {"queued", "read"}) => StorageAlive
=============================================================================
