---------------------------- MODULE ObjectCache ----------------------------
(***************************************************************************)
(* detail::cache, used by opencl_device, opencl_platform, opencl_context,  *)
(* opencl_queue, opencl_kernel and opencl_event to return the same object  *)
(* for the same OpenCL handle: a map of weak pointers under a mutex.  The  *)
(* destructor of an object, which runs after its weak pointer has expired, *)
(* removes its entry.                                                      *)
(***************************************************************************)
EXTENDS Integers, Sequences

CONSTANTS Callers,     \* threads
          Handles,     \* OpenCL handles, the keys of the cache
          MaxObjects,  \* bound on the objects created
          Nothing      \* no entry, no object held

ASSUME CacheAssumption == MaxObjects \in Nat /\ Nothing \notin 1 .. MaxObjects

VARIABLES entry,       \* cache::c: the object a weak_ptr of the map refers to
          held,        \* shared_ptr held by each caller
          key,         \* handle of each object created, in order
          removing,    \* object whose destructor each caller runs
          raced        \* handles looked up while their object was destroyed (ghost)

ocvars == <<entry, held, key, removing, raced>>

Created == DOMAIN key

OCInit == /\ entry = [k \in Handles |-> Nothing]
          /\ held = [t \in Callers |-> Nothing]
          /\ key = <<>>
          /\ removing = [t \in Callers |-> Nothing]
          /\ raced = {}

alive(o) == \E t \in Callers : held[t] = o

MayCall(t) == held[t] = Nothing /\ removing[t] = Nothing

\* get_or_register finds a weak_ptr it can lock
GetLive(t, k) == /\ MayCall(t)
                 /\ entry[k] # Nothing /\ alive(entry[k])
                 /\ held' = [held EXCEPT ![t] = entry[k]]
                 /\ UNCHANGED <<entry, key, removing, raced>>

\* ... or creates an object; insert leaves an expired entry as it is
Registered(k, o) == IF entry[k] = Nothing THEN o ELSE entry[k]

GetNew(t, k) == /\ MayCall(t)
                /\ entry[k] = Nothing \/ ~alive(entry[k])
                /\ Len(key) < MaxObjects
                /\ LET o == Len(key) + 1
                   IN /\ key' = Append(key, k)
                      /\ held' = [held EXCEPT ![t] = o]
                      /\ entry' = [entry EXCEPT ![k] = Registered(k, o)]
                /\ raced' = IF \E u \in Callers : removing[u] # Nothing /\ key[removing[u]] = k
                            THEN raced \union {k} ELSE raced
                /\ UNCHANGED removing

\* A copy of a shared_ptr is given to another caller
Share(t, u) == /\ held[t] # Nothing /\ MayCall(u)
               /\ held' = [held EXCEPT ![u] = held[t]]
               /\ UNCHANGED <<entry, key, removing, raced>>

\* Mutation: the entry is not removed
DropObject_quiet(t) == /\ held[t] # Nothing /\ held' = [held EXCEPT ![t] = Nothing]
                       /\ UNCHANGED <<entry, key, removing, raced>>

\* The last shared_ptr goes: the weak_ptr expires, then the destructor runs
DropObject(t) == /\ held[t] # Nothing
                 /\ held' = [held EXCEPT ![t] = Nothing]
                 /\ removing' = IF \A u \in Callers \ {t} : held[u] # held[t]
                                THEN [removing EXCEPT ![t] = held[t]] ELSE removing
                 /\ UNCHANGED <<entry, key, raced>>

\* cache::remove, by the destructor
RemoveEntry(t) == /\ removing[t] # Nothing
                  /\ entry' = [entry EXCEPT ![key[removing[t]]] = Nothing]
                  /\ removing' = [removing EXCEPT ![t] = Nothing]
                  /\ UNCHANGED <<held, key, raced>>

CallerStep(t) == \/ \E k \in Handles : GetLive(t, k) \/ GetNew(t, k)
                 \/ \E u \in Callers : Share(t, u)
                 \/ DropObject(t) \/ RemoveEntry(t)

CacheIdle == Len(key) = MaxObjects /\ UNCHANGED ocvars

OCNext == (\E t \in Callers : CallerStep(t)) \/ CacheIdle

OCSpec == OCInit /\ [][OCNext]_ocvars
-----------------------------------------------------------------------------
(* opencl_device::cache: "A cache to always return the same alive device for  *)
(* a given OpenCL device": no two objects are alive for a handle, unless it   *)
(* was looked up between the expiry of its weak_ptr and the removal of its    *)
(* entry.                                                                     *)
OneAliveObject == \A o, p \in Created :
  (key[o] = key[p] /\ alive(o) /\ alive(p) /\ key[o] \notin raced) => o = p
=============================================================================
