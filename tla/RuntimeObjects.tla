--------------------------- MODULE RuntimeObjects ---------------------------
(***************************************************************************)
(* The contexts, queues and kernels of a program and the OpenCL objects    *)
(* they wrap.  A SYCL object shares an implementation, which keeps a       *)
(* reference to its OpenCL object and is found again through a cache keyed *)
(* by the OpenCL handle as long as it is alive; the implementation of a    *)
(* context also owns an internal queue, and an OpenCL queue keeps its      *)
(* context alive.  A handle whose object is gone may be given to another   *)
(* one.  The host context is one implementation for ever, a host queue has *)
(* its own each time.                                                      *)
(***************************************************************************)
EXTENDS Naturals, FiniteSets

CONSTANTS Ids,         \* handles OpenCL gives to its objects
          Slots,       \* SYCL objects of the program
          ReleasesGot  \* the program releases what get() returned

ASSUME ObjectsAssumption == IsFiniteSet(Slots) /\ ReleasesGot \in BOOLEAN /\ 0 \notin Ids

VARIABLES object,      \* the OpenCL object behind each handle
          impl,        \* the implementations alive: kind, OpenCL object, internal queue
          shares,      \* the implementation each SYCL object shares
          known,       \* opencl_context::cache, opencl_queue::cache, opencl_kernel::cache
          owned        \* references the program has to release

rovars == <<object, impl, shares, known, owned>>

Kinds     == {"context", "queue", "kernel"}
ImplIds   == 1 .. Cardinality(Slots)
HostCtx   == Cardinality(Slots) + 1    \* host_context::instance()
NoObject  == [kind |-> "none", refs |-> 0, context |-> 0]
NoImpl    == [kind |-> "none", of |-> 0, internal |-> 0]

ROInit == /\ object = [h \in Ids |-> NoObject]
          /\ impl = [i \in ImplIds |-> NoImpl]
          /\ shares = [x \in Slots |-> 0]
          /\ known = [k \in Kinds |-> [h \in Ids |-> 0]]
          /\ owned = [h \in Ids |-> 0]

FreeIds == {h \in Ids : object[h] = NoObject}
FreeImpls == {i \in ImplIds : impl[i] = NoImpl}
Unused(x) == shares[x] = 0

-----------------------------------------------------------------------------
(* OpenCL, through Boost.Compute *)

WithNew(o, h, kind, c) == [o EXCEPT ![h] = [kind |-> kind, refs |-> 1, context |-> c]]

Retain(o, h) == [o EXCEPT ![h].refs = @ + 1]

\* A queue lets its context go with it
Release(o, h) ==
  LET Less(p, i) == IF p[i].refs > 1 THEN [p EXCEPT ![i].refs = @ - 1]
                                     ELSE [p EXCEPT ![i] = NoObject]
      less == Less(o, h)
  IN IF less[h] = NoObject /\ o[h].context # 0 THEN Less(less, o[h].context) ELSE less

\* The program creates an object with the OpenCL API and owns it
clCreate(h, kind) ==
  /\ h \in FreeIds /\ kind \in {"context", "kernel"}
  /\ object' = WithNew(object, h, kind, 0)
  /\ owned' = [owned EXCEPT ![h] = 1]
  /\ UNCHANGED <<impl, shares, known>>

clRelease(h) == /\ owned[h] > 0
                /\ object' = Release(object, h)
                /\ owned' = [owned EXCEPT ![h] = @ - 1]
                /\ UNCHANGED <<impl, shares, known>>

-----------------------------------------------------------------------------
(* The factories *)

\* cache::get_or_register: the implementation of an OpenCL object, if it is alive
Found(kind, h) == known[kind][h]

\* The constructor of an implementation copies the Boost.Compute object
Wrapped(o, h) == Retain(o, h)

\* instance(): x shares the implementation of h, made if needed.  The
\* implementation of a context makes its internal queue q.
instance(x, kind, h, objects, q) ==
  IF Found(kind, h) # 0
  THEN /\ shares' = [shares EXCEPT ![x] = Found(kind, h)]
       /\ object' = objects
       /\ UNCHANGED <<impl, known>>
  ELSE \E i \in FreeImpls :
       /\ shares' = [shares EXCEPT ![x] = i]
       /\ known' = [known EXCEPT ![kind][h] = i]
       /\ impl' = [impl EXCEPT ![i] =
                    [kind |-> kind, of |-> h, internal |-> IF kind = "context" THEN q ELSE 0]]
       /\ object' = IF kind = "context"
                    THEN WithNew(Retain(Wrapped(objects, h), h), q, "queue", h)
                    ELSE Wrapped(objects, h)

\* context{device}: a new OpenCL context, whose temporary reference goes after
\* the implementation took its own
NewContext(x, h, q) ==
  /\ Unused(x) /\ {h, q} \subseteq FreeIds /\ h # q
  /\ instance(x, "context", h, [object EXCEPT ![h] = [NoObject EXCEPT !.kind = "context"]], q)
  /\ UNCHANGED owned

\* context{}: the host context is shared by everyone
HostContext(x) == /\ Unused(x)
                  /\ shares' = [shares EXCEPT ![x] = HostCtx]
                  /\ UNCHANGED <<object, impl, known, owned>>

\* queue{device} and queue{context, selector}: a new OpenCL queue in a new
\* OpenCL context, which only the queue keeps alive
NewQueue(x, h, c) ==
  /\ Unused(x) /\ {h, c} \subseteq FreeIds /\ h # c
  /\ instance(x, "queue", h,
              [WithNew(object, c, "context", 0) EXCEPT
                 ![h] = [kind |-> "queue", refs |-> 0, context |-> c]], 0)
  /\ UNCHANGED owned

\* queue{} on the host: not a singleton
HostQueue(x) == /\ Unused(x)
                /\ \E i \in FreeImpls :
                     /\ shares' = [shares EXCEPT ![x] = i]
                     /\ impl' = [impl EXCEPT ![i] = [NoImpl EXCEPT !.kind = "queue"]]
                /\ UNCHANGED <<object, known, owned>>

\* context{cl_context}, kernel{cl_kernel}
FromCl(x, h, q) ==
  /\ Unused(x) /\ owned[h] > 0
  /\ object[h].kind = "context" => q \in FreeIds
  /\ instance(x, object[h].kind, h, object, q)
  /\ UNCHANGED owned

\* queue::get_context: the context{} of a host queue, or one for the OpenCL
\* context of the queue
get_context(x, y, q) ==
  /\ Unused(x) /\ shares[y] \in ImplIds /\ impl[shares[y]].kind = "queue"
  /\ IF impl[shares[y]].of = 0
     THEN shares' = [shares EXCEPT ![x] = HostCtx] /\ UNCHANGED <<object, impl, known>>
     ELSE q \in FreeIds /\ instance(x, "context", object[impl[shares[y]].of].context, object, q)
  /\ UNCHANGED owned

-----------------------------------------------------------------------------
(* The SYCL objects *)

Copy(x, y) == /\ Unused(x) /\ ~Unused(y)
              /\ shares' = [shares EXCEPT ![x] = shares[y]]
              /\ UNCHANGED <<object, impl, known, owned>>

\* The destructor of an implementation: the cache entry, then the members
Members(o, i) == LET o1 == IF impl[i].internal # 0 THEN Release(o, impl[i].internal) ELSE o
                 IN IF impl[i].of # 0 THEN Release(o1, impl[i].of) ELSE o1

Destroy(x) ==
  /\ ~Unused(x)
  /\ shares' = [shares EXCEPT ![x] = 0]
  /\ IF shares[x] \in ImplIds /\ \A y \in Slots \ {x} : shares[y] # shares[x]
     THEN /\ impl' = [impl EXCEPT ![shares[x]] = NoImpl]
          /\ known' = IF impl[shares[x]].of = 0 THEN known
                       ELSE [known EXCEPT ![impl[shares[x]].kind][impl[shares[x]].of] = 0]
          /\ object' = Members(object, shares[x])
     ELSE UNCHANGED <<impl, known, object>>
  /\ UNCHANGED owned

\* get(): only opencl_kernel retains what it returns; on the host it throws
get_retains(kind) == kind = "kernel"

get(x) ==
  /\ shares[x] \in ImplIds /\ impl[shares[x]].of # 0
  /\ LET h == impl[shares[x]].of
         kind == impl[shares[x]].kind
     IN /\ owned[h] = 0
        /\ object' = IF get_retains(kind) THEN Retain(object, h) ELSE object
        /\ owned' = IF get_retains(kind) \/ ReleasesGot THEN [owned EXCEPT ![h] = 1] ELSE owned
  /\ UNCHANGED <<impl, shares, known>>

RONext == \/ \E h \in Ids : clRelease(h) \/ \E k \in Kinds : clCreate(h, k)
          \/ \E x \in Slots : HostContext(x) \/ HostQueue(x) \/ Destroy(x) \/ get(x)
          \/ \E x \in Slots, h, q \in Ids : \/ NewContext(x, h, q) \/ NewQueue(x, h, q)
                                            \/ FromCl(x, h, q)
          \/ \E x, y \in Slots : Copy(x, y) \/ \E q \in Ids : get_context(x, y, q)

ROSpec == ROInit /\ [][RONext]_rovars

-----------------------------------------------------------------------------
\* The OpenCL object of an implementation lives as long as the implementation:
\* the handle was not given to another object in the meantime.
WrapsLive == \A i \in ImplIds : impl[i].of # 0 => object[impl[i].of].kind = impl[i].kind

\* Two SYCL objects compare equal exactly when they wrap the same OpenCL object:
\* an OpenCL object has one implementation, which its cache knows, and a cache
\* knows no other.
OneImplementation ==
  /\ \A i, j \in ImplIds : impl[i].of # 0 /\ impl[i].of = impl[j].of => i = j
  /\ \A k \in Kinds, h \in Ids : known[k][h] # 0 => LET i == impl[known[k][h]]
                                                     IN i.of = h /\ i.kind = k

\* The references of an OpenCL object are those of the program, of the
\* implementations and, for a context, of its queues: nothing leaks, even when
\* the context of a queue is looked up after the queue's own handle was given
\* away and back.
ReferencesBalance ==
  \A h \in Ids : object[h].refs = owned[h]
    + Cardinality({i \in ImplIds : impl[i].of = h})
    + Cardinality({i \in ImplIds : impl[i].internal = h})
    + Cardinality({q \in Ids : object[q].context = h})
=============================================================================
