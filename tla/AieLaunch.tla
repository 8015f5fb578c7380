----------------------------- MODULE AieLaunch -----------------------------
(***************************************************************************)
(* queue::submit of the emulated AI Engine (aie::queue, device_impl and    *)
(* host_tile_impl): the host function launches kernels on the tiles, one   *)
(* tile after the other, each kernel in a fiber of the pool of the device; *)
(* wait_all then publishes its services and waits for one kernel per tile. *)
(*                                                                         *)
(* A kernel is <<tile, n>>, the n-th launched on the tile.  The fibers of  *)
(* the pool share one thread, but the host runs beside them.               *)
(***************************************************************************)
EXTENDS Naturals, FiniteSets

CONSTANTS LaunchTiles,   \* number of tiles
          MaxLaunches    \* bound on the kernels launched on one tile

ASSUME LaunchAssumption == LaunchTiles \in Nat /\ MaxLaunches \in Nat

VARIABLES lhost,       \* step of the host: func, notify, wait, gone
          cursor,      \* the tile func is called for, or whose future is waited
          launched,    \* kernels launched on each tile so far
          fiber,       \* state of each kernel
          services,    \* device_impl::services: none, or whether serv is alive
          broken       \* a kernel met missing or destroyed services

lvars == <<lhost, cursor, launched, fiber, services, broken>>

LTiles  == 1..LaunchTiles
AllKernels == LTiles \X (1..MaxLaunches)

LInit == /\ lhost = "func" /\ cursor = 1
         /\ launched = [t \in LTiles |-> 0]
         /\ fiber = [k \in AllKernels |-> "none"]
         /\ services = "none"
         /\ broken = FALSE

FiberTo(k, s) == fiber' = [fiber EXCEPT ![k] = s]

\* host_tile::single_task: future_work is overwritten
Execute == LET n == launched[cursor] + 1 IN
           /\ lhost = "func" /\ cursor \in LTiles /\ n <= MaxLaunches
           /\ launched' = [launched EXCEPT ![cursor] = n]
           /\ FiberTo(<<cursor, n>>, "submitted")
           /\ UNCHANGED <<lhost, cursor, services, broken>>

\* func returns for this tile
FuncNext == /\ lhost = "func" /\ cursor \in LTiles
            /\ cursor' = cursor + 1
            /\ UNCHANGED <<lhost, launched, fiber, services, broken>>

\* wait_all: the services are stored under the mutex
Publish == /\ lhost = "func" /\ cursor = LaunchTiles + 1
           /\ services' = "alive" /\ lhost' = "notify" /\ cursor' = 1
           /\ UNCHANGED <<launched, fiber, broken>>

NotifyAll == /\ lhost = "notify" /\ lhost' = "wait"
             /\ fiber' = [k \in AllKernels |->
                            IF fiber[k] = "asleep" THEN "ready" ELSE fiber[k]]
             /\ UNCHANGED <<cursor, launched, services, broken>>

\* future_work.wait() returns
FutureDone(t) == fiber[<<t, launched[t]>>] = "done"

\* A tile without a kernel has a future without a state, which throws.  The
\* services are destroyed when wait_all is left, either way.
WaitFuture == /\ lhost = "wait"
              /\ IF cursor \in LTiles /\ launched[cursor] > 0
                   THEN /\ FutureDone(cursor)
                        /\ cursor' = cursor + 1
                        /\ UNCHANGED <<lhost, services>>
                   ELSE lhost' = "gone" /\ services' = "dead" /\ UNCHANGED cursor
              /\ UNCHANGED <<launched, fiber, broken>>

-----------------------------------------------------------------------------
\* Mutation: the kernel starts at once
FiberStart_blind(k) == /\ fiber[k] = "submitted"
                       /\ FiberTo(k, "ready")
                       /\ UNCHANGED <<lhost, cursor, launched, services, broken>>
\* The fiber starts and looks at the services
FiberStart(k) == /\ fiber[k] = "submitted"
                 /\ FiberTo(k, IF services = "none" THEN "lock" ELSE "ready")
                 /\ UNCHANGED <<lhost, cursor, launched, services, broken>>

\* Mutation: the test is not made again under the mutex
Recheck_none(k) == /\ fiber[k] = "lock"
                   /\ FiberTo(k, "asleep")
                   /\ UNCHANGED <<lhost, cursor, launched, services, broken>>
\* It takes the mutex, looks again and waits for cv, which frees the mutex
Recheck(k) == /\ fiber[k] = "lock"
              /\ FiberTo(k, IF services = "none" THEN "asleep" ELSE "ready")
              /\ UNCHANGED <<lhost, cursor, launched, services, broken>>

\* The kernel performs a service
PerformService(k) == /\ fiber[k] = "ready"
                     /\ broken' = (broken \/ services # "alive")
                     /\ UNCHANGED <<lhost, cursor, launched, fiber, services>>

KernelEnds(k) == /\ fiber[k] = "ready"
                 /\ FiberTo(k, "done")
                 /\ UNCHANGED <<lhost, cursor, launched, services, broken>>

FiberStep(k) == FiberStart(k) \/ Recheck(k) \/ KernelEnds(k)
LaunchHost == FuncNext \/ Publish \/ NotifyAll \/ WaitFuture

\* submit has returned; the destructor of the pool waits for its fibers
Submitted == /\ lhost = "gone" /\ \A k \in AllKernels : fiber[k] \in {"none", "done"}
             /\ UNCHANGED lvars

LNext == \/ Execute \/ LaunchHost \/ Submitted
         \/ \E k \in AllKernels : FiberStep(k) \/ PerformService(k)

LSpec == LInit /\ [][LNext]_lvars
-----------------------------------------------------------------------------
\* What wait_all needs of func: one kernel on every tile
OneKernelEach == \A t \in LTiles : launched[t] = 1

(* execute and wait_all: whatever the order in which the fibers start and the host
   publishes its services, no kernel uses services that are not set up, and
   none uses them once wait_all has returned when every tile has one kernel.  *)
ServicesAlive == broken => lhost = "gone" /\ ~OneKernelEach

(* device_impl::wait_all: it returns with every kernel done, if each tile has one. *)
WaitAllIsComplete == (lhost = "gone" /\ OneKernelEach) =>
                       \A t \in LTiles : fiber[<<t, 1>>] = "done"

(* execute: no kernel sleeps for ever on the condition variable, however many of
   them there are and whenever they start.                                  *)
LaunchesEnd == <>(\A k \in AllKernels : fiber[k] \in {"none", "done"}) /\ <>(lhost = "gone")

(* Kernels find the services of the host alive, and wait_all waits for all of them.   *)
LaunchSound == ServicesAlive /\ WaitAllIsComplete
=============================================================================
