---------------------------- MODULE TileService ----------------------------
(***************************************************************************)
(* The services the host performs for the kernels of the AI Engine tiles:  *)
(* perform on the tile, wait_all on the host, both over a soft_barrier of  *)
(* two wrapping counters in the memory of the tile.  impl = "aie" is the   *)
(* library of include/aie, impl = "rpc" the older acap/aie/rpc.hpp, whose  *)
(* wait_all keeps to a tile until it has answered one unchained request.   *)
(***************************************************************************)
EXTENDS Integers

CONSTANTS Sites,       \* number of tiles, polled in the order 1 .. Sites
          Modulus,     \* the counters are unsigned: modulo 2^32 in the code
          Impls,       \* implementations considered
          MaxCalls,    \* calls of a service by a kernel before it ends
          MaxItems,    \* arguments of a log call
          LogThenMeet  \* kernels wait for each other after a call of log

ASSUME ServiceAssumption ==
  /\ Sites \in Nat \ {0} /\ Modulus \in Nat \ {0, 1} /\ MaxCalls \in Nat
  /\ MaxItems \in Nat \ {0} /\ Impls \subseteq {"aie", "rpc"} /\ LogThenMeet \in BOOLEAN

VARIABLES impl,
          dpc,      \* next statement of each kernel
          call,     \* the call a kernel is making, with the items left of it
          calls,    \* calls made
          met,      \* wait of the kernels for each other: 0 before, 1 in, 2 after
          record,   \* the service record of a tile: request of the kernel
          counter,  \* the two counters of the soft_barrier of a tile
          handled,  \* how often the host acted on the current request
          hpc, cur, chain, done_counter,  \* wait_all
          open      \* the tile whose log is partly printed, or 0

devvars == <<dpc, call, calls, met, record>>
hostvars == <<hpc, cur, chain, done_counter>>
svvars == <<impl, devvars, hostvars, counter, handled, open>>

Kernels == 1 .. Sites
Outside == {"run", "meet", "halted"}
Inside == {"fill", "arrive", "spin", "arrive_again", "spin_again"}

\* Is the request for item k (counted down from n to 1) chained to the next?
\* log passes --count, which is n .. 1 and never 0.
Chained(name, k) == CASE name = "log" -> k # 0
                      [] name \in {"logln", "exiting"} -> k > 1
                      [] OTHER -> FALSE

NoRequest == [done |-> FALSE, ok |-> TRUE, chained |-> FALSE, last |-> TRUE]

SvInit == /\ impl \in Impls
          /\ dpc = [t \in Kernels |-> "run"]
          /\ call = [t \in Kernels |-> [name |-> "other", left |-> 0, ok |-> TRUE]]
          /\ calls = [t \in Kernels |-> 0]
          /\ met = [t \in Kernels |-> 0]
          /\ record = [t \in Kernels |-> NoRequest]
          /\ counter = [t \in Kernels |-> [device |-> 0, host |-> 0]]
          /\ handled = [t \in Kernels |-> 0]
          /\ hpc = "try" /\ cur = 1 /\ chain = (impl = "rpc") /\ done_counter = 0
          /\ open = 0
-----------------------------------------------------------------------------
(* The kernels *)

GoTo(t, p) == dpc' = [dpc EXCEPT ![t] = p]

\* log, logln, a service of the user or host_breakpoint
Call(t, name, n) ==
  /\ dpc[t] = "run" /\ calls[t] < MaxCalls
  /\ name = "log" => impl = "aie" /\ (met[t] = 2 \/ LogThenMeet)
  /\ impl = "rpc" => met[t] = 2
  /\ name = "other" => n = 1
  /\ calls' = [calls EXCEPT ![t] = @ + 1]
  /\ call' = [call EXCEPT ![t] = [name |-> name, left |-> n, ok |-> TRUE]]
  /\ GoTo(t, "fill")
  /\ UNCHANGED <<met, record, counter, handled, open, impl, hostvars>>

\* The kernels wait for each other, once, by a barrier of their own.  With
\* rpc.hpp, which serves the tiles in turn, they do so before their calls and
\* make all the same number of calls: others leave wait_all waiting for ever.
Meet(t) == /\ dpc[t] = "run" /\ met[t] = 0
           /\ met' = [met EXCEPT ![t] = 1]
           /\ GoTo(t, "meet")
           /\ UNCHANGED <<call, calls, record, counter, handled, open, impl, hostvars>>

MeetReturns(t) == /\ dpc[t] = "meet" /\ \A u \in Kernels : met[u] > 0
                  /\ met' = [met EXCEPT ![t] = 2]
                  /\ GoTo(t, "run")
                  /\ UNCHANGED <<call, calls, record, counter, handled, open, impl, hostvars>>

\* done_service::act_on_data: does the host go on after this exit code?
ExitCodes == {"success", "abort", "assert", "other"}
HostGoesOn(ec) == ec = "success"

\* finish_kernel with an exit code that stops the host program, or not
Finish(t, ok) ==
  /\ dpc[t] = "run" /\ met[t] = 2
  /\ impl = "rpc" => ok /\ calls[t] = MaxCalls
  /\ call' = [call EXCEPT ![t] = [name |-> "done", left |-> 1, ok |-> ok]]
  /\ GoTo(t, "fill")
  /\ UNCHANGED <<calls, met, record, counter, handled, open, impl, hostvars>>

\* perform: write the request ...
Fill(t) ==
  /\ dpc[t] = "fill"
  /\ record' = [record EXCEPT ![t] =
       [done |-> call[t].name = "done", ok |-> call[t].ok,
        chained |-> Chained(call[t].name, call[t].left), last |-> call[t].left = 1]]
  /\ handled' = [handled EXCEPT ![t] = 0]
  /\ GoTo(t, "arrive")
  /\ UNCHANGED <<call, calls, met, counter, open, impl, hostvars>>

\* ... and wait twice in the barrier: tell the host the request is there,
\* then wait for its answer
Arrive(t) == /\ dpc[t] \in {"arrive", "arrive_again"}
             /\ counter' = [counter EXCEPT ![t].device = (@ + 1) % Modulus]
             /\ GoTo(t, IF dpc[t] = "arrive" THEN "spin" ELSE "spin_again")
             /\ UNCHANGED <<call, calls, met, record, handled, open, impl, hostvars>>

\* Mutation: the tile does not wait for the host
BothArrived_any(t) == TRUE

BothArrived(t) == counter[t].host = counter[t].device

SpinReturns(t) == /\ dpc[t] = "spin" /\ BothArrived(t)
                  /\ GoTo(t, "arrive_again")
                  /\ UNCHANGED <<call, calls, met, record, counter, handled, open, impl, hostvars>>

\* The request is answered: the next item of the call, the message that
\* follows done in rpc.hpp, or the kernel goes on
PerformReturns(t) ==
  /\ dpc[t] = "spin_again" /\ BothArrived(t)
  /\ \/ /\ call[t].left > 1
        /\ call' = [call EXCEPT ![t].left = @ - 1]
        /\ GoTo(t, "fill")
     \/ /\ call[t].left = 1 /\ call[t].name = "done" /\ impl = "rpc"
        /\ call' = [call EXCEPT ![t] = [name |-> "exiting", left |-> 2, ok |-> TRUE]]
        /\ GoTo(t, "fill")
     \/ /\ call[t].left = 1 /\ ~(call[t].name = "done" /\ impl = "rpc")
        /\ GoTo(t, IF call[t].name \in {"done", "exiting"} THEN "halted" ELSE "run")
        /\ UNCHANGED call
  /\ UNCHANGED <<calls, met, record, counter, handled, open, impl, hostvars>>

KernelStep(t) == \/ \E name \in {"log", "logln", "other"}, n \in 1 .. MaxItems : Call(t, name, n)
                 \/ Meet(t) \/ MeetReturns(t)
                 \/ \E ec \in ExitCodes : Finish(t, HostGoesOn(ec))
                 \/ Fill(t) \/ Arrive(t) \/ SpinReturns(t) \/ PerformReturns(t)
-----------------------------------------------------------------------------
(* wait_all *)

\* The next tile of the sweep; after a sweep wait_all tests done_counter
NextTile == IF cur < Sites
            THEN hpc' = "try" /\ cur' = cur + 1
            ELSE cur' = 1 /\ hpc' = IF done_counter < Sites THEN "try" ELSE "returned"

HostArrives == counter' = [counter EXCEPT ![cur].host = (@ + 1) % Modulus]

\* try_arrive is true: the kernel waits with a request
TryArrive == /\ hpc = "try" /\ ~BothArrived(cur)
             /\ HostArrives
             /\ hpc' = "serve"
             /\ UNCHANGED <<cur, chain, done_counter, devvars, handled, open, impl>>

\* try_arrive is false: stay while the chain is open, else the next tile
TryArriveFails == /\ hpc = "try" /\ BothArrived(cur) /\ ~chain
                  /\ NextTile
                  /\ UNCHANGED <<chain, done_counter, devvars, counter, handled, open, impl>>

ChainAfter(r) == IF impl = "rpc" /\ r.done THEN chain ELSE r.chained

DoneAfter(r) == done_counter + (IF r.done THEN 1 ELSE 0)

\* send_log_service::act_on_data: the characters are copied and printed at once
Printed(r) == open' = IF r.last THEN 0 ELSE cur

\* Read the request, act on it and write the answer.  An exit code that is
\* not a success stops the program of the host.
Serve == /\ hpc = "serve"
         /\ LET r == record[cur]
            IN /\ chain' = ChainAfter(r)
               /\ done_counter' = DoneAfter(r)
               /\ hpc' = IF r.ok THEN "wait" ELSE "stopped"
               /\ Printed(r)
         /\ handled' = [handled EXCEPT ![cur] = @ + 1]
         /\ UNCHANGED <<cur, devvars, counter, impl>>

\* barrier.wait(): the kernel arrives for the answer
HostWaitReturns == /\ hpc = "wait" /\ ~BothArrived(cur)
                   /\ HostArrives
                   /\ IF chain THEN hpc' = "try" /\ UNCHANGED <<cur, chain>>
                      ELSE NextTile /\ chain' = (impl = "rpc")
                   /\ UNCHANGED <<done_counter, devvars, handled, open, impl>>

HostStep == TryArrive \/ TryArriveFails \/ Serve \/ HostWaitReturns

SvEnded == hpc \in {"returned", "stopped"} /\ UNCHANGED svvars

SvNext == (\E t \in Kernels : KernelStep(t)) \/ HostStep \/ SvEnded
SvSpec == SvInit /\ [][SvNext]_svvars
-----------------------------------------------------------------------------
SvTypeOK ==
  /\ impl \in Impls /\ dpc \in [Kernels -> Inside \union Outside]
  /\ counter \in [Kernels -> [device : 0 .. Modulus - 1, host : 0 .. Modulus - 1]]
  /\ hpc \in {"try", "serve", "wait", "returned", "stopped"}
  /\ cur \in Kernels /\ chain \in BOOLEAN /\ done_counter \in 0 .. Sites
  /\ handled \in [Kernels -> Nat]

(* perform: a request is acted on exactly once before perform returns, and   *)
(* the host never reads a record the kernel is writing.                      *)
AnsweredOnce ==
  /\ \A t \in Kernels : handled[t] <= 1
  /\ \A t \in Kernels : dpc[t] = "spin_again" /\ BothArrived(t) => handled[t] = 1
  /\ hpc = "serve" => dpc[cur] \in {"spin", "arrive_again", "spin_again"}

(* chained_request, "to prevent le host from interleaving log requests": the  *)
(* items of one log are printed with no item of another tile among them.      *)
LogsNotInterleaved == hpc = "serve" => open \in {0, cur}

(* wait_all: "Any kernel can signal it finished executing just once": it      *)
(* returns only when every kernel has ended.                                  *)
WaitAllWaits == hpc = "returned" =>
  \A t \in Kernels : dpc[t] = "halted" \/ call[t].name \in {"done", "exiting"}

(* Every request of a kernel is answered, and wait_all returns, unless an     *)
(* exit code has stopped the program of the host.                             *)
RequestsAnswered ==
  \A t \in Kernels : (dpc[t] \in Inside) ~> (dpc[t] \in Outside \/ hpc = "stopped")
WaitAllReturns == <>(hpc \in {"returned", "stopped"})

(* The host acts once on every request, prints a log whole and waits for all the      *)
(* kernels (perform, chained_request, wait_all).                                      *)
ServedInTurn == SvTypeOK /\ AnsweredOnce /\ LogsNotInterleaved /\ WaitAllWaits
=============================================================================
