------------------------------ MODULE MCTiles ------------------------------
(***************************************************************************)
(* The components of the AI Engine runtime that have a state of their own, *)
(* side by side: `which' tells the one that runs, chosen in the initial    *)
(* state, the others keep their initial states.                            *)
(***************************************************************************)
EXTENDS TileService, SoftMutex, DeviceHeap, StreamNoC, AieLaunch, AieExec, TLC

VARIABLE which

Parts == {"wait", "barrier", "service", "mutex", "heap", "stream", "launch", "exec"}

\* Tile 1 sends a stream through tile 2 to tile 3, where a DMA sends one too; one
\* port of the core of tile 3 receives the first, the other one both.  The tiles
\* could be (0, 1), (1, 1) and (1, 0): the last of the array is destroyed first.
MCOutputs == ("a" :> <<"b">>) @@ ("b" :> <<"c">>) @@ ("c" :> <<"rc", "rd">>) @@ ("d" :> <<"rd">>)
MCRoom    == [p \in {"a", "b", "c", "d", "rc", "rd"} |-> IF p = "a" THEN 2 ELSE 1]
MCTileOf  == ("a" :> 1) @@ ("b" :> 2) @@ ("c" :> 3) @@ ("d" :> 3) @@ ("rc" :> 3) @@ ("rd" :> 3)
MCWrites  == ("a" :> 2) @@ ("b" :> 0) @@ ("c" :> 0) @@ ("d" :> 1)
MCDestroyed == <<2, 1, 3>>

\* A buffer of two elements, written only, or read and written in part
MCAccesses == {<<0, 0, 1>>, <<0, 0, 2>>, <<2, 1, 2>>}

allvars == <<which, vars, tbvars, svvars, smvars, hvars, nvars, lvars, xvars>>

MCInit == /\ which \in Parts
          /\ Init /\ TBInit /\ SvInit /\ SmInit /\ HInit /\ NInit /\ LInit /\ XInit
          /\ which # "service" => impl = "aie"

OnlyWait    == UNCHANGED <<which, tbvars, svvars, smvars, hvars, nvars, lvars, xvars>>
OnlyBarrier == UNCHANGED <<which, vars, svvars, smvars, hvars, nvars, lvars, xvars>>
OnlyService == UNCHANGED <<which, vars, tbvars, smvars, hvars, nvars, lvars, xvars>>
OnlyMutex   == UNCHANGED <<which, vars, tbvars, svvars, hvars, nvars, lvars, xvars>>
OnlyHeap    == UNCHANGED <<which, vars, tbvars, svvars, smvars, nvars, lvars, xvars>>
OnlyStream  == UNCHANGED <<which, vars, tbvars, svvars, smvars, hvars, lvars, xvars>>
OnlyLaunch  == UNCHANGED <<which, vars, tbvars, svvars, smvars, hvars, nvars, xvars>>
OnlyExec    == UNCHANGED <<which, vars, tbvars, svvars, smvars, hvars, nvars, lvars>>

\* Every use of the counter has ended and every waiter has returned
WaitsDone == /\ \A w \in Waiter : ws[w] = "returned"
             /\ \A u \in User : us[u] = "idle" /\ uses[u] = MaxUses
             /\ UNCHANGED vars

MCNext == \/ which = "wait" /\ (Next \/ WaitsDone) /\ OnlyWait
          \/ which = "barrier" /\ TBNext /\ OnlyBarrier
          \/ which = "service" /\ SvNext /\ OnlyService
          \/ which = "mutex" /\ SmNext /\ OnlyMutex
          \/ which = "heap" /\ HNext /\ OnlyHeap
          \/ which = "stream" /\ NNext /\ OnlyStream
          \/ which = "launch" /\ LNext /\ OnlyLaunch
          \/ which = "exec" /\ XNext /\ OnlyExec

\* Threads of the emulation, kernels and host are scheduled by the system
MCFairness ==
  /\ \A u \in User : WF_allvars(which = "wait" /\ UserStep(u) /\ OnlyWait)
  /\ \A w \in Waiter : WF_allvars(which = "wait" /\ WaiterStep(w) /\ OnlyWait)
  /\ \A i \in Tiles : WF_allvars(which = "barrier" /\ TileStep(i) /\ OnlyBarrier)
  /\ WF_allvars(which = "service" /\ HostStep /\ OnlyService)
  /\ \A t \in Kernels : WF_allvars(which = "service" /\ KernelStep(t) /\ OnlyService)
  /\ WF_allvars(which = "stream" /\ NNext /\ OnlyStream)
  /\ WF_allvars(which = "launch" /\ LaunchHost /\ OnlyLaunch)
  /\ \A k \in AllKernels : WF_allvars(which = "launch" /\ FiberStep(k) /\ OnlyLaunch)

MCSpec == MCInit /\ [][MCNext]_allvars /\ MCFairness
-----------------------------------------------------------------------------
(* Tiles that all call the barrier (vertical_barrier) as often end all their calls.  *)
BarrierCallsEnd == which = "barrier" => AllRoundsEnd

(* service_list_info::wait_all returns, or stops on a failed assertion.              *)
WaitAllEnds == which = "service" => WaitAllReturns

(* The destructor of the device ends when the kernels have read what was sent.       *)
DeviceDismantled == which = "stream" => DismantlingEnds

(* queue::submit returns, and no kernel it launched sleeps for ever on the condition *)
(* variable of the services, whenever its fiber starts.                              *)
SubmitEnds == which = "launch" => LaunchesEnd

(* The barriers, the requests of the kernels, wait_all, the destruction of a device    *)
(* and queue::submit all end.                                                          *)
TilesProgress == /\ BarrierCallsEnd /\ RequestsAnswered /\ WaitAllEnds
                 /\ DeviceDismantled /\ SubmitEnds
=============================================================================
