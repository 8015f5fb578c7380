----------------------------- MODULE SoftMutex -----------------------------
(***************************************************************************)
(* soft_mutex: a mutex between the host and a tile, in three words of the  *)
(* memory of the tile, each read or written by one access.  Both sides run *)
(* the same code; both back off while turn is not device, and both unlocks *)
(* set turn to host.  The last property is that of the three kinds of      *)
(* synchronisation of the runtime, of which this is the third.             *)
(***************************************************************************)
EXTENDS CountedWait, TileBarrier

CONSTANT Uses   \* how often each side locks the mutex

ASSUME UsesAssumption == Uses \in Nat

VARIABLES smpc,   \* next access of each side
          want,   \* want_to_enter
          turn,
          taken    \* sections entered

smvars == <<smpc, want, turn, taken>>

Sides == {"device", "host"}
Other(s) == IF s = "host" THEN "device" ELSE "host"

SmInit == /\ smpc = [s \in Sides |-> "idle"]
          /\ want = [s \in Sides |-> FALSE]
          /\ turn = "device"
          /\ taken = [s \in Sides |-> 0]

SmGoTo(s, p) == smpc' = [smpc EXCEPT ![s] = p]

\* Mutation: the side does not announce itself
LockAnnounce_quiet(s) == /\ smpc[s] = "idle" /\ taken[s] < Uses
                         /\ SmGoTo(s, "look")
                         /\ UNCHANGED <<want, turn, taken>>

\* lock(): announce, then look whether the other side wants to enter
LockAnnounce(s) == /\ smpc[s] = "idle" /\ taken[s] < Uses
                   /\ want' = [want EXCEPT ![s] = TRUE]
                   /\ SmGoTo(s, "look")
                   /\ UNCHANGED <<turn, taken>>

Look(s) == /\ smpc[s] = "look"
           /\ \/ want[Other(s)] /\ SmGoTo(s, "turn") /\ UNCHANGED taken
              \/ /\ ~want[Other(s)] /\ SmGoTo(s, "inside")
                 /\ taken' = [taken EXCEPT ![s] = @ + 1]
           /\ UNCHANGED <<want, turn>>

LookTurn(s) == /\ smpc[s] = "turn"
               /\ SmGoTo(s, IF turn # "device" THEN "back" ELSE "look")
               /\ UNCHANGED <<want, turn, taken>>

\* The loop that follows waits for turn to be device again.  unlock is the only
\* writer of turn and sets it to host, so that the loop is never left.
BackOff(s) == /\ smpc[s] = "back"
              /\ want' = [want EXCEPT ![s] = FALSE]
              /\ SmGoTo(s, "wait_turn")
              /\ UNCHANGED <<turn, taken>>

\* unlock()
GiveTurn(s) == /\ smpc[s] = "inside"
               /\ turn' = "host"
               /\ SmGoTo(s, "leave")
               /\ UNCHANGED <<want, taken>>

LeaveMutex(s) == /\ smpc[s] = "leave"
                 /\ want' = [want EXCEPT ![s] = FALSE]
                 /\ SmGoTo(s, "idle")
                 /\ UNCHANGED <<turn, taken>>

SideStep(s) == \/ LockAnnounce(s) \/ Look(s) \/ LookTurn(s) \/ BackOff(s)
               \/ GiveTurn(s) \/ LeaveMutex(s)

\* Each side has finished, or waits for its turn for ever
SmStopped == /\ \A s \in Sides : smpc[s] = "wait_turn" \/ (smpc[s] = "idle" /\ taken[s] = Uses)
             /\ UNCHANGED smvars

SmNext == (\E s \in Sides : SideStep(s)) \/ SmStopped
SmSpec == SmInit /\ [][SmNext]_smvars
-----------------------------------------------------------------------------
(* lock and unlock: the two sides are never inside the mutex together.       *)
MutualExclusion == ~(\A s \in Sides : smpc[s] \in {"inside", "leave"})

(* The synchronisation primitives: the counter of buffers, queues and tasks loses no   *)
(* wake-up, a lock of a tile has one client to notify, and soft_mutex excludes.        *)
LocksSound == NoLostWakeup /\ TBTypeOK /\ OneClientWaits /\ MutualExclusion
=============================================================================
