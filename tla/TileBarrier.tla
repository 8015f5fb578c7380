---------------------------- MODULE TileBarrier ----------------------------
(***************************************************************************)
(* The barriers of the AI Engine tiles of a line in tile.hpp, over the     *)
(* emulated lock units of lock.hpp.  Tile 1 is the start of the line; each *)
(* tile passes a token to the next one by the value of the next tile's     *)
(* lock and waits for its acknowledgement.  ~Reset is                      *)
(* tile<>::vertical_barrier, Reset is tile<>::horizontal_barrier, which    *)
(* ends with one release more.  The tiles are threads (std::async): every  *)
(* mutex section and every notification is a step of its own.              *)
(*                                                                         *)
(* barrier_impl of include/aie/aie.hpp, behind both barriers there, makes  *)
(* that release too, in the tiles that have a neighbour before them: what  *)
(* is shown for ~Reset says nothing about it.                              *)
(***************************************************************************)
EXTENDS Integers

CONSTANTS N,      \* number of tiles of the line
          Rounds, \* how often each tile calls the barrier
          Reset   \* horizontal_barrier, with its last statement

ASSUME LineAssumption == N \in Nat \ {0} /\ Rounds \in Nat /\ Reset \in BOOLEAN

VARIABLES tpc,      \* next statement of each tile
          round,   \* calls of the barrier each tile has made
          value,   \* locking_device::value of each tile's lock
          asleep   \* tiles asleep in the condition variable of acquire_with_value

tbvars == <<tpc, round, value, asleep>>

Tiles == 1 .. N

\* Statements: acquire the own lock with true, the next lock with false,
\* release the next lock with true (and notify), acquire it with false again,
\* release the own lock with false (and notify), and the reset.
Acquires == {"own", "free", "ack"}
Stores   == {"send", "reply", "reset"}
Notifies == {"send_notify", "reply_notify", "reset_notify"}

\* The lock a statement of tile i works on, and the value it waits for
LockOf(i, p) == IF p \in {"free", "send", "send_notify", "ack"} THEN i + 1 ELSE i
Awaited(p) == p = "own"

AfterReply == IF Reset THEN "reset" ELSE "out"
Reply(i)   == IF i > 1 THEN "reply" ELSE AfterReply
Forward(i) == IF i < N THEN "free" ELSE Reply(i)
\* Mutation: the lock of the tile itself is not waited for
Start_free(i) == Forward(i)
Start(i)   == IF i > 1 THEN "own" ELSE Forward(i)

\* The statement after p
Following(i, p) ==
  CASE p = "own" -> Forward(i)
    [] p = "free" -> "send"
    [] p = "send" -> "send_notify"
    [] p = "send_notify" -> "ack"
    [] p = "ack" -> Reply(i)
    [] p = "reply" -> "reply_notify"
    [] p = "reply_notify" -> AfterReply
    [] p = "reset" -> "reset_notify"
    [] p = "reset_notify" -> "out"

Advance(i) == tpc' = [tpc EXCEPT ![i] = Following(i, @)]

TBInit == /\ tpc = [i \in Tiles |-> "out"]
          /\ round = [i \in Tiles |-> 0]
          /\ value = [i \in Tiles |-> FALSE]
          /\ asleep = {}

Enter(i) == /\ tpc[i] = "out" /\ round[i] < Rounds
            /\ round' = [round EXCEPT ![i] = @ + 1]
            /\ tpc' = [tpc EXCEPT ![i] = Start(i)]
            /\ UNCHANGED <<value, asleep>>

Holds(i) == value[LockOf(i, tpc[i])] = Awaited(tpc[i])

\* acquire_with_value: the predicate is true when the mutex is taken
Acquire(i) == /\ tpc[i] \in Acquires /\ i \notin asleep
              /\ Holds(i)
              /\ Advance(i)
              /\ UNCHANGED <<round, value, asleep>>

\* the predicate is false: the wait releases the mutex and sleeps
SleepOnLock(i) == /\ tpc[i] \in Acquires /\ i \notin asleep
                  /\ ~Holds(i)
                  /\ asleep' = asleep \union {i}
                  /\ UNCHANGED <<tpc, round, value>>

SpuriousWake(i) == /\ i \in asleep
                   /\ asleep' = asleep \ {i}
                   /\ UNCHANGED <<tpc, round, value>>

Released(p) == p = "send"

\* release_with_value: the value changes under the mutex ...
Store(i) == /\ tpc[i] \in Stores
            /\ value' = [value EXCEPT ![LockOf(i, tpc[i])] = Released(tpc[i])]
            /\ Advance(i)
            /\ UNCHANGED <<round, asleep>>

SleepersOn(l) == {j \in asleep : LockOf(j, tpc[j]) = l}

\* ... and one client waiting for the lock is notified after it
NotifyOne(i) == /\ tpc[i] \in Notifies
                /\ LET s == SleepersOn(LockOf(i, tpc[i]))
                   IN \/ s = {} /\ UNCHANGED asleep
                      \/ \E j \in s : asleep' = asleep \ {j}
                /\ Advance(i)
                /\ UNCHANGED <<round, value>>

TileStep(i) == Enter(i) \/ Acquire(i) \/ SleepOnLock(i) \/ Store(i) \/ NotifyOne(i)

AllPassed == (\A i \in Tiles : tpc[i] = "out" /\ round[i] = Rounds) /\ UNCHANGED tbvars

TBNext == (\E i \in Tiles : TileStep(i) \/ SpuriousWake(i)) \/ AllPassed

TBSpec == TBInit /\ [][TBNext]_tbvars
-----------------------------------------------------------------------------
(* Types; a tile sleeps only in acquire_with_value. *)
TBTypeOK == /\ tpc \in [Tiles -> {"out"} \union Acquires \union Stores \union Notifies]
            /\ round \in [Tiles -> 0 .. Rounds]
            /\ value \in [Tiles -> BOOLEAN]
            /\ asleep \subseteq Tiles
            /\ \A i \in asleep : tpc[i] \in Acquires

(* vertical_barrier, and horizontal_barrier if Reset: no tile returns from   *)
(* its k-th call before every tile of the line has made its k-th call.       *)
NoneLeavesEarly == \A i, j \in Tiles : tpc[i] = "out" => round[j] >= round[i]

(* release_with_value: "By construction there should be only one client      *)
(* waiting for it", the reason why notify_one is enough: whoever is notified  *)
(* leaves nobody asleep on the lock whose expectation holds.                  *)
OneClientWaits ==
  \A i \in Tiles : tpc[i] \in Notifies =>
    \A j, k \in SleepersOn(LockOf(i, tpc[i])) : j = k

(* Every call of the barrier by all the tiles returns.                        *)
AllRoundsEnd == <>[](\A i \in Tiles : tpc[i] = "out" /\ round[i] = Rounds)

(* The line of locks implements the abstract barrier; vertical_barrier does,  *)
(* which is ~Reset.                                                           *)
Line == INSTANCE LineBarrier WITH
          arrived <- round,
          left <- [i \in Tiles |-> IF tpc[i] = "out" THEN round[i] ELSE round[i] - 1]
ImplementsBarrier == Line!LBSpec
=============================================================================
