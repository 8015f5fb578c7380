----------------------------- MODULE CountedWait -----------------------------
(***************************************************************************)
(* The protocol of a counter, a mutex and a condition variable behind      *)
(* every blocking wait of the runtime:                                     *)
(*   - buffer_base::use, release and wait on number_of_users;              *)
(*   - queue::kernel_start, kernel_end and wait_for_kernel_execution on    *)
(*     running_kernels;                                                    *)
(*   - task::notify_consumers and wait, where the only user is the kernel  *)
(*     and execution_ended stands for a null counter;                      *)
(*   - push_command, commit_command and wait of the DMA of an AI Engine    *)
(*     tile on nb_command, where the counter is decremented without the    *)
(*     mutex (Locked = FALSE).                                             *)
(* The counter is atomic and incremented without the mutex.  The waiters   *)
(* may wake up spuriously.                                                 *)
(***************************************************************************)
EXTENDS Naturals, FiniteSets

CONSTANTS
  User,         \* the threads that use and release
  Waiter,       \* the threads that wait
  MaxUses,      \* bound on the uses of each user
  MaxSpurious,  \* bound on the spurious wake-ups of each waiter
  Locked,       \* the decrement is protected by the mutex
  None

ASSUME BoundsAssumption == MaxUses \in Nat /\ MaxSpurious \in Nat
ASSUME LockedAssumption == Locked \in BOOLEAN
ASSUME ThreadAssumption ==
  /\ User \cap Waiter = {}
  /\ None \notin User \cup Waiter
  /\ IsFiniteSet(User)

VARIABLES
  count,     \* the atomic counter
  mutex,     \* the owner of the mutex
  us,        \* where each user stands
  ws,        \* where each waiter stands
  uses,      \* how many times each user has used
  spurious   \* how many times each waiter woke up spuriously

vars == <<count, mutex, us, ws, uses, spurious>>

Init ==
  /\ count = 0
  /\ mutex = None
  /\ us = [u \in User |-> "idle"]
  /\ ws = [w \in Waiter |-> "out"]
  /\ uses = [u \in User |-> 0]
  /\ spurious = [w \in Waiter |-> 0]

-----------------------------------------------------------------------------
(* ++counter *)
Use(u) ==
  /\ us[u] = "idle" /\ uses[u] < MaxUses
  /\ count' = count + 1
  /\ uses' = [uses EXCEPT ![u] = @ + 1]
  /\ us' = [us EXCEPT ![u] = "using"]
  /\ UNCHANGED <<mutex, ws, spurious>>

(* std::unique_lock { mutex } *)
LockToRelease(u) ==
  /\ Locked
  /\ us[u] = "using"
  /\ mutex = None
  /\ mutex' = u
  /\ us' = [us EXCEPT ![u] = "locked"]
  /\ UNCHANGED <<count, ws, uses, spurious>>

(* --counter == 0 *)
Decrement(u) ==
  /\ us[u] = IF Locked THEN "locked" ELSE "using"
  /\ count' = count - 1
  /\ us' = [us EXCEPT ![u] = IF count = 1 THEN "last" ELSE "leaving"]
  /\ UNCHANGED <<mutex, ws, uses, spurious>>

(* The mutex is unlocked, by the last user before its notification *)
Unlock(u) ==
  /\ us[u] \in {"last", "leaving"}
  /\ mutex' = IF Locked THEN None ELSE mutex
  /\ us' = [us EXCEPT ![u] = IF us[u] = "last" THEN "notifying" ELSE "idle"]
  /\ UNCHANGED <<count, ws, uses, spurious>>

(* notify_all *)
Notify(u) ==
  /\ us[u] = "notifying"
  /\ us' = [us EXCEPT ![u] = "idle"]
  /\ ws' = [w \in Waiter |-> IF ws[w] = "sleeping" THEN "awake" ELSE ws[w]]
  /\ UNCHANGED <<count, mutex, uses, spurious>>

-----------------------------------------------------------------------------
(* wait is called *)
CallWait(w) ==
  /\ ws[w] = "out"
  /\ ws' = [ws EXCEPT ![w] = "awake"]
  /\ UNCHANGED <<count, mutex, us, uses, spurious>>

(* The mutex is locked, by std::unique_lock or when the condition variable
   wakes up *)
LockToCheck(w) ==
  /\ ws[w] = "awake"
  /\ mutex = None
  /\ mutex' = w
  /\ ws' = [ws EXCEPT ![w] = "checking"]
  /\ UNCHANGED <<count, us, uses, spurious>>

(* Mutation: a waiter leaves whatever the predicate after it was woken up *)
Check_once(w) ==
  /\ ws[w] = "checking"
  /\ ws' = [ws EXCEPT ![w] =
       IF count = 0 \/ spurious[w] > 0 THEN "unlocking" ELSE "dozing"]
  /\ UNCHANGED <<count, mutex, us, uses, spurious>>

(* The predicate of the condition variable is evaluated *)
Check(w) ==
  /\ ws[w] = "checking"
  /\ ws' = [ws EXCEPT ![w] = IF count = 0 THEN "unlocking" ELSE "dozing"]
  /\ UNCHANGED <<count, mutex, us, uses, spurious>>

(* The condition variable atomically unlocks the mutex and sleeps *)
Sleep(w) ==
  /\ ws[w] = "dozing"
  /\ mutex' = None
  /\ ws' = [ws EXCEPT ![w] = "sleeping"]
  /\ UNCHANGED <<count, us, uses, spurious>>

(* A spurious wake-up *)
SpuriousWakeUp(w) ==
  /\ ws[w] = "sleeping" /\ spurious[w] < MaxSpurious
  /\ ws' = [ws EXCEPT ![w] = "awake"]
  /\ spurious' = [spurious EXCEPT ![w] = @ + 1]
  /\ UNCHANGED <<count, mutex, us, uses>>

(* wait returns *)
WaitReturns(w) ==
  /\ ws[w] = "unlocking"
  /\ mutex' = None
  /\ ws' = [ws EXCEPT ![w] = "returned"]
  /\ UNCHANGED <<count, us, uses, spurious>>

UserStep(u) ==
  LockToRelease(u) \/ Decrement(u) \/ Unlock(u) \/ Notify(u)

WaiterStep(w) ==
  LockToCheck(w) \/ Check(w) \/ Sleep(w) \/ WaitReturns(w)

Next ==
  \/ \E u \in User : Use(u) \/ UserStep(u)
  \/ \E w \in Waiter : CallWait(w) \/ WaiterStep(w) \/ SpuriousWakeUp(w)

Spec == Init /\ [][Next]_vars

(* Users eventually release, and the threads are scheduled.  A mutex that is
   free for ever is eventually acquired; nothing more is asked of it. *)
FairSpec ==
  /\ Spec
  /\ \A u \in User : WF_vars(UserStep(u))
  /\ \A w \in Waiter : WF_vars(WaiterStep(w))

-----------------------------------------------------------------------------
UserPlace == {"idle", "using", "locked", "last", "leaving", "notifying"}
WaiterPlace == {"out", "awake", "checking", "dozing", "sleeping", "unlocking",
                "returned"}

(* Every variable keeps its type. *)
TypeOK ==
  /\ count \in Nat
  /\ mutex \in User \cup Waiter \cup {None}
  /\ us \in [User -> UserPlace]
  /\ ws \in [Waiter -> WaiterPlace]
  /\ uses \in [User -> 0..MaxUses]
  /\ spurious \in [Waiter -> 0..MaxSpurious]

(* No wake-up is lost: a waiter that sleeps while the counter is null has a
   notification coming. *)
NoLostWakeup ==
  (count = 0 /\ \E w \in Waiter : ws[w] = "sleeping")
    => \E u \in User : us[u] \in {"last", "notifying"}

(* A thread that waits returns, since the users come a bounded number of
   times. *)
WaitsReturn == \A w \in Waiter : ws[w] # "out" ~> ws[w] = "returned"

(* The users counted *)
Present == {u \in User : us[u] \in {"using", "locked"}}

(* Where a waiter stands for its caller *)
Place(w) == CASE ws[w] = "out" -> "out"
              [] ws[w] \in {"unlocking", "returned"} -> "back"
              [] OTHER -> "in"

(* The abstract counted wait: a waiter is back from the moment it saw the null
   counter, a user leaves when it decrements. *)
Abs == INSTANCE CountedWaitAbs WITH
  present <- Present,
  waiting <- [w \in Waiter |-> Place(w)]

(* The protocol implements the abstract wait, its progress included. *)
Implements == Abs!AbsFairSpec

=============================================================================
