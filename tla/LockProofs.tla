----------------------------- MODULE LockProofs -----------------------------
(***************************************************************************)
(* Proofs about the three synchronisation primitives of the runtime: the   *)
(* counter of users with its condition variable (CountedWait), the barrier *)
(* of a line of tiles (TileBarrier) and the mutex between the host and a   *)
(* tile (SoftMutex).                                                       *)
(***************************************************************************)
EXTENDS SoftMutex, TLAPS

-----------------------------------------------------------------------------
(* S has n elements: they can be numbered from 1 to n. *)
Counts(S, n) ==
  \E f \in [1 .. n -> S] : /\ \A s \in S : \E i \in 1 .. n : f[i] = s
                           /\ \A i, j \in 1 .. n : f[i] = f[j] => i = j

(* A set has no element exactly when it is empty. *)
LEMMA CountsNone == Counts({}, 0) /\ \A S : Counts(S, 0) => S = {}
<1>1. Counts({}, 0)
  <2> DEFINE f == [i \in 1 .. 0 |-> 0]
  <2>1. 1 .. 0 = {}
        OBVIOUS
  <2>2. f \in [1 .. 0 -> {}]
        BY <2>1
  <2> HIDE DEF f
  <2>3. QED BY Zenon, <2>1, <2>2 DEF Counts
<1>2. ASSUME NEW S, Counts(S, 0) PROVE S = {}
  <2>1. \A s \in S : \E i \in 1 .. 0 : TRUE
        BY <1>2 DEF Counts
  <2>2. QED BY <2>1
<1>3. QED BY <1>1, <1>2

(* A new element counts for one. *)
LEMMA CountsOneMore ==
  ASSUME NEW S, NEW n \in Nat, Counts(S, n), NEW x, x \notin S
  PROVE  Counts(S \union {x}, n + 1)
<1>1. PICK f \in [1 .. n -> S] : /\ \A s \in S : \E i \in 1 .. n : f[i] = s
                                 /\ \A i, j \in 1 .. n : f[i] = f[j] => i = j
      BY DEF Counts
<1> DEFINE g == [i \in 1 .. n + 1 |-> IF i = n + 1 THEN x ELSE f[i]]
<1>2. /\ \A i \in 1 .. n : i \in 1 .. n + 1 /\ i # n + 1
      /\ \A i \in 1 .. n + 1 : i = n + 1 \/ i \in 1 .. n
      /\ n + 1 \in 1 .. n + 1
      OBVIOUS
<1>3. g[n + 1] = x /\ \A i \in 1 .. n : g[i] = f[i] /\ g[i] \in S
      BY <1>2
<1>4. g \in [1 .. n + 1 -> S \union {x}]
      BY <1>2
<1> HIDE DEF g
<1>5. \A s \in S \union {x} : \E i \in 1 .. n + 1 : g[i] = s
      BY <1>1, <1>2, <1>3
<1>6. ASSUME NEW i \in 1 .. n + 1, NEW j \in 1 .. n + 1, g[i] = g[j] PROVE i = j
      BY <1>1, <1>2, <1>3, <1>6
<1>7. QED BY Zenon, <1>4, <1>5, <1>6 DEF Counts

(* An element less counts for one. *)
LEMMA CountsOneLess ==
  ASSUME NEW S, NEW n \in Nat, Counts(S, n), NEW x \in S
  PROVE  n >= 1 /\ n - 1 \in Nat /\ Counts(S \ {x}, n - 1)
<1>1. PICK f \in [1 .. n -> S] : /\ \A s \in S : \E i \in 1 .. n : f[i] = s
                                 /\ \A i, j \in 1 .. n : f[i] = f[j] => i = j
      BY DEF Counts
<1>2. PICK k \in 1 .. n : f[k] = x
      BY <1>1
<1> DEFINE g == [i \in 1 .. n - 1 |-> IF i = k THEN f[n] ELSE f[i]]
<1>3. /\ n >= 1 /\ n - 1 \in Nat /\ n \in 1 .. n /\ n \notin 1 .. n - 1
      /\ \A i \in 1 .. n - 1 : i \in 1 .. n /\ i # n
      /\ \A i \in 1 .. n : i # n => i \in 1 .. n - 1
      BY <1>2
<1>4. \A i \in 1 .. n - 1 : g[i] = IF i = k THEN f[n] ELSE f[i]
      OBVIOUS
<1>5. g \in [1 .. n - 1 -> S \ {x}]
  <2>1. ASSUME NEW i \in 1 .. n - 1
        PROVE  (IF i = k THEN f[n] ELSE f[i]) \in S \ {x}
        BY <1>1, <1>2, <1>3
  <2>2. QED BY <2>1
<1> HIDE DEF g
<1>6. ASSUME NEW s \in S \ {x} PROVE \E i \in 1 .. n - 1 : g[i] = s
  <2>1. PICK i \in 1 .. n : f[i] = s
        BY <1>1
  <2>2. i # k
        BY <1>2, <2>1
  <2>3. CASE i = n
    <3>1. k \in 1 .. n - 1 /\ g[k] = s
          BY <1>3, <1>4, <2>1, <2>2, <2>3
    <3>2. QED BY <3>1
  <2>4. CASE i # n
    <3>1. i \in 1 .. n - 1 /\ g[i] = s
          BY <1>3, <1>4, <2>1, <2>2, <2>4
    <3>2. QED BY <3>1
  <2>5. QED BY <2>3, <2>4
<1>7. ASSUME NEW i \in 1 .. n - 1, NEW j \in 1 .. n - 1, g[i] = g[j] PROVE i = j
      BY <1>1, <1>3, <1>4, <1>7
<1>8. QED BY Zenon, <1>3, <1>5, <1>6, <1>7 DEF Counts

-----------------------------------------------------------------------------
(***************************************************************************)
(* Proofs about CountedWait for any number of users and waiters: when the  *)
(* counter is decremented under the mutex no wake-up is lost, and the      *)
(* protocol implements the abstract wait of CountedWaitAbs.                *)
(***************************************************************************)

(* TypeOK with the counter in Int, which CountExact then makes natural *)
WeakTypeOK ==
  /\ count \in Int
  /\ mutex \in User \cup Waiter \cup {None}
  /\ us \in [User -> UserPlace]
  /\ ws \in [Waiter -> WaiterPlace]
  /\ uses \in [User -> 0..MaxUses]
  /\ spurious \in [Waiter -> 0..MaxSpurious]

(* The counter counts the users between use and release. *)
CountExact == count \in Nat /\ Counts(Present, count)

(* A thread that is inside the critical section owns the mutex. *)
MutexOwned ==
  /\ Locked => \A u \in User : us[u] \in {"locked", "last", "leaving"} => mutex = u
  /\ \A w \in Waiter : ws[w] \in {"checking", "dozing", "unlocking"} => mutex = w

(* A waiter that decided to sleep has not yet slept through the last release. *)
DozingCounted == \A w \in Waiter : ws[w] = "dozing" => count # 0

-----------------------------------------------------------------------------
(* Types are preserved. *)
LEMMA WeakTypeStep == WeakTypeOK /\ [Next]_vars => WeakTypeOK'
<1> SUFFICES ASSUME WeakTypeOK, [Next]_vars PROVE WeakTypeOK'
  OBVIOUS
<1> USE BoundsAssumption, ThreadAssumption
    DEF WeakTypeOK, UserPlace, WaiterPlace
<1>1. ASSUME NEW u \in User, Use(u) PROVE WeakTypeOK'
  BY <1>1 DEF Use
<1>2. ASSUME NEW u \in User, LockToRelease(u) PROVE WeakTypeOK'
  BY <1>2 DEF LockToRelease
<1>3. ASSUME NEW u \in User, Decrement(u) PROVE WeakTypeOK'
  BY <1>3 DEF Decrement
<1>4. ASSUME NEW u \in User, Unlock(u) PROVE WeakTypeOK'
  BY <1>4 DEF Unlock
<1>5. ASSUME NEW u \in User, Notify(u) PROVE WeakTypeOK'
  BY <1>5 DEF Notify
<1>6. ASSUME NEW w \in Waiter, CallWait(w) PROVE WeakTypeOK'
  BY <1>6 DEF CallWait
<1>7. ASSUME NEW w \in Waiter, LockToCheck(w) PROVE WeakTypeOK'
  BY <1>7 DEF LockToCheck
<1>8. ASSUME NEW w \in Waiter, Check(w) PROVE WeakTypeOK'
  BY <1>8 DEF Check
<1>9. ASSUME NEW w \in Waiter, Sleep(w) PROVE WeakTypeOK'
  BY <1>9 DEF Sleep
<1>10. ASSUME NEW w \in Waiter, SpuriousWakeUp(w) PROVE WeakTypeOK'
  BY <1>10 DEF SpuriousWakeUp
<1>11. ASSUME NEW w \in Waiter, WaitReturns(w) PROVE WeakTypeOK'
  BY <1>11 DEF WaitReturns
<1>12. CASE UNCHANGED vars
  BY <1>12 DEF vars
<1> QED
  BY <1>1, <1>2, <1>3, <1>4, <1>5, <1>6, <1>7, <1>8, <1>9, <1>10, <1>11, <1>12
  DEF Next, UserStep, WaiterStep

(* The counter stays exact. *)
LEMMA CountStep == WeakTypeOK /\ CountExact /\ [Next]_vars => CountExact'
<1> SUFFICES ASSUME WeakTypeOK, CountExact, [Next]_vars PROVE CountExact'
  OBVIOUS
<1> USE DEF WeakTypeOK
<1>1. ASSUME NEW u \in User, Use(u) PROVE CountExact'
  <2>1. Present' = Present \cup {u} /\ u \notin Present
    BY <1>1 DEF Use, Present
  <2> QED
    BY <1>1, <2>1, CountsOneMore DEF CountExact, Use
<1>2. ASSUME NEW u \in User, Decrement(u) PROVE CountExact'
  <2>1. Present' = Present \ {u} /\ u \in Present
    BY <1>2 DEF Decrement, Present
  <2> QED
    BY <1>2, <2>1, CountsOneLess DEF CountExact, Decrement
<1>3. ASSUME NEW u \in User, LockToRelease(u) \/ Unlock(u) \/ Notify(u)
      PROVE  CountExact'
  <2>1. Present' = Present /\ count' = count
    BY <1>3 DEF LockToRelease, Unlock, Notify, Present
  <2> QED
    BY <2>1 DEF CountExact
<1>4. CASE count' = count /\ us' = us
  BY <1>4 DEF CountExact, Present
<1>5. \/ \E u \in User : Use(u) \/ UserStep(u)
      \/ count' = count /\ us' = us
  BY DEF Next, CallWait, WaiterStep, LockToCheck, Check, Sleep, WaitReturns,
     SpuriousWakeUp, vars
<1> QED
  BY <1>1, <1>2, <1>3, <1>4, <1>5 DEF UserStep

-----------------------------------------------------------------------------
Base == WeakTypeOK /\ CountExact /\ MutexOwned /\ DozingCounted

(* The mutual exclusion is preserved. *)
LEMMA MutexStep == WeakTypeOK /\ MutexOwned /\ [Next]_vars => MutexOwned'
<1> SUFFICES ASSUME WeakTypeOK, MutexOwned, [Next]_vars PROVE MutexOwned'
  OBVIOUS
<1> USE ThreadAssumption DEF WeakTypeOK, MutexOwned
<1>1. ASSUME NEW u \in User, Use(u) PROVE MutexOwned'
  BY <1>1 DEF Use
<1>2. ASSUME NEW u \in User, LockToRelease(u) PROVE MutexOwned'
  BY <1>2 DEF LockToRelease
<1>3. ASSUME NEW u \in User, Decrement(u) PROVE MutexOwned'
  BY <1>3 DEF Decrement
<1>4. ASSUME NEW u \in User, Unlock(u) PROVE MutexOwned'
  BY <1>4 DEF Unlock
<1>5. ASSUME NEW u \in User, Notify(u) PROVE MutexOwned'
  BY <1>5 DEF Notify
<1>6. ASSUME NEW w \in Waiter, CallWait(w) PROVE MutexOwned'
  BY <1>6 DEF CallWait
<1>7. ASSUME NEW w \in Waiter, LockToCheck(w) PROVE MutexOwned'
  BY <1>7 DEF LockToCheck
<1>8. ASSUME NEW w \in Waiter, Check(w) PROVE MutexOwned'
  BY <1>8 DEF Check
<1>9. ASSUME NEW w \in Waiter, Sleep(w) PROVE MutexOwned'
  BY <1>9 DEF Sleep
<1>10. ASSUME NEW w \in Waiter, SpuriousWakeUp(w) PROVE MutexOwned'
  BY <1>10 DEF SpuriousWakeUp
<1>11. ASSUME NEW w \in Waiter, WaitReturns(w) PROVE MutexOwned'
  BY <1>11 DEF WaitReturns
<1>12. CASE UNCHANGED vars
  BY <1>12 DEF vars
<1> QED
  BY <1>1, <1>2, <1>3, <1>4, <1>5, <1>6, <1>7, <1>8, <1>9, <1>10, <1>11, <1>12
  DEF Next, UserStep, WaiterStep

(* Under the mutex, the counter cannot become null between the evaluation of
   the predicate and the sleep, nor while somebody sleeps without a notification
   being due. *)
LEMMA WakeupStep ==
  ASSUME Locked, Base, NoLostWakeup, [Next]_vars
  PROVE  DozingCounted' /\ NoLostWakeup'
<1> USE DEF Base, WeakTypeOK, DozingCounted, NoLostWakeup
<1>0. count \in Nat
  BY DEF CountExact
<1>1. ASSUME NEW u \in User, Use(u) PROVE DozingCounted' /\ NoLostWakeup'
  BY <1>0, <1>1 DEF Use
<1>2. ASSUME NEW u \in User, LockToRelease(u) PROVE DozingCounted' /\ NoLostWakeup'
  BY <1>2 DEF LockToRelease
<1>3. ASSUME NEW u \in User, Decrement(u) PROVE DozingCounted' /\ NoLostWakeup'
  <2>1. mutex = u /\ \A w \in Waiter : ws[w] # "dozing"
    BY <1>3, ThreadAssumption DEF Decrement, MutexOwned
  <2>2. count' = 0 => us'[u] = "last"
    BY <1>3 DEF Decrement
  <2> QED
    BY <1>3, <2>1, <2>2 DEF Decrement
<1>4. ASSUME NEW u \in User, Unlock(u) PROVE DozingCounted' /\ NoLostWakeup'
  BY <1>4 DEF Unlock
<1>5. ASSUME NEW u \in User, Notify(u) PROVE DozingCounted' /\ NoLostWakeup'
  BY <1>5 DEF Notify
<1>6. ASSUME NEW w \in Waiter, CallWait(w) PROVE DozingCounted' /\ NoLostWakeup'
  BY <1>6 DEF CallWait
<1>7. ASSUME NEW w \in Waiter, LockToCheck(w) PROVE DozingCounted' /\ NoLostWakeup'
  BY <1>7 DEF LockToCheck
<1>8. ASSUME NEW w \in Waiter, Check(w) PROVE DozingCounted' /\ NoLostWakeup'
  BY <1>8 DEF Check
<1>9. ASSUME NEW w \in Waiter, Sleep(w) PROVE DozingCounted' /\ NoLostWakeup'
  BY <1>9 DEF Sleep
<1>10. ASSUME NEW w \in Waiter, SpuriousWakeUp(w)
       PROVE  DozingCounted' /\ NoLostWakeup'
  BY <1>10 DEF SpuriousWakeUp
<1>11. ASSUME NEW w \in Waiter, WaitReturns(w)
       PROVE  DozingCounted' /\ NoLostWakeup'
  BY <1>11 DEF WaitReturns
<1>12. CASE UNCHANGED vars
  BY <1>12 DEF vars
<1> QED
  BY <1>1, <1>2, <1>3, <1>4, <1>5, <1>6, <1>7, <1>8, <1>9, <1>10, <1>11, <1>12
  DEF Next, UserStep, WaiterStep

(* The initial states satisfy everything. *)
LEMMA InitBase == Init => Base /\ NoLostWakeup
<1> SUFFICES ASSUME Init PROVE Base /\ NoLostWakeup
  OBVIOUS
<1>1. Present = {}
  BY DEF Init, Present
<1>2. CountExact
  BY <1>1, CountsNone DEF Init, CountExact
<1>3. WeakTypeOK
  BY BoundsAssumption DEF Init, WeakTypeOK, UserPlace, WaiterPlace
<1>4. MutexOwned /\ DozingCounted /\ NoLostWakeup
  BY DEF Init, MutexOwned, DozingCounted, NoLostWakeup
<1> QED
  BY <1>2, <1>3, <1>4 DEF Base

(* Every variable keeps its type: in particular the counter of users or of
   running kernels never wraps around below zero. *)
THEOREM CountedWaitTypeCorrect == Spec => []TypeOK
<1> DEFINE I == WeakTypeOK /\ CountExact
<1>1. Init => I
  BY InitBase DEF Base
<1>2. I /\ [Next]_vars => I'
  BY WeakTypeStep, CountStep
<1>3. I => TypeOK
  BY DEF WeakTypeOK, CountExact, TypeOK
<1> HIDE DEF I
<1> QED
  BY <1>1, <1>2, <1>3, PTL DEF Spec

(* With the decrement under the mutex, as in buffer_base::release,
   queue::kernel_end and task::notify_consumers, a waiter that sleeps while the
   counter is null always has a notification coming, whatever the number of
   users and waiters and the spurious wake-ups. *)
THEOREM WakeupNeverLost ==
  ASSUME Locked
  PROVE  Spec => []NoLostWakeup
<1> DEFINE I == Base /\ NoLostWakeup
<1>1. Init => I
  BY InitBase
<1>2. I /\ [Next]_vars => I'
  BY WeakTypeStep, CountStep, MutexStep, WakeupStep DEF Base
<1>3. I => NoLostWakeup
  OBVIOUS
<1> HIDE DEF I
<1> QED
  BY <1>1, <1>2, <1>3, PTL DEF Spec

-----------------------------------------------------------------------------
(* Every step of the protocol is a step of the abstract wait or leaves it
   unchanged. *)
LEMMA SimulationStep ==
  ASSUME WeakTypeOK, [Next]_vars
  PROVE  [Abs!AbsNext]_(Abs!absVars)
<1> USE DEF WeakTypeOK, Abs!absVars
<1>1. ASSUME NEW u \in User, Use(u) PROVE Abs!Arrive(u)
  BY <1>1 DEF Use, Abs!Arrive, Present, Place
<1>2. ASSUME NEW u \in User, LockToRelease(u) PROVE UNCHANGED Abs!absVars
  BY <1>2 DEF LockToRelease, Present, Place
<1>3. ASSUME NEW u \in User, Decrement(u) PROVE Abs!Leave(u)
  BY <1>3 DEF Decrement, Abs!Leave, Present, Place
<1>4. ASSUME NEW u \in User, Unlock(u) PROVE UNCHANGED Abs!absVars
  BY <1>4 DEF Unlock, Present, Place
<1>5. ASSUME NEW u \in User, Notify(u) PROVE UNCHANGED Abs!absVars
  BY <1>5 DEF Notify, Present, Place
<1>6. ASSUME NEW w \in Waiter, CallWait(w) PROVE Abs!Call(w)
  BY Zenon, <1>6 DEF CallWait, Abs!Call, Present, Place
<1>7. ASSUME NEW w \in Waiter, LockToCheck(w) PROVE UNCHANGED Abs!absVars
  BY <1>7 DEF LockToCheck, Present, Place
<1>8. ASSUME NEW w \in Waiter, Check(w), count = 0 PROVE Abs!Return(w)
  BY Zenon, <1>8 DEF Check, Abs!Return, Present, Place
<1>9. ASSUME NEW w \in Waiter, Check(w), count # 0 PROVE UNCHANGED Abs!absVars
  BY <1>9 DEF Check, Present, Place
<1>10. ASSUME NEW w \in Waiter, Sleep(w) PROVE UNCHANGED Abs!absVars
  BY <1>10 DEF Sleep, Present, Place
<1>11. ASSUME NEW w \in Waiter, SpuriousWakeUp(w) PROVE UNCHANGED Abs!absVars
  BY <1>11 DEF SpuriousWakeUp, Present, Place
<1>12. ASSUME NEW w \in Waiter, WaitReturns(w) PROVE UNCHANGED Abs!absVars
  BY <1>12 DEF WaitReturns, Present, Place
<1>13. CASE UNCHANGED vars
  BY <1>13 DEF vars, Present, Place
<1> QED
  BY <1>1, <1>2, <1>3, <1>4, <1>5, <1>6, <1>7, <1>8, <1>9, <1>10, <1>11, <1>12,
     <1>13
  DEF Next, UserStep, WaiterStep, Abs!AbsNext

(* The protocol implements the safety part of the abstract wait: a wait returns
   only after a moment at which nobody was counted, the order of the
   notification and of the spurious wake-ups notwithstanding. *)
THEOREM ImplementsAbstractWait == Spec => Abs!AbsSpec
<1>1. Init => Abs!AbsInit
  BY DEF Init, Abs!AbsInit, Present, Place
<1>2. Init => WeakTypeOK
  BY InitBase DEF Base
<1>3. WeakTypeOK /\ [Next]_vars => WeakTypeOK'
  BY WeakTypeStep
<1>4. WeakTypeOK /\ [Next]_vars => [Abs!AbsNext]_(Abs!absVars)
  BY SimulationStep
<1> QED
  BY <1>1, <1>2, <1>3, <1>4, PTL DEF Spec, Abs!AbsSpec

-----------------------------------------------------------------------------
(***************************************************************************)
(* Proof that the line of locks of vertical_barrier implements the barrier *)
(* of LineBarrier, for every length of the line and every number of calls. *)
(* horizontal_barrier is the same without its last statement, the release  *)
(* which Reset adds: with it the theorem is false.                         *)
(*                                                                         *)
(* The argument counts the replies of each tile.  A token in the lock of a *)
(* tile belongs to the call both tiles of the link are in; a tile without  *)
(* one is as far as its predecessor, or one reply ahead of it when the     *)
(* predecessor has posted its token.  Hence replies grow along the line,   *)
(* and no tile replies to a call that a tile before it has not made.       *)
(***************************************************************************)

\* From the entry of a call to the reply
InCall == {"own", "free", "send", "send_notify", "ack", "reply"}
\* The token has been received
Received == InCall \ {"own"}
\* The token has been sent to the next tile
Posted == {"send_notify", "ack", "reply"}

\* The calls tile i has replied to
Replied(i) == IF tpc[i] \in InCall THEN round[i] - 1 ELSE round[i]

\* The statements tile i executes: the first one has no predecessor to reply to,
\* the last one no successor to wait for
Places(i) == {"out"} \union (IF i > 1 THEN {"own", "reply", "reply_notify"} ELSE {})
                     \union (IF i < N THEN {"free", "send", "send_notify", "ack"} ELSE {})

LineTypeOK == /\ tpc \in [Tiles -> {"out"} \union Acquires \union Stores \union Notifies]
              /\ round \in [Tiles -> Int]
              /\ value \in [Tiles -> BOOLEAN]
              /\ \A i \in Tiles : tpc[i] \in Places(i)

\* The link between tiles i and i + 1
Link(i) ==
  /\ value[i + 1] => tpc[i] \in {"send_notify", "ack"}
  /\ tpc[i + 1] \in Received => value[i + 1]
  /\ Replied(i + 1) = IF tpc[i] \in Posted /\ ~value[i + 1] THEN Replied(i) + 1 ELSE Replied(i)

Links == \A i \in Tiles : i < N => Link(i)

\* Replies grow along the line
Grows == \A i, j \in Tiles : i < j => Replied(i) <= Replied(j)

\* No tile replies to a call which a tile before it has not made, nor receives
\* the token of one
Entered == \A i, j \in Tiles : i < j =>
             /\ Replied(j) <= round[i]
             /\ tpc[j] \in Received => Replied(j) < round[i]

LineInv == LineTypeOK /\ Links /\ Grows /\ Entered
-----------------------------------------------------------------------------
\* The steps of the tiles, by what they change
At(i, p, q) == tpc[i] = p /\ tpc' = [tpc EXCEPT ![i] = q]
Enters(i) == /\ At(i, "out", Start(i)) /\ value' = value
             /\ round[i] < Rounds /\ round' = [round EXCEPT ![i] = @ + 1]
Receives(i) == /\ At(i, "own", IF i < N THEN "free" ELSE "reply")
               /\ i > 1 /\ value[i] /\ value' = value /\ round' = round
Proceeds(i) == /\ At(i, "free", "send") \/ At(i, "send_notify", "ack")
               /\ value' = value /\ round' = round
Sends(i) == At(i, "send", "send_notify") /\ value' = [value EXCEPT ![i + 1] = TRUE] /\ round' = round
Acknowledged(i) == /\ At(i, "ack", IF i > 1 THEN "reply" ELSE "out")
                   /\ ~value[i + 1] /\ value' = value /\ round' = round
Replies(i) == At(i, "reply", "reply_notify") /\ value' = [value EXCEPT ![i] = FALSE] /\ round' = round
Ends(i) == At(i, "reply_notify", "out") /\ value' = value /\ round' = round
LineStep(i) == \/ Enters(i) \/ Receives(i) \/ Proceeds(i) \/ Sends(i)
               \/ Acknowledged(i) \/ Replies(i) \/ Ends(i)

(* Without the reset every step of TBNext is one of these, or changes none of *)
(* the statements, calls and values.                                          *)
LEMMA StepForms ==
  ASSUME LineTypeOK, ~Reset, [TBNext]_tbvars
  PROVE  \/ \E i \in Tiles : LineStep(i)
         \/ UNCHANGED <<tpc, round, value>>
<1> USE DEF LineStep, At, Tiles
<1>1. ASSUME NEW i \in Tiles, Enter(i) PROVE LineStep(i)
      BY <1>1 DEF Enter, Enters
<1>2. ASSUME NEW i \in Tiles, Acquire(i) PROVE LineStep(i)
  <2> USE <1>2, LineAssumption
      DEF LineTypeOK, Acquire, Acquires, Holds, LockOf, Awaited, Advance, Following, Places
  <2>1. CASE tpc[i] = "own"
        BY Zenon, <2>1 DEF Receives, Forward, Reply
  <2>2. CASE tpc[i] = "free"
        BY <2>2 DEF Proceeds
  <2>3. CASE tpc[i] = "ack"
        BY <2>3 DEF Acknowledged, Reply, AfterReply
  <2>4. QED BY <2>1, <2>2, <2>3
<1>3. ASSUME NEW i \in Tiles, Store(i) PROVE LineStep(i)
  <2> USE <1>3 DEF LineTypeOK, Store, Stores, LockOf, Released, Advance, Following, Places
  <2>1. CASE tpc[i] = "send"
        BY Zenon, <2>1 DEF Sends
  <2>2. CASE tpc[i] = "reply"
        BY Zenon, <2>2 DEF Replies
  <2>3. QED BY <2>1, <2>2
<1>4. ASSUME NEW i \in Tiles, NotifyOne(i) PROVE LineStep(i)
  <2> USE <1>4 DEF LineTypeOK, NotifyOne, Notifies, Advance, Following, Places
  <2>1. CASE tpc[i] = "send_notify"
        BY <2>1 DEF Proceeds
  <2>2. CASE tpc[i] = "reply_notify"
        BY <2>2 DEF Ends, AfterReply
  <2>3. QED BY <2>1, <2>2
<1>5. ASSUME NEW i \in Tiles, SleepOnLock(i) \/ SpuriousWake(i) PROVE UNCHANGED <<tpc, round, value>>
      BY <1>5 DEF SleepOnLock, SpuriousWake
<1>6. ASSUME AllPassed \/ UNCHANGED tbvars PROVE UNCHANGED <<tpc, round, value>>
      BY <1>6 DEF AllPassed, tbvars
<1>7. QED BY <1>1, <1>2, <1>3, <1>4, <1>5, <1>6 DEF TBNext, TileStep
-----------------------------------------------------------------------------
(* The invariant holds before the first call. *)
LEMMA LineInvInit == TBInit => LineInv
BY LineAssumption DEF TBInit, LineInv, LineTypeOK, Links, Link, Grows, Entered, Places, Replied,
   InCall, Received, Posted, Tiles

(* The first statement of a call. *)
LEMMA StartIs ==
  ASSUME ~Reset, NEW i \in Tiles
  PROVE  Start(i) = IF i > 1 THEN "own" ELSE IF i < N THEN "free" ELSE "out"
BY LineAssumption DEF Start, Forward, Reply, AfterReply, Tiles

(* Types and places are kept. *)
LEMMA LineTypeStep ==
  ASSUME LineTypeOK, ~Reset, NEW i \in Tiles, LineStep(i)
  PROVE  LineTypeOK'
<1> USE LineAssumption DEF LineTypeOK, At, Places, Tiles, Acquires, Stores, Notifies
<1>1. CASE Enters(i)
      BY <1>1, StartIs DEF Enters
<1>2. CASE Receives(i)
      BY <1>2 DEF Receives
<1>3. CASE Proceeds(i)
      BY <1>3 DEF Proceeds
<1>4. CASE Sends(i)
  <2>1. value' \in [Tiles -> BOOLEAN]
        BY <1>4 DEF Sends
  <2>2. QED BY <1>4, <2>1 DEF Sends
<1>5. CASE Acknowledged(i)
      BY <1>5 DEF Acknowledged
<1>6. CASE Replies(i)
      BY <1>6 DEF Replies
<1>7. CASE Ends(i)
      BY <1>7 DEF Ends
<1>8. QED BY <1>1, <1>2, <1>3, <1>4, <1>5, <1>6, <1>7 DEF LineStep

\* The steps that reply to a call: the reply, or what takes its place in the first
\* tile, the acknowledgement, or the call itself in a line of one tile
CountsReply(i) == Replies(i) \/ (i = 1 /\ Acknowledged(i)) \/ (N = 1 /\ Enters(i))

(* A step of tile i changes nothing of the others, and no call is taken back. *)
LEMMA RepliedStep ==
  ASSUME LineTypeOK, ~Reset, NEW i \in Tiles, LineStep(i)
  PROVE  /\ \A j \in Tiles \ {i} : /\ Replied(j)' = Replied(j) /\ tpc'[j] = tpc[j]
                                   /\ round'[j] = round[j]
         /\ Replied(i)' = IF CountsReply(i) THEN Replied(i) + 1 ELSE Replied(i)
         /\ \A j \in Tiles : Replied(j) \in Int /\ round[j] <= round'[j] /\ Replied(j) <= round[j]
<1> USE LineAssumption DEF LineTypeOK, At, Places, Tiles, InCall, Replied, CountsReply
<1>1. CASE Enters(i)
  <2>1. tpc[i] = "out" /\ ~Replies(i) /\ ~Acknowledged(i)
        BY <1>1 DEF Enters, Replies, Acknowledged
  <2>2. CASE N = 1
    <3>1. i = 1 /\ Start(i) = "out"
          BY <2>2, StartIs
    <3>2. QED BY <1>1, <2>1, <2>2, <3>1 DEF Enters
  <2>3. CASE N # 1
    <3>1. Start(i) \in {"own", "free"}
          BY <2>3, StartIs
    <3>2. QED BY <1>1, <2>1, <2>3, <3>1 DEF Enters
  <2>4. QED BY <2>2, <2>3
<1>2. CASE Receives(i)
      BY <1>2 DEF Receives, Replies, Acknowledged, Enters
<1>3. CASE Proceeds(i)
      BY <1>3 DEF Proceeds, Replies, Acknowledged, Enters
<1>4. CASE Sends(i)
      BY <1>4 DEF Sends, Replies, Acknowledged, Enters
<1>5. CASE Acknowledged(i)
      BY <1>5 DEF Acknowledged, Replies, Enters
<1>6. CASE Replies(i)
      BY <1>6 DEF Replies, Enters
<1>7. CASE Ends(i)
      BY <1>7 DEF Ends, Replies, Acknowledged, Enters
<1>8. QED BY Zenon, <1>1, <1>2, <1>3, <1>4, <1>5, <1>6, <1>7 DEF LineStep

(* The links are kept: step by step, for the link a tile receives from and the *)
(* one it sends on.                                                            *)
LEMMA LinksStep ==
  ASSUME LineInv, ~Reset, NEW i \in Tiles, LineStep(i), NEW k \in Tiles, k < N
  PROVE  Link(k)'
<1> USE LineAssumption DEF LineInv, Links, Link, At, Received, Posted, InCall
<1>1. k + 1 \in Tiles /\ Link(k)
      BY DEF Tiles
<1>2. LineTypeOK' BY LineTypeStep
<1>3. CASE i # k /\ i # k + 1
  <2>1. value'[k + 1] = value[k + 1]
    <3>1. \/ value' = value
          \/ value' = [value EXCEPT ![i + 1] = TRUE]
          \/ value' = [value EXCEPT ![i] = FALSE]
          BY DEF LineStep, Enters, Receives, Proceeds, Sends, Acknowledged, Replies, Ends
    <3>2. k + 1 # i /\ k + 1 # i + 1 /\ value \in [Tiles -> BOOLEAN]
          BY <1>3 DEF LineTypeOK, Tiles
    <3>3. QED BY <1>1, <3>1, <3>2
  <2>2. QED BY <1>1, <1>3, <2>1, RepliedStep
<1>4. CASE i = k
  <2>1. i \in Tiles /\ i + 1 \in Tiles /\ tpc'[i + 1] = tpc[i + 1] /\ Replied(i + 1)' = Replied(i + 1)
        BY <1>1, <1>4, RepliedStep DEF Tiles
  <2>2. N # 1 /\ DOMAIN tpc = Tiles /\ value \in [Tiles -> BOOLEAN]
        BY <1>1, <1>4 DEF LineTypeOK, Tiles
  <2>3. CASE Enters(i)
    <3>1. tpc[i] = "out" /\ tpc'[i] \in {"own", "free"} /\ value' = value /\ ~CountsReply(i)
          BY <1>4, <2>1, <2>2, <2>3, StartIs DEF Enters, CountsReply, Replies, Acknowledged
    <3>2. QED BY <1>1, <1>4, <2>1, <3>1, RepliedStep
  <2>4. CASE Receives(i)
    <3>1. tpc[i] = "own" /\ tpc'[i] = "free" /\ value' = value /\ ~CountsReply(i)
          BY <1>4, <2>1, <2>2, <2>4 DEF Receives, CountsReply, Replies, Acknowledged, Enters
    <3>2. QED BY <1>1, <1>4, <2>1, <3>1, RepliedStep
  <2>5. CASE Proceeds(i)
    <3>1. /\ \/ tpc[i] = "free" /\ tpc'[i] = "send"
             \/ tpc[i] = "send_notify" /\ tpc'[i] = "ack"
          /\ value' = value /\ ~CountsReply(i)
          BY <1>4, <2>1, <2>2, <2>5 DEF Proceeds, CountsReply, Replies, Acknowledged, Enters
    <3>2. QED BY <1>1, <1>4, <2>1, <3>1, RepliedStep
  <2>6. CASE Sends(i)
    <3>1. tpc[i] = "send" /\ tpc'[i] = "send_notify" /\ value'[i + 1] /\ ~CountsReply(i)
          BY <1>4, <2>1, <2>2, <2>6 DEF Sends, CountsReply, Replies, Acknowledged, Enters
    <3>2. QED BY <1>1, <1>4, <2>1, <3>1, RepliedStep
  <2>7. CASE Acknowledged(i)
    <3>1. /\ tpc[i] = "ack" /\ ~value[i + 1] /\ value' = value
          /\ \/ i = 1 /\ tpc'[i] = "out" /\ CountsReply(i)
             \/ i # 1 /\ tpc'[i] = "reply" /\ ~CountsReply(i)
          BY <1>4, <2>1, <2>2, <2>7 DEF Acknowledged, CountsReply, Replies, Enters, Tiles
    <3>2. QED BY <1>1, <1>4, <2>1, <3>1, RepliedStep
  <2>8. CASE Replies(i)
    <3>1. tpc[i] = "reply" /\ tpc'[i] = "reply_notify" /\ value'[i + 1] = value[i + 1] /\ CountsReply(i)
          BY Zenon, <1>4, <2>1, <2>2, <2>8 DEF Replies, CountsReply, Tiles
    <3>2. QED BY <1>1, <1>4, <2>1, <3>1, RepliedStep
  <2>9. CASE Ends(i)
    <3>1. tpc[i] = "reply_notify" /\ tpc'[i] = "out" /\ value' = value /\ ~CountsReply(i)
          BY <1>4, <2>1, <2>2, <2>9 DEF Ends, CountsReply, Replies, Acknowledged, Enters
    <3>2. QED BY <1>1, <1>4, <2>1, <3>1, RepliedStep
  <2>10. QED BY <2>3, <2>4, <2>5, <2>6, <2>7, <2>8, <2>9 DEF LineStep
<1>5. CASE i = k + 1
  <2>1. k \in Tiles /\ i \in Tiles /\ i > 1 /\ tpc'[k] = tpc[k] /\ Replied(k)' = Replied(k)
        BY <1>1, <1>5, RepliedStep DEF Tiles
  <2>2. N # 1 /\ DOMAIN tpc = Tiles /\ value \in [Tiles -> BOOLEAN]
        BY <1>1, <1>5 DEF LineTypeOK, Tiles
  <2>3. CASE Enters(i)
    <3>1. tpc[i] = "out" /\ tpc'[i] = "own" /\ value' = value /\ ~CountsReply(i)
          BY <2>1, <2>2, <2>3, StartIs DEF Enters, CountsReply, Replies, Acknowledged
    <3>2. QED BY <1>1, <1>5, <2>1, <3>1, RepliedStep
  <2>4. CASE Receives(i)
    <3>1. tpc[i] = "own" /\ value[i] /\ value' = value /\ ~CountsReply(i)
          BY <2>1, <2>2, <2>4 DEF Receives, CountsReply, Replies, Acknowledged, Enters
    <3>2. QED BY <1>1, <1>5, <2>1, <3>1, RepliedStep
  <2>5. CASE Proceeds(i)
    <3>1. tpc[i] \in Received /\ value' = value /\ ~CountsReply(i)
          BY <2>1, <2>2, <2>5 DEF Proceeds, CountsReply, Replies, Acknowledged, Enters
    <3>2. QED BY <1>1, <1>5, <2>1, <3>1, RepliedStep
  <2>6. CASE Sends(i)
    <3>1. tpc[i] = "send" /\ ~CountsReply(i)
          BY <2>1, <2>2, <2>6 DEF Sends, CountsReply, Replies, Acknowledged, Enters
    <3>2. value'[i] = value[i]
      <4>1. i # i + 1 /\ value' = [value EXCEPT ![i + 1] = TRUE]
            BY <2>1, <2>6 DEF Sends, Tiles
      <4>2. QED BY <2>1, <2>2, <4>1
    <3>3. QED BY <1>1, <1>5, <2>1, <3>1, <3>2, RepliedStep
  <2>7. CASE Acknowledged(i)
    <3>1. tpc[i] \in Received /\ value' = value /\ ~CountsReply(i)
          BY <2>1, <2>2, <2>7 DEF Acknowledged, CountsReply, Replies, Enters
    <3>2. QED BY <1>1, <1>5, <2>1, <3>1, RepliedStep
  <2>8. CASE Replies(i)
    <3>1. tpc[i] = "reply" /\ tpc'[i] = "reply_notify" /\ ~value'[i] /\ CountsReply(i)
          BY <2>1, <2>2, <2>8 DEF Replies, CountsReply
    <3>2. QED BY <1>1, <1>5, <2>1, <3>1, RepliedStep
  <2>9. CASE Ends(i)
    <3>1. tpc[i] = "reply_notify" /\ tpc'[i] = "out" /\ value' = value /\ ~CountsReply(i)
          BY <2>1, <2>2, <2>9 DEF Ends, CountsReply, Replies, Acknowledged, Enters
    <3>2. QED BY <1>1, <1>5, <2>1, <3>1, RepliedStep
  <2>10. QED BY <2>3, <2>4, <2>5, <2>6, <2>7, <2>8, <2>9 DEF LineStep
<1>6. QED BY <1>3, <1>4, <1>5

(* A tile that replies is followed by a tile that has replied to the same call. *)
LEMMA SuccessorReplied ==
  ASSUME LineInv, NEW i \in Tiles, i < N, CountsReply(i)
  PROVE  i + 1 \in Tiles /\ Replied(i + 1) = Replied(i) + 1
<1>1. i + 1 \in Tiles /\ Link(i) /\ N # 1 /\ N \in Nat
      BY LineAssumption DEF LineInv, Links, Tiles
<1>2. tpc[i] \in Posted /\ ~value[i + 1]
      BY <1>1 DEF CountsReply, Replies, Acknowledged, At, Posted, Link
<1>3. QED BY <1>1, <1>2 DEF Link

(* Replies keep growing along the line. *)
LEMMA GrowsStep ==
  ASSUME LineInv, ~Reset, NEW i \in Tiles, LineStep(i)
  PROVE  Grows'
<1> SUFFICES ASSUME NEW j \in Tiles, NEW k \in Tiles, j < k PROVE Replied(j)' <= Replied(k)'
    BY DEF Grows
<1>1. LineTypeOK /\ Replied(j) <= Replied(k) /\ j \in Int /\ k \in Int /\ N \in Int /\ k <= N
      BY LineAssumption DEF LineInv, Grows, Tiles
<1>2. CASE i = j /\ CountsReply(i)
  <2>1. i + 1 \in Tiles /\ Replied(i + 1) = Replied(i) + 1
        BY <1>1, <1>2, SuccessorReplied
  <2>2. Replied(i + 1) <= Replied(k)
    <3>1. CASE k = i + 1
          BY <1>1, <2>1, <3>1, RepliedStep
    <3>2. CASE k # i + 1
      <4>1. i + 1 < k
            BY <1>1, <1>2, <3>2
      <4>2. QED BY <2>1, <4>1 DEF LineInv, Grows
    <3>3. QED BY <3>1, <3>2
  <2>3. QED BY <1>1, <1>2, <2>1, <2>2, RepliedStep
<1>3. CASE ~(i = j /\ CountsReply(i))
      BY <1>1, <1>3, RepliedStep
<1>4. QED BY <1>2, <1>3

(* No tile gets ahead of a call of a tile before it. *)
LEMMA EnteredStep ==
  ASSUME LineInv, ~Reset, NEW i \in Tiles, LineStep(i)
  PROVE  Entered'
<1> SUFFICES ASSUME NEW j \in Tiles, NEW k \in Tiles, j < k
             PROVE  /\ Replied(k)' <= round'[j]
                    /\ tpc'[k] \in Received => Replied(k)' < round'[j]
    BY DEF Entered
<1>1. /\ LineTypeOK /\ Replied(k) <= round[j] /\ (tpc[k] \in Received => Replied(k) < round[j])
      /\ round[j] \in Int /\ round'[j] \in Int /\ j \in Int /\ k \in Int /\ k > 1 /\ N # 1
      BY LineTypeStep, LineAssumption DEF LineInv, LineTypeOK, Entered, Tiles
<1>2. CASE i # k
  <2>1. /\ Replied(k)' = Replied(k) /\ tpc'[k] = tpc[k]
        /\ Replied(k) \in Int /\ round[j] <= round'[j]
        BY <1>1, <1>2, RepliedStep
  <2>2. QED BY <1>1, <2>1
<1>3. CASE i = k /\ CountsReply(i)
  <2>1. tpc[k] = "reply" /\ tpc'[k] = "reply_notify"
        BY <1>1, <1>3 DEF CountsReply, Replies, At, LineTypeOK
  <2>2. QED BY <1>1, <1>3, <2>1, RepliedStep DEF Received, InCall
<1>4. CASE i = k /\ Receives(i)
  <2>1. k - 1 \in Tiles /\ k - 1 < N /\ (k - 1) + 1 = k /\ value[k] /\ ~CountsReply(k)
        BY <1>1, <1>4, LineAssumption DEF Receives, CountsReply, Replies, Acknowledged, At, Tiles
  <2>2. Link(k - 1)
        BY <2>1 DEF LineInv, Links
  <2>3. tpc[k - 1] \in {"send_notify", "ack"} /\ Replied(k) = Replied(k - 1)
        BY <2>1, <2>2 DEF Link
  <2>4. Replied(k - 1) < round[j]
    <3>1. CASE j = k - 1
          BY <1>1, <2>1, <2>3, <3>1 DEF Replied, InCall
    <3>2. CASE j # k - 1
      <4>1. j < k - 1
            BY <1>1, <3>2
      <4>2. QED BY <2>1, <2>3, <4>1 DEF LineInv, Entered, Received, InCall
    <3>3. QED BY <3>1, <3>2
  <2>5. QED BY <1>1, <1>4, <2>1, <2>3, <2>4, RepliedStep
<1>5. CASE i = k /\ ~CountsReply(i) /\ ~Receives(i)
  <2>1. tpc'[k] \in Received => tpc[k] \in Received
        BY <1>1, <1>5, StartIs DEF LineStep, Enters, Proceeds, Sends, Acknowledged, Replies, Ends,
           At, Received, InCall, LineTypeOK, CountsReply
  <2>2. QED BY <1>1, <1>5, <2>1, RepliedStep
<1>6. QED BY <1>2, <1>3, <1>4, <1>5

(* Every step keeps the invariant. *)
LEMMA LineInvStep == ~Reset /\ LineInv /\ [TBNext]_tbvars => LineInv'
<1> SUFFICES ASSUME ~Reset, LineInv, [TBNext]_tbvars PROVE LineInv'
    OBVIOUS
<1>1. ASSUME NEW i \in Tiles, LineStep(i) PROVE LineInv'
  <2>1. LineTypeOK'
        BY <1>1, LineTypeStep DEF LineInv
  <2>2. Links'
        BY <1>1, LinksStep DEF Links, Tiles
  <2>3. QED BY <1>1, <2>1, <2>2, GrowsStep, EnteredStep DEF LineInv
<1>2. ASSUME UNCHANGED <<tpc, round, value>> PROVE LineInv'
      BY <1>2 DEF LineInv, LineTypeOK, Links, Link, Grows, Entered, Replied
<1>3. QED BY <1>1, <1>2, StepForms DEF LineInv

(* The invariant holds in every state. *)
LEMMA LineInvAlways == ~Reset /\ TBSpec => []LineInv
<1>1. ASSUME ~Reset PROVE TBSpec => []LineInv
  <2>1. LineInv /\ [TBNext]_tbvars => LineInv'
        BY <1>1, LineInvStep
  <2>2. QED BY <2>1, LineInvInit, PTL DEF TBSpec
<1>2. QED BY <1>1

(* vertical_barrier: no tile of a line of any length returns from a call before  *)
(* every tile has made it.                                                       *)
THEOREM NoTileLeavesEarly == ~Reset /\ TBSpec => []NoneLeavesEarly
<1>1. LineInv => NoneLeavesEarly
  <2> SUFFICES ASSUME LineInv, NEW i \in Tiles, NEW j \in Tiles, tpc[i] = "out"
               PROVE  round[j] >= round[i]
      BY DEF NoneLeavesEarly
  <2>1. Replied(i) = round[i] /\ round[i] \in Int /\ round[j] \in Int /\ Replied(j) <= round[j]
        BY DEF Replied, InCall, LineInv, LineTypeOK
  <2>2. CASE j < i
        BY <2>1, <2>2 DEF LineInv, Entered
  <2>3. CASE i < j
    <3>1. Replied(i) <= Replied(j) /\ Replied(j) \in Int
          BY <2>1, <2>3 DEF LineInv, Grows, Replied
    <3>2. QED BY <2>1, <3>1
  <2>4. QED BY <2>1, <2>2, <2>3, LineAssumption DEF Tiles
<1>2. QED BY <1>1, LineInvAlways, PTL
-----------------------------------------------------------------------------
\* The refinement mapping of ImplementsBarrier
Left == [i \in Tiles |-> IF tpc[i] = "out" THEN round[i] ELSE round[i] - 1]

(* A tile that has replied returns: every tile has made the call. *)
LEMMA MayLeave ==
  ASSUME LineInv, NEW i \in Tiles, \/ tpc[i] = "reply_notify"
                                   \/ i = 1 /\ Acknowledged(i) /\ i < N
  PROVE  \A j \in Tiles : round[i] <= round[j]
<1> SUFFICES ASSUME NEW j \in Tiles PROVE round[i] <= round[j]
    OBVIOUS
<1>1. /\ \A k \in Tiles : round[k] \in Int /\ Replied(k) \in Int /\ Replied(k) <= round[k]
      /\ N \in Nat
      BY LineAssumption DEF LineInv, LineTypeOK, Replied
<1>2. CASE tpc[i] = "reply_notify"
  <2>1. Replied(i) = round[i]
        BY <1>2 DEF Replied, InCall
  <2>2. CASE j < i
        BY <1>1, <2>1, <2>2 DEF LineInv, Entered
  <2>3. CASE i < j
    <3>1. Replied(i) <= Replied(j)
          BY <2>3 DEF LineInv, Grows
    <3>2. QED BY <1>1, <2>1, <3>1
  <2>4. QED BY <1>1, <2>2, <2>3 DEF Tiles
<1>3. CASE i = 1 /\ Acknowledged(i) /\ i < N
  <2>1. i + 1 \in Tiles /\ Replied(i + 1) = Replied(i) + 1
        BY <1>3, SuccessorReplied DEF CountsReply
  <2>2. Replied(i) = round[i] - 1
        BY <1>3 DEF Acknowledged, At, Replied, InCall
  <2>3. CASE j = i
        BY <1>1, <2>3
  <2>4. CASE j = i + 1
    <3>1. round[i] = Replied(j)
          BY <1>1, <2>1, <2>2, <2>4
    <3>2. QED BY <1>1, <3>1
  <2>5. CASE i + 1 < j
    <3>1. Replied(i + 1) <= Replied(j)
          BY <2>1, <2>5 DEF LineInv, Grows
    <3>2. QED BY <1>1, <2>1, <2>2, <3>1
  <2>6. QED BY <1>1, <1>3, <2>3, <2>4, <2>5 DEF Tiles
<1>4. QED BY <1>2, <1>3

(* Every step of a tile is a step of the abstract barrier or changes nothing of it. *)
LEMMA LineStepRefines ==
  ASSUME LineInv, ~Reset, NEW i \in Tiles, LineStep(i)
  PROVE  \/ Line!LBNext
         \/ round' = round /\ Left' = Left
<1>1. /\ N \in Nat /\ i \in 1 .. N /\ DOMAIN tpc = Tiles
      /\ round \in [Tiles -> Int] /\ tpc[i] \in Places(i)
      BY LineAssumption DEF LineInv, LineTypeOK, Tiles
<1>2. CASE Enters(i) /\ N = 1
  <2>1. Tiles = {i} /\ Start(i) = "out"
        BY <1>1, <1>2, StartIs DEF Tiles
  <2>2. Line!Pass(i)
        BY Zenon, <1>1, <1>2, <2>1 DEF Line!Pass, Enters, At
  <2>3. QED BY <2>2 DEF Line!LBNext
<1>3. CASE Enters(i) /\ N # 1
  <2>1. Start(i) # "out"
        BY <1>1, <1>3, StartIs
  <2>2. Line!Arrive(i)
        BY <1>1, <1>3, <2>1 DEF Line!Arrive, Enters, At
  <2>3. QED BY <2>2 DEF Line!LBNext
<1>4. CASE Ends(i) \/ (i = 1 /\ Acknowledged(i))
  <2>1. \A j \in Tiles : round[i] <= round[j]
        BY <1>1, <1>4, MayLeave DEF Ends, Acknowledged, At, Places
  <2>2. tpc[i] # "out" /\ tpc' = [tpc EXCEPT ![i] = "out"] /\ round' = round
        BY <1>4 DEF Ends, Acknowledged, At
  <2>3. Line!Leave(i)
    <3>1. Left[i] = round[i] - 1 /\ round[i] \in Int
          BY <1>1, <2>2 DEF Left
    <3>2. Left' = [Left EXCEPT ![i] = round[i]]
          BY Zenon, <1>1, <2>2 DEF Left
    <3>3. Left[i] < round[i] /\ round[i] = Left[i] + 1
          BY <3>1
    <3>4. Left' = [Left EXCEPT ![i] = Left[i] + 1]
          BY <3>2, <3>3, Zenon
    <3>5. QED BY <2>1, <2>2, <3>3, <3>4 DEF Line!Leave, Left
  <2>4. QED BY <2>3 DEF Line!LBNext
<1>5. CASE Receives(i) \/ Proceeds(i) \/ Sends(i) \/ Replies(i) \/ (i # 1 /\ Acknowledged(i))
  <2>1. \E q \in {"free", "send", "send_notify", "ack", "reply", "reply_notify"} :
          tpc[i] # "out" /\ tpc' = [tpc EXCEPT ![i] = q] /\ round' = round
        BY <1>1, <1>5 DEF Receives, Proceeds, Sends, Replies, Acknowledged, At
  <2>2. QED BY <1>1, <2>1 DEF Left
<1>6. QED BY <1>2, <1>3, <1>4, <1>5 DEF LineStep

(* The line of locks implements the barrier, for every number of tiles and of *)
(* calls.                                                                     *)
THEOREM LineRefinesBarrier == ~Reset /\ TBSpec => ImplementsBarrier
<1>1. TBInit => Line!LBInit
      BY DEF TBInit, Line!LBInit
<1>2. ASSUME ~Reset, LineInv, [TBNext]_tbvars PROVE [Line!LBNext]_(Line!lbvars)
  <2>1. ASSUME NEW i \in Tiles, LineStep(i) PROVE [Line!LBNext]_(Line!lbvars)
        BY <1>2, <2>1, LineStepRefines DEF Left, Line!lbvars
  <2>2. ASSUME UNCHANGED <<tpc, round, value>> PROVE [Line!LBNext]_(Line!lbvars)
        BY <2>2 DEF Line!lbvars
  <2>3. QED BY <1>2, <2>1, <2>2, StepForms DEF LineInv
<1>3. ASSUME ~Reset PROVE TBSpec => ImplementsBarrier
  <2>1. LineInv /\ [TBNext]_tbvars => [Line!LBNext]_(Line!lbvars)
        BY <1>2, <1>3
  <2>2. TBSpec => []LineInv
        BY <1>3, LineInvAlways
  <2>3. QED BY <1>1, <2>1, <2>2, PTL DEF TBSpec, ImplementsBarrier, Line!LBSpec
<1>4. QED BY <1>3

-----------------------------------------------------------------------------
(* acquire_with_value and release_with_value keep the types, with the reset or not. *)
LEMMA TBTypeStep == TBTypeOK /\ [TBNext]_tbvars => TBTypeOK'
<1> SUFFICES ASSUME TBTypeOK, [TBNext]_tbvars PROVE TBTypeOK'
    OBVIOUS
<1> USE LineAssumption DEF TBTypeOK, Tiles
<1>1. ASSUME NEW i \in Tiles, Enter(i) PROVE TBTypeOK'
  <2>1. Start(i) \in {"out"} \union Acquires \union Stores
        BY DEF Start, Forward, Reply, AfterReply, Acquires, Stores
  <2>2. i \notin asleep
        BY Zenon, <1>1 DEF Enter, Acquires
  <2>3. round[i] + 1 \in 0 .. Rounds
        BY <1>1 DEF Enter
  <2> QED BY <1>1, <2>1, <2>2, <2>3 DEF Enter
<1>2. ASSUME NEW i \in Tiles, i \notin asleep, tpc[i] # "out"
      PROVE  Following(i, tpc[i]) \in {"out"} \union Acquires \union Stores \union Notifies
      BY <1>2 DEF Following, Forward, Reply, AfterReply, Acquires, Stores, Notifies
<1>3. ASSUME NEW i \in Tiles, Acquire(i) PROVE TBTypeOK'
      BY <1>2, <1>3 DEF Acquire, Advance, Acquires
<1>4. ASSUME NEW i \in Tiles, Store(i) PROVE TBTypeOK'
  <2>1. i \notin asleep /\ tpc[i] # "out"
        BY Zenon, <1>4 DEF Store, Acquires, Stores
  <2>2. value' \in [Tiles -> BOOLEAN]
        BY Zenon, <1>4 DEF Store, Released
  <2> QED BY <1>2, <1>4, <2>1, <2>2 DEF Store, Advance
<1>5. ASSUME NEW i \in Tiles, NotifyOne(i) PROVE TBTypeOK'
  <2>1. i \notin asleep /\ tpc[i] # "out"
        BY <1>5 DEF NotifyOne, Acquires, Notifies
  <2>2. asleep' \subseteq asleep
        BY <1>5 DEF NotifyOne
  <2> QED BY <1>2, <1>5, <2>1, <2>2 DEF NotifyOne, Advance
<1>6. ASSUME NEW i \in Tiles, SleepOnLock(i) \/ SpuriousWake(i) PROVE TBTypeOK'
      BY Zenon, <1>6 DEF SleepOnLock, SpuriousWake
<1>7. CASE AllPassed \/ UNCHANGED tbvars
      BY Zenon, <1>7 DEF AllPassed, tbvars
<1> QED BY Zenon, <1>1, <1>3, <1>4, <1>5, <1>6, <1>7 DEF TBNext, TileStep

(* A lock is waited for by its tile and by the one before it; the one that notifies  *)
(* is one of the two, and awake: notify_one of release_with_value wakes up whoever   *)
(* sleeps on the lock.  This holds for every length of the line, with the reset of   *)
(* horizontal_barrier too.                                                           *)
THEOREM OneClientPerLock == TBSpec => [](TBTypeOK /\ OneClientWaits)
<1>1. TBInit => TBTypeOK
      BY LineAssumption DEF TBInit, TBTypeOK, Tiles
<1>2. TBTypeOK => OneClientWaits
  <2> SUFFICES ASSUME TBTypeOK, NEW i \in Tiles, tpc[i] \in Notifies,
                      NEW j \in SleepersOn(LockOf(i, tpc[i])), NEW k \in SleepersOn(LockOf(i, tpc[i]))
               PROVE  j = k
      BY DEF OneClientWaits
  <2>1. \A m \in SleepersOn(LockOf(i, tpc[i])) :
          /\ m \in Tiles /\ m # i
          /\ m = LockOf(i, tpc[i]) \/ m + 1 = LockOf(i, tpc[i])
        BY DEF SleepersOn, LockOf, TBTypeOK, Acquires, Notifies, Tiles
  <2>2. i = LockOf(i, tpc[i]) \/ i + 1 = LockOf(i, tpc[i])
        BY DEF LockOf
  <2>3. j \in Int /\ k \in Int /\ i \in Int
        BY <2>1 DEF Tiles
  <2> QED BY <2>1, <2>2, <2>3
<1> QED BY <1>1, <1>2, TBTypeStep, PTL DEF TBSpec

-----------------------------------------------------------------------------
(* The proof rests on one fact: a side has announced itself before it looks  *)
(* at the other one, and withdraws only when it is outside.                  *)
SmSteps == {"idle", "look", "turn", "back", "wait_turn", "inside", "leave"}

SmTypeOK == /\ smpc \in [Sides -> SmSteps]
            /\ want \in [Sides -> BOOLEAN]

(* A side between its announcement and the end of its section is announced. *)
Announced == \A s \in Sides :
  smpc[s] \in {"look", "turn", "back", "inside", "leave"} => want[s]

SmInv == SmTypeOK /\ Announced /\ MutualExclusion

(* The invariant holds before the first access. *)
LEMMA SmInvInit == SmInit => SmInv
BY DEF SmInit, SmInv, SmTypeOK, Announced, MutualExclusion, Sides, SmSteps

(* The two sides are each other's other side. *)
LEMMA OtherSide == \A s \in Sides : /\ Other(s) \in Sides /\ Other(s) # s
                                    /\ \A r \in Sides : r = s \/ r = Other(s)
BY DEF Sides, Other

(* Every access of either side keeps the invariant. *)
LEMMA SmInvStep == SmInv /\ [SmNext]_smvars => SmInv'
<1> SUFFICES ASSUME SmInv, [SmNext]_smvars PROVE SmInv'
    OBVIOUS
<1> USE DEF SmInv, SmTypeOK, Announced, MutualExclusion, SmSteps, SmGoTo
<1>1. ASSUME NEW s \in Sides, LockAnnounce(s) PROVE SmInv'
      BY <1>1, OtherSide DEF LockAnnounce
<1>2. ASSUME NEW s \in Sides, Look(s) PROVE SmInv'
  <2>1. CASE want[Other(s)] /\ smpc' = [smpc EXCEPT ![s] = "turn"]
        BY <1>2, <2>1, OtherSide DEF Look
  <2>2. CASE ~want[Other(s)] /\ smpc' = [smpc EXCEPT ![s] = "inside"]
    <3>1. smpc[Other(s)] \notin {"inside", "leave"}
          BY <2>2, OtherSide
    <3>2. QED BY <1>2, <2>2, <3>1, OtherSide DEF Look
  <2>3. QED BY <1>2, <2>1, <2>2 DEF Look
<1>3. ASSUME NEW s \in Sides, LookTurn(s) PROVE SmInv'
      BY <1>3, OtherSide DEF LookTurn
<1>4. ASSUME NEW s \in Sides, BackOff(s) PROVE SmInv'
      BY <1>4, OtherSide DEF BackOff
<1>5. ASSUME NEW s \in Sides, GiveTurn(s) PROVE SmInv'
      BY <1>5, OtherSide DEF GiveTurn
<1>6. ASSUME NEW s \in Sides, LeaveMutex(s) PROVE SmInv'
      BY <1>6, OtherSide DEF LeaveMutex
<1>7. ASSUME UNCHANGED smvars PROVE SmInv'
      BY <1>7 DEF smvars
<1>8. QED BY <1>1, <1>2, <1>3, <1>4, <1>5, <1>6, <1>7 DEF SmNext, SideStep, SmStopped

(* lock and unlock exclude the host and the tile for any number of uses. *)
THEOREM SoftMutexExcludes == SmSpec => []MutualExclusion
<1>1. SmInv => MutualExclusion BY DEF SmInv
<1>2. QED BY <1>1, SmInvInit, SmInvStep, PTL DEF SmSpec
(* The three kinds of synchronisation side by side, for every number of users and      *)
(* waiters of the counter, of tiles of the line and of uses of the mutex: no wake-up   *)
(* is lost, notify_one of a lock always finds the one client that may sleep on it, and *)
(* the host and the tile exclude each other.                                           *)
THEOREM LocksStaySound ==
  ASSUME Locked
  PROVE  Spec /\ TBSpec /\ SmSpec => []LocksSound
<1>1. NoLostWakeup /\ (TBTypeOK /\ OneClientWaits) /\ MutualExclusion => LocksSound
      BY DEF LocksSound
<1>2. QED BY <1>1, WakeupNeverLost, OneClientPerLock, SoftMutexExcludes, PTL

=============================================================================
