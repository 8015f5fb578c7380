----------------------------- MODULE TileProofs -----------------------------
(***************************************************************************)
(* Proofs about the services that the host gives to the kernels on the AI  *)
(* Engine tiles (TileService), for any number of tiles, kernels and calls. *)
(***************************************************************************)
EXTENDS TileService, TLAPS

-----------------------------------------------------------------------------
(* S has n elements: they can be numbered from 1 to n. *)
Counts(S, n) ==
  \E f \in [1 .. n -> S] : /\ \A s \in S : \E i \in 1 .. n : f[i] = s
                           /\ \A i, j \in 1 .. n : f[i] = f[j] => i = j

(* A set has no element exactly when it is empty. *)
LEMMA CountsNone == Counts({}, 0) /\ \A S : Counts(S, 0) => S = {}
<1>1. Counts({}, 0)
  <2> DEFINE f == [i \in 1 .. 0 |-> 0]
  <2>1. 1 .. 0 = {}
        OBVIOUS
  <2>2. f \in [1 .. 0 -> {}]
        BY <2>1
  <2> HIDE DEF f
  <2>3. QED BY Zenon, <2>1, <2>2 DEF Counts
<1>2. ASSUME NEW S, Counts(S, 0) PROVE S = {}
  <2>1. \A s \in S : \E i \in 1 .. 0 : TRUE
        BY <1>2 DEF Counts
  <2>2. QED BY <2>1
<1>3. QED BY <1>1, <1>2

(* The first n numbers are n. *)
LEMMA CountsAll == ASSUME NEW n \in Nat PROVE Counts(1 .. n, n)
<1> DEFINE f == [i \in 1 .. n |-> i]
<1>1. f \in [1 .. n -> 1 .. n] /\ \A i \in 1 .. n : f[i] = i
      OBVIOUS
<1> HIDE DEF f
<1>2. QED BY <1>1 DEF Counts

(* An element less counts for one. *)
LEMMA CountsOneLess ==
  ASSUME NEW S, NEW n \in Nat, Counts(S, n), NEW x \in S
  PROVE  n >= 1 /\ n - 1 \in Nat /\ Counts(S \ {x}, n - 1)
<1>1. PICK f \in [1 .. n -> S] : /\ \A s \in S : \E i \in 1 .. n : f[i] = s
                                 /\ \A i, j \in 1 .. n : f[i] = f[j] => i = j
      BY DEF Counts
<1>2. PICK k \in 1 .. n : f[k] = x
      BY <1>1
<1> DEFINE g == [i \in 1 .. n - 1 |-> IF i = k THEN f[n] ELSE f[i]]
<1>3. /\ n >= 1 /\ n - 1 \in Nat /\ n \in 1 .. n /\ n \notin 1 .. n - 1
      /\ \A i \in 1 .. n - 1 : i \in 1 .. n /\ i # n
      /\ \A i \in 1 .. n : i # n => i \in 1 .. n - 1
      BY <1>2
<1>4. \A i \in 1 .. n - 1 : g[i] = IF i = k THEN f[n] ELSE f[i]
      OBVIOUS
<1>5. g \in [1 .. n - 1 -> S \ {x}]
  <2>1. ASSUME NEW i \in 1 .. n - 1
        PROVE  (IF i = k THEN f[n] ELSE f[i]) \in S \ {x}
        BY <1>1, <1>2, <1>3
  <2>2. QED BY <2>1
<1> HIDE DEF g
<1>6. ASSUME NEW s \in S \ {x} PROVE \E i \in 1 .. n - 1 : g[i] = s
  <2>1. PICK i \in 1 .. n : f[i] = s
        BY <1>1
  <2>2. i # k
        BY <1>2, <2>1
  <2>3. CASE i = n
    <3>1. k \in 1 .. n - 1 /\ g[k] = s
          BY <1>3, <1>4, <2>1, <2>2, <2>3
    <3>2. QED BY <3>1
  <2>4. CASE i # n
    <3>1. i \in 1 .. n - 1 /\ g[i] = s
          BY <1>3, <1>4, <2>1, <2>2, <2>4
    <3>2. QED BY <3>1
  <2>5. QED BY <2>3, <2>4
<1>7. ASSUME NEW i \in 1 .. n - 1, NEW j \in 1 .. n - 1, g[i] = g[j] PROVE i = j
      BY <1>1, <1>3, <1>4, <1>7
<1>8. QED BY Zenon, <1>3, <1>5, <1>6, <1>7 DEF Counts

-----------------------------------------------------------------------------
(* TileService.  Kernel and host alternate: between try_arrive and the end   *)
(* of barrier.wait() the host is busy with the tile it polls, and the places *)
(* of both determine which of the two counters of the barrier is ahead.      *)

Names == {"log", "logln", "other", "done", "exiting"}

RequestType == [done : BOOLEAN, ok : BOOLEAN, chained : BOOLEAN, last : BOOLEAN]

ServiceTypes ==
  /\ impl \in Impls /\ dpc \in [Kernels -> Inside \union Outside]
  /\ call \in [Kernels -> [name : Names, left : Nat, ok : BOOLEAN]]
  /\ counter \in [Kernels -> [device : 0 .. Modulus - 1, host : 0 .. Modulus - 1]]
  /\ record \in [Kernels -> RequestType] /\ handled \in [Kernels -> 0 .. 1]
  /\ hpc \in {"try", "serve", "wait", "returned", "stopped"}
  /\ cur \in Kernels /\ chain \in BOOLEAN

(* The host is between try_arrive and the end of barrier.wait() for tile t *)
Busy(t) == cur = t /\ hpc \in {"serve", "wait", "stopped"}

(* The kernel has arrived once more than the host *)
Ahead(t) == counter[t].device = (counter[t].host + 1) % Modulus

(* Who has arrived at the barrier of a tile, by the places of both *)
TurnOf(t) ==
  /\ Busy(t) => \/ dpc[t] \in {"spin", "arrive_again"} /\ BothArrived(t)
                \/ dpc[t] = "spin_again" /\ Ahead(t)
  /\ ~Busy(t) => /\ dpc[t] # "arrive_again"
                 /\ IF dpc[t] = "spin" THEN Ahead(t) ELSE BothArrived(t)

(* When the host has acted on the request of a tile *)
ActedOn(t) ==
  /\ Busy(t) => handled[t] = IF hpc = "serve" THEN 0 ELSE 1
  /\ ~Busy(t) => /\ dpc[t] \in {"arrive", "spin"} => handled[t] = 0
                 /\ dpc[t] = "spin_again" => handled[t] = 1

(* A call has items left while it is made; done is the last call but exiting *)
CallSound(t) ==
  /\ dpc[t] \in Inside => /\ call[t].left >= 1
                          /\ call[t].name \in {"other", "done"} => call[t].left = 1
  /\ dpc[t] \in {"run", "meet"} => call[t].name \notin {"done", "exiting"}
  /\ dpc[t] = "halted" => call[t].name \in {"done", "exiting"}

(* A request is the last of its call or chained to the next *)
RecordSound(t) == dpc[t] \in Inside \ {"fill"} =>
  /\ record[t].done <=> call[t].name = "done"
  /\ record[t].done => record[t].last
  /\ record[t].last \/ record[t].chained

KernelSound(t) == TurnOf(t) /\ ActedOn(t) /\ CallSound(t) /\ RecordSound(t)

(* A log that is partly printed keeps the host at its tile *)
OpenHeld == open # 0 => open = cur /\ chain

(* The kernels whose done request the host has acted on *)
DoneServed(t) == \/ call[t].name = "exiting" \/ dpc[t] = "halted"
                 \/ /\ call[t].name = "done" /\ handled[t] = 1
                    /\ dpc[t] \in {"spin", "arrive_again", "spin_again"}
GoingOn == {t \in Kernels : ~DoneServed(t)}
DoneCounted == done_counter \in 0 .. Sites /\ Counts(GoingOn, Sites - done_counter)
ReturnedDone == hpc = "returned" => done_counter >= Sites

HostSound == OpenHeld /\ DoneCounted /\ ReturnedDone

ServiceInv == ServiceTypes /\ HostSound /\ \A t \in Kernels : KernelSound(t)

(* The counter of the ended kernels stays right when none of them ends. *)
LEMMA NoneEnds ==
  ASSUME DoneCounted, UNCHANGED done_counter, \A u \in Kernels : DoneServed(u)' <=> DoneServed(u)
  PROVE  DoneCounted'
<1>1. GoingOn' = GoingOn
      BY DEF GoingOn
<1>2. QED BY <1>1 DEF DoneCounted

(* The counters wrap, but one step of a counter always changes it. *)
LEMMA NextCount ==
  \A x \in 0 .. Modulus - 1 : (x + 1) % Modulus \in 0 .. Modulus - 1 /\ (x + 1) % Modulus # x
<1> SUFFICES ASSUME NEW x \in 0 .. Modulus - 1
             PROVE (x + 1) % Modulus \in 0 .. Modulus - 1 /\ (x + 1) % Modulus # x
    OBVIOUS
<1> USE ServiceAssumption
<1>1. CASE x + 1 < Modulus
      BY <1>1
<1>2. CASE x + 1 = Modulus
      BY <1>2
<1>3. QED BY <1>1, <1>2

(* Hence the two cases of Turns exclude each other. *)
LEMMA OneIsAhead ==
  ASSUME ServiceTypes, NEW t \in Kernels PROVE ~(BothArrived(t) /\ Ahead(t))
BY NextCount DEF ServiceTypes, BothArrived, Ahead

(* A step of kernel t keeps what is said of the other kernels and of the host. *)
Others(t) == \A u \in Kernels \ {t} : /\ dpc'[u] = dpc[u] /\ call'[u] = call[u]
                                       /\ record'[u] = record[u] /\ counter'[u] = counter[u]
                                       /\ handled'[u] = handled[u]
LEMMA OneKernelMoves ==
  ASSUME ServiceInv, NEW t \in Kernels, Others(t), UNCHANGED <<open, hostvars>>,
         ServiceTypes', KernelSound(t)', DoneServed(t)' <=> DoneServed(t)
  PROVE  ServiceInv'
<1>1. ASSUME NEW u \in Kernels \ {t}
      PROVE  KernelSound(u)' /\ (DoneServed(u)' <=> DoneServed(u))
  <2>1. /\ dpc'[u] = dpc[u] /\ call'[u] = call[u] /\ record'[u] = record[u]
        /\ counter'[u] = counter[u] /\ handled'[u] = handled[u] /\ hpc' = hpc /\ cur' = cur
        BY DEF Others, hostvars
  <2>2. TurnOf(u) /\ ActedOn(u) /\ CallSound(u) /\ RecordSound(u)
        BY DEF ServiceInv, KernelSound
  <2>3. TurnOf(u)'
        BY <2>1, <2>2 DEF TurnOf, Busy, BothArrived, Ahead
  <2>4. ActedOn(u)'
        BY <2>1, <2>2 DEF ActedOn, Busy
  <2>5. CallSound(u)' /\ RecordSound(u)'
        BY <2>1, <2>2 DEF CallSound, RecordSound
  <2>6. DoneServed(u)' <=> DoneServed(u)
        BY <2>1 DEF DoneServed
  <2>7. QED BY <2>3, <2>4, <2>5, <2>6 DEF KernelSound
<1>2. \A u \in Kernels : DoneServed(u)' <=> DoneServed(u)
      BY <1>1
<1>3. DoneCounted'
      BY <1>2, NoneEnds DEF ServiceInv, HostSound, hostvars
<1>4. OpenHeld' /\ ReturnedDone'
      BY DEF ServiceInv, HostSound, OpenHeld, ReturnedDone, hostvars
<1>5. QED BY <1>1, <1>3, <1>4 DEF ServiceInv, HostSound

(* A kernel outside its calls, or one that starts a call, touches neither its request *)
(* nor the barrier.                                                                   *)
LEMMA OutsideKeeps ==
  ASSUME ServiceInv, NEW t \in Kernels, NEW p \in {"run", "meet", "fill"},
         dpc[t] \in {"run", "meet"}, GoTo(t, p),
         call' \in [Kernels -> [name : Names, left : Nat, ok : BOOLEAN]],
         \A u \in Kernels \ {t} : call'[u] = call[u],
         p = "fill" => /\ call'[t].left >= 1 /\ call'[t].name # "exiting"
                       /\ call'[t].name \in {"other", "done"} => call'[t].left = 1,
         p # "fill" => call'[t] = call[t],
         UNCHANGED <<record, counter, handled, open, impl, hostvars>>
  PROVE  ServiceInv'
<1>1. /\ dpc \in [Kernels -> Inside \union Outside] /\ dpc' = [dpc EXCEPT ![t] = p]
      /\ dpc'[t] = p /\ \A u \in Kernels \ {t} : dpc'[u] = dpc[u]
      BY DEF ServiceInv, ServiceTypes, GoTo
<1>2. ServiceTypes'
      BY <1>1 DEF ServiceInv, ServiceTypes, hostvars, Inside, Outside
<1>3. TurnOf(t) /\ ActedOn(t) /\ CallSound(t) /\ RecordSound(t) /\ (Busy(t)' <=> Busy(t))
      BY DEF ServiceInv, KernelSound, Busy, hostvars
<1>4. ~Busy(t) /\ BothArrived(t) /\ BothArrived(t)'
      BY <1>3 DEF TurnOf, BothArrived
<1>5. TurnOf(t)'
      BY <1>1, <1>3, <1>4 DEF TurnOf
<1>6. ActedOn(t)'
      BY <1>1, <1>3, <1>4 DEF ActedOn
<1>7. CallSound(t)' /\ RecordSound(t)'
      BY <1>1, <1>3 DEF CallSound, RecordSound, Inside
<1>8. ~DoneServed(t) /\ ~DoneServed(t)'
      BY <1>1, <1>3 DEF DoneServed, CallSound
<1>9. Others(t)
      BY <1>1 DEF Others
<1>10. QED BY Zenon, <1>2, <1>5, <1>6, <1>7, <1>8, <1>9, OneKernelMoves DEF KernelSound

(* Calls and waits of the kernels among themselves keep the invariant. *)
LEMMA CallsKeep ==
  ASSUME ServiceInv, NEW t \in Kernels,
         \/ \E name \in {"log", "logln", "other"}, n \in 1 .. MaxItems : Call(t, name, n)
         \/ Meet(t) \/ MeetReturns(t)
         \/ \E ec \in ExitCodes : Finish(t, HostGoesOn(ec))
  PROVE  ServiceInv'
<1>0. call \in [Kernels -> [name : Names, left : Nat, ok : BOOLEAN]]
      BY DEF ServiceInv, ServiceTypes
<1>1. ASSUME NEW name \in {"log", "logln", "other"}, NEW n \in 1 .. MaxItems, Call(t, name, n)
      PROVE  ServiceInv'
  <2> DEFINE c == [name |-> name, left |-> n, ok |-> TRUE]
  <2>1. c \in [name : Names, left : Nat, ok : BOOLEAN]
        BY ServiceAssumption DEF Names
  <2>2. dpc[t] = "run" /\ call' = [call EXCEPT ![t] = c] /\ (name = "other" => n = 1)
        BY <1>1 DEF Call
  <2>3. call' \in [Kernels -> [name : Names, left : Nat, ok : BOOLEAN]] /\ call'[t] = c
        BY <1>0, <2>1, <2>2
  <2>4. c.left >= 1 /\ c.name \notin {"exiting", "done"} /\ (c.name = "other" => c.left = 1)
        BY <2>2, ServiceAssumption
  <2>5. \A u \in Kernels \ {t} : call'[u] = call[u]
        BY <1>0, <2>2
  <2>6. GoTo(t, "fill") /\ UNCHANGED <<record, counter, handled, open, impl, hostvars>>
        BY <1>1 DEF Call
  <2> HIDE DEF c
  <2>7. QED BY <2>2, <2>3, <2>4, <2>5, <2>6, OutsideKeeps
<1>2. CASE Meet(t)
      BY <1>0, <1>2, OutsideKeeps DEF Meet
<1>3. CASE MeetReturns(t)
      BY <1>0, <1>3, OutsideKeeps DEF MeetReturns
<1>4. ASSUME NEW ok \in BOOLEAN, Finish(t, ok) PROVE ServiceInv'
  <2> DEFINE c == [name |-> "done", left |-> 1, ok |-> ok]
  <2>1. c \in [name : Names, left : Nat, ok : BOOLEAN]
        BY DEF Names
  <2>2. dpc[t] = "run" /\ call' = [call EXCEPT ![t] = c]
        BY <1>4 DEF Finish
  <2>3. call' \in [Kernels -> [name : Names, left : Nat, ok : BOOLEAN]] /\ call'[t] = c
        BY <1>0, <2>1, <2>2
  <2>4. c.left = 1 /\ c.name = "done"
        OBVIOUS
  <2>5. \A u \in Kernels \ {t} : call'[u] = call[u]
        BY <1>0, <2>2
  <2>6. GoTo(t, "fill") /\ UNCHANGED <<record, counter, handled, open, impl, hostvars>>
        BY <1>4 DEF Finish
  <2> HIDE DEF c
  <2>7. QED BY <2>2, <2>3, <2>4, <2>5, <2>6, OutsideKeeps
<1>5. \A ec \in ExitCodes : HostGoesOn(ec) \in BOOLEAN
      BY DEF HostGoesOn
<1>6. QED BY <1>1, <1>2, <1>3, <1>4, <1>5

(* perform up to its first wait: the request is written while the host looks at the   *)
(* barrier only.                                                                      *)
LEMMA FillKeeps == ASSUME ServiceInv, NEW t \in Kernels, Fill(t) PROVE ServiceInv'
<1>1. /\ dpc \in [Kernels -> Inside \union Outside] /\ dpc[t] = "fill"
      /\ dpc' = [dpc EXCEPT ![t] = "arrive"] /\ handled' = [handled EXCEPT ![t] = 0]
      /\ handled \in [Kernels -> 0 .. 1]
      BY DEF ServiceInv, ServiceTypes, Fill, GoTo
<1>2. UNCHANGED <<call, calls, met, counter, open, impl, hostvars>>
      BY DEF Fill
<1>3. /\ dpc'[t] = "arrive" /\ handled'[t] = 0
      /\ \A u \in Kernels \ {t} : dpc'[u] = dpc[u] /\ handled'[u] = handled[u]
      BY <1>1
<1> DEFINE c == call[t]
           r == [done |-> c.name = "done", ok |-> c.ok,
                 chained |-> Chained(c.name, c.left), last |-> c.left = 1]
<1>a. /\ c \in [name : Names, left : Nat, ok : BOOLEAN] /\ c.left >= 1
      /\ c.name \in {"other", "done"} => c.left = 1
      BY <1>1 DEF ServiceInv, ServiceTypes, KernelSound, CallSound, Inside
<1>b. r \in RequestType
  <2>1. Chained(c.name, c.left) \in BOOLEAN
    <3>1. CASE c.name = "log"
          BY <3>1 DEF Chained
    <3>2. CASE c.name \in {"logln", "exiting"}
          BY <3>2 DEF Chained
    <3>3. CASE c.name \notin {"log", "logln", "exiting"}
          BY Zenon, <3>3 DEF Chained
    <3>4. QED BY <3>1, <3>2, <3>3
  <2>2. QED BY <1>a, <2>1 DEF RequestType
<1>c. record' = [record EXCEPT ![t] = r] /\ record \in [Kernels -> RequestType]
      BY DEF Fill, ServiceInv, ServiceTypes
<1>4. ServiceTypes'
  <2>1. record' \in [Kernels -> RequestType]
        BY <1>b, <1>c
  <2>2. dpc' \in [Kernels -> Inside \union Outside] /\ handled' \in [Kernels -> 0 .. 1]
        BY <1>1 DEF Inside
  <2>3. QED BY <1>2, <2>1, <2>2 DEF ServiceInv, ServiceTypes, hostvars
<1>5. TurnOf(t) /\ CallSound(t) /\ (Busy(t)' <=> Busy(t)) /\ (BothArrived(t)' <=> BothArrived(t))
      BY <1>2 DEF ServiceInv, KernelSound, Busy, BothArrived, hostvars
<1>6. ~Busy(t) /\ BothArrived(t)
      BY <1>1, <1>5 DEF TurnOf
<1>7. TurnOf(t)' /\ ActedOn(t)'
      BY <1>3, <1>5, <1>6 DEF TurnOf, ActedOn
<1>8. CallSound(t)'
      BY <1>1, <1>2, <1>3, <1>5 DEF CallSound, Inside
<1>9. RecordSound(t)'
  <2>1. c.left = 1 \/ Chained(c.name, c.left)
        BY <1>a DEF Names, Chained
  <2>2. /\ record'[t].done <=> c.name = "done"
        /\ record'[t].last <=> c.left = 1
        /\ record'[t].chained <=> Chained(c.name, c.left)
        BY Zenon, <1>c
  <2>3. QED BY <1>2, <1>a, <2>1, <2>2 DEF RecordSound
<1>10. Others(t)
  <2>1. \A u \in Kernels \ {t} : record'[u] = record[u]
        BY <1>c
  <2>2. QED BY <1>2, <1>3, <2>1 DEF Others
<1>11. DoneServed(t)' <=> DoneServed(t)
      BY <1>1, <1>2, <1>3 DEF DoneServed
<1>12. QED BY Zenon, <1>2, <1>4, <1>7, <1>8, <1>9, <1>10, <1>11, OneKernelMoves DEF KernelSound

(* The two waits of perform in the barrier. *)
LEMMA ArriveKeeps ==
  ASSUME ServiceInv, NEW t \in Kernels, Arrive(t) \/ SpinReturns(t) PROVE ServiceInv'
<1> DEFINE p == dpc'[t]
<1>1. UNCHANGED <<call, calls, met, record, handled, open, impl, hostvars>>
      BY DEF Arrive, SpinReturns
<1>2. /\ \A u \in Kernels \ {t} : dpc'[u] = dpc[u] /\ counter'[u] = counter[u]
      /\ dpc' \in [Kernels -> Inside \union Outside]
      BY DEF Arrive, SpinReturns, GoTo, ServiceInv, ServiceTypes, Inside
<1>3. counter' \in [Kernels -> [device : 0 .. Modulus - 1, host : 0 .. Modulus - 1]]
  <2>1. CASE Arrive(t)
        BY Zenon, <2>1, NextCount DEF Arrive, ServiceInv, ServiceTypes
  <2>2. CASE SpinReturns(t)
        BY <2>2 DEF SpinReturns, ServiceInv, ServiceTypes
  <2>3. QED BY <2>1, <2>2
<1>4. ServiceTypes'
      BY <1>1, <1>2, <1>3 DEF ServiceInv, ServiceTypes, hostvars
<1>5. /\ TurnOf(t) /\ ActedOn(t) /\ CallSound(t) /\ RecordSound(t)
      /\ (Busy(t)' <=> Busy(t)) /\ hpc' = hpc
      BY <1>1 DEF ServiceInv, KernelSound, Busy, hostvars
<1>6. \/ dpc[t] = "arrive" /\ p = "spin" /\ ~Busy(t) /\ Ahead(t)'
      \/ dpc[t] = "arrive_again" /\ p = "spin_again" /\ Busy(t) /\ Ahead(t)'
      \/ dpc[t] = "spin" /\ p = "arrive_again" /\ Busy(t) /\ BothArrived(t)'
  <2>1. CASE Arrive(t)
    <3>1. /\ dpc[t] \in {"arrive", "arrive_again"} /\ BothArrived(t)
          /\ Busy(t) <=> dpc[t] = "arrive_again"
          BY <1>5, <2>1 DEF Arrive, TurnOf
    <3>2. p = IF dpc[t] = "arrive" THEN "spin" ELSE "spin_again"
          BY <2>1 DEF Arrive, GoTo, ServiceInv, ServiceTypes
    <3>3. Ahead(t)'
          BY <2>1, <3>1 DEF Arrive, Ahead, BothArrived, ServiceInv, ServiceTypes
    <3>4. QED BY <3>1, <3>2, <3>3
  <2>2. CASE SpinReturns(t)
    <3>1. dpc[t] = "spin" /\ BothArrived(t) /\ p = "arrive_again"
          BY <2>2 DEF SpinReturns, GoTo, ServiceInv, ServiceTypes
    <3>2. BothArrived(t)'
          BY <2>2, <3>1 DEF SpinReturns, BothArrived
    <3>3. Busy(t)
          BY <1>5, <3>1, OneIsAhead DEF ServiceInv, TurnOf
    <3>4. QED BY <3>1, <3>2, <3>3
  <2>3. QED BY <2>1, <2>2
<1>7. TurnOf(t)'
      BY Zenon, <1>5, <1>6 DEF TurnOf
<1>8. ActedOn(t)'
      BY <1>1, <1>5, <1>6 DEF ActedOn
<1>9. CallSound(t)' /\ RecordSound(t)'
      BY Zenon, <1>1, <1>5, <1>6 DEF CallSound, RecordSound, Inside
<1>10. Others(t)
      BY <1>1, <1>2 DEF Others
<1>11. DoneServed(t)' <=> DoneServed(t)
  <2>1. dpc[t] = "arrive" => handled[t] = 0
        BY <1>5, <1>6 DEF ActedOn
  <2>2. \/ dpc[t] = "arrive" /\ p = "spin"
        \/ dpc[t] = "arrive_again" /\ p = "spin_again"
        \/ dpc[t] = "spin" /\ p = "arrive_again"
        BY <1>6
  <2>3. QED BY <1>1, <2>1, <2>2 DEF DoneServed
<1>12. QED BY Zenon, <1>1, <1>4, <1>7, <1>8, <1>9, <1>10, <1>11, OneKernelMoves DEF KernelSound

(* perform returns with the request answered; the next item, or the message after     *)
(* done, is a request of its own.                                                     *)
LEMMA PerformKeeps == ASSUME ServiceInv, NEW t \in Kernels, PerformReturns(t) PROVE ServiceInv'
<1> DEFINE p == dpc'[t]
           CallType == [name : Names, left : Nat, ok : BOOLEAN]
<1>1. /\ UNCHANGED <<calls, met, record, counter, handled, open, impl, hostvars>>
      /\ dpc[t] = "spin_again" /\ BothArrived(t)
      BY DEF PerformReturns
<1>0. TurnOf(t) /\ ActedOn(t) /\ CallSound(t) /\ RecordSound(t) /\ (Busy(t)' <=> Busy(t))
      BY <1>1 DEF ServiceInv, KernelSound, Busy, hostvars
<1>2. ~Busy(t) /\ handled[t] = 1 /\ call[t] \in CallType /\ call[t].left >= 1
  <2>1. ~Busy(t)
        BY <1>0, <1>1, OneIsAhead DEF ServiceInv, TurnOf
  <2>2. handled[t] = 1 /\ call[t].left >= 1
        BY <1>0, <1>1, <2>1 DEF ActedOn, CallSound, Inside
  <2>3. QED BY <2>1, <2>2 DEF ServiceInv, ServiceTypes
<1>3. dpc \in [Kernels -> Inside \union Outside] /\ call \in [Kernels -> CallType]
      BY DEF ServiceInv, ServiceTypes
<1> DEFINE GoesOn ==
           /\ \A u \in Kernels \ {t} : dpc'[u] = dpc[u] /\ call'[u] = call[u]
           /\ dpc' \in [Kernels -> Inside \union Outside]
           /\ call' \in [Kernels -> CallType]
           /\ \/ /\ p = "fill" /\ call'[t].name = call[t].name /\ call[t].left > 1
                 /\ call'[t].left = call[t].left - 1
              \/ /\ p = "fill" /\ call'[t].name = "exiting" /\ call'[t].left = 2
                 /\ call[t].name = "done"
              \/ p = "halted" /\ call'[t] = call[t] /\ call[t].name \in {"done", "exiting"}
              \/ p = "run" /\ call'[t] = call[t] /\ call[t].name \notin {"done", "exiting"}
<1>4. GoesOn
  <2>1. ASSUME call[t].left > 1, call' = [call EXCEPT ![t].left = @ - 1], GoTo(t, "fill")
        PROVE  GoesOn
        BY <1>1, <1>2, <1>3, <2>1 DEF GoTo, Inside
  <2>2. ASSUME call[t].name = "done", GoTo(t, "fill"),
               call' = [call EXCEPT ![t] = [name |-> "exiting", left |-> 2, ok |-> TRUE]]
        PROVE  GoesOn
        BY <1>1, <1>2, <1>3, <2>2 DEF GoTo, Inside, Names
  <2>3. ASSUME GoTo(t, IF call[t].name \in {"done", "exiting"} THEN "halted" ELSE "run"),
               UNCHANGED call
        PROVE  GoesOn
        BY <1>1, <1>2, <1>3, <2>3 DEF GoTo, Outside
  <2>4. QED BY <2>1, <2>2, <2>3 DEF PerformReturns
<1>5. ServiceTypes'
      BY <1>1, <1>4 DEF ServiceInv, ServiceTypes, hostvars
<1>6. TurnOf(t)'
  <2>1. BothArrived(t)' /\ p \notin {"spin", "arrive_again"}
        BY <1>1, <1>4 DEF BothArrived
  <2>2. QED BY Zenon, <1>0, <1>2, <2>1 DEF TurnOf
<1>7. ActedOn(t)'
  <2>1. p \in {"fill", "halted", "run"}
        BY <1>4
  <2>2. QED BY <1>0, <1>2, <2>1 DEF ActedOn
<1>8. call[t].left > 1 => call[t].name \notin {"other", "done"}
      BY <1>0, <1>1 DEF CallSound, Inside
<1>9. CallSound(t)'
      BY <1>2, <1>4, <1>8 DEF CallSound, Inside
<1>10. RecordSound(t)'
      BY <1>4 DEF RecordSound, Inside
<1>11. Others(t)
      BY <1>1, <1>4 DEF Others
<1>12. DoneServed(t)' <=> DoneServed(t)
  <2>1. DoneServed(t) <=> call[t].name \in {"done", "exiting"}
        BY <1>1, <1>2 DEF DoneServed
  <2>2. \/ p = "fill" /\ call'[t].name = call[t].name /\ call[t].name # "done"
        \/ p = "fill" /\ call'[t].name = "exiting" /\ call[t].name = "done"
        \/ p = "halted" /\ call[t].name \in {"done", "exiting"}
        \/ p = "run" /\ call'[t] = call[t] /\ call[t].name \notin {"done", "exiting"}
        BY <1>4, <1>8
  <2>3. QED BY <2>1, <2>2 DEF DoneServed
<1>13. QED BY Zenon, <1>1, <1>5, <1>6, <1>7, <1>9, <1>10, <1>11, <1>12, OneKernelMoves DEF KernelSound

(* What is said of a tile that the host leaves alone stays. *)
LEMMA NotServed ==
  ASSUME ServiceInv, NEW u \in Kernels, ~Busy(u), ~Busy(u)', dpc' = dpc, call' = call,
         record' = record, handled'[u] = handled[u], counter'[u] = counter[u]
  PROVE  KernelSound(u)'
<1>1. TurnOf(u) /\ ActedOn(u) /\ CallSound(u) /\ RecordSound(u)
      BY DEF ServiceInv, KernelSound
<1>2. TurnOf(u)'
      BY <1>1 DEF TurnOf, BothArrived, Ahead
<1>3. ActedOn(u)'
      BY <1>1 DEF ActedOn
<1>4. CallSound(u)' /\ RecordSound(u)'
      BY <1>1 DEF CallSound, RecordSound
<1>5. QED BY <1>2, <1>3, <1>4 DEF KernelSound

(* A move of the host from tile c: what it has to respect at that tile. *)
LEMMA HostMoves ==
  ASSUME ServiceInv, NEW c \in Kernels, c = cur,
         UNCHANGED <<devvars, handled, open, impl, done_counter>>,
         cur' \in Kernels, chain' \in BOOLEAN,
         hpc' \in {"try", "serve", "wait", "returned", "stopped"},
         counter' \in [Kernels -> [device : 0 .. Modulus - 1, host : 0 .. Modulus - 1]],
         \A u \in Kernels \ {c} : ~Busy(u)' /\ counter'[u] = counter[u],
         Busy(c)' => /\ dpc[c] = "spin" /\ BothArrived(c)'
                     /\ handled[c] = 0 /\ hpc' = "serve",
         ~Busy(c)' => /\ dpc[c] \notin {"arrive_again", "spin"} /\ BothArrived(c)'
                      /\ dpc[c] = "arrive" => handled[c] = 0
                      /\ dpc[c] = "spin_again" => handled[c] = 1,
         open # 0 => cur' = cur /\ chain',
         hpc' = "returned" => done_counter >= Sites
  PROVE  ServiceInv'
<1>1. ServiceTypes'
      BY DEF ServiceInv, ServiceTypes, devvars
<1>2. \A u \in Kernels \ {c} : ~Busy(u)
      BY DEF Busy
<1>3. dpc' = dpc /\ call' = call /\ record' = record /\ handled' = handled
      BY DEF devvars
<1>4. \A u \in Kernels \ {c} : KernelSound(u)'
      BY Zenon, <1>2, <1>3, NotServed
<1>5. TurnOf(c)'
      BY Zenon, <1>3 DEF TurnOf
<1>6. ActedOn(c)'
      BY <1>3 DEF ActedOn
<1>7. CallSound(c)' /\ RecordSound(c)'
      BY <1>3 DEF ServiceInv, KernelSound, CallSound, RecordSound
<1>8. OpenHeld' /\ ReturnedDone'
      BY DEF ServiceInv, HostSound, OpenHeld, ReturnedDone
<1>9. \A u \in Kernels : DoneServed(u)' <=> DoneServed(u)
      BY <1>3 DEF DoneServed
<1>10. DoneCounted'
      BY <1>9, NoneEnds DEF ServiceInv, HostSound
<1>11. \A u \in Kernels : KernelSound(u)'
      BY <1>4, <1>5, <1>6, <1>7 DEF KernelSound
<1>12. QED BY <1>1, <1>8, <1>10, <1>11 DEF ServiceInv, HostSound

(* NextTile moves to a tile, or ends when every kernel is counted. *)
LEMMA NextTileMoves ==
  ASSUME ServiceInv, NextTile
  PROVE  /\ hpc' \in {"try", "returned"} /\ cur' \in Kernels
         /\ hpc' = "returned" => done_counter >= Sites
<1>1. cur \in Kernels /\ done_counter \in 0 .. Sites
      BY DEF ServiceInv, HostSound, ServiceTypes, DoneCounted
<1>2. QED BY <1>1, ServiceAssumption DEF NextTile, Kernels

(* The host arrives: the counters of its tile are equal again. *)
LEMMA HostArrivesAt ==
  ASSUME ServiceInv, NEW c \in Kernels, c = cur, HostArrives, Ahead(c)
  PROVE  /\ BothArrived(c)' /\ \A u \in Kernels \ {c} : counter'[u] = counter[u]
         /\ counter' \in [Kernels -> [device : 0 .. Modulus - 1, host : 0 .. Modulus - 1]]
<1> DEFINE Pair == [device : 0 .. Modulus - 1, host : 0 .. Modulus - 1]
           h == (counter[c].host + 1) % Modulus
<1>1. counter \in [Kernels -> Pair] /\ counter[c] \in Pair
      BY DEF ServiceInv, ServiceTypes
<1>2. h \in 0 .. Modulus - 1
      BY <1>1, NextCount
<1>3. counter' = [counter EXCEPT ![c].host = h]
      BY DEF HostArrives
<1> HIDE DEF h
<1>4. /\ counter'[c] = [counter[c] EXCEPT !.host = h]
      /\ \A u \in Kernels \ {c} : counter'[u] = counter[u]
      BY <1>1, <1>3
<1>5. counter'[c].host = h /\ counter'[c].device = counter[c].device /\ counter'[c] \in Pair
      BY <1>1, <1>2, <1>4
<1>6. counter' \in [Kernels -> Pair]
      BY <1>1, <1>3, <1>4, <1>5
<1>7. QED BY <1>4, <1>5, <1>6 DEF BothArrived, Ahead, h

(* try_arrive and the end of barrier.wait() keep the invariant. *)
LEMMA HostMovesKeep ==
  ASSUME ServiceInv, TryArrive \/ TryArriveFails \/ HostWaitReturns PROVE ServiceInv'
<1>1. PICK c \in Kernels : c = cur
      BY DEF ServiceInv, ServiceTypes
<1>2. UNCHANGED <<devvars, handled, open, impl, done_counter>>
      BY DEF TryArrive, TryArriveFails, HostWaitReturns
<1>3. chain \in BOOLEAN /\ (open # 0 => chain)
      BY DEF ServiceInv, HostSound, ServiceTypes, OpenHeld
<1>k. TurnOf(c) /\ ActedOn(c)
      BY DEF ServiceInv, KernelSound
<1>4. CASE TryArrive
  <2>1. hpc = "try" /\ hpc' = "serve" /\ cur' = cur /\ chain' = chain /\ HostArrives /\ ~BothArrived(c)
        BY <1>1, <1>4 DEF TryArrive
  <2>2. ~Busy(c) /\ Busy(c)' /\ \A u \in Kernels \ {c} : ~Busy(u)'
        BY <1>1, <2>1 DEF Busy
  <2>3. dpc[c] = "spin" /\ Ahead(c) /\ handled[c] = 0
        BY <1>k, <2>1, <2>2 DEF TurnOf, ActedOn
  <2>4. QED BY <1>1, <1>2, <1>3, <2>1, <2>2, <2>3, HostArrivesAt, HostMoves
<1>5. CASE TryArriveFails
  <2>1. hpc = "try" /\ chain' = chain /\ ~chain /\ counter' = counter /\ BothArrived(c) /\ NextTile
        BY <1>1, <1>5 DEF TryArriveFails
  <2>2. \A u \in Kernels : ~Busy(u) /\ ~Busy(u)'
        BY <2>1, NextTileMoves DEF Busy
  <2>3. /\ dpc[c] \notin {"arrive_again", "spin"} /\ BothArrived(c)'
        /\ dpc[c] = "arrive" => handled[c] = 0
        /\ dpc[c] = "spin_again" => handled[c] = 1
    <3>1. ~Ahead(c) /\ BothArrived(c)' /\ ~Busy(c)
          BY <2>1, <2>2, OneIsAhead DEF ServiceInv, BothArrived
    <3>2. QED BY <1>k, <3>1 DEF TurnOf, ActedOn
  <2>4. counter' \in [Kernels -> [device : 0 .. Modulus - 1, host : 0 .. Modulus - 1]]
        BY <2>1 DEF ServiceInv, ServiceTypes
  <2>5. QED BY <1>1, <1>2, <1>3, <2>1, <2>2, <2>3, <2>4, NextTileMoves, HostMoves
<1>6. CASE HostWaitReturns
  <2>1. hpc = "wait" /\ HostArrives /\ ~BothArrived(c)
        BY <1>1, <1>6 DEF HostWaitReturns
  <2>2. Busy(c) /\ dpc[c] = "spin_again" /\ Ahead(c) /\ handled[c] = 1
    <3>1. Busy(c)
          BY <1>1, <2>1 DEF Busy
    <3>2. QED BY <1>k, <2>1, <3>1 DEF TurnOf, ActedOn
  <2>3. \/ chain /\ hpc' = "try" /\ cur' = cur /\ chain' = chain
        \/ ~chain /\ NextTile /\ chain' = (impl = "rpc")
        BY <1>6 DEF HostWaitReturns
  <2>4. /\ hpc' \in {"try", "returned"} /\ cur' \in Kernels /\ chain' \in BOOLEAN
        /\ hpc' = "returned" => done_counter >= Sites
        /\ chain => cur' = cur /\ chain'
    <3>1. CASE chain
          BY <1>1, <1>3, <2>3, <3>1
    <3>2. CASE ~chain
      <4>1. NextTile /\ chain' = (impl = "rpc")
            BY <2>3, <3>2
      <4>2. chain' \in BOOLEAN
            BY <4>1
      <4>3. QED BY <3>2, <4>1, <4>2, NextTileMoves
    <3>3. QED BY <3>1, <3>2
  <2>5. \A u \in Kernels : ~Busy(u)'
        BY <2>4 DEF Busy
  <2>6. QED BY <1>1, <1>2, <1>3, <2>1, <2>2, <2>4, <2>5, HostArrivesAt, HostMoves
<1>7. QED BY <1>4, <1>5, <1>6

(* The host acts on the request of its tile. *)
LEMMA ServeKeeps == ASSUME ServiceInv, Serve PROVE ServiceInv'
<1>1. PICK c \in Kernels : c = cur
      BY DEF ServiceInv, ServiceTypes
<1> DEFINE r == record[c]
<1>2. /\ hpc = "serve" /\ hpc' \in {"wait", "stopped"} /\ cur' = cur
      /\ handled' = [handled EXCEPT ![c] = @ + 1]
      /\ UNCHANGED <<devvars, counter, impl>>
      BY <1>1 DEF Serve
<1>3. /\ Busy(c) /\ Busy(c)' /\ \A u \in Kernels \ {c} : ~Busy(u) /\ ~Busy(u)'
      BY <1>1, <1>2 DEF Busy
<1>k. TurnOf(c) /\ ActedOn(c) /\ CallSound(c) /\ RecordSound(c)
      BY DEF ServiceInv, KernelSound
<1>4. dpc[c] \in {"spin", "arrive_again", "spin_again"} /\ handled[c] = 0
      BY <1>2, <1>3, <1>k DEF TurnOf, ActedOn
<1>5. r \in RequestType /\ chain \in BOOLEAN /\ handled \in [Kernels -> 0 .. 1]
      BY DEF ServiceInv, ServiceTypes
<1>6. handled'[c] = 1 /\ \A u \in Kernels \ {c} : handled'[u] = handled[u]
      BY <1>2, <1>4, <1>5
<1>7. dpc' = dpc /\ call' = call /\ record' = record
      BY <1>2 DEF devvars
<1>8. ServiceTypes'
  <2>1. handled' \in [Kernels -> 0 .. 1]
        BY <1>2, <1>4, <1>5
  <2>2. chain' \in BOOLEAN
    <3>1. chain' = chain \/ chain' = r.chained
          BY <1>1 DEF Serve, ChainAfter
    <3>2. QED BY <1>5, <3>1 DEF RequestType
  <2>3. QED BY <1>2, <1>7, <2>1, <2>2 DEF ServiceInv, ServiceTypes
<1>9. \A u \in Kernels \ {c} : KernelSound(u)'
      BY <1>2, <1>3, <1>6, <1>7, NotServed
<1>10. TurnOf(c)'
  <2>1. (BothArrived(c)' <=> BothArrived(c)) /\ (Ahead(c)' <=> Ahead(c))
        BY <1>2 DEF BothArrived, Ahead
  <2>2. QED BY <1>3, <1>7, <1>k, <2>1 DEF TurnOf
<1>11. ActedOn(c)' /\ CallSound(c)' /\ RecordSound(c)'
      BY <1>2, <1>3, <1>6, <1>7, <1>k DEF ActedOn, CallSound, RecordSound
<1>12. /\ r.done <=> call[c].name = "done"
       /\ r.done => r.last
       /\ r.last \/ r.chained
      BY Zenon, <1>4, <1>k DEF RecordSound, Inside
<1>13. OpenHeld'
  <2>1. open' = (IF r.last THEN 0 ELSE c) /\ chain' = ChainAfter(r)
        BY <1>1 DEF Serve, Printed
  <2>2. CASE r.last
        BY <2>1, <2>2 DEF OpenHeld
  <2>3. CASE ~r.last
        BY <1>1, <1>2, <1>12, <2>1, <2>3 DEF OpenHeld, ChainAfter
  <2>4. QED BY <2>2, <2>3
<1>14. ReturnedDone'
      BY <1>2 DEF ReturnedDone
<1>15. DoneCounted'
  <2>1. done_counter' = done_counter + (IF r.done THEN 1 ELSE 0)
        BY <1>1 DEF Serve, DoneAfter
  <2>2. \A u \in Kernels \ {c} : DoneServed(u)' <=> DoneServed(u)
        BY <1>6, <1>7 DEF DoneServed
  <2>3. done_counter \in 0 .. Sites /\ Counts(GoingOn, Sites - done_counter) /\ Sites \in Nat
        BY ServiceAssumption DEF ServiceInv, HostSound, DoneCounted
  <2>4. CASE r.done
    <3>1. call[c].name = "done"
          BY <1>12, <2>4
    <3>2. ~DoneServed(c) /\ DoneServed(c)'
          BY <1>4, <1>6, <1>7, <3>1 DEF DoneServed
    <3>3. c \in GoingOn /\ GoingOn' = GoingOn \ {c}
          BY <2>2, <3>2 DEF GoingOn
    <3>4. Sites - done_counter \in Nat
          BY <2>3
    <3>5. Sites - done_counter >= 1 /\ Counts(GoingOn', (Sites - done_counter) - 1)
          BY <2>3, <3>3, <3>4, CountsOneLess
    <3>6. /\ done_counter' = done_counter + 1 /\ done_counter' \in 0 .. Sites
          /\ Sites - done_counter' = (Sites - done_counter) - 1
          BY <2>1, <2>3, <2>4, <3>5
    <3>7. QED BY <3>5, <3>6 DEF DoneCounted
  <2>5. CASE ~r.done
    <3>1. call[c].name # "done"
          BY <1>12, <2>5
    <3>2. DoneServed(c)' <=> DoneServed(c)
          BY <1>7, <3>1 DEF DoneServed
    <3>3. done_counter' = done_counter
          BY <2>1, <2>3, <2>5
    <3>4. QED BY <2>2, <3>2, <3>3, NoneEnds DEF ServiceInv, HostSound
  <2>6. QED BY <2>4, <2>5
<1>16. \A u \in Kernels : KernelSound(u)'
      BY <1>9, <1>10, <1>11 DEF KernelSound
<1>17. QED BY <1>8, <1>13, <1>14, <1>15, <1>16 DEF ServiceInv, HostSound

(* Before the first step no kernel calls and the host polls the first tile. *)
LEMMA ServiceInvInit == SvInit => ServiceInv
<1> SUFFICES ASSUME SvInit PROVE ServiceInv
    OBVIOUS
<1> USE DEF SvInit
<1>1. 1 \in Kernels /\ 0 \in 0 .. Modulus - 1
      BY ServiceAssumption DEF Kernels
<1>2. ServiceTypes
  <2>1. dpc \in [Kernels -> Inside \union Outside]
        BY DEF Outside
  <2>2. call \in [Kernels -> [name : Names, left : Nat, ok : BOOLEAN]]
        BY DEF Names
  <2>3. counter \in [Kernels -> [device : 0 .. Modulus - 1, host : 0 .. Modulus - 1]]
        BY <1>1
  <2>4. record \in [Kernels -> RequestType] /\ handled \in [Kernels -> 0 .. 1]
        BY DEF RequestType, NoRequest
  <2>5. chain \in BOOLEAN
        OBVIOUS
  <2>6. QED BY <1>1, <2>1, <2>2, <2>3, <2>4, <2>5 DEF ServiceTypes
<1>3. \A t \in Kernels : TurnOf(t) /\ ActedOn(t)
      BY DEF TurnOf, ActedOn, Busy, BothArrived
<1>4. \A t \in Kernels : CallSound(t) /\ RecordSound(t)
      BY DEF CallSound, RecordSound, Inside
<1>5. OpenHeld /\ ReturnedDone
      BY DEF OpenHeld, ReturnedDone
<1>6. DoneCounted
  <2>1. GoingOn = 1 .. Sites
        BY DEF GoingOn, DoneServed, Kernels
  <2>2. QED BY <2>1, CountsAll, ServiceAssumption DEF DoneCounted
<1>7. QED BY <1>2, <1>3, <1>4, <1>5, <1>6 DEF ServiceInv, HostSound, KernelSound

(* Every step of a kernel or of the host keeps the invariant. *)
LEMMA ServiceInvStep == ServiceInv /\ [SvNext]_svvars => ServiceInv'
<1>1. ASSUME ServiceInv, UNCHANGED svvars PROVE ServiceInv'
  <2>1. PICK t \in Kernels : t = cur
        BY <1>1 DEF ServiceInv, ServiceTypes
  <2>2. UNCHANGED <<impl, dpc, call, record, counter, handled, open, hpc, cur, chain, done_counter>>
        BY <1>1 DEF svvars, devvars, hostvars
  <2>3. ServiceTypes' /\ Others(t) /\ (DoneServed(t)' <=> DoneServed(t))
        BY <1>1, <2>2 DEF ServiceInv, ServiceTypes, Others, DoneServed
  <2>4. KernelSound(t)'
        BY Zenon, <1>1, <2>2 DEF ServiceInv, KernelSound, TurnOf, ActedOn, CallSound, RecordSound,
                          Busy, Ahead, BothArrived
  <2>5. QED BY <1>1, <2>2, <2>3, <2>4, OneKernelMoves DEF hostvars
<1>2. ASSUME ServiceInv, NEW t \in Kernels, KernelStep(t) PROVE ServiceInv'
      BY <1>2, CallsKeep, FillKeeps, ArriveKeeps, PerformKeeps DEF KernelStep
<1>3. ASSUME ServiceInv, HostStep PROVE ServiceInv'
      BY <1>3, HostMovesKeep, ServeKeeps DEF HostStep
<1>4. QED BY <1>1, <1>2, <1>3 DEF SvNext, SvEnded

(* What the run checks follows from the invariant. *)
LEMMA ServiceInvImplies == ServiceInv => ServedInTurn
<1> SUFFICES ASSUME ServiceInv PROVE ServedInTurn
    OBVIOUS
<1>1. SvTypeOK
  <2>1. done_counter \in 0 .. Sites
        BY DEF ServiceInv, HostSound, DoneCounted
  <2>2. handled \in [Kernels -> Nat]
        BY DEF ServiceInv, ServiceTypes
  <2>3. QED BY <2>1, <2>2 DEF SvTypeOK, ServiceInv, ServiceTypes
<1>2. AnsweredOnce
  <2>1. \A t \in Kernels : handled[t] <= 1
        BY DEF ServiceInv, ServiceTypes
  <2>2. ASSUME NEW t \in Kernels, dpc[t] = "spin_again", BothArrived(t) PROVE handled[t] = 1
    <3>1. TurnOf(t) /\ ActedOn(t) /\ ~Ahead(t)
          BY <2>2, OneIsAhead DEF ServiceInv, KernelSound
    <3>2. QED BY <2>2, <3>1 DEF TurnOf, ActedOn
  <2>3. ASSUME hpc = "serve" PROVE dpc[cur] \in {"spin", "arrive_again", "spin_again"}
    <3>1. cur \in Kernels /\ TurnOf(cur)
          BY DEF ServiceInv, ServiceTypes, KernelSound
    <3>2. QED BY <2>3, <3>1 DEF TurnOf, Busy
  <2>4. QED BY <2>1, <2>2, <2>3 DEF AnsweredOnce
<1>3. LogsNotInterleaved
      BY DEF ServiceInv, HostSound, OpenHeld, LogsNotInterleaved
<1>4. WaitAllWaits
  <2> SUFFICES ASSUME hpc = "returned", NEW t \in Kernels
               PROVE  dpc[t] = "halted" \/ call[t].name \in {"done", "exiting"}
      BY DEF WaitAllWaits
  <2>1. done_counter = Sites /\ Sites - done_counter = 0
        BY ServiceAssumption DEF ServiceInv, HostSound, ReturnedDone, DoneCounted
  <2>2. GoingOn = {}
        BY <2>1, CountsNone DEF ServiceInv, HostSound, DoneCounted
  <2>3. QED BY <2>2 DEF GoingOn, DoneServed
<1>5. QED BY <1>1, <1>2, <1>3, <1>4 DEF ServedInTurn

(* perform and wait_all, for any number of tiles, of calls and of items, counters of    *)
(* any width and both implementations: each request is acted on once before perform     *)
(* returns and never while it is written, the items of a log are printed together, and  *)
(* wait_all returns when every kernel has ended.                                        *)
THEOREM RequestsServedInTurn == SvSpec => []ServedInTurn
BY ServiceInvInit, ServiceInvStep, ServiceInvImplies, PTL DEF SvSpec

=============================================================================
