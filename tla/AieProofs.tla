----------------------------- MODULE AieProofs ------------------------------
(***************************************************************************)
(* Proofs about queue::submit on the AI Engine: the launch of kernels by   *)
(* the emulation (AieLaunch) and on hardware (AieExec), for any number of  *)
(* tiles, kernels and accesses.                                            *)
(***************************************************************************)
EXTENDS AieLaunch, AieExec, TLAPS

-----------------------------------------------------------------------------
(* AieLaunch.  The services exist exactly while the host is in wait_all, and *)
(* no kernel is past its wait for them before they were published.           *)

FiberStates == {"none", "submitted", "lock", "asleep", "ready", "done"}

LTypeOK == /\ lhost \in {"func", "notify", "wait", "gone"}
           /\ cursor \in 1 .. LaunchTiles + 1
           /\ launched \in [LTiles -> 0 .. MaxLaunches]
           /\ fiber \in [AllKernels -> FiberStates]

(* device_impl::services follows the step of the host *)
ServicesFollow == services = IF lhost = "func" THEN "none"
                             ELSE IF lhost = "gone" THEN "dead" ELSE "alive"

(* No kernel runs before the services are published *)
NoneAhead == services = "none" => \A k \in AllKernels : fiber[k] \notin {"ready", "done"}

(* The kernels of a tile are numbered in the order of their launch *)
LaunchedExist == \A t \in LTiles, n \in 1 .. MaxLaunches :
                   n > launched[t] => fiber[<<t, n>>] = "none"

(* wait_all has waited for the last kernel of every tile before the cursor *)
WaitedDone ==
  /\ lhost = "notify" => cursor = 1
  /\ lhost = "wait" => \A t \in LTiles : t < cursor => launched[t] > 0 /\ FutureDone(t)

LaunchInv == /\ LTypeOK /\ ServicesFollow /\ NoneAhead /\ LaunchedExist /\ WaitedDone
             /\ LaunchSound

(* Before the first launch no kernel exists and no service. *)
LEMMA LaunchInvInit == LInit => LaunchInv
<1> SUFFICES ASSUME LInit PROVE LaunchInv
    OBVIOUS
<1> USE LaunchAssumption DEF LInit
<1>1. LTypeOK
  <2>1. launched \in [LTiles -> 0 .. MaxLaunches] /\ fiber \in [AllKernels -> FiberStates]
        BY DEF FiberStates
  <2>2. QED BY <2>1 DEF LTypeOK
<1>2. ServicesFollow /\ NoneAhead /\ WaitedDone
      BY DEF ServicesFollow, NoneAhead, WaitedDone
<1>3. LaunchedExist
      BY DEF LaunchedExist, AllKernels
<1>4. LaunchSound
      BY DEF LaunchSound, ServicesAlive, WaitAllIsComplete
<1>5. QED BY Zenon, <1>1, <1>2, <1>3, <1>4 DEF LaunchInv

(* A step of the host keeps the invariant. *)
LEMMA LaunchHostStep == LaunchInv /\ (Execute \/ LaunchHost) => LaunchInv'
<1> SUFFICES ASSUME LaunchInv, Execute \/ LaunchHost PROVE LaunchInv'
    OBVIOUS
<1> USE LaunchAssumption
<1>1. CASE Execute
  <2> DEFINE n == launched[cursor] + 1
  <2>1. n \in 1 .. MaxLaunches /\ <<cursor, n>> \in AllKernels
        BY <1>1 DEF Execute, LaunchInv, LTypeOK, AllKernels, LTiles
  <2>2. /\ launched' = [launched EXCEPT ![cursor] = n]
        /\ fiber' = [fiber EXCEPT ![<<cursor, n>>] = "submitted"]
        /\ lhost = "func" /\ UNCHANGED <<lhost, cursor, services, broken>>
        BY <1>1 DEF Execute, FiberTo
  <2> HIDE DEF n
  <2>3. LTypeOK'
    <3>1. launched \in [LTiles -> 0 .. MaxLaunches] /\ fiber \in [AllKernels -> FiberStates]
          BY DEF LaunchInv, LTypeOK
    <3>2. launched' \in [LTiles -> 0 .. MaxLaunches]
      <4>1. n \in 0 .. MaxLaunches
            BY <2>1
      <4>2. QED BY Zenon, <2>2, <3>1, <4>1
    <3>3. fiber' \in [AllKernels -> FiberStates]
          BY <2>1, <2>2, <3>1 DEF FiberStates
    <3>4. QED BY <2>2, <3>2, <3>3 DEF LaunchInv, LTypeOK
  <2>4. ServicesFollow' /\ NoneAhead' /\ WaitedDone'
        BY <2>1, <2>2 DEF LaunchInv, LTypeOK, ServicesFollow, NoneAhead, WaitedDone
  <2>5. LaunchedExist'
    <3> SUFFICES ASSUME NEW t \in LTiles, NEW m \in 1 .. MaxLaunches, m > launched'[t]
                 PROVE fiber'[<<t, m>>] = "none"
        BY DEF LaunchedExist
    <3>1. m > launched[t] /\ <<t, m>> # <<cursor, n>> /\ <<t, m>> \in AllKernels
          BY <2>1, <2>2 DEF n, LaunchInv, LTypeOK, AllKernels
    <3>2. QED BY <2>2, <3>1 DEF LaunchInv, LTypeOK, LaunchedExist
  <2>6. LaunchSound'
        BY <2>2 DEF LaunchInv, LaunchSound, ServicesAlive, WaitAllIsComplete
  <2>7. QED BY <2>3, <2>4, <2>5, <2>6 DEF LaunchInv
<1>2. CASE FuncNext
      BY <1>2 DEF FuncNext, LaunchInv, LTypeOK, ServicesFollow, NoneAhead, LaunchedExist,
                  WaitedDone, LaunchSound, ServicesAlive, WaitAllIsComplete, LTiles
<1>3. CASE Publish
      BY <1>3 DEF Publish, LaunchInv, LTypeOK, ServicesFollow, NoneAhead, LaunchedExist,
                  WaitedDone, LaunchSound, ServicesAlive, WaitAllIsComplete, LTiles
<1>4. CASE NotifyAll
  <2>1. LTypeOK' /\ ServicesFollow' /\ NoneAhead'
        BY <1>4 DEF NotifyAll, LaunchInv, LTypeOK, ServicesFollow, NoneAhead, FiberStates
  <2>2. LaunchedExist'
        BY <1>4 DEF NotifyAll, LaunchInv, LaunchedExist, AllKernels
  <2>4. WaitedDone'
        BY <1>4 DEF NotifyAll, LaunchInv, WaitedDone, LTypeOK, LTiles
  <2>5. LaunchSound'
        BY <1>4 DEF NotifyAll, LaunchInv, LaunchSound, ServicesAlive, WaitAllIsComplete
  <2>6. QED BY <2>1, <2>2, <2>4, <2>5 DEF LaunchInv
<1>5. CASE WaitFuture
  <2>1. CASE cursor \in LTiles /\ launched[cursor] > 0
    <3>1. /\ lhost = "wait" /\ FutureDone(cursor) /\ cursor' = cursor + 1
          /\ UNCHANGED <<lhost, services, launched, fiber, broken>>
          BY <1>5, <2>1 DEF WaitFuture
    <3>2. WaitedDone'
      <4> SUFFICES ASSUME NEW t \in LTiles, t < cursor + 1
                   PROVE launched[t] > 0 /\ FutureDone(t)
          BY <3>1 DEF WaitedDone, FutureDone
      <4>1. t < cursor \/ t = cursor
            BY <2>1 DEF LTiles
      <4>2. QED BY <2>1, <3>1, <4>1 DEF LaunchInv, WaitedDone
    <3>3. QED BY <2>1, <3>1, <3>2
              DEF LaunchInv, LTypeOK, ServicesFollow, NoneAhead, LaunchedExist, LaunchSound,
                  ServicesAlive, WaitAllIsComplete, OneKernelEach, LTiles
  <2>2. CASE ~(cursor \in LTiles /\ launched[cursor] > 0)
    <3>1. /\ lhost = "wait" /\ lhost' = "gone" /\ services' = "dead"
          /\ UNCHANGED <<cursor, launched, fiber, broken>>
          BY <1>5, <2>2 DEF WaitFuture
    <3>2. OneKernelEach => \A t \in LTiles : FutureDone(t)
          BY <2>2, <3>1 DEF OneKernelEach, LaunchInv, LTypeOK, WaitedDone, LTiles
    <3>3. WaitAllIsComplete'
          BY <3>1, <3>2 DEF WaitAllIsComplete, OneKernelEach, FutureDone
    <3>4. ServicesAlive'
          BY <3>1 DEF LaunchInv, LaunchSound, ServicesAlive
    <3>5. QED BY <3>1, <3>3, <3>4
              DEF LaunchInv, LTypeOK, ServicesFollow, NoneAhead, LaunchedExist, WaitedDone, LaunchSound
  <2>3. QED BY <2>1, <2>2
<1>6. QED BY <1>1, <1>2, <1>3, <1>4, <1>5 DEF LaunchHost

(* A kernel that moves to state s: what each conjunct needs of the move. *)
LEMMA FiberMoves ==
  ASSUME LaunchInv, NEW k \in AllKernels, NEW s \in FiberStates \ {"none"}, FiberTo(k, s),
         fiber[k] \notin {"none", "done"}, s \in {"ready", "done"} => services # "none",
         UNCHANGED <<lhost, cursor, launched, services, broken>>
  PROVE  LaunchInv'
<1> USE LaunchAssumption
<1>1. fiber' = [fiber EXCEPT ![k] = s] /\ fiber \in [AllKernels -> FiberStates]
      BY DEF FiberTo, LaunchInv, LTypeOK
<1>2. LTypeOK' /\ ServicesFollow' /\ NoneAhead'
      BY <1>1 DEF LaunchInv, LTypeOK, ServicesFollow, NoneAhead
<1>3. \A j \in AllKernels : fiber[j] \in {"none", "done"} => fiber'[j] = fiber[j]
      BY <1>1
<1>4. LaunchedExist'
      BY <1>3 DEF LaunchInv, LaunchedExist, AllKernels
<1>5. \A t \in LTiles : launched[t] > 0 /\ FutureDone(t) => FutureDone(t)'
  <2> SUFFICES ASSUME NEW t \in LTiles, launched[t] > 0, FutureDone(t) PROVE FutureDone(t)'
      OBVIOUS
  <2>1. <<t, launched[t]>> \in AllKernels
        BY DEF LaunchInv, LTypeOK, AllKernels
  <2>2. QED BY <1>3, <2>1 DEF FutureDone
<1>6. WaitedDone'
      BY <1>5 DEF LaunchInv, WaitedDone
<1>7. LaunchSound'
  <2>1. ServicesAlive'
        BY DEF LaunchInv, LaunchSound, ServicesAlive, OneKernelEach
  <2>2. WaitAllIsComplete'
    <3> SUFFICES ASSUME lhost = "gone", OneKernelEach, NEW t \in LTiles
                 PROVE fiber'[<<t, 1>>] = "done"
        BY Zenon DEF WaitAllIsComplete, OneKernelEach
    <3>1. fiber[<<t, 1>>] = "done"
          BY DEF LaunchInv, LaunchSound, WaitAllIsComplete
    <3>2. 1 \in 1 .. MaxLaunches
          BY DEF OneKernelEach, LaunchInv, LTypeOK
    <3>3. <<t, 1>> \in AllKernels
          BY <3>2 DEF AllKernels
    <3>4. QED BY <1>3, <3>1, <3>3
  <2>3. QED BY <2>1, <2>2 DEF LaunchSound
<1>8. QED BY <1>2, <1>4, <1>6, <1>7 DEF LaunchInv

(* A step of a kernel keeps the invariant. *)
LEMMA LaunchFiberStep ==
  ASSUME LaunchInv, NEW k \in AllKernels, FiberStep(k) \/ PerformService(k) PROVE LaunchInv'
<1> USE DEF FiberStates
<1>1. CASE FiberStart(k)
      BY <1>1, FiberMoves DEF FiberStart
<1>2. CASE Recheck(k)
      BY <1>2, FiberMoves DEF Recheck
<1>3. CASE KernelEnds(k)
      BY <1>3, FiberMoves DEF KernelEnds, LaunchInv, NoneAhead
<1>4. CASE PerformService(k)
  <2>1. fiber[k] = "ready" /\ broken' = (broken \/ services # "alive")
        /\ UNCHANGED <<lhost, cursor, launched, fiber, services>>
        BY <1>4 DEF PerformService
  <2>2. services # "none"
        BY <2>1 DEF LaunchInv, NoneAhead
  <2>3. ASSUME lhost = "gone", OneKernelEach PROVE FALSE
    <3>1. PICK t \in LTiles, n \in 1 .. MaxLaunches : k = <<t, n>>
          BY DEF AllKernels
    <3>2. launched[t] = 1 /\ fiber[<<t, 1>>] = "done"
          BY <2>3 DEF OneKernelEach, LaunchInv, LaunchSound, WaitAllIsComplete
    <3>3. n # 1
          BY <2>1, <3>1, <3>2
    <3>4. fiber[<<t, n>>] = "none"
          BY <3>2, <3>3, LaunchAssumption DEF LaunchInv, LaunchedExist
    <3>5. QED BY <2>1, <3>1, <3>4
  <2>4. ServicesAlive'
        BY Zenon, <2>1, <2>2, <2>3
           DEF LaunchInv, LaunchSound, ServicesAlive, ServicesFollow, OneKernelEach
  <2>5. QED BY <2>1, <2>4
            DEF LaunchInv, LTypeOK, ServicesFollow, NoneAhead, LaunchedExist, WaitedDone,
                FutureDone, LaunchSound, WaitAllIsComplete, OneKernelEach
<1>5. QED BY <1>1, <1>2, <1>3, <1>4 DEF FiberStep

(* Every step keeps the invariant. *)
LEMMA LaunchInvStep == LaunchInv /\ [LNext]_lvars => LaunchInv'
<1>1. ASSUME LaunchInv, UNCHANGED lvars PROVE LaunchInv'
      BY <1>1 DEF lvars, LaunchInv, LTypeOK, ServicesFollow, NoneAhead, LaunchedExist, WaitedDone,
                  FutureDone, LaunchSound, ServicesAlive, WaitAllIsComplete, OneKernelEach
<1>2. QED BY <1>1, LaunchHostStep, LaunchFiberStep DEF LNext, Submitted

(* queue::submit of the emulation, for any number of tiles and of kernels: no kernel   *)
(* uses services that are not published, none uses them after wait_all if every tile   *)
(* has one kernel, and then wait_all has waited for all of them.                       *)
THEOREM KernelsFindServices == LSpec => []LaunchSound
<1>1. LaunchInv => LaunchSound
      BY DEF LaunchInv
<1>2. QED BY <1>1, LaunchInvInit, LaunchInvStep, PTL DEF LSpec

-----------------------------------------------------------------------------
(* AieExec.  The host starts the cores in the order of the tiles, each when  *)
(* everything is in its memory; a copy then belongs to the kernel of its     *)
(* tile, which fills it before it ends, and the copies go back one by one.   *)

\* The steps of the host for one tile, up to the start of its core
Ready == {"elf", "table", "heap", "lambda", "accessor", "mem", "run"}
CoreStates == {"stopped", "reset", "running", "stored", "done"}
AccessorRanges == {NoAccessor} \union {buffer_range(0, a[1], a[2], a[3]) : a \in Accesses}

ExecTypes ==
  /\ xpc \in Ready \union {"open", "exited", "func", "wait", "destroy", "closed"}
  /\ xcur \in XTiles /\ (xpc = "open" => xcur = 1)
  /\ core \in [XTiles -> CoreStates] /\ loaded \in [XTiles -> SUBSET Steps]
  /\ acc \in [XTiles -> AccessorRanges]
  /\ mem \in [XTiles -> {"old", "host", "kernel"}]
  /\ foreign \in [XTiles -> BOOLEAN] /\ stored \in [XTiles -> BOOLEAN]
  /\ DOMAIN copy = XTiles /\ copy = [t \in XTiles |-> copy[t]]

\* The tiles whose core the host has started
Started(t) == /\ xpc \notin {"open", "exited"}
              /\ xpc \in Ready \union {"func"} => t < xcur

(* The cores that are started have all they need, the others wait *)
CoresInOrder == \A t \in XTiles :
  /\ Started(t) => core[t] \in {"running", "stored", "done"} /\ loaded[t] = Steps
  /\ ~Started(t) => core[t] = IF xpc \in {"open", "exited"} THEN "stopped" ELSE "reset"

(* What the tile that is prepared has got so far *)
Loading == xpc \in Ready =>
  /\ xpc # "elf" => "elf" \in loaded[xcur]
  /\ xpc \notin {"elf", "table"} => "table" \in loaded[xcur]
  /\ xpc \notin {"elf", "table", "heap"} => "heap" \in loaded[xcur]
  /\ xpc \in {"accessor", "mem", "run"} => "lambda" \in loaded[xcur]
  /\ xpc \in {"mem", "run"} => "accessor" \in loaded[xcur]
  /\ xpc = "run" => "mem" \in loaded[xcur]

KernelsEnded == xpc \in {"destroy", "closed"} => \A t \in XTiles : core[t] = "done"

(* From the last transfer on, what is stored in a memory tile stays *)
StoresKept == \A t \in XTiles :
  /\ xpc \in {"open", "exited"} => ~stored[t]
  /\ Started(t) \/ (t = xcur /\ xpc = "run") => (stored[t] /\ ~foreign[t] => mem[t] = "kernel")

(* A copy has the size of its accessor, and a kernel that has stored fills it *)
CopiesFilled == \A t \in XTiles :
  /\ Started(t) \/ (t = xcur /\ xpc \in {"mem", "run"}) => DOMAIN copy[t] = 0 .. acc[t].size - 1
  /\ core[t] \in {"stored", "done"} => \A k \in DOMAIN copy[t] : copy[t][k] = t

\* The tiles whose copy is back in the buffer
Copied(t) == xpc = "closed" \/ (xpc = "destroy" /\ t > xcur)
Declared(t, e) == e \in DOMAIN write_back(acc[t])

(* An element has its first value or that of a tile that declared to write it *)
WrittenSoFar == \A e \in Elements :
  \/ buff[e] = Original /\ \A t \in XTiles : Copied(t) => ~Declared(t, e)
  \/ buff[e] \in XTiles /\ Copied(buff[e]) /\ Declared(buff[e], e)

ExecInv == /\ ExecTypes /\ CoresInOrder /\ Loading /\ KernelsEnded /\ StoresKept
           /\ CopiesFilled /\ WrittenSoFar

(* buffer_range and write_lambda, for all ranges: an accessor writes back exactly its   *)
(* write range, each element from its own place in the copy sent to the device, and     *)
(* the copy holds the read range.                                                       *)
LEMMA WriteBackRange ==
  ASSUME NEW start_read \in Nat, NEW end_read \in Nat, NEW start_write \in Nat, NEW end_write \in Nat
  PROVE  LET range == buffer_range(start_read, end_read, start_write, end_write)
             back == write_back(range)
         IN /\ DOMAIN back = start_write .. end_write - 1
            /\ \A e \in DOMAIN back : back[e] \in 0 .. range.size - 1 /\ range.data + back[e] = e
            /\ start_read .. end_read - 1 \subseteq range.data .. range.data + range.size - 1
<1> DEFINE range == buffer_range(start_read, end_read, start_write, end_write)
           back == write_back(range)
<1>1. /\ range.data \in Nat /\ range.data <= start_read /\ range.data <= start_write
      /\ range.size \in Int
      /\ range.data + range.size >= end_read /\ range.data + range.size >= end_write
      /\ range.write_back_start = start_write - range.data
      /\ range.write_back_size = end_write - start_write
      BY DEF buffer_range
<1> HIDE DEF range
<1>2. DOMAIN back = start_write .. end_write - 1
      BY <1>1 DEF write_back
<1>3. \A e \in DOMAIN back : back[e] = e - range.data
      BY DEF write_back
<1> HIDE DEF back
<1>4. ASSUME NEW e \in DOMAIN back
      PROVE  back[e] \in 0 .. range.size - 1 /\ range.data + back[e] = e
  <2>1. e \in start_write .. end_write - 1 /\ back[e] = e - range.data
        BY <1>2, <1>3
  <2>2. QED BY <1>1, <2>1
<1>5. start_read .. end_read - 1 \subseteq range.data .. range.data + range.size - 1
      BY <1>1
<1>6. QED BY <1>2, <1>4, <1>5 DEF back, range

(* What is written back of the accessor of a kernel is in its copy. *)
LEMMA BackIndex ==
  ASSUME NEW a \in AccessorRanges, NEW e \in DOMAIN write_back(a)
  PROVE  write_back(a)[e] \in 0 .. a.size - 1
<1>1. CASE a = NoAccessor
      BY <1>1, WriteBackRange DEF NoAccessor
<1>2. ASSUME NEW b \in Accesses, a = buffer_range(0, b[1], b[2], b[3])
      PROVE  write_back(a)[e] \in 0 .. a.size - 1
  <2>1. b[1] \in Nat /\ b[2] \in Nat /\ b[3] \in Nat
        BY ExecAssumption
  <2>2. QED BY Zenon, <1>2, <2>1, WriteBackRange
<1>3. QED BY <1>1, <1>2 DEF AccessorRanges

(* The order of the transfers. *)
LEMMA AfterIs ==
  /\ After("elf") = "table" /\ After("table") = "heap" /\ After("heap") = "lambda"
  /\ After("lambda") = "accessor" /\ After("accessor") = "mem" /\ After("mem") = "run"
  /\ After("run") = "func"
BY DEF After

(* The initial state. *)
LEMMA ExecInvInit == XInit => ExecInv
<1> SUFFICES ASSUME XInit PROVE ExecInv
    OBVIOUS
<1> USE DEF XInit
<1>1. 1 \in XTiles
      BY ExecAssumption DEF XTiles
<1>2. ExecTypes
      BY <1>1 DEF ExecTypes, CoreStates, AccessorRanges
<1>3. CoresInOrder /\ Loading /\ KernelsEnded
      BY DEF CoresInOrder, Loading, KernelsEnded, Started, Ready
<1>4. StoresKept /\ CopiesFilled
      BY DEF StoresKept, CopiesFilled, Started
<1>5. WrittenSoFar
      BY DEF WrittenSoFar, Copied
<1>6. QED BY <1>2, <1>3, <1>4, <1>5 DEF ExecInv

(* The device is opened, or not. *)
LEMMA OpenKeeps == ASSUME ExecInv, OpenFails \/ Opens PROVE ExecInv'
<1>1. CASE OpenFails
  <2>1. /\ xpc = "open" /\ xpc' \in {"open", "exited"}
        /\ UNCHANGED <<xcur, core, loaded, acc, copy, mem, notified, foreign, stored, buff>>
        BY <1>1 DEF OpenFails
  <2>2. QED BY <2>1 DEF ExecInv, ExecTypes, CoresInOrder, Loading, KernelsEnded, StoresKept,
                        CopiesFilled, WrittenSoFar, Started, Copied, Declared, Ready
<1>2. CASE Opens
  <2>1. /\ xpc = "open" /\ xpc' = "func" /\ xcur = 1 /\ core' = [t \in XTiles |-> "reset"]
        /\ UNCHANGED <<xcur, loaded, acc, copy, mem, notified, foreign, stored, buff>>
        BY <1>2 DEF Opens, ExecInv, ExecTypes
  <2>2. \A t \in XTiles : ~Started(t)'
        BY <2>1, ExecAssumption DEF Started, XTiles
  <2>3. ExecTypes'
        BY <2>1 DEF ExecInv, ExecTypes, CoreStates
  <2>4. CoresInOrder' /\ Loading' /\ KernelsEnded'
        BY <2>1, <2>2 DEF CoresInOrder, Loading, KernelsEnded, Ready
  <2>5. StoresKept' /\ CopiesFilled'
        BY <2>1, <2>2 DEF StoresKept, CopiesFilled
  <2>6. WrittenSoFar'
        BY <2>1 DEF ExecInv, WrittenSoFar, Copied, Declared
  <2>7. QED BY <2>3, <2>4, <2>5, <2>6 DEF ExecInv
<1>3. QED BY <1>1, <1>2

(* While a tile is prepared its core waits, and nothing goes back to the buffer. *)
LEMMA Preparing ==
  ASSUME ExecInv, xpc \in Ready \union {"func"}
  PROVE  /\ xcur \in XTiles /\ core[xcur] = "reset" /\ ~Started(xcur)
         /\ \A t \in XTiles : ~Copied(t)
BY ExecAssumption DEF ExecInv, ExecTypes, CoresInOrder, Started, Copied, XTiles, Ready

(* func touches the memory tile, or constructs its accessor and its kernel. *)
LEMMA FuncKeeps == ASSUME ExecInv, AccessMem \/ \E a \in Accesses : SingleTask(a) PROVE ExecInv'
<1>1. CASE AccessMem
      BY <1>1 DEF AccessMem, ExecInv, ExecTypes, CoresInOrder, Loading, KernelsEnded, StoresKept,
                  CopiesFilled, WrittenSoFar, Started, Copied, Declared
<1>2. ASSUME NEW a \in Accesses, SingleTask(a) PROVE ExecInv'
  <2> DEFINE r == buffer_range(0, a[1], a[2], a[3])
  <2>1. /\ xpc = "func" /\ xpc' = "elf" /\ acc' = [acc EXCEPT ![xcur] = r]
        /\ UNCHANGED <<xcur, core, loaded, copy, mem, foreign, stored, buff>>
        BY <1>2 DEF SingleTask
  <2>2. r \in AccessorRanges
        BY DEF AccessorRanges
  <2> HIDE DEF r
  <2>3. acc \in [XTiles -> AccessorRanges] /\ xcur \in XTiles
        BY DEF ExecInv, ExecTypes
  <2>4. acc' \in [XTiles -> AccessorRanges] /\ \A t \in XTiles \ {xcur} : acc'[t] = acc[t]
        BY <2>1, <2>2, <2>3
  <2>5. ~Started(xcur) /\ \A t \in XTiles : Started(t)' = Started(t) /\ ~Copied(t) /\ ~Copied(t)'
        BY <2>1, Preparing DEF Started, Copied, Ready
  <2>6. ExecTypes'
        BY <2>1, <2>4 DEF ExecInv, ExecTypes, Ready
  <2>7. CoresInOrder' /\ Loading' /\ KernelsEnded' /\ StoresKept'
        BY <2>1, <2>5 DEF ExecInv, CoresInOrder, Loading, KernelsEnded, StoresKept
  <2>8. CopiesFilled'
    <3>1. \A t \in XTiles : Started(t) => t # xcur
          BY <2>5
    <3>2. QED BY <2>1, <2>4, <2>5, <3>1 DEF ExecInv, CopiesFilled
  <2>9. WrittenSoFar'
        BY <2>1, <2>5 DEF ExecInv, WrittenSoFar
  <2>10. QED BY <2>6, <2>7, <2>8, <2>9 DEF ExecInv
<1>3. QED BY <1>1, <1>2

(* A transfer other than the start of the core: one more item is in the tile. *)
LEMMA Transferred ==
  ASSUME ExecInv, NEW step \in Steps, xpc = step, NextTileAfter(step),
         loaded' = [loaded EXCEPT ![xcur] = @ \union {step}],
         UNCHANGED <<core, acc, stored, buff>>,
         mem' \in [XTiles -> {"old", "host", "kernel"}], foreign' \in [XTiles -> BOOLEAN],
         DOMAIN copy' = XTiles, copy' = [t \in XTiles |-> copy'[t]]
  PROVE  /\ xpc' = After(step) /\ xcur' = xcur
         /\ ~Started(xcur) /\ core[xcur] = "reset"
         /\ \A t \in XTiles : Started(t)' = Started(t)
         /\ ExecTypes' /\ CoresInOrder' /\ Loading' /\ KernelsEnded' /\ WrittenSoFar'
<1>1. xpc' = After(step) /\ xcur' = xcur /\ xpc' \in Ready
      BY AfterIs DEF NextTileAfter, Steps, Ready
<1>2. ~Started(xcur) /\ core[xcur] = "reset" /\ xcur \in XTiles /\ \A t \in XTiles : ~Copied(t)
      BY Preparing DEF Steps, Ready
<1>3. \A t \in XTiles : Started(t)' = Started(t) /\ ~Copied(t)'
      BY <1>1 DEF Started, Copied, Steps, Ready
<1>4. loaded \in [XTiles -> SUBSET Steps]
      BY DEF ExecInv, ExecTypes
<1>5. /\ loaded' \in [XTiles -> SUBSET Steps] /\ loaded'[xcur] = loaded[xcur] \union {step}
      /\ \A t \in XTiles \ {xcur} : loaded'[t] = loaded[t]
      BY <1>2, <1>4
<1>6. ExecTypes'
      BY <1>1, <1>5 DEF ExecInv, ExecTypes, Ready
<1>7. CoresInOrder'
      BY <1>1, <1>2, <1>3, <1>5 DEF ExecInv, CoresInOrder, Steps, Ready
<1>8. Loading'
      BY <1>1, <1>5, AfterIs DEF ExecInv, Loading, Steps, Ready
<1>9. KernelsEnded' /\ WrittenSoFar'
      BY <1>1, <1>2, <1>3 DEF ExecInv, KernelsEnded, WrittenSoFar, Ready
<1>10. QED BY <1>1, <1>2, <1>3, <1>6, <1>7, <1>8, <1>9

(* The transfers into the tile. *)
LEMMA TransfersKeep ==
  ASSUME ExecInv, (\E step \in Steps : Transfer(step)) \/ WriteAccessor \/ SendMem PROVE ExecInv'
<1>0. /\ mem \in [XTiles -> {"old", "host", "kernel"}] /\ foreign \in [XTiles -> BOOLEAN]
      /\ DOMAIN copy = XTiles /\ copy = [t \in XTiles |-> copy[t]] /\ xcur \in XTiles
      /\ stored \in [XTiles -> BOOLEAN]
      BY DEF ExecInv, ExecTypes
<1>1. ASSUME NEW step \in Steps, Transfer(step) PROVE ExecInv'
  <2>1. /\ xpc = step /\ step \in {"elf", "table", "heap", "lambda"} /\ NextTileAfter(step)
        /\ loaded' = [loaded EXCEPT ![xcur] = @ \union {step}]
        /\ UNCHANGED <<core, acc, copy, mem, foreign, stored, buff>>
        BY <1>1 DEF Transfer
  <2>2. /\ xpc' = After(step) /\ xcur' = xcur /\ \A t \in XTiles : Started(t)' = Started(t)
        /\ ExecTypes' /\ CoresInOrder' /\ Loading' /\ KernelsEnded' /\ WrittenSoFar'
        BY Zenon, <1>0, <2>1, Transferred
  <2>3. xpc' \notin {"mem", "run", "open", "exited"}
        BY <2>1, <2>2, AfterIs
  <2>4. StoresKept' /\ CopiesFilled'
        BY <2>1, <2>2, <2>3 DEF ExecInv, StoresKept, CopiesFilled
  <2>5. QED BY <2>2, <2>4 DEF ExecInv
<1>2. CASE WriteAccessor
  <2> DEFINE written == [k \in 0 .. acc[xcur].size - 1 |-> buff[acc[xcur].data + k]]
  <2>1. /\ xpc = "accessor" /\ NextTileAfter("accessor")
        /\ loaded' = [loaded EXCEPT ![xcur] = @ \union {"accessor"}]
        /\ copy' = [copy EXCEPT ![xcur] = written]
        /\ UNCHANGED <<core, acc, mem, foreign, stored, buff>>
        BY <1>2 DEF WriteAccessor
  <2>2. DOMAIN written = 0 .. acc[xcur].size - 1
        OBVIOUS
  <2> HIDE DEF written
  <2>3. /\ DOMAIN copy' = XTiles /\ copy' = [t \in XTiles |-> copy'[t]] /\ copy'[xcur] = written
        /\ \A t \in XTiles \ {xcur} : copy'[t] = copy[t]
        BY <1>0, <2>1
  <2>4. /\ xpc' = "mem" /\ xcur' = xcur /\ \A t \in XTiles : Started(t)' = Started(t)
        /\ ~Started(xcur) /\ core[xcur] = "reset"
        /\ ExecTypes' /\ CoresInOrder' /\ Loading' /\ KernelsEnded' /\ WrittenSoFar'
        BY <1>0, <2>1, <2>3, Transferred, AfterIs DEF Steps
  <2>5. StoresKept'
        BY <2>1, <2>4 DEF ExecInv, StoresKept
  <2>6. CopiesFilled'
        BY <2>1, <2>2, <2>3, <2>4 DEF ExecInv, CopiesFilled
  <2>7. QED BY <2>4, <2>5, <2>6 DEF ExecInv
<1>3. CASE SendMem
  <2>1. /\ xpc = "mem" /\ NextTileAfter("mem")
        /\ loaded' = [loaded EXCEPT ![xcur] = @ \union {"mem"}]
        /\ mem' = IF notified[xcur] THEN [mem EXCEPT ![xcur] = "host"] ELSE mem
        /\ foreign' = [foreign EXCEPT ![xcur] = stored[xcur] /\ core[xcur] = "reset"]
        /\ UNCHANGED <<core, acc, copy, stored, buff>>
        BY <1>3 DEF SendMem
  <2>2. core[xcur] = "reset"
        BY <2>1, Preparing DEF Ready
  <2>3. foreign' = [foreign EXCEPT ![xcur] = stored[xcur]]
        BY Zenon, <1>0, <2>1, <2>2
  <2>4. /\ mem' \in [XTiles -> {"old", "host", "kernel"}]
        /\ \A t \in XTiles \ {xcur} : mem'[t] = mem[t]
        BY <1>0, <2>1
  <2>5. foreign' \in [XTiles -> BOOLEAN] /\ foreign'[xcur] = stored[xcur]
        /\ \A t \in XTiles \ {xcur} : foreign'[t] = foreign[t]
        BY <1>0, <2>3
  <2>6. /\ xpc' = "run" /\ xcur' = xcur /\ \A t \in XTiles : Started(t)' = Started(t)
        /\ ~Started(xcur)
        /\ ExecTypes' /\ CoresInOrder' /\ Loading' /\ KernelsEnded' /\ WrittenSoFar'
        BY <1>0, <2>1, <2>4, <2>5, Transferred, AfterIs DEF Steps
  <2>7. StoresKept'
    <3> SUFFICES ASSUME NEW t \in XTiles, Started(t) \/ t = xcur, stored[t], ~foreign'[t]
                 PROVE  mem'[t] = "kernel"
        BY <2>1, <2>6 DEF StoresKept
    <3>1. t # xcur
          BY <2>5
    <3>2. QED BY <2>4, <2>5, <3>1 DEF ExecInv, StoresKept
  <2>8. CopiesFilled'
        BY <2>1, <2>6 DEF ExecInv, CopiesFilled
  <2>9. QED BY <2>6, <2>7, <2>8 DEF ExecInv
<1>4. QED BY <1>1, <1>2, <1>3

(* core_run: the tile is complete, and the host turns to the next one. *)
LEMMA CoreRunKeeps == ASSUME ExecInv, CoreRun PROVE ExecInv'
<1>1. PICK c \in XTiles : c = xcur
      BY DEF ExecInv, ExecTypes
<1>2. /\ xpc = "run" /\ core' = [core EXCEPT ![c] = "running"]
      /\ UNCHANGED <<loaded, acc, copy, mem, foreign, stored, buff>>
      BY <1>1 DEF CoreRun
<1>3. /\ ~Started(c) /\ core[c] = "reset" /\ \A t \in XTiles : ~Copied(t)
      /\ loaded[c] = Steps /\ core \in [XTiles -> CoreStates]
  <2>1. loaded[c] \in SUBSET Steps /\ core \in [XTiles -> CoreStates]
        BY DEF ExecInv, ExecTypes
  <2>2. Steps \subseteq loaded[c]
        BY <1>1, <1>2 DEF ExecInv, Loading, Steps, Ready
  <2>3. QED BY Zenon, <1>1, <1>2, <2>1, <2>2, Preparing DEF Ready
<1>4. \/ c < ExecTiles /\ xpc' = "func" /\ xcur' = c + 1
      \/ c = ExecTiles /\ xpc' = "wait" /\ xcur' = 1
      BY <1>1, AfterIs, ExecAssumption DEF CoreRun, NextTileAfter, XTiles
<1>5. xcur' \in XTiles
      BY <1>4, ExecAssumption DEF XTiles
<1>6. \A t \in XTiles : Started(t)' <=> Started(t) \/ t = c
      BY <1>1, <1>2, <1>4, ExecAssumption DEF Started, XTiles, Ready
<1>7. /\ core' \in [XTiles -> CoreStates] /\ core'[c] = "running"
      /\ \A t \in XTiles \ {c} : core'[t] = core[t]
      BY <1>2, <1>3 DEF CoreStates
<1>8. ExecTypes'
      BY <1>2, <1>4, <1>5, <1>7 DEF ExecInv, ExecTypes
<1>9. CoresInOrder'
      BY <1>2, <1>3, <1>4, <1>6, <1>7 DEF ExecInv, CoresInOrder
<1>10. Loading' /\ KernelsEnded'
      BY <1>4 DEF Loading, KernelsEnded, Ready
<1>11. StoresKept'
      BY <1>1, <1>2, <1>4, <1>6 DEF ExecInv, StoresKept
<1>12. CopiesFilled'
      BY <1>1, <1>2, <1>3, <1>4, <1>6, <1>7 DEF ExecInv, CopiesFilled
<1>13. WrittenSoFar'
      BY <1>2, <1>3, <1>4 DEF ExecInv, WrittenSoFar, Copied
<1>14. QED BY <1>8, <1>9, <1>10, <1>11, <1>12, <1>13 DEF ExecInv

(* The kernel of a tile that is started. *)
LEMMA KernelKeeps ==
  ASSUME ExecInv, NEW t \in XTiles,
         \/ KernelStoresCopy(t) \/ CoreEnds(t)
         \/ \E u \in XTiles : KernelStoresMem(t, u)
  PROVE  ExecInv'
<1>1. /\ UNCHANGED <<xpc, xcur, loaded, acc, foreign, buff>>
      /\ \A u \in XTiles : Started(u)' = Started(u) /\ Copied(u)' = Copied(u)
      /\ \A u \in XTiles, e \in Elements : Declared(u, e)' = Declared(u, e)
      BY DEF KernelStoresCopy, CoreEnds, KernelStoresMem, Started, Copied, Declared
<1>2. /\ core \in [XTiles -> CoreStates] /\ mem \in [XTiles -> {"old", "host", "kernel"}]
      /\ stored \in [XTiles -> BOOLEAN] /\ DOMAIN copy = XTiles /\ copy = [u \in XTiles |-> copy[u]]
      BY DEF ExecInv, ExecTypes
<1>3. /\ Started(t) /\ core[t] \in {"running", "stored"}
      /\ xpc \notin {"open", "exited", "destroy", "closed"}
      BY DEF Started, KernelStoresCopy, CoreEnds, KernelStoresMem, ExecInv, CoresInOrder, KernelsEnded
<1>4. Loading' /\ KernelsEnded' /\ WrittenSoFar'
      BY <1>1, <1>3 DEF ExecInv, Loading, KernelsEnded, WrittenSoFar
<1>5. ASSUME NEW s \in {"stored", "done"}, core' = [core EXCEPT ![t] = s]
      PROVE  /\ core' \in [XTiles -> CoreStates] /\ core'[t] = s
             /\ \A u \in XTiles \ {t} : core'[u] = core[u]
             /\ CoresInOrder'
  <2>1. /\ core' \in [XTiles -> CoreStates] /\ core'[t] = s
        /\ \A u \in XTiles \ {t} : core'[u] = core[u]
        BY <1>2, <1>5 DEF CoreStates
  <2>2. QED BY Zenon, <1>1, <1>3, <2>1 DEF ExecInv, CoresInOrder
<1>6. CASE KernelStoresCopy(t)
  <2> DEFINE full == [k \in DOMAIN copy[t] |-> t]
  <2>1. /\ copy' = [copy EXCEPT ![t] = full] /\ core' = [core EXCEPT ![t] = "stored"]
        /\ UNCHANGED <<mem, stored>>
        BY <1>6 DEF KernelStoresCopy
  <2>2. DOMAIN full = DOMAIN copy[t] /\ \A k \in DOMAIN full : full[k] = t
        OBVIOUS
  <2> HIDE DEF full
  <2>3. /\ DOMAIN copy' = XTiles /\ copy' = [u \in XTiles |-> copy'[u]] /\ copy'[t] = full
        /\ \A u \in XTiles \ {t} : copy'[u] = copy[u]
        BY <1>2, <2>1
  <2>4. ExecTypes'
        BY <1>1, <1>5, <2>1, <2>3 DEF ExecInv, ExecTypes
  <2>5. StoresKept'
        BY Zenon, <1>1, <2>1 DEF ExecInv, StoresKept
  <2>6. CopiesFilled'
        BY <1>1, <1>5, <2>1, <2>2, <2>3 DEF ExecInv, CopiesFilled
  <2>7. QED BY <1>4, <1>5, <2>1, <2>4, <2>5, <2>6 DEF ExecInv
<1>7. CASE CoreEnds(t)
  <2>1. core[t] = "stored" /\ core' = [core EXCEPT ![t] = "done"] /\ UNCHANGED <<copy, mem, stored>>
        BY <1>7 DEF CoreEnds
  <2>2. ExecTypes'
        BY <1>1, <1>5, <2>1 DEF ExecInv, ExecTypes
  <2>3. StoresKept'
        BY Zenon, <1>1, <2>1 DEF ExecInv, StoresKept
  <2>4. CopiesFilled'
        BY <1>1, <1>5, <2>1 DEF ExecInv, CopiesFilled
  <2>5. QED BY <1>4, <1>5, <2>1, <2>2, <2>3, <2>4 DEF ExecInv
<1>8. ASSUME NEW u \in XTiles, KernelStoresMem(t, u) PROVE ExecInv'
  <2>1. /\ mem' = [mem EXCEPT ![u] = "kernel"] /\ stored' = [stored EXCEPT ![u] = TRUE]
        /\ UNCHANGED <<core, copy>>
        BY <1>8 DEF KernelStoresMem
  <2>2. /\ mem' \in [XTiles -> {"old", "host", "kernel"}] /\ stored' \in [XTiles -> BOOLEAN]
        /\ mem'[u] = "kernel"
        /\ \A v \in XTiles \ {u} : mem'[v] = mem[v] /\ stored'[v] = stored[v]
        BY <1>2, <2>1
  <2>3. ExecTypes'
        BY <1>1, <2>1, <2>2 DEF ExecInv, ExecTypes
  <2>4. CoresInOrder' /\ CopiesFilled'
        BY Zenon, <1>1, <2>1 DEF ExecInv, CoresInOrder, CopiesFilled
  <2>5. StoresKept'
        BY Zenon, <1>1, <1>3, <2>2 DEF ExecInv, StoresKept
  <2>6. QED BY <1>4, <2>3, <2>4, <2>5 DEF ExecInv
<1>9. QED BY <1>6, <1>7, <1>8

(* wait_all, and the destruction of the tiles with the write-back of their copies. *)
LEMMA DestroyKeeps == ASSUME ExecInv, WaitAll \/ WriteBackTile PROVE ExecInv'
<1>1. PICK c \in XTiles : c = xcur
      BY DEF ExecInv, ExecTypes
<1>2. /\ UNCHANGED <<core, loaded, acc, copy, mem, foreign, stored>>
      /\ xpc \in {"wait", "destroy"} /\ xpc' \in {"destroy", "closed"} /\ xcur' \in XTiles
      /\ \A t \in XTiles : Started(t)' /\ Started(t)
      BY <1>1, ExecAssumption DEF WaitAll, WriteBackTile, Started, XTiles, Ready
<1>3. ExecTypes' /\ CoresInOrder' /\ Loading'
      BY <1>2 DEF ExecInv, ExecTypes, CoresInOrder, Loading, Ready
<1>4. KernelsEnded'
      BY <1>2 DEF WaitAll, AllEnded, WriteBackTile, ExecInv, KernelsEnded
<1>5. StoresKept' /\ CopiesFilled'
      BY <1>2 DEF ExecInv, StoresKept, CopiesFilled
<1>6. \A t \in XTiles, e \in Elements : Declared(t, e)' = Declared(t, e)
      BY <1>2 DEF Declared
<1>7. WrittenSoFar'
  <2>1. CASE WaitAll
    <3>1. /\ buff' = buff /\ \A t \in XTiles : ~Copied(t) /\ ~Copied(t)'
          BY <2>1, ExecAssumption DEF WaitAll, Copied, XTiles
    <3>2. QED BY <1>6, <3>1 DEF ExecInv, WrittenSoFar
  <2>2. CASE WriteBackTile
    <3>1. /\ xpc = "destroy" /\ buff' = CopiedBack(acc[c], copy[c])
          /\ \A t \in XTiles : Copied(t)' <=> Copied(t) \/ t = c
          BY <1>1, <2>2, ExecAssumption DEF WriteBackTile, Copied, XTiles
    <3>2. /\ DOMAIN copy[c] = 0 .. acc[c].size - 1 /\ acc[c] \in AccessorRanges
          /\ \A k \in DOMAIN copy[c] : copy[c][k] = c
          BY <1>2, <3>1 DEF ExecInv, ExecTypes, KernelsEnded, CopiesFilled
    <3> SUFFICES ASSUME NEW e \in Elements
                 PROVE  \/ buff'[e] = Original /\ \A t \in XTiles : Copied(t)' => ~Declared(t, e)
                        \/ \E t \in XTiles : buff'[e] = t /\ Copied(t)' /\ Declared(t, e)
      <4>1. WrittenSoFar' <=> \A d \in Elements :
              \/ buff'[d] = Original /\ \A t \in XTiles : Copied(t)' => ~Declared(t, d)'
              \/ \E t \in XTiles : buff'[d] = t /\ Copied(t)' /\ Declared(t, d)'
            BY DEF WrittenSoFar, Copied, Declared
      <4>2. QED BY <1>6, <4>1
    <3>3. CASE Declared(c, e)
      <4>1. buff'[e] = copy[c][write_back(acc[c])[e]]
            BY <3>1, <3>3, Zenon DEF CopiedBack, Declared
      <4>2. write_back(acc[c])[e] \in DOMAIN copy[c]
            BY <3>2, <3>3, BackIndex DEF Declared
      <4>3. buff'[e] = c
            BY <3>2, <4>1, <4>2
      <4>4. QED BY <3>1, <3>3, <4>3
    <3>4. CASE ~Declared(c, e)
      <4>1. buff'[e] = buff[e]
            BY <3>1, <3>4, Zenon DEF CopiedBack, Declared
      <4>2. QED BY <3>1, <3>4, <4>1 DEF ExecInv, WrittenSoFar
    <3>5. QED BY <3>3, <3>4
  <2>3. QED BY <2>1, <2>2
<1>8. QED BY <1>3, <1>4, <1>5, <1>7 DEF ExecInv

(* Every step keeps the invariant. *)
LEMMA ExecInvStep == ExecInv /\ [XNext]_xvars => ExecInv'
<1>1. ASSUME ExecInv, UNCHANGED xvars PROVE ExecInv'
      BY <1>1 DEF xvars, ExecInv, ExecTypes, CoresInOrder, Loading, KernelsEnded, StoresKept,
                  CopiesFilled, WrittenSoFar, Started, Copied, Declared
<1>2. QED BY <1>1, OpenKeeps, FuncKeeps, TransfersKeep, CoreRunKeeps, KernelKeeps, DestroyKeeps
          DEF XNext, XDone

(* What the run checks follows from the invariant. *)
LEMMA ExecInvImplies == ExecInv => ResultsSound
<1> SUFFICES ASSUME ExecInv PROVE ResultsSound
    OBVIOUS
<1>1. CoresStartComplete
      BY DEF ExecInv, CoresInOrder, CoresStartComplete
<1>2. MemoryStoresKept
      BY DEF ExecInv, CoresInOrder, StoresKept, MemoryStoresKept
<1>3. ResultsWrittenBack
  <2> SUFFICES ASSUME xpc = "closed", NEW e \in Elements
               PROVE  LET writers == {t \in XTiles : e \in DOMAIN write_back(acc[t])}
                      IN IF writers = {} THEN buff[e] = Original ELSE buff[e] \in writers
      BY DEF ResultsWrittenBack
  <2>1. \/ buff[e] = Original /\ \A t \in XTiles : ~Declared(t, e)
        \/ buff[e] \in XTiles /\ Declared(buff[e], e)
        BY DEF ExecInv, WrittenSoFar, Copied
  <2>2. QED BY <2>1 DEF Declared
<1>4. QED BY <1>1, <1>2, <1>3 DEF ResultsSound

(* queue::submit on hardware, for any number of tiles, any buffer and any accesses: a   *)
(* core starts with all it needs in its memory, what kernels store in memory tiles      *)
(* stays, and after submit the buffer has the results of the kernels that declared to   *)
(* write and nothing else.                                                              *)
THEOREM SubmitGivesResults == XSpec => []ResultsSound
BY ExecInvInit, ExecInvStep, ExecInvImplies, PTL DEF XSpec
=============================================================================
