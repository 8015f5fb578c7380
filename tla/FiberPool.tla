----------------------------- MODULE FiberPool -----------------------------
(***************************************************************************)
(* fiber_pool: threads running the fibers of the work submitted to the     *)
(* pool, under one of its three schedulers.  Thread 0 launches the fibers; *)
(* a fiber may wait for the future of another.  The dispatcher loop, the   *)
(* unbuffered channel and the fiber barrier are those of Boost.Fiber.      *)
(***************************************************************************)
EXTENDS Integers, Sequences, SequencesExt, FiniteSets

CONSTANTS Threads,     \* 0 .. n - 1
          Works,       \* work submitted, in any order
          NoWork,      \* the empty slot of the channel
          Needs,       \* work -> the works whose futures it gets
          Schedulers,  \* sched: which schedulers are used
          Suspend      \* a thread without work goes to sleep

ASSUME PoolAssumption == /\ 0 \in Threads /\ Suspend \in BOOLEAN
                         /\ Schedulers \subseteq {"round_robin", "shared_work", "work_stealing"}

VARIABLES algo,      \* the scheduler of this pool
          cur,       \* context each thread runs: a work, "main" or "dispatcher"
          rqueue,    \* ready contexts of each thread (lqueue_ for shared_work)
          shared,    \* pool_ctx::rqueue_ of shared_work
          remote,    \* contexts made ready for a thread by another one
          flag,      \* flag_ of each scheduler
          dozing,    \* threads waiting in suspend_until
          work,      \* state of each work
          home,      \* thread each fiber is attached to
          mainpc,    \* where the main fiber of each thread is
          slot,      \* the work an unfinished submission.push() offers
          launched,  \* the fibers of thread 0, in order
          closed,    \* submission.close() was called
          client     \* the thread using the pool

pvars == <<algo, cur, rqueue, shared, remote, flag, dozing, work, home, mainpc,
           slot, launched, closed, client>>
queues == <<rqueue, shared, remote>>

PInit == /\ algo \in Schedulers
         /\ cur = [t \in Threads |-> "main"]
         /\ rqueue = [t \in Threads |-> <<>>]
         /\ shared = <<>>
         /\ remote = [t \in Threads |-> {}]
         /\ flag = [t \in Threads |-> FALSE]
         /\ dozing = {}
         /\ work = [w \in Works |-> "new"]
         /\ home = [w \in Works |-> 0]
         /\ mainpc = [t \in Threads |-> IF t = 0 THEN "pop" ELSE "line"]
         /\ slot = NoWork
         /\ launched = <<>>
         /\ closed = FALSE
         /\ client = "using"

Pinned(c) == c = "main"

\* awakened() on thread t
Awakened(t, c) ==
  IF algo = "shared_work" /\ ~Pinned(c)
  THEN shared' = Append(shared, c) /\ UNCHANGED rqueue
  ELSE rqueue' = [rqueue EXCEPT ![t] = Append(@, c)] /\ UNCHANGED shared

Dispatch(t) == cur' = [cur EXCEPT ![t] = "dispatcher"]

\* Boost: contexts in C become ready by an action on thread t; the others' are
\* handed over with notify()
HomeOf(c) == IF c \in Works THEN home[c] ELSE 0
\* Mutation: the sleeping scheduler is not notified
WakeUp_quiet(S) ==
  /\ remote' = [u \in Threads |-> remote[u] \union {c \in S : HomeOf(c) = u}]
  /\ UNCHANGED flag
WakeUp(S) ==
  /\ remote' = [u \in Threads |-> remote[u] \union {c \in S : HomeOf(c) = u}]
  /\ flag' = IF Suspend
             THEN [u \in Threads |-> flag[u] \/ \E c \in S : HomeOf(c) = u] ELSE flag

Joinable == mainpc[0] = "join" /\ cur[0] # "main"
\* who waits for the end of w: fibers getting its future, the main fiber joining it
Waiters(w) ==
  {v \in Works : work[v] = "waiting" /\ w \in Needs[v] /\ \A u \in Needs[v] \ {w} : work[u] = "done"}
JoinsLast(w) == \A u \in Works \ {w} : work[u] \in {"done", "new", "offered"}
-----------------------------------------------------------------------------
MainPops == mainpc[0] = "popping"
\* submission.push() or close() wakes the main fiber of thread 0
WakePopper ==
  IF MainPops
  THEN WakeUp({"main"}) /\ mainpc' = [mainpc EXCEPT ![0] = "pop"]
  ELSE UNCHANGED <<remote, flag, mainpc>>

\* submit(): push() to the unbuffered channel
Submit(w) ==
  /\ client = "using" /\ ~closed /\ slot = NoWork /\ work[w] = "new"
  /\ slot' = w /\ WakePopper
  /\ work' = [work EXCEPT ![w] = "offered"]
  /\ UNCHANGED <<algo, cur, rqueue, shared, dozing, home, launched, closed, client>>

Offered == slot # NoWork

\* pop() in run(): the fiber is launched at once and the main fiber is ready again
Launch ==
  /\ mainpc[0] = "pop" /\ cur[0] = "main" /\ Offered
  /\ slot' = NoWork
  /\ launched' = Append(launched, slot)
  /\ work' = [work EXCEPT ![slot] = "running"]
  /\ cur' = [cur EXCEPT ![0] = slot]
  /\ Awakened(0, "main")
  /\ UNCHANGED <<algo, remote, flag, dozing, home, mainpc, closed, client>>

PopBlocks ==
  /\ mainpc[0] = "pop" /\ cur[0] = "main" /\ slot = NoWork /\ ~closed
  /\ mainpc' = [mainpc EXCEPT ![0] = "popping"]
  /\ Dispatch(0)
  /\ UNCHANGED <<algo, queues, flag, dozing, work, home, slot, launched, closed, client>>

\* pop() on a closed channel: thread 0 now joins its fibers
PopClosed ==
  /\ mainpc[0] = "pop" /\ cur[0] = "main" /\ slot = NoWork /\ closed
  /\ mainpc' = [mainpc EXCEPT ![0] = "join"]
  /\ UNCHANGED <<algo, cur, queues, flag, dozing, work, home, slot, launched, closed, client>>

AllDone == \A w \in ToSet(launched) : work[w] = "done"

\* f.join() for every fiber launched; it blocks the main fiber until the last ends
JoinFibers ==
  /\ mainpc[0] = "join" /\ cur[0] = "main"
  /\ \/ /\ AllDone
        /\ mainpc' = [mainpc EXCEPT ![0] = "line"]
        /\ UNCHANGED cur
     \/ /\ ~AllDone
        /\ Dispatch(0)
        /\ UNCHANGED mainpc
  /\ UNCHANGED <<algo, queues, flag, dozing, work, home, slot, launched, closed, client>>

\* finish_line.wait(): the last thread lets all go
Waiting(t) == mainpc[t] = "wait"
FinishLine(t) ==
  /\ mainpc[t] = "line" /\ cur[t] = "main"
  /\ \/ /\ \E u \in Threads \ {t} : ~Waiting(u)
        /\ mainpc' = [mainpc EXCEPT ![t] = "wait"]
        /\ Dispatch(t)
        /\ UNCHANGED <<remote, flag>>
     \/ /\ \A u \in Threads \ {t} : Waiting(u)
        /\ mainpc' = [u \in Threads |-> IF u = t THEN "end" ELSE "leave"]
        /\ remote' = [u \in Threads |-> IF u = t THEN remote[u] ELSE remote[u] \union {"main"}]
        /\ flag' = IF Suspend THEN [u \in Threads |-> flag[u] \/ u # t] ELSE flag
        /\ UNCHANGED cur
  /\ UNCHANGED <<algo, rqueue, shared, dozing, work, home, slot, launched, closed, client>>

LeaveLine(t) ==
  /\ mainpc[t] = "leave" /\ cur[t] = "main"
  /\ mainpc' = [mainpc EXCEPT ![t] = "end"]
  /\ UNCHANGED <<algo, cur, queues, flag, dozing, work, home, slot, launched, closed, client>>

\* A fiber gives the thread up, waits for a future, or returns
Yield(t) ==
  /\ cur[t] \in Works
  /\ work' = [work EXCEPT ![cur[t]] = "ready"]
  /\ Awakened(t, cur[t]) /\ Dispatch(t)
  /\ UNCHANGED <<algo, remote, flag, dozing, home, mainpc, slot, launched, closed, client>>

Ready(w) == \A u \in Needs[w] : work[u] = "done"

GetFuture(t) ==
  /\ cur[t] \in Works /\ ~Ready(cur[t])
  /\ work' = [work EXCEPT ![cur[t]] = "waiting"]
  /\ Dispatch(t)
  /\ UNCHANGED <<algo, queues, flag, dozing, home, mainpc, slot, launched, closed, client>>

Finish(t) ==
  /\ cur[t] \in Works /\ Ready(cur[t])
  /\ LET w == cur[t]
         S == Waiters(w) \union (IF Joinable /\ JoinsLast(w) THEN {"main"} ELSE {})
     IN /\ work' = [v \in Works |-> IF v = w THEN "done"
                                    ELSE IF v \in S THEN "ready" ELSE work[v]]
        /\ WakeUp(S)
  /\ Dispatch(t)
  /\ UNCHANGED <<algo, rqueue, shared, dozing, home, mainpc, slot, launched, closed, client>>

\* The dispatcher: contexts made ready by other threads go to the scheduler
RemoteReady(t) ==
  /\ cur[t] = "dispatcher" /\ t \notin dozing
  /\ \E c \in remote[t] : /\ remote' = [remote EXCEPT ![t] = @ \ {c}]
                          /\ Awakened(t, c)
  /\ UNCHANGED <<algo, cur, flag, dozing, work, home, mainpc, slot, launched, closed, client>>

Run(t, c) ==
  /\ cur' = [cur EXCEPT ![t] = c]
  /\ work' = IF c \in Works THEN [work EXCEPT ![c] = "running"] ELSE work
  /\ home' = IF c \in Works THEN [home EXCEPT ![c] = t] ELSE home

OwnNext(t) == rqueue[t] # <<>> /\ (algo = "shared_work" => shared = <<>>)

\* pick_next()
PickShared(t) ==
  /\ cur[t] = "dispatcher" /\ t \notin dozing /\ remote[t] = {}
  /\ algo = "shared_work" /\ shared # <<>>
  /\ Run(t, Head(shared))
  /\ shared' = Tail(shared)
  /\ UNCHANGED <<algo, rqueue, remote, flag, dozing, mainpc, slot, launched, closed, client>>

PickOwn(t) ==
  /\ cur[t] = "dispatcher" /\ t \notin dozing /\ remote[t] = {}
  /\ OwnNext(t)
  /\ Run(t, Head(rqueue[t]))
  /\ rqueue' = [rqueue EXCEPT ![t] = Tail(@)]
  /\ UNCHANGED <<algo, shared, remote, flag, dozing, mainpc, slot, launched, closed, client>>

CanSteal(u) == rqueue[u] # <<>> /\ ~Pinned(Head(rqueue[u]))

Steal(t, u) ==
  /\ cur[t] = "dispatcher" /\ t \notin dozing /\ remote[t] = {}
  /\ algo = "work_stealing" /\ u # t /\ rqueue[t] = <<>> /\ CanSteal(u)
  /\ Run(t, Head(rqueue[u]))
  /\ rqueue' = [rqueue EXCEPT ![u] = Tail(@)]
  /\ UNCHANGED <<algo, shared, remote, flag, dozing, mainpc, slot, launched, closed, client>>

\* pick_next() found nothing (the random victims may all be the wrong ones):
\* suspend_until()
SuspendUntil(t) ==
  /\ Suspend /\ cur[t] = "dispatcher" /\ t \notin dozing /\ remote[t] = {}
  /\ ~OwnNext(t) /\ (algo = "shared_work" => shared = <<>>)
  /\ dozing' = dozing \union {t}
  /\ UNCHANGED <<algo, cur, queues, flag, work, home, mainpc, slot, launched, closed, client>>

Notified(t) ==
  /\ t \in dozing /\ flag[t]
  /\ dozing' = dozing \ {t}
  /\ flag' = [flag EXCEPT ![t] = FALSE]
  /\ UNCHANGED <<algo, cur, queues, work, home, mainpc, slot, launched, closed, client>>

\* close(), then join(): t.get() for each thread.  Work that waits for work never
\* submitted would never end: the user of the pool submits all of it.
Close ==
  /\ client = "using" /\ ~closed /\ slot = NoWork
  /\ \A w \in ToSet(launched) : Needs[w] \subseteq ToSet(launched)
  /\ closed' = TRUE /\ WakePopper
  /\ UNCHANGED <<algo, cur, rqueue, shared, dozing, work, home, slot, launched, client>>

Join == /\ closed /\ client = "using" /\ \A t \in Threads : mainpc[t] = "end"
        /\ client' = "joined"
        /\ UNCHANGED <<algo, cur, queues, flag, dozing, work, home, mainpc, slot, launched, closed>>

Disposed == client = "joined" /\ UNCHANGED pvars

ThreadStep(t) == \/ FinishLine(t) \/ LeaveLine(t) \/ GetFuture(t) \/ Finish(t)
                 \/ RemoteReady(t) \/ PickShared(t) \/ PickOwn(t)
                 \/ \E u \in Threads : Steal(t, u)
                 \/ Notified(t)
MainStep == Launch \/ PopBlocks \/ PopClosed \/ JoinFibers

PNext == \/ \E w \in Works : Submit(w)
         \/ \E t \in Threads : ThreadStep(t) \/ Yield(t) \/ SuspendUntil(t)
         \/ MainStep \/ Close \/ Join \/ Disposed

PSpec == PInit /\ [][PNext]_pvars
-----------------------------------------------------------------------------
PTypeOK == /\ \A t \in Threads : cur[t] \in Works \union {"main", "dispatcher"}
           /\ dozing \subseteq Threads
           /\ \A w \in Works : work[w] \in {"new", "offered", "ready", "running", "waiting", "done"}

\* Where a context is: on a thread, in a queue, or on its way to a thread
Places(c, t) == {k \in DOMAIN rqueue[t] : rqueue[t][k] = c}
Count(c) == Cardinality({t \in Threads : cur[t] = c})
            + Cardinality({k \in DOMAIN shared : shared[k] = c})
            + Cardinality({t \in Threads : c \in remote[t]})
            + Cardinality({<<t, k>> \in Threads \X (1 .. Cardinality(Works) + 1) : k \in Places(c, t)})

(* awakened, pick_next, steal: a fiber that can run is in exactly one place, so     *)
(* that it is neither lost nor run by two threads.                                  *)
FibersInOnePlace ==
  \A w \in Works : Count(w) = (IF work[w] \in {"ready", "running"} THEN 1 ELSE 0)

(* The main fiber of a thread is pinned (is_context(pinned_context) in awakened and   *)
(* steal): a thread whose main fiber is blocked or queued runs no main fiber, so that *)
(* none runs the one of another thread.                                              *)
MainStaysHome ==
  \A t \in Threads : cur[t] = "main" =>
    mainpc[t] \notin {"popping", "wait"} /\ "main" \notin ToSet(rqueue[t]) \union remote[t]

(* join: when it returns, all the work submitted is done.                            *)
JoinMeansDone == client = "joined" => \A w \in ToSet(launched) : work[w] = "done"

(* suspend_until: while a fiber is ready, not all the threads sleep for good.        *)
SomeoneAwake ==
  (\E w \in Works : work[w] = "ready") => \E t \in Threads : t \notin dozing \/ flag[t]

(* A closed pool is joined.                                                          *)
JoinReturns == closed ~> client = "joined"

(* The pool loses no fiber, runs none twice, keeps the main fibers at home, never   *)
(* sleeps on ready fibers and returns from join when the work is done (awakened,    *)
(* pick_next, steal, suspend_until, join).                                          *)
FibersScheduled == PTypeOK /\ FibersInOnePlace /\ MainStaysHome /\ JoinMeansDone /\ SomeoneAwake
=============================================================================
