# A TLA+ verification of the triSYCL runtime

triSYCL is a header-only implementation of SYCL on top of `std::thread`,
`std::condition_variable` and `shared_ptr`, with Boost.Fiber for the emulation of
the Xilinx AI Engine and Boost.Compute for OpenCL.  This project models its
runtime, checks the models with TLC on small instances and proves the most
important facts with TLAPS for any instance.  `PROJECT.json` lists the components,
the runs, the lines of source behind each definition, the hazards, the findings and
the theorems.

Paths below are relative to `src/include/triSYCL/`, or to `src/include/aie/` when they
begin with `aie/`.  Some files exist in both trees (fiber pool, program manager,
device allocator, graphics); the map names the one that was translated.

## The system and its parts

| Part | Source | Modules |
| --- | --- | --- |
| Task graph: command groups, tasks, dependencies | `command_group/detail/task.hpp`, `handler.hpp` | TaskGraph |
| Blocking waits | `buffer/detail/buffer_base.hpp`, `queue/detail/queue.hpp`, `task.hpp`, DMA | CountedWait, CountedWaitAbs |
| Life of buffers, accessors and queues | `buffer/detail/`, `buffer.hpp`, `queue.hpp` | Lifetime |
| Memory and content of a buffer, local accessors | `buffer/detail/buffer.hpp`, `accessor/detail/` | BufferData |
| Copies of a buffer in OpenCL contexts | `buffer/detail/buffer_base.hpp` | Coherence |
| Launch of OpenCL kernels | `handler.hpp`, `device_runtime.hpp`, `kernel/detail/` | KernelLaunch |
| Kernels that throw | `task.hpp`, `exception.hpp` | Errors |
| Pipes, reservations, pipe accessors | `sycl_2_2/`, `pipe.hpp` | Pipe, Fifo, PipeAccess, PipeFacade |
| Object cache, contexts, queues, kernels and their references | `detail/cache.hpp`, `context/`, `queue/`, `kernel/` | ObjectCache, RuntimeObjects |
| Devices, platforms, selectors, events, informations | `device*`, `platform*`, `info/`, `event*` | ObjectModel |
| Scoped storage | `vendor/triSYCL/scope/` | ScopeStorage |
| Kernel images | `detail/program_manager.hpp`, `src/src/triSYCL/triSYCL_tool.cpp` | KernelImages |
| Index spaces, parallel loops, accessors as arrays | `id.hpp` ... `nd_item.hpp`, `parallelism/`, `accessor*` | Indexing, ParallelFor |
| Vectors, mathematical functions | `vec*`, `math.hpp` | VecOps |
| Fiber pool and its schedulers | `detail/fiber_pool.hpp`, `detail/fiber/` | FiberPool |
| AI Engine: locks, barriers, mutex | `vendor/Xilinx/acap/aie/lock.hpp`, `acap/aie/tile.hpp` | TileBarrier, LineBarrier, SoftMutex |
| AI Engine: services, remote calls | `aie/detail/service.hpp`, `host_only.hpp`, `acap/aie/rpc.hpp` | TileService, ImageService |
| AI Engine: launch, emulated and on hardware | `aie/detail/emulation.hpp`, `exec_kernel.hpp`, `device_and_host.hpp` | AieLaunch, AieExec |
| AI Engine: heap of a tile | `aie/detail/device_allocator.hpp`, `acap/aie/exec_kernel.hpp` | DeviceHeap |
| AI Engine: stream network, DMA | `acap/aie/axi_stream_switch.hpp`, `dma.hpp`, `device/detail/device.hpp` | StreamNoC |
| AI Engine: geography, addresses, memory layout | `acap/aie/geography.hpp`, `aie/detail/hardware.hpp`, `xaie_wrapper.hpp` | AieGeography, AieMemory |
| Graphics | `aie/ext/graphics.hpp`, `vendor/Xilinx/graphics.hpp` | Graphics, ImageService, Palette |

How the core interacts.  A host thread calls `queue::submit` with a functor, the
command group.  `submit` makes a handler, which makes a task.  The functor
constructs accessors, each of which registers a buffer with the task
(`task::add_buffer`): the buffer counts one more user, the task becomes its latest
producer if the access writes, and takes the former latest producer as one to
wait for.  The kernel invocation calls `task::schedule`, which counts one more
running kernel in the queue and starts a detached thread (or runs the functor at
once when `TRISYCL_NO_ASYNC` is defined).  That thread waits for the producers,
runs the kernel, releases the buffers, wakes the consumers and counts itself out
of the queue.  Host threads wait in `queue::wait`, in the constructor of a host
accessor, and in the destructor of a buffer whose content is due to the user.

An AI Engine program is an array of tiles.  The host prepares the memory of each
tile and starts its core (a fiber in the emulation), then serves the requests of
the kernels in `wait_all` until all have ended, and copies the buffers back.
Kernels synchronise by locks and barriers and send data through the stream
network.

## Modules of the host

**TaskGraph.**  State: for each task its phase, queue, registered buffers, how many
of them are released and its producers; for each buffer `latest_producer` and
`number_of_users`; for each queue `running_kernels`; for each host thread where it
stands in its call.  Two history variables, `writers` and `earlier`, remember who
was registered as modifying what.  Actions: `Submit`, `UseBuffer` then
`LinkProducer` (`add_buffer` in two steps, because another host thread may register
the same buffer in between), `Schedule`, `EndKernelLess`; in the thread of the task
`WaitForProducers`, `KernelReturns`, `ReleaseBuffer` one buffer at a time,
`ClearBuffers`, `NotifyConsumers`, `KernelEnd`; in the hosts `QueueWait`, `HostAccess`
and their returns, and `InlineReturn` in synchronous mode.  `latest_producer` is a
`weak_ptr`; what `lock()` finds is `Alive`: a task owned by its handler or its thread,
or kept in the `producer_tasks` of a live task.  The three condition variables are
modelled by the predicate they wait for; CountedWait shows that the code around
them amounts to that.

**Lifetime** extends TaskGraph with the objects of the user: the kind of memory a
buffer was built from, the copy on write, `modified`, the final write-back, and the
references held by the user, the tasks, captured accessors and host accessors.
`DropReferences` is part of every action that drops a reference: the
`detail::buffer` whose last reference goes is destroyed in that very step, in
whatever thread.  `track_access_mode` takes no lock: a first access that writes makes
its copy in three steps (`StartCopy`, `ClearCopy`, `MoveData`), between which another
host may call `get_access` on the same buffer.  `CloseBuffer`, `ResetBuffer` and `CloseReturns` are the three steps of
`~buffer_waiter`.  `Direct` says whether programs also construct accessors without
`buffer::get_access`.  `Owner` is the set of host threads in whose scopes the buffers
and queues live: they alone call `set_final_data`, `mark_as_written`, `queue::wait` and
the destructors.

**CountedWait, CountedWaitAbs.**  The counter, mutex and condition variable of
`buffer_base`, `queue` and `task`, at the grain of lock, decrement, unlock, notify,
test, sleep and spurious wake-up.  `Locked` is FALSE for the DMA, which decrements
without the mutex.  The unlocked test with which `dma::wait` begins only skips a
wait that would return at once and is left out.  The abstract module is the
promise: a wait returns at a moment where nobody is counted, and does return if
users stop coming.

**BufferData** follows the content of one buffer: the memory chosen by each
constructor, accessors that keep a pointer into it, the copy on write, repeated
`set_final_data`, and the destructor.  **Coherence** is `update_buffer_state`: the set of
fresh contexts, the cache of `cl_mem`, the transfers before kernels, host accessors
and the destruction.  A host accessor is constructed and used in one step: it waits
for the kernels only when it is constructed, and what one sees that is kept while
kernels go on is not stated.  **KernelLaunch** has the preludes of tasks, which set the
arguments of kernel objects other tasks may share; a task waits for the latest writer
of each of its buffers, as in TaskGraph.  **Errors** has programs with a try block around
their submissions, on a host or an OpenCL queue: without threads a task that throws is
destroyed with its handler on the first, and kept by its own epilogues on the second.

**Pipe, Fifo, PipeAccess, PipeFacade.**  Pipe is the circular buffer with its queues
of reservations.  Every operation that holds `cb_mutex` is one action; a commit is
two, `ready` being set without the mutex.  The n-th element pushed has the value n,
the slots of a reservation hold 0 until stored, an iterator is the number of its
element, and `push_back` into a full buffer overwrites the front as
`boost::circular_buffer` does.  The reservations keep iterators of a `std::deque` across
`emplace_back`, which the standard invalidates; they still reach their element in
the usual implementations, and that outcome is modelled.  Fifo is the abstract
bounded channel.  PipeAccess has the flags of exclusive use and the commits of a
reservation shared by work-items; PipeFacade the classes of the user.

**ObjectCache, RuntimeObjects, ScopeStorage, ObjectModel.**  The cache of weak pointers
under concurrent look-ups and destructors; the contexts, queues and kernels of a
program with the reference counts of the OpenCL objects behind them; scoped devices
and queues with kernels that use their storage; and, as operators, what every
object answers and which device is selected.

**FiberPool** has three schedulers (round robin, shared work, work stealing), threads
that sleep when they find nothing, submission through an unbuffered channel, fibers
that get the futures of others, close and join.  The dispatcher of Boost.Fiber is
external and modelled from its use.

**Graphics, ImageService, Palette.**  The hand-over of one piece of work at a time to
the thread of the window, the common decision to stop for a grid of one or more tiles
and the comparison of device and host frames (Graphics), the service that draws the
image of a tile into the one buffer of the host and posts it to the window, and the
palette with its keys.

**Indexing, ParallelFor, VecOps, KernelImages** are operators: the
arithmetic of arrays of `size_t` with its widths, what each loop calls a kernel
with (sequential, OpenMP, TBB), the element an accessor designates and the address
spaces, vectors, and the parsing of images.  **Algorithms** states what they must
compute, against reference definitions.

## Modules of the AI Engine

**TileBarrier, LineBarrier.**  A line of tiles, each with a lock unit; every section of
the mutex and every notification is a step.  LineBarrier is the promise.  The source is
`acap/aie/tile.hpp`: `vertical_barrier`, and with `Reset` `horizontal_barrier`, whose last
statement it adds.  The `barrier_impl` of `aie/aie.hpp` always releases twice, as with
`Reset`: what is proved of `vertical_barrier` says nothing of it.

**SoftMutex.**  Three words in the memory of a tile, one access per step, two sides.

**TileService.**  `perform` on the tiles and `wait_all` on the host, over the two
wrapping counters of `soft_barrier`, for the library of `include/aie` and for the
older `rpc.hpp`: requests, chained requests (logs), answers, exit codes.

**AieLaunch, AieExec.**  `queue::submit` on the emulated array, where fibers wait for the
services to be installed; and on hardware, where the host opens the device with
retries, loads each tile in turn, starts its core while it prepares the next, waits
and writes buffers back.

**DeviceHeap.**  The block list of a tile in its memory: the host allocates before the
core starts, the kernel then allocates, reallocates and frees, and reports leaks when
it ends, as in `acap/aie/exec_kernel.hpp`; `aie/detail/exec_kernel.hpp` has that call
commented out.

**StreamNoC.**  Router minions with bounded channels that forward to lists of outputs,
receivers, a DMA that sends, and the destruction of the device tile by tile.

**AieGeography, AieMemory.**  Operators: cascade path, neighbours, memory modules, ports
and wires; device pointers, sections of a memory module, locks, the cutting of
objects into stream transfers, the lists of services.

## Runs

| Run | What it asks |
| --- | --- |
| `task_order` | Two hosts, three tasks, two buffers: kernels run after the earlier writers of their buffers, both counters are exact, the blocking calls return only when they may |
| `task_live` | One host: no cycle of waiting tasks, every kernel completes, every blocking call returns |
| `task_sync` | Synchronous mode, one host, a command group without kernel: producers have ended when a kernel is submitted, and everything completes |
| `lifetime` | Destruction of buffers, accessors and queues in two hosts while kernels run |
| `tiles` | The AI Engine and the counted wait, one component at a time |
| `host` | The other components of the host and the pure algorithms, one at a time |
| `task_two_hosts` | Violated: two hosts whose command groups have two accessors each on one buffer make tasks that wait for each other |
| `task_kernelless_access` | Violated: a command group without kernel leaves its buffers in use for ever |
| `task_atomic` | Violated: a kernel with an atomic accessor is not a producer |
| `lifetime_direct` | Violated: an accessor constructed directly writes constant user memory |
| `dma_wait` | Violated: the DMA loses a wake-up |
| `row_barrier` | Violated: a tile leaves `horizontal_barrier` of `acap/aie/tile.hpp` early |

The violated runs each state what a comment of the code says; `findings` in
`PROJECT.json` quotes it.

`tiles` and `host` are sums: MCTiles and MCHost extend their components, `which` names
the one that runs and is chosen in the initial state, the others keep their initial
state.  Their properties gather those of the components, each stated with its own
comment in its module:

| Property | Conjuncts |
| --- | --- |
| `ReleasedWhenIdle` (Lifetime) | `DestructorNeverBlocks`, `QueueOutlivesKernels` |
| `LocksSound` (SoftMutex) | `NoLostWakeup` and types, `OneClientWaits`, `MutualExclusion` |
| `ServedInTurn` (TileService) | `SvTypeOK`, `AnsweredOnce`, `LogsNotInterleaved`, `WaitAllWaits` |
| `HeapSound` (DeviceHeap) | `HeapListSound`, that is `HTypeOK`, `BlocksTileHeap`, `PrevOffsetsRight`, `NoTwoFreeBlocksMeet`, `AllocationsKept`, `ReallocCopyFits`, `NoFalseLeak`; and `PrevPointsBack` |
| `StreamsSound` (StreamNoC) | `NTypeOK`, `StreamsInOrder`, `NoUseAfterDestruction`, `NothingDropped` |
| `LaunchSound` (AieLaunch) | `ServicesAlive`, `WaitAllIsComplete` |
| `ResultsSound` (AieExec) | `CoresStartComplete`, `MemoryStoresKept`, `ResultsWrittenBack` |
| `TilesProgress` | `BarrierCallsEnd`, `RequestsAnswered`, `WaitAllEnds`, `DeviceDismantled`, `SubmitEnds` |
| `PipeEndsSound` (PipeFacade) | `TypeOK`, `ReservationsSound` (Pipe); `FlagHasOwner`, `OneUserPerMode`, `CommittedOnce` (PipeAccess); `SuccessIsTransfer`, `TakenAreWritten` (PipeFacade) |
| `FibersScheduled` (FiberPool) | `PTypeOK`, `FibersInOnePlace`, `MainStaysHome`, `JoinMeansDone`, `SomeoneAwake` |
| `PicturesShown` | `GTypeOK`, `EveryImageDrawnOnce`, `StopsOnlyWhenClosed`, `SameFrameCompared`, `OwnImageShown`, `PaletteKeysUndo`, `ImageInPlace` |
| `CoherentCopies` (Coherence) | `FreshIsNewest`, `ReadsNewest` |
| `BufferContents` (BufferData) | `ViewsAllocated`, `InputKept`, `ViewsShowNewest`, `ResultReachesUser` |
| `ObjectsShared` | `OneAliveObject` (ObjectCache); `WrapsLive`, `OneImplementation`, `ReferencesBalance` (RuntimeObjects); `OneStorage`, `ScopesAlive` (ScopeStorage) |
| `KernelsFound` | `KernelsRegistered`, `SymbolsFound`, `SourceKeepsFile` (images); `OwnArguments`, `ArgumentsHaveBuffers` (KernelLaunch) |
| `FailuresShown` (Errors) | `FailureNotHidden`, `DiesOfUncaught` |
| `KernelsCalledOnce` | `RangeItemsOnce`, `NdItemsOnce`, `HandlerCallsOnce`, `WorkItemViewsAgree`, `ArrayArithmetic`, `AccessorsAgree` |
| `VectorsAgree` | `VecHalves`, `VecMadeInOrder`, `VecAsRoundTrip`, `MathElementwise`, `CrossProduct`, `SpacesKept` |
| `ArrayWired` | `CascadeIsPath`, `MemoryModulesAgree`, `RowBarrierIsLine`, `NetworkWired`, `UserPortsReachPorts` |
| `TileMemoryAgrees` | `HostAndDeviceAgree`, `RegistersApart`, `SectionsInOrder`, `ServicesReached`, `MemoryTypesMatch`, `StreamRoundTrip`, `NumberReadsBack` |
| `SystemAnswers` | `SelectionAgrees`, `ObjectsAgree`, `InfoAnswered` |
| `HostProgress` | `CommitsReleased`, `JoinReturns`, `SubmitsReturnWhileOpen` |

The refinements are properties of their own: `Implements` (counted wait),
`ImplementsBarrier` (line of locks) and `IsFifo` (pipe).

Some properties name the cases in which the code gives less than one would hope,
and say that there are no others: two users of a pipe (`OneUserPerMode`), a kernel
object shared by command groups neither of which waits for the other (`OwnArguments`),
the offset the host stores for the block before (`PrevPointsBack`), an accessor built
while another thread makes the copy on write (`ConstMemoryKept`), a reader started after
a caught exception (`FailureNotHidden`), a grid of one tile or of more than two
(`StopsOnlyWhenClosed`), a second kernel on a tile (`ServicesAlive`), a
neighbour's store erased at launch (`MemoryStoresKept`), scoped queues dropped before
their kernels ran (`ScopesAlive`), a read accessor on constant data older than the
first writer (`ViewsShowNewest`).

### Bounds

Three tasks are the fewest in which a producer is replaced by a second one while a
third depends on it; two accessors per task give the write-then-read of one buffer
and the crossing of two buffers; two hosts give every interleaving of two
registrations.  `lifetime` has two tasks, one buffer and two hosts: one host destroys
what the other, or a task, still uses, and the interplay is per buffer.  Both hosts
submit and build accessors; the calls that configure, wait for or destroy a buffer or
the queue come from one of them (`Owner`), and the theorems hold for any set `Owner`.  The counted
wait has two users coming twice and two waiters, so that the counter reaches zero,
leaves it and comes back while a waiter is between its test and its sleep.  The line
has four tiles (both ends and two in the middle) and three calls, so that a fast
tile meets tokens of two calls.  The counters of the soft barrier wrap at 2, the
hardest case.  The heap has room for a few blocks, with requests below, at and above
the size of a header.  The network has four routers with a broadcast, a circuit of
several hops and a DMA.  The pipe has capacity 4 and reservations of up to 2
elements, three pending at each end, with 6 elements sent, so that the content goes
round and commits happen in every order.  The grid of the graphics has one or two
tiles; with `MaxPainters = 3` its properties hold as well.  Pool, cache and accessors have
two actors each, the object and buffer modules two handles or accessors; the cases
of interest are races of pairs.  The algorithms run over every input of sets
declared in Algorithms (one to three dimensions, extents up to three, vectors of
every size).  Constants whose name begins with `Max` or `Last` are bounds, each a guard
of the actions it limits.  `MaxTries` stands for the 30 tries of the code.  Symmetry
is used in the safety run of the task graph only.

Constants that exclude a use the code cannot serve: `LogThenMeet = FALSE` (a kernel
that waits for another tile inside a chain of requests blocks the host for ever),
`ReleasesGot = FALSE` (a caller that releases a handle got from `queue::get` takes the
reference of the wrapper), `InStep = TRUE` (the frame comparison supposes tiles that
draw together).  Setting them otherwise shows the failure.

Deadlock checking is off in `task_order`, `task_sync` and `lifetime`, where the modelled
program may end, and in three violated runs; it is on elsewhere, the components of the
sums having a step for their regular end.

### Fairness

Threads of tasks are fair (`WF` of `TaskStep`): the operating system schedules them and
kernels are assumed to return.  A host is fair inside a call it has begun, and free
to make calls or not.  In the sums each thread, tile, fiber or host loop is weakly
fair; in Pipe only a thread inside `commit` is.  Strong fairness is assumed in one
place: a work of the fiber pool that can finish again and again does finish, since a
fiber that yields is put at the end of a queue and resumed.

## Proofs

TLAPS checks the following for every value of the constants that satisfies the
assumptions named in the modules: finite sets of tasks and users, natural bounds, a
null value and a host distinct from the rest, lines of at least one tile, a heap
aligned and larger than a header, a capacity that has a power of two above it.  Each
proof module extends the modules it is about.  Each proof has the same form: an
invariant that the initial states satisfy, that every action keeps (one step per
action) and that implies the property.  What follows says which invariant, and why
the property alone is not enough.  TLC checked each invariant on the instance of its
run before it was proved.

Where only the proof counts (the users of a counter, the tasks that run, the kernels
not yet done), it does so by `Counts(S, n)`: the elements of `S` can be numbered from 1
to `n`.  Three lemmas (no element, one more, one less) are all that is needed, and they
are proved where they are used.  TaskGraph, whose properties speak of `Cardinality`,
takes the theorems of the library about finite sets instead.

**TaskGraphProofs** (TaskGraph).

- `CountersAreExact`, `TypeCorrect`.  The two counters are decremented without a test,
  so that their type is not inductive alone: it rests on their being the number of
  accessors in use and of tasks running.  That in turn rests on `HostInv`: a host in a
  command group owns a task in its building phase, no two hosts own the same one, and
  nothing is released before the kernel returned.  Each action changes the set counted
  by at most one element; the frame lemmas `UsersFrame` and `KernelsFrame` deal with all
  others.  `HostAccessIsSafe` and `QueueWaitIsSafe` are action properties that follow
  from the exact counters.
- `KernelsInOrder`: a kernel runs after every earlier writer of its buffers.  A task
  links to the latest producer only; the invariant says why this is enough: for a task
  whose kernel has not started, every earlier writer of its buffers is `Covered`, that
  is its kernel is done, or it is one of the producers of the task, or it comes before
  one of them.  It needs that every command group has a kernel and that no accessor is
  atomic; `task_atomic` shows that the second cannot be dropped.
- `NoCycleWithOneThread`: with one host thread no task waits for itself through the
  producers of its producers.  The producers of a task are scheduled, hence complete,
  when it links to them, so that a new link never leads back to a task that is still
  being built.  `task_two_hosts` shows the cycle that two threads make.
- `SyncNeverBlocks`: without threads and with one host, the task in the call of the host
  is the only one alive, so that the `weak_ptr` of the latest producer has expired and
  the new task has nothing to wait for.

**LifetimeProofs** (Lifetime).

- `DestructorsNeverBlock`: a buffer is destroyed with no accessor counted, and a queue
  with no kernel counted.  `LifeInv`: until its kernel has returned a task has in
  `buffers_in_use` the buffers it modifies, a task that lists buffers is alive, and a
  buffer that is destroyed or written back is in no list.  The counters are exact by
  the theorem above, since Lifetime without its own variables is TaskGraph
  (`LifetimeIsTaskGraph`).
- `ClosedBuffersAreWritten` adds `CloseInv`: a kernel that writes the memory of the user
  works on a buffer that is marked modified, and a buffer whose destructor has returned
  is written by no kernel any more and is copied.  `ConstMemoryIsKept` rests on
  `ConstMemory`: a buffer still in constant memory will be copied when it is written, or
  a thread is about to move its data.  Both suppose that accessors come from `get_access` (`Direct = FALSE`); `lifetime_direct` shows that the
  second fails otherwise.

**LockProofs** (CountedWait, TileBarrier, SoftMutex).

- `WakeupNeverLost`, with the decrement under the mutex (`dma_wait` is the case without).
  The strengthening: threads inside the critical section own the mutex, and a waiter
  that decided to sleep still holds it with the counter not null.
  `CountedWaitTypeCorrect` gives the counter, `ImplementsAbstractWait` the step
  simulation of the abstract wait.
- `NoTileLeavesEarly` and `LineRefinesBarrier`, for `vertical_barrier` (`row_barrier` is the
  case of `horizontal_barrier`).  The invariant counts the replies of each tile: a token in the lock of
  a tile belongs to the call both tiles of the link are in, so that replies grow along
  the line and no tile replies to a call that a tile before it has not made.
- `OneClientPerLock`, with or without the reset: a lock is waited for by its tile and
  by the one before it, and the one that notifies is one of the two, and awake.
- `SoftMutexExcludes`.  A side that has seen the flag of the other clear has its own
  set (`Announced`); the last of two sides to announce itself sees the other.
- `LocksStaySound` puts them together: the property `LocksSound` of the run, for the
  three protocols side by side, with the decrement under the mutex.

**HostProofs** (Coherence, BufferData, Errors).

- `CopiesCoherent`.  The invariant is `FreshIsNewest` with the types; each function below
  `update_buffer_state` has a lemma about what it returns.  It holds as long as no kernel
  of a host queue goes past the copies of a device, which the code does not prevent.
- `BufferKeepsContents`.  The invariant says where the data of each kind of buffer lie,
  that accessors for writing point there, and that until the end no other memory has
  changed.  Constant host data are among that memory.
- `FailuresNeverHidden`.  `ErrorInv`: `running_kernels` is the number of tasks that have
  started and not ended, a failed one included, so that the wait for the queue cannot
  end; `ErrorOrder`: a task that reads starts when the one before has ended, or failed and
  was destroyed, the program having caught its exception; an exception in flight is that of a failed task.

**PipeProofs** (Pipe, Fifo, PipeAccess, PipeFacade).

- `PipeReservationsSound` and `PipeImplementsFifo`.  `PipeInv`: any two
  reservations of an end, not only neighbours, lie one behind the other; those for
  reading lie among the frozen elements at the front, those for writing behind them;
  and the n-th element has the value n unless it is reserved and not committed yet.
  What lies between the frozen elements and the first write reservation is the content
  of the abstract channel: each operation takes some elements at its front, or makes
  some readable at its end (`Passes`), and that is a step of the channel.
- `PipeUsersApart`.  Until two constructors test a flag together or a copy clears it,
  an open accessor has its flag set and no other constructor is past the test; `ok` is
  set until the first commit, and the last handle is alone.
- `FacadeTransfers`.  `FacInv`: the elements in the pipe continue those taken, but for
  the slots of the one reservation that is not committed (`Numbered`), which lies behind
  everything that was taken (`StationAhead`).
- `PipeEndsStaySound` puts them together: the property `PipeEndsSound` of the run.

**AieProofs** (AieLaunch, AieExec).

- `KernelsFindServices`.  The services follow the step of the host (`ServicesFollow`), no
  kernel is past its wait before they are published (`NoneAhead`), and `wait_all` has
  waited for the last kernel of every tile before its cursor.
- `SubmitGivesResults`.  `ExecInv` follows the cores in the order in which the host
  prepares them and the copies of the buffer in the reverse order; the lemma
  `WriteBackRange` says for all ranges that an accessor writes back its write range,
  each element from its own place.

**TileProofs** (TileService): `RequestsServedInTurn`.  The invariant `ServiceInv` says the
same of every kernel (`KernelSound`), since a step moves one kernel or the host with
the one it polls.  The two counters of a tile are equal or the device is one ahead, and
which of the two decides who may act (`TurnOf`); one step of a counter always changes
it, whatever its period of at least two.  `OpenHeld` says that while a log is open the
host stays with its tile, and `DoneCounted` that `done_counter` and the kernels whose end
is not served yet make up the number of tiles.

**HeapProofs** (DeviceHeap): `HeapStaysSound`, of `HeapListSound`; `PrevPointsBack` is left
to TLC.  `HeapInv` is that the headers form one list
over the whole heap (`Blocks`), that it leads back (`Back`), and that the blocks in use
are the allocations.  There are only three changes of the list, each with its lemma: a
block is split, a block is merged with the next, the fields of a block change.
`try_malloc`, `try_realloc`, `free` and the allocator of the host are sequences of them.
That no two free blocks meet is needed by `try_realloc`, which merges once only.

### Only model-checked

- Liveness under fairness, with the fairness part of `Implements`: out of reach of the
  prover.
- `StreamsSound`: the values of one sender are selected from what a port has got with
  `SelectSeq`, and what it returns is an induction over sequences.
- That every capacity has a power of two above it (`FacadeAssumption`): an induction;
  TLC evaluates it for the capacity of the run.
- The pure algorithms (`KernelsCalledOnce`, `VectorsAgree`, `ArrayWired`, `TileMemoryAgrees`,
  `SystemAnswers`): recursion over data and bitwise operators.
- `FibersScheduled`, and the conjuncts of `PicturesShown`, `ObjectsShared` and `KernelsFound`,
  which have no proof yet.

## Observations

Facts met while translating that are not runs of their own:

- `queue::get` of OpenCL queues is documented to retain the handle and does not.
- `soft_mutex` never gives the turn back to the device: after the first unlock a side
  that meets the other waits for ever.  The file marks the class as untested.
- `is_done_barrier` of the graphics ("Only 1 thread sample the graphics status",
  `aie/ext/graphics.hpp` 600) tests its flag the wrong way round, so that all threads but
  the first sample.  With one tile nobody does, and `done_snapshot` ("A global done state
  across all the tile", 413) is returned uninitialised; with three tiles or more one may
  get another answer than the others and leave their next barrier one short.
- A kernel exception ends the process.  Without threads, a caught one leaves the queue
  waiting for ever, and the consumers too on an OpenCL queue; on a host queue the failed
  task is destroyed, so that a consumer finds no producer and reads what there is.
  `async_handler` is never called.
- `track_access_mode` is not synchronised (`buffer/detail/buffer.hpp` 201-219): of two
  threads that get their first accessors for writing to a buffer of constant memory, one
  may find `copy_if_modified` already cleared and the access not moved yet, and its
  kernel then writes the constant memory.
- "Data is written back to the same iterator set if the iterator is not a const iterator"
  (`buffer.hpp` 270, 542): nothing is; a `\todo` of the same comment asks for it.
- The offset of an `nd_range` "is added by the runtime to the global-ID of each work-item"
  (`nd_item.hpp` 172): no loop adds it, while `get_global_linear_id` subtracts it.
- The TBB loops turn a block of three dimensions into an id with the page last
  (`parallelism_tbb.hpp` 61-67): with different extents they visit ids outside the range
  and miss others, in a plain range, in the groups and in a group.
- `event::wait`, "Wait for the event and the command associated with it to complete"
  (`event.hpp` 70): `queue::submit` returns the host event, which has no command and whose
  `wait` returns at once.
- `device::get_info` says `gpu` of an accelerator, and lists no extension of an OpenCL
  device, whatever `has_extension` answers.
- The host splits a block of the heap of a tile with an offset where the device expects an
  address ("Point to the previous block", `aie/detail/device_allocator.hpp` 28): when the
  kernel frees the block behind the last allocation of the host, `try_merge_prev` reads a
  header at that offset (`phase = "stray"`).
- A `vec` of three elements reinterpreted from a longer one loses what is beyond the third
  (`VecAsRoundTrip` leaves it out), and the difference of two device pointers is in bytes on
  the host and in elements on the device.
- Readers are not tracked: a writer does not wait for the kernels that read the
  previous content.
- `malloc` of the device does not clear `is_host_allocated`, so that the leak of a block
  that carries it is not reported.
- `wait_all` on hardware never returns when a tile has no kernel, or when a kernel waits
  for another tile inside a chain of requests.
- `service_storage::prepend` orders its types and its values differently when both
  are given; two services with the same data type reach the first one only.
- The `max_value` of a device frame is set from `min_value`, so that the comparison of the
  maximum is one of the minimum (`vendor/Xilinx/graphics.hpp` 941).

## Not modelled

- Two kernels in one command group: not tested for by the code.
- Sub-buffers, buffers made from a `cl_mem`, `program`, `error_handler`: stubs.
- Functions of the C and C++ library that `math.hpp` forwards to, Boost.Fiber,
  Boost.Compute, `std::mdspan`, libxaiengine, GTK: external, modelled by their use.
- `detail/SPIR/opencl_spir.h` and its companion are generated declarations of built-in
  functions without bodies: a third of the lines of the library, and no behaviour.
- Properties, access modes, allocators, traces, configuration macros, FPGA
  decorations and umbrella headers: types, constants and text.
- `program`, `queue` and `memory` of `acap/aie`: their launch has the form of AieLaunch
  without the services.
- The weak memory of the tiles: accesses are atomic, as the comment of `soft_barrier`
  says, and in program order, which its fences ask for.
