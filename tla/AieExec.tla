------------------------------ MODULE AieExec ------------------------------
(***************************************************************************)
(* queue::submit of include/aie on hardware (host_only.hpp, exec_kernel,   *)
(* host_tile_impl, xaie::handle): the host opens the device, prepares the  *)
(* memory of one tile after the other and starts each core, waits for the  *)
(* kernels and copies the buffers back when the tiles are destroyed.  A    *)
(* core runs from its start, while the host prepares the tiles after it.   *)
(*                                                                         *)
(* Every kernel has one accessor of one shared buffer, with the part it    *)
(* reads and the part it writes.  It stores t, its tile, into its copy and *)
(* may store into the memory tile of its own and of the next tile.         *)
(***************************************************************************)
EXTENDS Integers, FiniteSets

CONSTANTS ExecTiles,    \* number of tiles, with one kernel each
          BufferSize,   \* elements of the buffer
          MaxTries,     \* tries to open the device (30 in the code)
          Accesses      \* end of the part read from 0, start and end of the part written

ASSUME ExecAssumption ==
  /\ ExecTiles \in Nat \ {0} /\ BufferSize \in Nat /\ MaxTries \in Nat
  /\ \A a \in Accesses : a \in (0 .. BufferSize) \X (0 .. BufferSize) \X (0 .. BufferSize)

VARIABLES xpc,        \* next step of the host
          xcur,       \* the tile it prepares or destroys
          tries,
          core,       \* state of the core of each tile
          loaded,     \* what the host has written into each tile
          acc,        \* the accessor of each kernel
          copy,       \* the device copy of each accessor
          mem,        \* the memory tile of each tile: who wrote it last
          notified,   \* host_tile_impl::mem_ptr is set
          foreign,    \* a kernel wrote into the memory tile before its own launch
          stored,     \* a kernel has written into the memory tile
          buff        \* the buffer of the host

xvars == <<xpc, xcur, tries, core, loaded, acc, copy, mem, notified, foreign, stored, buff>>

XTiles == 1 .. ExecTiles
Elements == 0 .. BufferSize - 1
Original == 0

\* buffer_range and accessor: the part of the buffer sent to the device is the
\* hull of the two ranges; the part written back is relative to it
buffer_range(start_read, end_read, start_write, end_write) ==
  LET start == IF start_read < start_write THEN start_read ELSE start_write
      end == IF end_read > end_write THEN end_read ELSE end_write
  IN [data |-> start, size |-> end - start,
      write_back_start |-> start_write - start, write_back_size |-> end_write - start_write]

\* write_back of write_lambda: host element |-> element of the device copy
write_back(range) ==
  [e \in (range.data + range.write_back_start) ..
         (range.data + range.write_back_start + range.write_back_size - 1)
     |-> e - range.data]

Steps == {"elf", "table", "heap", "lambda", "accessor", "mem"}
NoAccessor == buffer_range(0, 0, 0, 0)

XInit == /\ xpc = "open" /\ xcur = 1 /\ tries = 0
         /\ core = [t \in XTiles |-> "stopped"]
         /\ loaded = [t \in XTiles |-> {}]
         /\ acc = [t \in XTiles |-> NoAccessor]
         /\ copy = [t \in XTiles |-> <<>>]
         /\ mem = [t \in XTiles |-> "old"]
         /\ notified = [t \in XTiles |-> FALSE]
         /\ foreign = [t \in XTiles |-> FALSE]
         /\ stored = [t \in XTiles |-> FALSE]
         /\ buff = [e \in Elements |-> Original]

-----------------------------------------------------------------------------
(* device_impl::device_impl and layout_storage::init *)

\* XAie_PmRequestTiles fails: close the device and open it again
OpenFails == /\ xpc = "open"
             /\ IF tries = MaxTries THEN xpc' = "exited" /\ UNCHANGED tries
                ELSE tries' = tries + 1 /\ UNCHANGED xpc
             /\ UNCHANGED <<xcur, core, loaded, acc, copy, mem, notified, foreign, stored, buff>>

\* It succeeds; host_tile_impl::init resets every core
Opens == /\ xpc = "open"
         /\ xpc' = "func"
         /\ core' = [t \in XTiles |-> "reset"]
         /\ tries' = 0
         /\ UNCHANGED <<xcur, loaded, acc, copy, mem, notified, foreign, stored, buff>>

-----------------------------------------------------------------------------
(* func(tile) *)

\* host_tile::mem: the memory tile will be sent with the kernel
AccessMem == /\ xpc = "func" /\ ~notified[xcur]
             /\ notified' = [notified EXCEPT ![xcur] = TRUE]
             /\ UNCHANGED <<xpc, xcur, tries, core, loaded, acc, copy, mem, foreign, stored, buff>>

\* An accessor and host_tile::single_task
SingleTask(a) ==
  /\ xpc = "func"
  /\ acc' = [acc EXCEPT ![xcur] = buffer_range(0, a[1], a[2], a[3])]
  /\ xpc' = "elf"
  /\ UNCHANGED <<xcur, tries, core, loaded, copy, mem, notified, foreign, stored, buff>>

\* Mutation: the core is started before the lambda is written
After_bare(step) ==
  [elf |-> "table", table |-> "heap", heap |-> "run", run |-> "lambda", lambda |-> "accessor",
   accessor |-> "mem", mem |-> "func"][step]

\* exec_kernel::exec and write_lambda: the order of the transfers
After(step) ==
  [elf |-> "table", table |-> "heap", heap |-> "lambda", lambda |-> "accessor",
   accessor |-> "mem", mem |-> "run", run |-> "func"][step]

NextTileAfter(step) ==
  IF After(step) # "func" THEN xpc' = After(step) /\ UNCHANGED xcur
  ELSE IF xcur < ExecTiles THEN xpc' = "func" /\ xcur' = xcur + 1
  ELSE xpc' = "wait" /\ xcur' = 1

\* load_elf_image, the store of the offset_table, init_allocator, the store of
\* the lambda with the accessor of the host in it
Transfer(step) ==
  /\ xpc = step /\ step \in {"elf", "table", "heap", "lambda"}
  /\ NextTileAfter(step)
  /\ loaded' = [loaded EXCEPT ![xcur] = @ \union {step}]
  /\ UNCHANGED <<tries, core, acc, copy, mem, notified, foreign, stored, buff>>

\* write_lambda: the copy of the buffer, then the accessor of the device over the
\* one of the host
WriteAccessor ==
  /\ xpc = "accessor"
  /\ NextTileAfter("accessor")
  /\ copy' = [copy EXCEPT ![xcur] =
                [k \in 0 .. acc[xcur].size - 1 |-> buff[acc[xcur].data + k]]]
  /\ loaded' = [loaded EXCEPT ![xcur] = @ \union {"accessor"}]
  /\ UNCHANGED <<tries, core, acc, mem, notified, foreign, stored, buff>>

\* write_lambda: the memory tile, if func has asked for it
SendMem ==
  /\ xpc = "mem"
  /\ NextTileAfter("mem")
  /\ mem' = IF notified[xcur] THEN [mem EXCEPT ![xcur] = "host"] ELSE mem
  /\ loaded' = [loaded EXCEPT ![xcur] = @ \union {"mem"}]
  /\ foreign' = [foreign EXCEPT ![xcur] = stored[xcur] /\ core[xcur] = "reset"]
  /\ UNCHANGED <<tries, core, acc, copy, notified, stored, buff>>

\* handle::core_run
CoreRun ==
  /\ xpc = "run"
  /\ NextTileAfter("run")
  /\ core' = [core EXCEPT ![xcur] = "running"]
  /\ UNCHANGED <<tries, loaded, acc, copy, mem, notified, foreign, stored, buff>>

-----------------------------------------------------------------------------
(* The kernel of tile t: kernel_run *)

KernelStoresCopy(t) ==
  /\ core[t] = "running"
  /\ copy' = [copy EXCEPT ![t] = [k \in DOMAIN @ |-> t]]
  /\ core' = [core EXCEPT ![t] = "stored"]
  /\ UNCHANGED <<xpc, xcur, tries, loaded, acc, mem, notified, foreign, stored, buff>>

KernelStoresMem(t, u) ==
  /\ core[t] \in {"running", "stored"} /\ u \in {t, t + 1} \intersect XTiles
  /\ mem' = [mem EXCEPT ![u] = "kernel"]
  /\ stored' = [stored EXCEPT ![u] = TRUE]
  /\ UNCHANGED <<xpc, xcur, tries, core, loaded, acc, copy, notified, foreign, buff>>

\* kernel_postrun: the host is told by the done service
CoreEnds(t) == /\ core[t] = "stored"
               /\ core' = [core EXCEPT ![t] = "done"]
               /\ UNCHANGED <<xpc, xcur, tries, loaded, acc, copy, mem, notified, foreign, stored, buff>>

-----------------------------------------------------------------------------
\* device_impl::wait_all: as many kernels have ended as there are tiles
AllEnded == \A t \in XTiles : core[t] = "done"

WaitAll == /\ xpc = "wait" /\ AllEnded
           /\ xpc' = "destroy" /\ xcur' = ExecTiles
           /\ UNCHANGED <<tries, core, loaded, acc, copy, mem, notified, foreign, stored, buff>>

\* ~host_tile_impl: the write-back of the accessor; the last tile is destroyed
\* first, and the device closed after the tiles
CopiedBack(a, c) ==
  LET back == write_back(a)
  IN [e \in Elements |-> IF e \in DOMAIN back THEN c[back[e]] ELSE buff[e]]

WriteBackTile == /\ xpc = "destroy"
                 /\ buff' = CopiedBack(acc[xcur], copy[xcur])
                 /\ IF xcur > 1 THEN xcur' = xcur - 1 /\ UNCHANGED xpc
                    ELSE xpc' = "closed" /\ UNCHANGED xcur
                 /\ UNCHANGED <<tries, core, loaded, acc, copy, mem, notified, foreign, stored>>

XDone == xpc \in {"closed", "exited"} /\ UNCHANGED xvars

XNext == \/ OpenFails \/ Opens \/ AccessMem
         \/ \E a \in Accesses : SingleTask(a)
         \/ \E step \in Steps : Transfer(step)
         \/ WriteAccessor \/ SendMem \/ CoreRun
         \/ \E t \in XTiles : \/ KernelStoresCopy(t) \/ CoreEnds(t)
                              \/ \E u \in XTiles : KernelStoresMem(t, u)
         \/ WaitAll \/ WriteBackTile \/ XDone

XSpec == XInit /\ [][XNext]_xvars
-----------------------------------------------------------------------------
(* A core never runs before its program, its offset table, its heap, its lambda with *)
(* the accessors of the device and the memory tile the host has touched are in its    *)
(* memory (exec_kernel::exec, write_lambda).                                          *)
CoresStartComplete ==
  \A t \in XTiles : core[t] \in {"running", "stored", "done"} => loaded[t] = Steps

(* Stores of kernels into a memory tile stay, its own kernel's and the neighbour's:   *)
(* only the launch of a tile erases what a neighbour, started before, has stored      *)
(* there (host_tile::mem, write_lambda).                                              *)
MemoryStoresKept ==
  \A t \in XTiles : stored[t] /\ ~foreign[t] => mem[t] = "kernel" \/ core[t] = "reset"

(* After submit an element of the buffer that one kernel declared to write has that   *)
(* kernel's value, one that none declared is untouched, and one that several declared *)
(* has the value of one of them: a stale copy of a kernel that only read it never     *)
(* comes back (buffer_range, write_backs).                                            *)
ResultsWrittenBack ==
  xpc = "closed" =>
    \A e \in Elements :
      LET writers == {t \in XTiles : e \in DOMAIN write_back(acc[t])}
      IN IF writers = {} THEN buff[e] = Original ELSE buff[e] \in writers

(* A launch on the hardware: cores start with all they need, memory tiles keep what   *)
(* kernels stored, and the buffers get the results and nothing else.                  *)
ResultsSound == CoresStartComplete /\ MemoryStoresKept /\ ResultsWrittenBack
=============================================================================
