----------------------------- MODULE DeviceHeap -----------------------------
(***************************************************************************)
(* The heap of an AI Engine tile: a list of blocks, each with              *)
(* its header just before it.  The host sets the heap up and allocates in  *)
(* it (the data of the accessors) before it starts the core; the kernel    *)
(* then allocates, reallocates and frees.  Addresses are offsets in the    *)
(* memory of the tile; the core sees them at DeviceBase.                   *)
(***************************************************************************)
EXTENDS Integers, FiniteSets, FiniteSetsExt

CONSTANTS HeapStart, HeapEnd,  \* heap_start and global_variable_start
          DeviceBase,          \* get_base_addr(get_self_dir())
          Requests,            \* sizes asked for
          Accessors            \* allocations by the host

ASSUME HeapAssumption ==
  /\ HeapStart \in Nat \ {0} /\ HeapStart % 4 = 0
  /\ HeapEnd \in Nat /\ HeapEnd % 4 = 0 /\ HeapEnd - HeapStart > 8
  /\ DeviceBase \in Nat /\ DeviceBase > HeapEnd
  /\ Requests \subseteq Nat

VARIABLES heap,    \* the header at each address holding one
          owner,   \* who allocated each live allocation, by its header (ghost)
          asked,   \* and for how many bytes (ghost)
          phase    \* of the launch of the kernel

hvars == <<heap, owner, asked, phase>>

HeaderSize == 8      \* sizeof(block_header)
min_alloc_size == 8
alloc_align == 4
align_size(n) == ((n + alloc_align - 1) \div alloc_align) * alloc_align

Null == 0

AtEnd(b, a) == a + HeaderSize + b[a].size
get_next(b, a) == IF b[a].is_last THEN Null ELSE AtEnd(b, a)

SetPrev(b, a, p) == IF a = Null THEN b ELSE [b EXCEPT ![a].prev = p]
\* Mutation: the next block keeps its old prev
correct_next_none(b, a) == b
correct_next(b, a) == SetPrev(b, get_next(b, a), DeviceBase + a)

is_splitable(b, a, n) == b[a].size >= n + HeaderSize + min_alloc_size

\* Block a keeps n bytes; the rest becomes a free block
Cut(b, a, n, p, h) ==
  LET new == a + HeaderSize + n
      rest == [prev |-> p, size |-> b[a].size - n - HeaderSize, in_use |-> FALSE,
               is_last |-> b[a].is_last, host |-> h]
  IN [x \in DOMAIN b \union {new} |->
        CASE x = new -> rest
          [] x = a -> [b[a] EXCEPT !.size = n, !.is_last = FALSE]
          [] OTHER -> b[x]]

\* split on the device; is_host_allocated of the new header is not written
split(b, a, n, h) == correct_next(Cut(b, a, n, DeviceBase + a, h), a + HeaderSize + n)

\* split on the host: set_offset changes the 15 low bits of prev, which in the
\* new header are those of a null pointer
set_offset(p, off) == (IF p >= DeviceBase THEN DeviceBase ELSE 0) + off
host_split(b, a, n) ==
  LET new == a + HeaderSize + n
      old_next == get_next(b, a)
      c == Cut(b, a, n, set_offset(Null, a), TRUE)
  IN IF old_next = Null THEN c ELSE SetPrev(c, old_next, set_offset(b[old_next].prev, new))

try_merge_next(b, a) ==
  LET next == get_next(b, a)
  IN IF next = Null THEN b
     ELSE IF b[next].in_use THEN b
     ELSE LET c == [x \in DOMAIN b \ {next} |->
                      IF x = a THEN [b[a] EXCEPT !.size = @ + HeaderSize + b[next].size,
                                                 !.is_last = b[next].is_last]
                      ELSE b[x]]
          IN correct_next(c, a)

\* The core dereferences prev: a bare offset is not an address of its memory.  What
\* it would read there is not modelled: the run ends in phase "stray".
Stray(b, a) == b[a].prev # Null /\ b[a].prev < DeviceBase

try_merge_prev(b, a) ==
  LET prev == b[a].prev - DeviceBase
  IN IF b[a].prev = Null THEN b
     ELSE IF b[prev].in_use THEN b ELSE try_merge_next(b, prev)

\* free up to the merge with the previous block, which is the step that can stray
Unused(b, a) == try_merge_next([b EXCEPT ![a].in_use = FALSE], a)
free(b, a) == LET c == Unused(b, a) IN IF Stray(c, a) THEN c ELSE try_merge_prev(c, a)

\* The first block of the list that is free and large enough
Suitable(b, n) == {a \in DOMAIN b : b[a].size >= n /\ ~b[a].in_use}
Found(b, n) == IF Suitable(b, n) = {} THEN Null ELSE Min(Suitable(b, n))

Used(b, a) == [b EXCEPT ![a].in_use = TRUE]
malloc_at(b, a, n, h) ==
  Used(IF is_splitable(b, a, n) THEN split(b, a, n, h) ELSE b, a)
host_malloc_at(b, a, n) ==
  LET c == IF is_splitable(b, a, n) THEN host_split(b, a, n) ELSE b
  IN [Used(c, a) EXCEPT ![a].host = TRUE]

\* try_realloc: the block after the merge with the next one, if that suffices
Grown(b, a, n) ==
  LET next == get_next(b, a)
  IN IF next = Null THEN b
     ELSE IF b[next].in_use \/ b[a].size + b[next].size + HeaderSize < n THEN b
     ELSE try_merge_next(b, a)
FitsInPlace(b, a, n) == b[a].size > n
realloc_in_place(b, a, n, h) ==
  IF is_splitable(b, a, n) THEN split(b, a, n, h) ELSE b
-----------------------------------------------------------------------------
\* exec: init_allocator
HInit == /\ heap = [a \in {HeapStart} |->
                      [prev |-> Null, size |-> HeapEnd - HeapStart - HeaderSize,
                       in_use |-> FALSE, is_last |-> TRUE, host |-> TRUE]]
         /\ owner = [a \in {} |-> ""]
         /\ asked = [a \in {} |-> 0]
         /\ phase = "setup"

Record(a, who, n) ==
  /\ owner' = [x \in DOMAIN owner \union {a} |-> IF x = a THEN who ELSE owner[x]]
  /\ asked' = [x \in DOMAIN asked \union {a} |-> IF x = a THEN n ELSE asked[x]]
Forget(a) ==
  /\ owner' = [x \in DOMAIN owner \ {a} |-> owner[x]]
  /\ asked' = [x \in DOMAIN asked \ {a} |-> asked[x]]

\* Before the launch: memory for the data of an accessor; malloc asserts on failure
HostMalloc(n) ==
  /\ phase = "setup" /\ Cardinality(DOMAIN owner) < Accessors
  /\ LET size == align_size(n)
         a == Found(heap, size)
     IN \/ a = Null /\ phase' = "aborted" /\ UNCHANGED <<heap, owner, asked>>
        \/ /\ a # Null /\ heap' = host_malloc_at(heap, a, size)
           /\ Record(a, "host", n) /\ UNCHANGED phase

\* core_run
RunKernel == phase = "setup" /\ phase' = "running" /\ UNCHANGED <<heap, owner, asked>>

\* try_malloc; malloc asserts that it succeeds
Malloc(n) ==
  /\ phase = "running"
  /\ LET size == align_size(n)
         a == Found(heap, size)
     IN /\ a # Null
        /\ \E h \in BOOLEAN : heap' = malloc_at(heap, a, size, h)
        /\ Record(a, "device", n)
  /\ UNCHANGED phase

Ended(b, a) == IF Stray(b, a) THEN "stray" ELSE "running"

Free(a) ==
  /\ phase = "running" /\ a \in DOMAIN owner /\ owner[a] = "device"
  /\ heap' = free(heap, a)
  /\ phase' = Ended(Unused(heap, a), a)
  /\ Forget(a)

\* try_realloc
Realloc(a, n) ==
  /\ phase = "running" /\ a \in DOMAIN owner /\ owner[a] = "device"
  /\ LET size == align_size(n)
         g == Grown(heap, a, size)
         to == Found(g, size)
     IN \E h \in BOOLEAN :
        \/ /\ FitsInPlace(g, a, size)
           /\ heap' = realloc_in_place(g, a, size, h)
           /\ Record(a, "device", n) /\ UNCHANGED phase
        \/ /\ ~FitsInPlace(g, a, size) /\ to # Null
           /\ LET m == malloc_at(g, to, size, h)
              IN heap' = free(m, a) /\ phase' = Ended(Unused(m, a), a)
           /\ owner' = [x \in (DOMAIN owner \ {a}) \union {to} |-> IF x = to THEN "device" ELSE owner[x]]
           /\ asked' = [x \in (DOMAIN asked \ {a}) \union {to} |-> IF x = to THEN n ELSE asked[x]]
        \/ /\ ~FitsInPlace(g, a, size) /\ to = Null
           /\ heap' = g /\ UNCHANGED <<owner, asked, phase>>

HasLeak(b) == \E a \in DOMAIN b : b[a].in_use /\ ~b[a].host

\* kernel_postrun: assert_no_leak, and the kernel is done.  The call is that of acap;
\* in aie/detail/exec_kernel.hpp it is commented out and a kernel ends with its leaks.
Return == /\ phase = "running"
          /\ phase' = IF HasLeak(heap) THEN "leak" ELSE "done"
          /\ UNCHANGED <<heap, owner, asked>>

HStopped == phase \in {"aborted", "stray", "leak", "done"} /\ UNCHANGED hvars

DeviceOp == \/ \E n \in Requests : Malloc(n)
            \/ \E a \in DOMAIN owner : Free(a) \/ \E n \in Requests : Realloc(a, n)

HNext == \/ \E n \in Requests : HostMalloc(n)
         \/ RunKernel \/ DeviceOp \/ Return \/ HStopped

HSpec == HInit /\ [][HNext]_hvars
-----------------------------------------------------------------------------
HTypeOK == /\ DOMAIN heap \subseteq {a \in HeapStart .. HeapEnd : a % alloc_align = 0}
           /\ DOMAIN owner = DOMAIN asked
           /\ phase \in {"setup", "running", "aborted", "stray", "leak", "done"}

(* split, try_merge_next and the host's split: the blocks lie one after the    *)
(* other over the whole heap, and exactly the last one is marked so.           *)
BlocksTileHeap ==
  /\ HeapStart \in DOMAIN heap
  /\ \A a \in DOMAIN heap :
       /\ IF heap[a].is_last THEN AtEnd(heap, a) = HeapEnd
                             ELSE AtEnd(heap, a) \in DOMAIN heap
       /\ heap[a].size >= 0
       /\ \A b \in DOMAIN heap : b > a => b >= AtEnd(heap, a)

(* block_header::prev has the offset of the block before, whoever wrote it.    *)
PrevOffsetsRight ==
  /\ heap[HeapStart].prev = Null
  /\ \A a \in DOMAIN heap : ~heap[a].is_last =>
       heap[AtEnd(heap, a)].prev \in {a, DeviceBase + a}

(* block_header::prev, which "Point to the previous block", is an address the   *)
(* core can follow, but in the block after an allocation of the host: its split *)
(* leaves the bare offset there, nothing repairs it, and free, which follows    *)
(* prev, fails on that block and on no other.                                   *)
HostHas(a) == a \in DOMAIN owner /\ owner[a] = "host"
AfterHost(x) == \E a \in DOMAIN heap : HostHas(a) /\ AtEnd(heap, a) = x
PrevPointsBack ==
  /\ \A a \in DOMAIN heap : ~heap[a].is_last =>
       heap[AtEnd(heap, a)].prev = IF HostHas(a) THEN a ELSE DeviceBase + a
  /\ phase = "stray" => \E x \in DOMAIN heap : AfterHost(x) /\ ~heap[x].in_use

(* try_realloc: "Since we automatically merge blocks on free, there can only   *)
(* be one consecutive free block".                                             *)
NoTwoFreeBlocksMeet ==
  phase # "stray" =>
    \A a \in DOMAIN heap :
      ~heap[a].in_use /\ ~heap[a].is_last => heap[AtEnd(heap, a)].in_use

(* try_malloc, try_realloc and free: every live allocation is a block in use    *)
(* of at least the size asked for, and no other block is in use.                *)
AllocationsKept ==
  /\ DOMAIN owner = {a \in DOMAIN heap : heap[a].in_use}
  /\ \A a \in DOMAIN owner : heap[a].size >= asked[a]

(* try_realloc: the memcpy of the old block never writes past the new one.      *)
ReallocCopyFits ==
  phase = "running" =>
    \A a \in DOMAIN owner, n \in Requests :
      LET size == align_size(n)
          g == Grown(heap, a, size)
          to == Found(g, size)
      IN ~FitsInPlace(g, a, size) /\ to # Null =>
           malloc_at(g, to, size, FALSE)[to].size >= g[a].size

(* assert_no_leak: "leak detected" is never said of the host's allocations.     *)
NoFalseLeak == phase = "leak" => \E a \in DOMAIN owner : owner[a] = "device"

(* The heap of a tile, used by the host and then by the kernel: its blocks are its     *)
(* whole extent, in a list that leads both ways, with no two free ones in a row; what  *)
(* was allocated is kept, and no leak is reported wrongly (block_header, try_malloc,   *)
(* try_realloc, free, assert_no_leak).                                                 *)
HeapListSound == /\ HTypeOK /\ BlocksTileHeap /\ PrevOffsetsRight /\ NoTwoFreeBlocksMeet
                 /\ AllocationsKept /\ ReallocCopyFits /\ NoFalseLeak

(* The heap is sound as far as the list goes, and the core can follow it backwards     *)
(* everywhere but to the allocations of the host (free, block_header::split).          *)
HeapSound == HeapListSound /\ PrevPointsBack
=============================================================================
