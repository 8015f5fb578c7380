----------------------------- MODULE AieMemory -----------------------------
(***************************************************************************)
(* How host and device name the memory and the locks of AI Engine tiles:   *)
(* device pointers (dev_ptr), the sections of a memory module              *)
(* (offset_table), lock numbers, the cutting of objects into stream        *)
(* transfers, and the lists of services and memory types.  The sizes are   *)
(* those of the code; unsigned differences wrap at Word, a power of two    *)
(* above every address (2^32 in the code).                                 *)
(***************************************************************************)
EXTENDS AieGeography, SequencesExt

Word == 2^20

tile_size == 2^15
alloc_align == 4

align_down(val, align) == val - (val % align)
align_up(val, align) == align_down(val + align - 1, align)
-----------------------------------------------------------------------------
\* dev_ptr: bits 16-15 are the side of the memory module, 14-0 the offset in it
get_base_addr(d) == 2^17 + DirValue[d] * tile_size
get_ptr_direction(ptr) == CHOOSE d \in Dirs : DirValue[d] = (ptr \div tile_size) % 4
ptr_offset(ptr) == ptr % tile_size
set_offset(ptr, offset) == align_down(ptr, tile_size) + offset
create(d, offset) == get_base_addr(d) + offset

\* Pointer arithmetic, as a T* on the device and as an uint32_t on the host
ptr_add(side, sizeof, ptr, off) == (ptr + off * sizeof) % Word
ptr_difference(side, sizeof, p, q) ==
  IF side = "host" THEN (p - q) % Word ELSE (p - q) \div sizeof

self_tile_addr(parity) == IF parity = "west" THEN 2^17 + tile_size ELSE 2^17 + 3 * tile_size

\* Bit 16 of the address of a variable on the stack of the tile
get_parity_dev(stack_addr) == IF (stack_addr \div 2^16) % 2 = 1 THEN "east" ELSE "west"

\* "self" is the side of the parity, found from the position or from the stack
resolved_self_dir(parity, d) == IF d = "self" THEN get_self_dir(parity) ELSE d
get_object(stack_addr, offset, d) ==
  create(resolved_self_dir(get_parity_dev(stack_addr), d), offset)

\* handle::load and store with a dev_ptr of tile (x, y): the tile moved to and
\* the offset in its memory
HostTarget(x, y, ptr) == <<moved(x, y, get_ptr_direction(ptr)), ptr_offset(ptr)>>

\* handle::mem_read and mem_write, load, and get_device_data: the bytes of the
\* memory of a tile that the host moves
mem_word(tile, offset) == [k \in 1 .. 4 |-> <<tile, offset + k - 1>>]
load(tile, offset, sizeof) == [k \in 1 .. sizeof |-> <<tile, offset + k - 1>>]
get_device_data(tile, offset, bytes) == load(tile, offset, bytes)

\* The device names lock i on side d by a number, the host by the handle of the
\* tile and i
device_lock_id(parity, d, i) == DirValue[resolved_self_dir(parity, d)] * 16 + i

\* What the tiles of v1 hardware occupy
aiev1 == [num_hw_row |-> 9, num_hw_col |-> 50, col_shift |-> 23, row_shift |-> 18,
          aie_tile_row_start |-> 1, aie_tile_row_num |-> 8]

\* libxaiengine and the core number the rows with the shim row
aie_pos_to_xaie_pos(x, y) == <<x, y + 1>>
xaie_pos_to_aie_pos(loc) == <<loc[1], loc[2] - 1>>
coreid(x, y) == aie_pos_to_xaie_pos(x, y)[1] * 2^16 + aie_pos_to_xaie_pos(x, y)[2]
get_tile_x_coordinate(id) == (id \div 2^16) % 2^7
get_tile_y_coordinate(id) == (id % 2^5) - 1

\* _XAie_GetTileAddr of libxaiengine, from the shifts it is configured with
GetTileAddr(loc) == loc[2] * 2^aiev1.row_shift + loc[1] * 2^aiev1.col_shift
\* handle::raw_read and raw_write: the register off of a tile
raw_address(loc, off) == GetTileAddr(loc) + off
\* handle::get_base_vaddr: where its memory is mapped, from the start of the mapping
base_vaddr(loc, MemAddr) == MemAddr + GetTileAddr(loc)
\* handle::adjusted: the handle of the tile at an offset from this one
adjusted(loc, o) ==
  LET p == xaie_pos_to_aie_pos(loc)
  IN aie_pos_to_xaie_pos(p[1] + o[1], p[2] + o[2])

\* Place of a tile in the vector of device_impl
mem_index(size_y, x, y) == x * size_y + y
-----------------------------------------------------------------------------
stack_size == 2^12
offset_table_size(version) == IF version = "aie" THEN 12 ELSE 8
record_size(version) == IF version = "aie" THEN 24 ELSE 56
offset_table_begin == stack_size
record_begin(version) == offset_table_begin + offset_table_size(version)
tile_mem_begin(version) == record_begin(version) + record_size(version)

\* The table written by exec() before the kernel starts; acap keeps the lambda
\* at the address of a symbol of the kernel, aie in a section of its own
offset_table(version, reserved_mem, tile_mem_size, lambda_size) ==
  LET lambda_start == align_up(tile_mem_begin(version) + tile_mem_size, alloc_align)
  IN [lambda_start |-> lambda_start,
      heap_start |-> IF version = "aie" THEN align_up(lambda_start + lambda_size, alloc_align)
                     ELSE lambda_start,
      global_variable_start |-> align_down(reserved_mem, alloc_align)]

\* get_tile_mem_..., get_lambda_... and get_heap_... of a kernel's table: where the
\* sections it describes begin and how large they are
TableSections(version, ot) ==
  LET Section(begin, end) == [begin |-> begin, size |-> end - begin, end |-> end]
  IN [tile_mem |-> Section(tile_mem_begin(version), ot.lambda_start),
      lambda |-> Section(ot.lambda_start, ot.heap_start),
      heap |-> Section(ot.heap_start, ot.global_variable_start)]

\* The size given to heap::init_allocator, an unsigned difference
heap_size(ot) == (ot.global_variable_start - ot.heap_start) % Word
-----------------------------------------------------------------------------
\* Mutation: the rest is not sent
Transfers_full(n, bytes) ==
  [k \in 1 .. Len(bytes) \div n |-> SubSeq(bytes, (k - 1) * n + 1, k * n)]

\* stream_operation writing: full transfers of n bytes, then the rest in a
\* buffer of zeros
Transfers(n, bytes) ==
  LET full == Len(bytes) \div n
      idx == full * n
      rest == [i \in 1 .. n |-> IF idx + i <= Len(bytes) THEN bytes[idx + i] ELSE 0]
  IN [k \in 1 .. full |-> SubSeq(bytes, (k - 1) * n + 1, k * n)]
       \o IF idx < Len(bytes) THEN <<rest>> ELSE <<>>

\* stream_operation reading an object of n_bytes bytes: the object and what is
\* left in the stream
Received(n, n_bytes, stream) ==
  LET full == n_bytes \div n
      idx == full * n
      used == IF idx < n_bytes THEN full + 1 ELSE full
  IN [object |-> [i \in 1 .. n_bytes |-> stream[((i - 1) \div n) + 1][((i - 1) % n) + 1]],
      left |-> SubSeq(stream, used + 1, Len(stream))]

\* maybe_volatile_memcpy, which moves the data and the answer of a service request:
\* the accesses to the memory, of four bytes while there are four, then of one
maybe_volatile_memcpy(bytes) ==
  LET words == Len(bytes) \div 4
  IN [k \in 1 .. words |-> SubSeq(bytes, 4 * k - 3, 4 * k)]
       \o [k \in 1 .. Len(bytes) % 4 |-> <<bytes[4 * words + k]>>]
-----------------------------------------------------------------------------
\* C++ division truncates towards zero
Truncated(i, d) == IF i < 0 THEN -((-i) \div d) ELSE i \div d
Abs(i) == IF i < 0 THEN -i ELSE i

\* write_number: the characters written, the sign or digits
MinusSign == -1
digit_count(i, base) ==
  LET count[tmp \in 0 .. Abs(i)] == IF tmp >= base THEN count[tmp \div base] + 1 ELSE 1
  IN count[Abs(i)]
write_number(i, base) ==
  (IF i < 0 THEN <<MinusSign>> ELSE <<>>)
    \o IF i = 0 THEN <<0>>
       ELSE LET n == digit_count(i, base)
            IN [k \in 1 .. n |-> Abs(Truncated(i, base^(n - k))) % base]
-----------------------------------------------------------------------------
(* What the templates of include/aie compute at compile time: the lists of  *)
(* services that host and kernels index, and the types and places of the    *)
(* memory tiles.  A service is the record of its name, the type of the data *)
(* of its act_on_data and the type that returns.                             *)

out_of_bounds == <<"out_of_bounds">>

\* type_seq::get_index: hana drops while different; the size when it is not there
get_index(seq, t) ==
  LET found == {k \in DOMAIN seq : seq[k] = t}
  IN IF found = {} THEN Len(seq) ELSE (CHOOSE k \in found : \A j \in found : k <= j) - 1
get_type(seq, i) == seq[i + 1]

\* memfunc_info of act_on_data: its fourth argument and its result
data_seq(services) == [k \in DOMAIN services |-> services[k].data]
non_void_ret(s) == IF s.ret = "void" THEN "uint32_t" ELSE s.ret
-----------------------------------------------------------------------------
\* service_storage: the types of the list, and the tuple of objects.  New
\* objects t2 come before the old ones in the tuple, after them in the types.
EmptyStorage == [types |-> <<>>, data |-> <<>>]
prepend(ts, t2, storage) ==
  [types |-> ts \o storage.types \o t2, data |-> ts \o t2 \o storage.data]

add_service(ts, t2) == prepend(ts, t2, EmptyStorage)

done_service == [name |-> "done", data |-> "done_data", ret |-> "void"]
send_log_service == [name |-> "log", data |-> "log_data", ret |-> "void"]

\* queue::submit
SubmittedServices(storage) == prepend(<<done_service, send_log_service>>, <<>>, storage)

\* The list a kernel uses without its tile: finish_kernel, __assert_fail
BasicService == <<done_service, send_log_service>>

\* device_tile::perform_service, and fake_dt's: the service of this type of
\* data and the index the request carries
service_of(list, data) == get_type(list, get_index(data_seq(list), data))
request(list, data) == [index |-> get_index(list, service_of(list, data)), data |-> data]

\* service_list_info::for_any: walks the list; past its end it is an error
for_any(list, idx) ==
  IF idx < Len(list) THEN list[idx + 1] ELSE [name |-> "fallback", data |-> "none", ret |-> "void"]

\* wait_all of the host: the object that acts, and the type its answer is
\* stored with, if any
Dispatch(storage, req) ==
  LET t == for_any(storage.types, req.index)
  IN [object |-> get_type(storage.data, get_index(storage.types, t)), reads |-> t.data,
      stores |-> IF t.ret = "void" THEN "nothing" ELSE t.ret]

\* device_tile_impl::perform_service of the emulation: no request is written
EmulatedDispatch(storage, data) ==
  get_type(storage.data, get_index(storage.types, service_of(storage.types, data)))
-----------------------------------------------------------------------------
\* The type selectors of submit_uniform, submit_hetero and submit
Uniform(g, type) == [p \in {<<x, y>> : x \in 0 .. g.x_max, y \in 0 .. g.y_max} |-> type]
Hetero(g) == [p \in {<<x, y>> : x \in 0 .. g.x_max, y \in 0 .. g.y_max} |-> p]
NoMemory(g) == Uniform(g, out_of_bounds)

\* tile_type_info::tile_data, and what device_tile::get_mem<d> takes the memory for
tile_data(g, selector, p) ==
  IF is_x_y_valid(g, p[1], p[2]) THEN selector[p] ELSE out_of_bounds
get_tile_type(g, selector, p, d) ==
  tile_data(g, selector, moved(p[1], p[2], resolved_self_dir(get_parity(p[2]), d)))
self_memory_tile(g, selector, p) == tile_data(g, selector, p)

\* layout_storage::tile_coordinates: a cartesian product, its last set the fastest
coordinates(g) == [k \in 1 .. size(g) |-> <<(k - 1) \div y_size(g), (k - 1) % y_size(g)>>]
generate_storage(g, selector) ==
  [k \in DOMAIN coordinates(g) |-> [pos |-> coordinates(g)[k], elem |-> selector[coordinates(g)[k]]]]

\* device_impl: the vector of the tiles, filled by layout_storage::init
get_tile_info(g, p) == mem_index(y_size(g), p[1], p[2])
Added(g, selector) ==
  FoldLeft(LAMBDA tiles, elem : [tiles EXCEPT ![get_tile_info(g, elem.pos)] = elem],
           [i \in 0 .. size(g) - 1 |-> [pos |-> <<-1, -1>>, elem |-> <<"none">>]],
           generate_storage(g, selector))

\* get_mem_addr of the emulated tiles, host_tile::mem of the host: the memory found
get_mem_addr(g, selector, p, d) ==
  Added(g, selector)[get_tile_info(g, moved(p[1], p[2], resolved_self_dir(get_parity(p[2]), d)))]
host_mem(g, selector, p) == Added(g, selector)[get_tile_info(g, p)]
=============================================================================
