------------------------------ MODULE Indexing ------------------------------
(***************************************************************************)
(* id, range, nd_range, item, nd_item, h_item and group: small arrays of   *)
(* size_t and the arithmetic that places a work-item in its work-group and *)
(* in the iteration space; the element of a buffer that an index gives;    *)
(* and the address spaces of the pointers and variables of a kernel.       *)
(* Dimension d of the code is position d + 1.                              *)
(***************************************************************************)
EXTENDS Integers, Sequences, SequencesExt
LOCAL INSTANCE Bitwise

CONSTANTS SizeMod,   \* 2^w for the w bits of size_t
          IntMod     \* 2^w for the w bits of int

Dims(a) == DOMAIN a

\* TRISYCL_BOOST_OPERATOR_VECTOR_OP: the results a[i] op b[i] become unsigned
VectorOp(results) == [i \in DOMAIN results |-> results[i] % SizeMod]
Plus(a, b)  == VectorOp([i \in Dims(a) |-> a[i] + b[i]])
Minus(a, b) == VectorOp([i \in Dims(a) |-> a[i] - b[i]])
Times(a, b) == VectorOp([i \in Dims(a) |-> a[i] * b[i]])
Div(a, b)   == VectorOp([i \in Dims(a) |-> a[i] \div b[i]])
Mod(a, b)   == VectorOp([i \in Dims(a) |-> a[i] % b[i]])

Shl(a, b)   == VectorOp([i \in Dims(a) |-> a[i] * 2 ^ b[i]])
Shr(a, b)   == VectorOp([i \in Dims(a) |-> a[i] \div 2 ^ b[i]])
BitAnd(a, b) == VectorOp([i \in Dims(a) |-> a[i] & b[i]])
BitOr(a, b)  == VectorOp([i \in Dims(a) |-> a[i] | b[i]])
BitXor(a, b) == VectorOp([i \in Dims(a) |-> a[i] ^^ b[i]])

\* TRISYCL_LOGICAL_OPERATOR_VECTOR_OP: the truth values become 0 and 1
LogicalOp(truths) == [i \in DOMAIN truths |-> IF truths[i] THEN 1 ELSE 0]
Less(a, b) == LogicalOp([i \in Dims(a) |-> a[i] < b[i]])
LessEq(a, b) == LogicalOp([i \in Dims(a) |-> a[i] <= b[i]])
LogicalAnd(a, b) == LogicalOp([i \in Dims(a) |-> a[i] # 0 /\ b[i] # 0])
LogicalOr(a, b) == LogicalOp([i \in Dims(a) |-> a[i] # 0 \/ b[i] # 0])

\* TRISYCL_OPERATOR_BASIC_TYPE_OP: b op a[i], for comparisons and shifts
BasicTypeOp(op, b, a) ==
  [i \in Dims(a) |->
     CASE op = "<"  -> IF b < a[i] THEN 1 ELSE 0
       [] op = "<=" -> IF b <= a[i] THEN 1 ELSE 0
       [] op = ">"  -> IF b > a[i] THEN 1 ELSE 0
       [] op = ">=" -> IF b >= a[i] THEN 1 ELSE 0
       [] op = "<<" -> (b * 2 ^ a[i]) % SizeMod
       [] op = ">>" -> b \div 2 ^ a[i]]

\* The constructors of small_array: the elements are converted to the basic type
FromValues(values) == [i \in DOMAIN values |-> values[i] % SizeMod]

\* The broadcasting constructor of small_array_sycl and the default id
Broadcast(n, v) == [i \in 1 .. n |-> v]
\* small_array_sycl(args...): any other number of values passes the assertion and
\* leaves what the memory held
small_array_sycl(n, args, memory) ==
  CASE Len(args) = n -> FromValues(args)
    [] Len(args) = 1 /\ n # 1 -> Broadcast(n, args[1] % SizeMod)
    [] OTHER -> memory

\* get(i), the tuple-like interface made of it, and the conversion of an array of
\* one dimension to a number
get(a, i) == a[i + 1]
AsTuple(a) == [i \in Dims(a) |-> get(a, i - 1)]
ToScalar(a) == get(a, 0)
Zero(n) == Broadcast(n, 0)

\* The unary operators: -a, and what ++a, --a, a++ and a-- leave in a and return
Negated(a) == Minus(Zero(Len(a)), a)
Prefixed(a, by) == LET b == Plus(a, Broadcast(Len(a), by)) IN [self |-> b, result |-> b]
Postfixed(a, by) == [self |-> Plus(a, Broadcast(Len(a), by)), result |-> a]

\* range::size: std::accumulate from 1 keeps the product in an int
ToInt(n) == LET u == n % IntMod IN IF u < IntMod \div 2 THEN u ELSE u - IntMod
RangeSize(r) == FoldLeft(LAMBDA acc, v : ToInt((acc * v) % SizeMod), 1, r) % SizeMod

\* Mutation: the offset is not subtracted
linear_id_absolute(range, id, offset) ==
  FoldRight(LAMBDA d, acc : (acc * range[d] + id[d]) % SizeMod, [d \in Dims(range) |-> d], 0)

\* detail::linear_id: Horner from the last dimension to the first
linear_id(range, id, offset) ==
  FoldRight(LAMBDA d, acc : (acc * range[d] + id[d] - offset[d]) % SizeMod,
            [d \in Dims(range) |-> d], 0)

\* nd_range
NdRange(global, local, offset) ==
  [global_range |-> global, local_range |-> local, offset |-> offset]
get_group_range(ndr) ==
  Div(Minus(Plus(ndr.global_range, ndr.local_range), Broadcast(Len(ndr.global_range), 1)),
      ndr.local_range)
NdRangeEq(a, b) == a.global_range = b.global_range /\ a.offset = b.offset

\* item
Item(global_size, index, offset) ==
  [global_range |-> global_size, global_index |-> index, offset |-> offset]
ItemLinearId(it) == linear_id(it.global_range, it.global_index, it.offset)

\* nd_item and h_item: empty, then set_local and set_global; or from a global id
NdItem(ndr, local, global) ==
  [ND_range |-> ndr, local_index |-> local, global_index |-> global]
NdItemOf(global, ndr) == NdItem(ndr, Mod(Minus(global, ndr.offset), ndr.local_range), global)
HItem(ndr, local, global) == NdItem(ndr, local, global)

get_global_linear_id(it) ==
  linear_id(it.ND_range.global_range, it.global_index, it.ND_range.offset)
get_local_linear_id(it) ==
  linear_id(it.ND_range.local_range, it.local_index, Zero(Len(it.local_index)))
get_group(it) == Div(it.global_index, it.ND_range.local_range)
get_group_linear_id(it) ==
  linear_id(get_group_range(it.ND_range), get_group(it), Zero(Len(it.local_index)))
get_item(it) == Item(it.ND_range.global_range, it.global_index, it.ND_range.offset)
NdItemEq(a, b) == NdRangeEq(a.ND_range, b.ND_range) /\ a.global_index = b.global_index

\* group
Group(i, ndr) == [group_id |-> i, ndr |-> ndr]
GroupLinearId(g) == linear_id(get_group_range(g.ndr), g.group_id, Zero(Len(g.group_id)))
-----------------------------------------------------------------------------
\* What a kernel can ask of the object it is called with
item_view(it) ==
  [get_id |-> it.global_index, get_range |-> it.global_range, get_offset |-> it.offset,
   get_linear_id |-> ItemLinearId(it)]

nd_item_view(it) ==
  [get_global_id |-> it.global_index, get_global_linear_id |-> get_global_linear_id(it),
   get_local_id |-> it.local_index, get_local_linear_id |-> get_local_linear_id(it),
   get_group |-> get_group(it), get_group_linear_id |-> get_group_linear_id(it),
   get_group_range |-> get_group_range(it.ND_range),
   get_global_range |-> it.ND_range.global_range, get_local_range |-> it.ND_range.local_range,
   get_offset |-> it.ND_range.offset, get_item |-> get_item(it)]

\* h_item has the getters of nd_item, written again
h_item_view(it) ==
  LET ndr == it.ND_range
      group == Div(it.global_index, ndr.local_range)
      zero == Zero(Len(group))
  IN [get_global_id |-> it.global_index,
      get_global_linear_id |-> linear_id(ndr.global_range, it.global_index, ndr.offset),
      get_local_id |-> it.local_index,
      get_local_linear_id |-> linear_id(ndr.local_range, it.local_index, zero),
      get_group |-> group, get_group_linear_id |-> linear_id(get_group_range(ndr), group, zero),
      get_group_range |-> get_group_range(ndr), get_global_range |-> ndr.global_range,
      get_local_range |-> ndr.local_range, get_offset |-> ndr.offset,
      get_item |-> Item(ndr.global_range, it.global_index, ndr.offset)]

group_view(g) ==
  [get_id |-> g.group_id, get_linear_id |-> GroupLinearId(g),
   get_group_range |-> get_group_range(g.ndr), get_global_range |-> g.ndr.global_range,
   get_local_range |-> g.ndr.local_range, get_offset |-> g.ndr.offset]
-----------------------------------------------------------------------------
(* The element of a buffer that an accessor designates: by an id, an item   *)
(* or an nd_item, by a chain of integers, by an iterator, and on a device   *)
(* by a plain offset.  An accessor is a std::mdspan (external): its data    *)
(* and its extents, the last index varying fastest.                         *)

\* mixin::accessor: the extents of the mdspan are the range of the buffer
mdspan_of(data, range) == [data |-> data, extents |-> range]

get_range(access) == [d \in DOMAIN access.extents |-> access.extents[d]]
get_count(access) == FoldLeft(LAMBDA acc, n : acc * n, 1, access.extents)
get_size(access, sizeof) == get_count(access) * sizeof

\* accessor gives the sizes of its mdspan, buffer those of its own
sizes(access, sizeof) ==
  [range |-> get_range(access), count |-> get_count(access), size |-> get_size(access, sizeof)]
buffer_sizes(range, sizeof) == sizes(mdspan_of(0, range), sizeof)

\* tuple_indexed_mdspan_access: the offset of the element in memory
ElementAt(access, indices) ==
  access.data + FoldLeft(LAMBDA acc, d : acc * access.extents[d] + indices[d], 0,
                         [d \in DOMAIN access.extents |-> d])

\* track_index: the proxy keeps the indices in the order of [i1][i2][i3]
track_index(indices, i) == Append(indices, i)

\* accessor[i1][i2]...: one proxy per index, the last one gives the element
Chained(access, indices) ==
  ElementAt(access, FoldLeft(LAMBDA proxy, i : track_index(proxy, i), << >>, indices))

\* facade::accessor by integers: [i1, i2], or a first index that starts a chain
AtIntegers(access, groups) ==
  IF Len(groups[1]) = 1 THEN Chained(access, FlattenSeq(groups))
                        ELSE ElementAt(access, groups[1])

\* facade::accessor: by id; item and nd_item designate the element of their
\* global id
AtId(access, id) == ElementAt(access, id)
AtItem(access, it) == AtId(access, it.global_index)

\* accessor::operator[]: what the index is decides
At(access, index) ==
  CASE index.by = "integers" -> AtIntegers(access, index.of)
    [] index.by = "id"       -> AtId(access, index.of)
    [] index.by = "item"     -> AtItem(access, index.of)
    [] index.by = "nd_item"  -> AtId(access, index.of.global_index)

\* *accessor, and what get_pointer points to
First(access) == access.data
\* The same of the accessor of the user: *accessor and get_pointer forward
accessor_first(access) == [value |-> First(access), pointer |-> First(access)]

\* begin() to end(), and rbegin() to rend()
Iterated(access) == [n \in 1 .. get_count(access) |-> access.data + n - 1]
ReverseIterated(access) == [n \in 1 .. get_count(access) |-> access.data + get_count(access) - n]

\* The pairs of iterators of accessor: crbegin and crend are rbegin and rend
accessor_iterators(access) ==
  [plain |-> Iterated(access), const |-> Iterated(access),
   reverse |-> ReverseIterated(access), const_reverse |-> ReverseIterated(access)]

\* drt::accessor: the buffer seen by a kernel on a device, one dimension
DeviceAt(access, index) == access.data + index
-----------------------------------------------------------------------------
(* The variables and pointers with an OpenCL address space of SYCL 1.2      *)
(* (constant, global, local, priv, generic, multi_ptr), as types see them   *)
(* on the host and in the device compiler.                                  *)

Spaces == {"global_space", "local_space", "constant_space", "private_space", "generic_space"}

\* The names the user declares variables and pointers with
Declared == [constant |-> "constant_space", constant_ptr |-> "constant_space",
             generic |-> "generic_space",
             global |-> "global_space", global_ptr |-> "global_space",
             local |-> "local_space", local_ptr |-> "local_space",
             priv |-> "private_space", private_ptr |-> "private_space"]

\* ocl_type: the number of the address space of the attribute, 0 for none.  A
\* build is the host's or the device's, with a version of OpenCL
Builds == [device : BOOLEAN, version : {120, 200}]
ocl_type(build, as) ==
  IF ~build.device THEN 0
  ELSE CASE as = "global_space" -> 1 [] as = "constant_space" -> 2 [] as = "local_space" -> 3
         [] as = "generic_space" /\ build.version >= 200 -> 4 [] OTHER -> 0

\* addr_space: the class that implements a type
addr_space(shape) == IF shape = "pointer" THEN "address_space_ptr"
                     ELSE IF shape = "class" THEN "address_space_object"
                     ELSE IF shape = "array" THEN "address_space_array"
                     ELSE "address_space_fundamental"
-----------------------------------------------------------------------------
\* Fundamental types: values are numbers of halves, an int drops the half, and a
\* char keeps three bits
Types == {"float", "int", "char"}
Truncated(h) == IF h >= 0 THEN 2 * (h \div 2) ELSE -(2 * ((-h) \div 2))
Cast(type, h) == CASE type = "float" -> h
                   [] type = "int" -> Truncated(h)
                   [] type = "char" -> ((Truncated(h) + 8) % 16) - 8

\* address_space_variable(const T& v)
address_space_variable(type, as, h) == [type |-> type, as |-> as, variable |-> Cast(type, h)]

\* address_space_fundamental from another one, of another type and space
address_space_fundamental(type, as, v) ==
  [type |-> type, as |-> as, variable |-> Cast(type, Cast(v.type, v.variable))]

\* The conversion to opencl_type& and get_address: where the variable is
Reference(build, v) == [space |-> ocl_type(build, v.as), value |-> v.variable]

\* address_space_ptr from the address of a variable of its type and space, and from
\* another pointer, whose space nothing compares
address_space_ptr(build, v) == [type |-> "pointer", as |-> v.as, variable |-> Reference(build, v)]
PointerFrom(as, p) == [type |-> "pointer", as |-> as, variable |-> p.variable]
make_ptr(p) == PointerFrom(p.as, p)

\* address_space_array from an array or an initializer list, whose end nothing
\* compares with the end of the array; the rest keeps what it was
address_space_array(as, old, list) ==
  [type |-> "array", as |-> as, variable |-> [k \in DOMAIN old |-> IF k \in DOMAIN list THEN list[k] ELSE old[k]]]

\* address_space_object: the object itself, copied
address_space_object(as, object) == [type |-> "class", as |-> as, variable |-> object]
=============================================================================
