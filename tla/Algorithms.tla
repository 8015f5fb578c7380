---------------------------- MODULE Algorithms ------------------------------
(***************************************************************************)
(* The pure parts of the library, each against a reference definition, for *)
(* every input of a bounded set.                                           *)
(***************************************************************************)
EXTENDS Integers, Sequences, SequencesExt, FiniteSets

Size == 2 ^ 20      \* stands for 2^64: larger than any product of the inputs

Loop == INSTANCE ParallelFor WITH SizeMod <- Size, IntMod <- 2 ^ 10
Arr  == INSTANCE Indexing WITH SizeMod <- 8, IntMod <- 4     \* three and two bits
Vec  == INSTANCE VecOps
Geo  == INSTANCE AieGeography
Mem  == INSTANCE AieMemory
Pal  == INSTANCE Palette WITH Bits <- 3
Sel  == INSTANCE ObjectModel
Img  == INSTANCE KernelImages

VARIABLE input

Ranges == UNION {[1 .. n -> 1 .. 3] : n \in 1 .. 3}
LocalRanges == UNION {[1 .. n -> 1 .. 2] : n \in 1 .. 3}

\* Arguments of a vec constructor: scalars and vecs of distinct values
Scalar(v) == [scalar |-> TRUE, elements |-> <<v>>]
Vector(s) == [scalar |-> FALSE, elements |-> s]
Arguments == UNION {[1 .. n -> {Scalar(1), Vector(<<2>>), Vector(<<3, 4>>), Vector(<<5, 6, 7>>)}]
                      : n \in 1 .. 4}

\* Systems of at most two OpenCL platforms and three OpenCL devices
DeviceLists == UNION {[1 .. n -> {{"cpu"}, {"gpu"}, {"accelerator"}, {"accelerator", "cpu"}}] : n \in 0 .. 2}
Systems == {p \in UNION {[1 .. n -> DeviceLists] : n \in 0 .. 2} : Len(FlattenSeq(p)) <= 3}

\* Services of a user, two of which take the same type of data
UserServices == {[name |-> "A", data |-> "a", ret |-> "int"], [name |-> "B", data |-> "b", ret |-> "void"],
                 [name |-> "C", data |-> "a", ret |-> "void"]}
ServiceLists == {s \in UNION {[1 .. n -> UserServices] : n \in 0 .. 3} : IsInjective(s)}

Bytes(n) == [i \in 1 .. n |-> i]

\* Kernels whose binaries hold digits and new lines, or nothing
Names == {<<11>>, <<12>>, <<11, 7>>}
ImageKernels == [Name : Names, MemSize : {0, 12},
                 Binary : {<< >>, <<13>>, <<13, Img!NewLine>>, <<Img!NewLine, 1, Img!NewLine>>}]
\* An ELF file with two string tables, and symbols of which two have one name
StringTable(name, strings) == [type |-> "strtab", name |-> name, content |-> strings]
SymbolTable == [type |-> "symtab", name |-> ".symtab",
                content |-> <<[st_name |-> 1, value |-> 64], [st_name |-> 2, value |-> 96],
                              [st_name |-> 3, value |-> 128]>>]
ElfSections == <<StringTable(".shstrtab", <<"g", "h", "f">>), StringTable(".strtab", <<"f", "g", "f">>),
                 SymbolTable>>

Inputs ==
  UNION {
    {[kind |-> "range", r |-> r, o |-> o] : r \in Ranges, o \in {0, 2}},
    {[kind |-> "nd_range", g |-> g, l |-> l, o |-> o]
       : g \in Ranges, l \in LocalRanges, o \in {0, 2}},
    {[kind |-> "array", a |-> <<x, x \div 3>>, b |-> <<y, 7 - y>>] : x \in 0 .. 7, y \in 0 .. 7},
    {[kind |-> "vec", n |-> n] : n \in Vec!Sizes},
    {[kind |-> "make", n |-> n, args |-> a] : n \in {2, 3, 4}, a \in Arguments},
    {[kind |-> "as", n |-> n, b |-> b, n2 |-> m, b2 |-> c]
       : n \in Vec!Sizes, b \in {1, 2, 4}, m \in Vec!Sizes, c \in {1, 2, 4}},
    {[kind |-> "layout", g |-> g] : g \in Geo!Layouts(3, 3)},
    {[kind |-> "tiles", p |-> p, q |-> q] : p, q \in {0, 1, 49} \X (0 .. 7)},
    {[kind |-> "stream", n |-> n, size |-> s] : n \in {4, 6}, s \in 1 .. 20},
    {[kind |-> "sections", version |-> v, tile_mem |-> t, lambda |-> l, image |-> i]
       : v \in {"aie", "acap"}, t \in {0, 3, 6001}, l \in {1, 8, 2000},
         i \in {16383, 20000, 32766}},
    {[kind |-> "number", i |-> i, base |-> b] : i \in -101 .. 101, b \in {2, 10, 16}},
    {[kind |-> "palette", p |-> p] :
       p \in [k : {"gray", "rainbow"}, phase : -7 .. 7, clip : -1 .. 7, frequency_log2 : -3 .. 2]},
    {[kind |-> "image", rows |-> r, columns |-> c, y |-> y, x |-> x]
       : r \in 1 .. 3, c \in 1 .. 3, y \in 1 .. 3, x \in 1 .. 3},
    {[kind |-> "kernels", list |-> k, cut |-> c] :
       k \in UNION {[1 .. n -> ImageKernels] : n \in 0 .. 2}, c \in 0 .. 1},
    {[kind |-> "elf", order |-> e] : e \in SetToSeqs(1 .. 3)},
    {[kind |-> "index", r |-> r] : r \in Ranges},
    {[kind |-> "services", list |-> s, cut |-> c] : s \in ServiceLists, c \in 0 .. 3},
    {[kind |-> "source", options |-> o, exists |-> e, writable |-> w]
       : o \in SUBSET {"help", "source-in", "output"}, e \in BOOLEAN, w \in BOOLEAN},
    {[kind |-> "floats", x |-> x, y |-> y] : x, y \in [1 .. 2 -> Vec!Floats]},
    {[kind |-> "cross", x |-> x, y |-> y] : x, y \in [1 .. 3 -> -1 .. 1]},
    {[kind |-> "space", build |-> b, from |-> f, to |-> t, h |-> h]
       : b \in Arr!Builds, f, t \in Range(Arr!Declared), h \in {-21, -3, 0, 5, 17}},
    {[kind |-> "system", platforms |-> s] : s \in Systems} }

AlgInit == input = [kind |-> "none"]
PickInput == /\ input.kind = "none"
             /\ \E i \in Inputs : /\ i.kind = "nd_range" => Len(i.g) = Len(i.l)
                                  /\ input' = i
InputDone == input.kind # "none" /\ UNCHANGED input
AlgNext == PickInput \/ InputDone
AlgSpec == AlgInit /\ [][AlgNext]_input
-----------------------------------------------------------------------------
Box(r) == {i \in [DOMAIN r -> 0 .. 6] : \A d \in DOMAIN r : i[d] < r[d]}
ExactlyOnce(s, S) == IsInjective(s) /\ ToSet(s) = S

\* The TBB loops on three dimensions take the page, the first coordinate, for the
\* last one: what they visit is the range when its extents are alike
TbbKeeps(r) == Len(r) < 3 \/ Cardinality(ToSet(r)) = 1

(* parallel_for(range): the kernel is called once for each id of the range, with    *)
(* an offset once for each id translated by it, and the linear ids number the items *)
(* (parallelism.hpp, parallel_for_iterate and the OpenMP variant).  So do the TBB   *)
(* loops on one or two dimensions or on a cube; of three different extents nothing  *)
(* is stated, since they visit a box with the extents in another order.             *)
RangeItemsOnce ==
  input.kind = "range" =>
    LET r == input.r
        o == Loop!Broadcast(Len(r), input.o)
        items == Loop!parallel_for_global_offset(r, o)
    IN /\ ExactlyOnce(Loop!parallel_for_iterate(r), Box(r))
       /\ Loop!parallel_OpenMP_for_iterate(r) = Box(r)
       /\ TbbKeeps(r) => Loop!tbb_parallel_for_iterate(r) = Box(r)
       /\ ExactlyOnce(Loop!MapSeq(LAMBDA it : it.global_index, items),
                      {Loop!Plus(i, o) : i \in Box(r)})
       /\ ExactlyOnce(Loop!MapSeq(Loop!ItemLinearId, items), 0 .. Loop!RangeSize(r) - 1)

(* parallel_for(nd_range) and its hierarchical and OpenMP forms give the kernel the *)
(* same work-items, so do the TBB loops where the extents of the groups and of a    *)
(* group let them; whole work-groups that cover the global range, each item once,   *)
(* with the local id and the group that its global id determines, the linear ids of *)
(* the groups and of the items of a group numbering them.  The items are the global *)
(* range exactly when the local range divides it.  The global ids are stated of an  *)
(* nd_range with no offset: the loops do not add the one that nd_item documents.    *)
NdItemsOnce ==
  input.kind = "nd_range" =>
    LET ndr == Loop!NdRange(input.g, input.l, Loop!Broadcast(Len(input.g), input.o))
        groups == Loop!get_group_range(ndr)
        items == Loop!parallel_for_nd_range(ndr)
        ids == Loop!MapSeq(LAMBDA it : it.global_index, items)
    IN /\ Loop!hierarchical(ndr) = items
       /\ Loop!omp_parallel_for_nd_range(ndr) = ToSet(items)
       /\ TbbKeeps(groups) /\ TbbKeeps(input.l) => Loop!tbb_parallel_for_nd_range(ndr) = ToSet(items)
       /\ input.o = 0 =>
            /\ ExactlyOnce(ids, Box(Loop!Times(groups, input.l)))
            /\ Box(input.g) \subseteq ToSet(ids)
            /\ (Loop!Mod(input.g, input.l) = Loop!Zero(Len(input.g))) <=> (ToSet(ids) = Box(input.g))
            /\ \A it \in ToSet(items) :
                 it.local_index = Loop!NdItemOf(it.global_index, ndr).local_index
       /\ ExactlyOnce([k \in DOMAIN items |->
                         <<Loop!get_group_linear_id(items[k]), Loop!get_local_linear_id(items[k])>>],
                      (0 .. Loop!RangeSize(groups) - 1) \X (0 .. Loop!RangeSize(input.l) - 1))

(* However a command group starts a kernel (the overloads of handler::single_task,   *)
(* parallel_for and parallel_for_work_group), on the host, by loops in a device      *)
(* kernel or by native work-items, its body is called once for each item, with the   *)
(* same items in all of them.                                                        *)
HandlerCallsOnce ==
  /\ input.kind = "range" =>
       LET r == input.r
           o == Loop!Broadcast(Len(r), input.o)
       IN \A host, native \in BOOLEAN : ~(native /\ host) =>
            /\ Len(Loop!single_task(host)) = 1
            /\ ExactlyOnce(Loop!parallel_for_range(r, "id", native, host), Box(r))
            /\ ExactlyOnce(Loop!parallel_for_array(r, "item", native, host),
                           ToSet(Loop!parallel_for_item(r)))
            /\ Len(r) = 1 => Loop!parallel_for_integer(r[1], "item", native, host)
                               = Loop!parallel_for_range(r, "item", native, host)
            /\ ExactlyOnce(Loop!MapSeq(Loop!ItemLinearId, Loop!parallel_for_offset(r, o, host)),
                           0 .. Loop!RangeSize(r) - 1)
            /\ ExactlyOnce(Loop!MapSeq(LAMBDA w : w.global_id, Loop!kernel_parallel_for(r, FALSE)),
                           Box(r))
            /\ Len(r) = 1 => Loop!kernel_parallel_for(r[1], TRUE) = Loop!kernel_parallel_for(r, FALSE)
            /\ Len(Loop!kernel_single_task) = 1
  /\ input.kind = "nd_range" =>
       LET ndr == Loop!NdRange(input.g, input.l, Loop!Broadcast(Len(input.g), input.o))
       IN \A host \in BOOLEAN :
            /\ ExactlyOnce(Loop!parallel_for_nd(ndr, host), ToSet(Loop!parallel_for_nd_range(ndr)))
            /\ Loop!parallel_for_work_group(ndr, host) = Loop!parallel_for_nd(ndr, host)
            /\ input.o = 0 => Loop!parallel_for_work_group_ranges(input.g, input.l, host)
                                = Loop!parallel_for_nd(ndr, host)

(* What a kernel reads from its nd_item, its h_item, its group and their item agree: *)
(* the flat and the hierarchical form place a work-item alike, the group of an item  *)
(* is the group it runs in, its linear id that of its item (nd_item.hpp, h_item.hpp, *)
(* group.hpp, item.hpp); without an offset its global id is that of its group and of *)
(* its place in it.                                                                  *)
WorkItemViewsAgree ==
  input.kind = "nd_range" =>
    LET ndr == Loop!NdRange(input.g, input.l, Loop!Broadcast(Len(input.g), input.o))
        nd_items == ToSet(Loop!MapSeq(Loop!nd_item_view, Loop!parallel_for_nd_range(ndr)))
    IN \A group \in ToSet(Loop!parallel_for_workgroup(ndr)) :
         \A it \in ToSet(Loop!parallel_for_workitem(group)) :
           LET h == Loop!h_item_view(it)
               g == Loop!group_view(group)
               i == Loop!item_view(h.get_item)
           IN /\ h \in nd_items
              /\ <<h.get_group, h.get_group_linear_id>> = <<g.get_id, g.get_linear_id>>
              /\ \A view \in {"get_group_range", "get_global_range", "get_local_range",
                               "get_offset"} : h[view] = g[view]
              /\ i.get_linear_id = h.get_global_linear_id /\ i.get_offset = h.get_offset
              /\ input.o = 0 => h.get_global_id =
                   Loop!Plus(h.get_local_id, Loop!Times(g.get_id, g.get_local_range))

(* The arithmetic of id and range (small_array.hpp) on size_t, which wraps around: a *)
(* quotient and a remainder give back the dividend, what is added or xored twice is  *)
(* undone, shifts are products and quotients, ++ and -- return the old or the new    *)
(* value by their place, and the size of a range is right while it fits in an int.   *)
(* Negative values wrap as the subtraction does, a number on the left acts as the    *)
(* array it is broadcast to, and the tuple of an array gives the array back.         *)
ArrayArithmetic ==
  input.kind = "array" =>
    LET a == input.a
        b == input.b
        ones == Arr!Broadcast(2, 1)
    IN /\ Arr!Minus(Arr!Plus(a, b), b) = a /\ Arr!Plus(Arr!Negated(a), a) = Arr!Zero(2)
       /\ (\A d \in 1 .. 2 : b[d] # 0) =>
            /\ Arr!Plus(Arr!Times(Arr!Div(a, b), b), Arr!Mod(a, b)) = a
            /\ Arr!Less(Arr!Mod(a, b), b) = ones
       /\ Arr!BitXor(Arr!BitXor(a, b), b) = a
       /\ Arr!Plus(Arr!BitAnd(a, b), Arr!BitOr(a, b)) = Arr!Plus(a, b)
       /\ Arr!Shr(Arr!Shl(a, ones), ones) = Arr!BitAnd(a, Arr!Broadcast(2, 3))
       /\ Arr!Plus(Arr!Less(a, b), Arr!LessEq(b, a)) = ones
       /\ Arr!Plus(Arr!LogicalAnd(a, b), Arr!LogicalOr(a, b))
            = Arr!Plus(Arr!Less(Arr!Zero(2), a), Arr!Less(Arr!Zero(2), b))
       /\ a[1] < 2 /\ a[1] * a[2] < 2 => Arr!RangeSize(a) = a[1] * a[2]
       /\ Arr!Prefixed(Arr!Postfixed(a, 1).self, -1).result = a
       /\ Arr!Postfixed(a, -1) = [Arr!Prefixed(a, -1) EXCEPT !.result = a]
       /\ Arr!small_array_sycl(2, [d \in 1 .. 2 |-> a[d] - b[d]], b) = Arr!Minus(a, b)
       /\ Arr!small_array_sycl(2, Arr!AsTuple(a), b) = a
       /\ LET x == Arr!ToScalar(Arr!small_array_sycl(1, <<a[1]>>, <<b[1]>>))
              all == Arr!small_array_sycl(2, <<x>>, b)
          IN /\ Arr!BasicTypeOp("<", x, b) = Arr!Less(all, b)
             /\ Arr!BasicTypeOp("<=", x, b) = Arr!LessEq(all, b)
             /\ Arr!BasicTypeOp(">", x, b) = Arr!Less(b, all)
             /\ Arr!BasicTypeOp(">=", x, b) = Arr!LessEq(b, all)
             /\ (\A d \in 1 .. 2 : b[d] < 3) =>      \* the width of Arr's elements
                  /\ Arr!BasicTypeOp("<<", x, b) = Arr!Shl(all, b)
                  /\ Arr!BasicTypeOp(">>", x, b) = Arr!Shr(all, b)

(* The halves of a vec split it and the generated swizzles read the elements they   *)
(* name: lo and hi in order, even and odd alternating give back the vec (a vec of 3 *)
(* repeats an element it has), and a swizzle named by all the letters is the vec.   *)
VecHalves ==
  input.kind = "vec" =>
    LET v == [k \in 1 .. input.n |-> k]
        n == input.n
    IN /\ n \in {2, 4, 8, 16} =>
            /\ Vec!lo(v) \o Vec!hi(v) = v
            /\ \A k \in 1 .. n : v[k] = IF k % 2 = 1 THEN Vec!even(v)[(k + 1) \div 2]
                                        ELSE Vec!odd(v)[k \div 2]
       /\ n = 3 =>
            /\ ToSet(Vec!lo(v)) \union ToSet(Vec!hi(v)) = ToSet(v)
            /\ ToSet(Vec!even(v)) \union ToSet(Vec!odd(v)) = ToSet(v)
       /\ n \in {2, 3, 4} => Vec!Named(Vec!Letters(n), v, Vec!Letters(n)) = v
       /\ n \in {2, 3, 4} =>
            \A w \in Vec!Swizzles2(n) \union Vec!Swizzles3(n) \union Vec!Swizzles4(n) :
              \A k \in DOMAIN w : w[k] = Vec!Letters(n)[Vec!Named(Vec!Letters(n), v, w)[k]]
       /\ \A w \in Vec!SwizzlesRgba(n), k \in 1 .. 4 :
            w[k] = Vec!Vec4.colours[Vec!Named(Vec!Vec4.colours, v, w)[k]]

(* A vec built from scalars and vecs has their elements in order, or one value in   *)
(* every place; nothing of the arguments is dropped (detail::vec's constructor).    *)
VecMadeInOrder ==
  (input.kind = "make" /\ Vec!CanMake(input.n, input.args)) =>
    LET v == Vec!MakeVec(input.n, input.args)
        all == FlattenSeq([k \in DOMAIN input.args |-> input.args[k].elements])
    IN /\ Len(v) = input.n
       /\ v = all \/ (Len(all) = 1 /\ \A k \in DOMAIN v : v[k] = all[1])

(* as<> to another shape of the same size and back gives the vec again, the padding *)
(* of a vec of three included: no byte of an element is lost (vec::as).             *)
VecAsRoundTrip ==
  (input.kind = "as") =>
    LET v == [k \in 1 .. input.n |-> [i \in 1 .. input.b |-> <<k, i>>]]
    IN Vec!CanAs(v, input.b, input.n2, input.b2) =>
         LET w == Vec!as(v, input.b, input.n2, input.b2)
             back == Vec!as(w, input.b2, input.n, input.b)
         IN \A k \in 1 .. input.n : back[k] = v[k] \/ (input.n2 = 3 /\ k * input.b > 3 * input.b2)
-----------------------------------------------------------------------------
(* generate_tiles and linear_id number the tiles in the same order, and the cascade *)
(* stream visits every tile once, from the tile is_cascade_start tells to the one   *)
(* is_cascade_end tells, write48 going to an adjacent tile (geography.hpp).         *)
CascadeIsPath ==
  input.kind = "layout" =>
    LET g == input.g
    IN \A p \in Geo!Coords(g) :
         LET id == Geo!cascade_linear_id(g, p[1], p[2])
             tile == Geo!linear_id(g, p[1], p[2])
         IN /\ Geo!tile_coordinates(g)[tile + 1] = p
            /\ <<Geo!linear_x(g, tile), Geo!linear_y(g, tile)>> = p
            /\ <<Geo!cascade_linear_x(g, id), Geo!cascade_linear_y(g, id)>> = p
            /\ Geo!is_cascade_start(g, p[1], p[2]) <=> id = 0
            /\ Geo!is_cascade_end(g, p[1], p[2]) <=> id = Geo!size(g) - 1
            /\ ~Geo!is_cascade_end(g, p[1], p[2]) =>
                 Geo!CascadeTarget(g, p[1], p[2]) \in {q \in Geo!Coords(g) : Geo!Neighbours(p, q)}

(* geography.hpp and hw::position agree on the memory around a core: a module is on *)
(* a side iff the tile moved to is in the array, it is that tile's memory, and a    *)
(* core has its own memory on exactly one side.                                     *)
MemoryModulesAgree ==
  input.kind = "layout" =>
    LET g == input.g
    IN \A p \in Geo!Coords(g) :
         /\ \A d \in Geo!Dirs :
              LET o == Geo!get_simple_offset(d)
                  q == Geo!moved(p[1], p[2], d)
              IN /\ Geo!is_memory_module(g, p[1], p[2], o[1], o[2]) <=> Geo!has_mem(g, p[1], p[2], d)
                 /\ Geo!has_mem(g, p[1], p[2], d) =>
                      Geo!memory_module_linear_id(g, p[1], p[2], o[1], o[2])
                        = Geo!linear_id(g, q[1], q[2])
         /\ {d \in Geo!Dirs : Geo!moved(p[1], p[2], d) = p}
              = {Geo!get_self_dir(Geo!get_parity(p[2]))}

(* horizontal_barrier: in each row the tokens go from the first tile through every  *)
(* tile to the last, each by the lock of the adjacent tile, which the sender        *)
(* reaches: the line TileBarrier is about.                                          *)
RowBarrierIsLine ==
  input.kind = "layout" =>
    LET g == input.g
    IN \A p \in Geo!Coords(g) :
         /\ Geo!RowForwards(g, p[1], p[2]) =>
              Geo!RowNext(g, p[1], p[2]) \in
                {q \in Geo!Coords(g) : Geo!Neighbours(p, q) /\ q[2] = p[2]}
         /\ Geo!RowFirst(g, p[1], p[2]) <=>
              ~\E q \in Geo!Coords(g) : /\ Geo!RowForwards(g, q[1], q[2])
                                        /\ Geo!RowNext(g, q[1], q[2]) = p

(* The network that the constructor of the device builds: no two wires share an end,*)
(* every output port but tile_ctrl has a wire or a receiver unless it faces the     *)
(* edge of the array, and every input port facing another switch is fed by it, with *)
(* the ports of the same rank joined (device.hpp, axi_stream_switch.hpp).           *)
NetworkWired ==
  (input.kind = "layout" /\ Geo!size(input.g) <= 6) =>
    LET g == input.g
        net == Geo!Network(g)
        Rank(l, p) == p - Geo!first(l, Geo!KindOf(l, p))
        Fed(t, kind) == kind \in {"fifo", "west", "east", "north", "south"} /\ ~Geo!AtEdge(g, t, kind)
    IN /\ \A w \in net :
            /\ w.to \in Geo!Switches(g)
            /\ Rank(Geo!MasterOf(w.from), w.out) = Rank(Geo!SlaveOf(w.to), w.in)
            /\ \A v \in net : (<<v.from, v.out>> = <<w.from, w.out>> \/ <<v.to, v.in>> = <<w.to, w.in>>)
                               => v = w
       /\ \A t \in Geo!Switches(g) :
            LET outs == {w.out : w \in {v \in net : v.from = t}}
                ins  == {w.in : w \in {v \in net : v.to = t}}
            IN /\ \A i \in DOMAIN Geo!MasterOf(t) :
                    LET kind == Geo!MasterOf(t)[i][1]
                        served == ToSet(Geo!ports(Geo!MasterOf(t), kind))
                    IN IF kind = "tile_ctrl" \/ (Geo!AtEdge(g, t, kind) /\ kind # "south")
                       THEN served \intersect (outs \union Geo!ReceiverPorts(t)) = {}
                       ELSE /\ served \subseteq outs \union Geo!ReceiverPorts(t)
                            /\ served \intersect outs \intersect Geo!ReceiverPorts(t) = {}
               /\ \A i \in DOMAIN Geo!SlaveOf(t) :
                    LET kind == Geo!SlaveOf(t)[i][1]
                    IN Fed(t, kind) = (ToSet(Geo!ports(Geo!SlaveOf(t), kind)) \subseteq ins)

(* The user ports a tile accepts are translated to the ports of their kind, each    *)
(* reached once, and two ports of a switch never get the same libxaiengine name     *)
(* (translate_port, acap_port_to_xaie_port_type and _id).                           *)
UserPortsReachPorts ==
  input.kind = "layout" =>
    \A l \in {Geo!CoreMaster, Geo!CoreSlave} :
      LET all == 0 .. Geo!nb_port(l) - 1
          name(p) == LET t == Geo!acap_port_to_xaie_port_type(l, p)
                     IN <<t, Geo!acap_port_to_xaie_port_id(l, p, t)>>
      IN /\ \A i \in DOMAIN l :
              LET kind == l[i][1]
                  users == {u \in -1 .. Geo!nb_port(l) : Geo!IsUserPort(l, kind, u)}
              IN /\ {Geo!translate_port(l, kind, u) : u \in users} = {p \in all : Geo!KindOf(l, p) = kind}
                 /\ Cardinality(users) = Geo!enum_count(l, kind)
         /\ \A p, q \in all : name(p) = name(q) => p = q
-----------------------------------------------------------------------------
Sides == Geo!Dirs \union {"self"}

(* Host and device name the same memory, lock and tile: a device pointer made on a  *)
(* core for one of its sides is, for the host, the same offset in the tile on that  *)
(* side; the parity a core reads from its stack is the one of its row; coordinates  *)
(* come back from the core id; tiles that share a module have one place for it      *)
(* (dev_ptr, hw::position, host_lock_impl, device_lock_impl, get_mem).  The host    *)
(* reaches the elements of an array as the device does, though a difference of      *)
(* pointers is in bytes on the host and in elements on the device.                  *)
HostAndDeviceAgree ==
  input.kind = "layout" =>
    LET g == input.g
        offsets == {0, 4, Mem!tile_size - 4}
    IN \A p \in Geo!Coords(g) :
         LET x == p[1]
             y == p[2]
             parity == Geo!get_parity(y)
             stack == Mem!self_tile_addr(parity) + 1000
             side(d) == Mem!resolved_self_dir(parity, d)
         IN /\ Mem!get_parity_dev(stack) = parity
            /\ Mem!HostTarget(x, y, stack) = <<p, 1000>>
            /\ Mem!get_device_data(p, 1000, 8) = Mem!load(p, 1000, 4) \o Mem!mem_word(p, 1004)
            /\ \A d \in Sides, o \in offsets :
                 LET ptr == Mem!get_object(stack, o, d)
                 IN /\ Mem!HostTarget(x, y, ptr) = <<Geo!moved(x, y, side(d)), o>>
                    /\ Mem!set_offset(ptr, 8) = Mem!get_object(stack, 8, d)
                    /\ \A sizeof \in {1, 4}, i \in {0, 1, 3} :
                         LET next == Mem!ptr_add("host", sizeof, ptr, i)
                         IN /\ next = Mem!ptr_add("device", sizeof, ptr, i)
                            /\ o + i * sizeof < Mem!tile_size =>
                                 Mem!HostTarget(x, y, next) = <<Geo!moved(x, y, side(d)), o + i * sizeof>>
                            /\ Mem!ptr_add("host", sizeof, next, -i) = ptr
                            /\ Mem!ptr_difference("host", sizeof, next, ptr)
                                 = sizeof * Mem!ptr_difference("device", sizeof, next, ptr)
            /\ \A d, e \in Geo!Dirs, i, j \in {0, 15} :
                 Mem!device_lock_id(parity, d, i) = Mem!device_lock_id(parity, e, j) => d = e /\ i = j
            /\ \A q \in Geo!Coords(g) :
                 Mem!mem_index(Geo!y_size(g), x, y) = Mem!mem_index(Geo!y_size(g), q[1], q[2]) => p = q
            /\ <<Mem!get_tile_x_coordinate(Mem!coreid(x, y)), Mem!get_tile_y_coordinate(Mem!coreid(x, y))>> = p

(* The largest device has its tiles on rows of the hardware that hold tiles; the    *)
(* registers and the memory the host maps for one tile are not those of another,    *)
(* at any offset in the tile; and the handle of a tile leads to the handles of the   *)
(* others (xaie::handle, aiev1).                                                     *)
RegistersApart ==
  input.kind = "tiles" =>
    LET hw == Mem!aiev1
        p == Mem!aie_pos_to_xaie_pos(input.p[1], input.p[2])
        q == Mem!aie_pos_to_xaie_pos(input.q[1], input.q[2])
        last == 2^18 - 1
    IN /\ p[1] < hw.num_hw_col
       /\ p[2] \in hw.aie_tile_row_start .. hw.aie_tile_row_start + hw.aie_tile_row_num - 1
       /\ p[2] < hw.num_hw_row
       /\ p # q => \/ Mem!raw_address(p, last) < Mem!base_vaddr(q, 0)
                   \/ Mem!raw_address(q, last) < Mem!base_vaddr(p, 0)
       /\ Mem!adjusted(p, <<input.q[1] - input.p[1], input.q[2] - input.p[2]>>) = q
       /\ Mem!xaie_pos_to_aie_pos(p) = input.p

(* The sections of a tile's memory follow each other without overlap, aligned, and  *)
(* when they fit the size given to the allocator is the room left for the heap      *)
(* (offset_table, exec).                                                            *)
SectionsInOrder ==
  input.kind = "sections" =>
    LET ot == Mem!offset_table(input.version, input.image, input.tile_mem, input.lambda)
        end == ot.lambda_start + (IF input.version = "aie" THEN input.lambda ELSE 0)
    IN /\ Mem!tile_mem_begin(input.version) + input.tile_mem <= ot.lambda_start
       /\ end <= ot.heap_start
       /\ \A f \in DOMAIN ot : ot[f] % Mem!alloc_align = 0
       /\ ot.global_variable_start <= input.image
       /\ LET s == Mem!TableSections(input.version, ot)
          IN /\ s.tile_mem.size >= input.tile_mem /\ s.tile_mem.end = s.lambda.begin
             /\ input.version = "aie" => s.lambda.size >= input.lambda
             /\ s.lambda.end = s.heap.begin /\ (s.heap.size >= 0 => s.heap.size = Mem!heap_size(ot))
       /\ end + Mem!alloc_align <= input.image =>
            /\ ot.heap_start + Mem!heap_size(ot) = ot.global_variable_start
            /\ Mem!heap_size(ot) < Mem!tile_size

(* A request of a kernel reaches its service: the index the kernel writes is, for   *)
(* the host, the first service with this type of data, in emulation and on hardware *)
(* alike, and the answer is stored with the type the kernel reads.  The kernel's    *)
(* own list of basic services gives done and log the indexes of the full list       *)
(* (queue::submit, perform_service, for_any, fake_dt).                              *)
ServicesReached ==
  (input.kind = "services" /\ input.cut <= Len(input.list)) =>
    LET user == Mem!add_service(SubSeq(input.list, 1, input.cut),
                                SubSeq(input.list, input.cut + 1, Len(input.list)))
        storage == Mem!SubmittedServices(user)
    IN /\ \A k \in DOMAIN storage.types :
            LET s == storage.types[k]
                first == \A j \in 1 .. k - 1 : storage.types[j].data # s.data
                got == Mem!Dispatch(storage, Mem!request(storage.types, s.data))
            IN /\ got.reads = s.data /\ Mem!EmulatedDispatch(storage, s.data) = got.object
               /\ first => got.object = s /\ (s.ret # "void" => got.stores = Mem!non_void_ret(s))
       /\ \A s \in ToSet(Mem!BasicService) :
            Mem!Dispatch(storage, Mem!request(Mem!BasicService, s.data)).object = s

(* The memory a kernel or the host finds on a side of a tile has the type they take *)
(* it for: the storage of the tile on that side, as the type selector made it, or   *)
(* no type for a side outside the array; the host writes the memory the kernel of   *)
(* the tile reads (tile_type_info, layout_storage, device_impl::get_tile_info).     *)
MemoryTypesMatch ==
  input.kind = "layout" =>
    LET g == input.g
    IN \A selector \in {Mem!Hetero(g), Mem!Uniform(g, <<"T">>), Mem!NoMemory(g)} :
         \A p \in Geo!Coords(g) :
           /\ Mem!host_mem(g, selector, p)
                = [pos |-> p, elem |-> Mem!self_memory_tile(g, selector, p)]
           /\ Mem!get_mem_addr(g, selector, p, "self") = Mem!host_mem(g, selector, p)
           /\ \A d \in Geo!Dirs :
                LET type == Mem!get_tile_type(g, selector, p, d)
                IN IF Geo!has_mem(g, p[1], p[2], d)
                   THEN Mem!get_mem_addr(g, selector, p, d) =
                          [pos |-> Geo!moved(p[1], p[2], d), elem |-> type]
                   ELSE type = Mem!out_of_bounds

(* stream_operation: what the transfers of an object carry is read back as the      *)
(* object, and the next object starts at the next transfer.  The accesses of a       *)
(* volatile copy carry the object too.                                               *)
StreamRoundTrip ==
  input.kind = "stream" =>
    LET sent == Mem!Transfers(input.n, Bytes(input.size))
        next == <<[i \in 1 .. input.n |-> 99]>>
    IN /\ Mem!Received(input.n, input.size, sent \o next) = [object |-> Bytes(input.size), left |-> next]
       /\ FlattenSeq(Mem!maybe_volatile_memcpy(Bytes(input.size))) = Bytes(input.size)

(* write_number writes the digits of the number: no leading zero, and read in the   *)
(* base they give the number back.                                                  *)
NumberReadsBack ==
  input.kind = "number" =>
    LET chars == Mem!write_number(input.i, input.base)
        digits == SelectSeq(chars, LAMBDA c : c # Mem!MinusSign)
    IN /\ FoldLeft(LAMBDA acc, c : acc * input.base + c, 0, digits) = Mem!Abs(input.i)
       /\ ToSet(digits) \subseteq 0 .. input.base - 1
       /\ digits[1] # 0 \/ input.i = 0
       /\ (chars # digits) <=> (input.i < 0)
-----------------------------------------------------------------------------
(* The keys of a window undo each other: after a key and its opposite the colours   *)
(* are what they were, at the ends of the clip and of the phase too, and update     *)
(* keeps the parameters where the shifts and the indexing of the palette are        *)
(* defined; a frequency key at its limit does nothing (palette).                    *)
PaletteKeysUndo ==
  input.kind = "palette" =>
    LET p == input.p
        Press(q, key) == Pal!handle_key_press_event(q, key)
        Same(q) == Pal!color_mapping(q) = Pal!color_mapping(p)
    IN /\ \A keys \in {<<"h", "l">>, <<"l", "h">>, <<"j", "k">>, <<"k", "j">>, <<"H", "L">>, <<"L", "H">>} :
            Same(Press(Press(p, keys[1]), keys[2]))
       /\ p.frequency_log2 < 2 => Same(Press(Press(p, "+"), "-"))
       /\ p.frequency_log2 = 2 => Same(Press(p, "+"))
       /\ \A key \in Pal!Keys :
            LET q == Press(p, key)
            IN q.clip \in -1 .. 7 /\ q.frequency_log2 \in -3 .. 2 /\ q.phase \in -7 .. 7

(* An image of a tile has each datum it has room for at a pixel of its own, inside  *)
(* the image, the first row of the data at the bottom, and the range of the data is *)
(* spread over the whole palette (update_tile_data_image, palettize).               *)
ImageInPlace ==
  input.kind = "image" =>
    LET px == Pal!Pixels(input.rows, input.columns, input.y, input.x)
        at(q) == Pal!Offset(q, input.y, input.x)
    IN /\ \A q \in px : at(q) \in 0 .. input.x * input.y - 1
       /\ \A q, r \in px : at(q) = at(r) => q = r
       /\ \A i \in 0 .. (IF input.columns < input.x THEN input.columns ELSE input.x) - 1 :
            at(<<0, i>>) = (input.y - 1) * input.x + i
       /\ Pal!palettize(input.rows, input.rows, input.rows + input.x) = 0
       /\ Pal!palettize(input.rows + input.x, input.rows, input.rows + input.x) = Pal!Size - 1

(* A selector chooses one device however it is used: device{selector} and           *)
(* select_device() return the same one or both throw, and the queue built with the  *)
(* selector in the context built with it is on that device.  For the selectors by   *)
(* type, platform{selector} is the platform of that device.                         *)
SelectionAgrees ==
  input.kind = "system" =>
    LET plain == [platforms |-> input.platforms, default |-> Sel!HostDevice]
        devices == FlattenSeq(Sel!Platforms(plain))
    IN /\ \A score \in [ToSet(devices) -> -1 .. 2] :
            LET d == Sel!device(plain, score)
            IN /\ Sel!select_device(plain, score) = d
               /\ d # Sel!Error => Sel!queue(plain, Sel!context(plain, <<>>, score), score) = d
       /\ \A default \in ToSet(devices),
             kind \in {"all", "automatic", "opencl", "cpu", "gpu", "accelerator", "host"} :
            LET sys == [plain EXCEPT !.default = default]
                score == Sel!device_type_selector(sys, kind)
                d == Sel!device(sys, score)
            IN d # Sel!Error => d \in ToSet(Sel!Platforms(sys)[Sel!platform(sys, score)])

(* The objects tell one story.  A device is among the devices of its platform and of  *)
(* the context and the queue built for it, all of them host objects or none, and its  *)
(* handle gives it back; the platforms have together the devices that                 *)
(* device::get_devices lists, whatever the type asked for; the context of a platform  *)
(* is one of that platform; the default queue is on the host.  The device type given  *)
(* as an information is device::type for the host and the devices that are only a cpu *)
(* or a gpu.  A platform lists the extensions it has, and an OpenCL device has those  *)
(* that OpenCL tells.  An event made from an OpenCL one tells the state of its        *)
(* command and waits for its end; nothing is stated of the event that submit returns, *)
(* which has no command to wait for.                                                  *)
ObjectsAgree ==
  input.kind = "system" =>
    LET plain == [platforms |-> input.platforms, default |-> Sel!HostDevice]
        devices == FlattenSeq(Sel!Platforms(plain))
        indices == 0 .. Len(input.platforms)
    IN /\ \A d \in ToSet(devices) :
            LET o == Sel!device_of(plain, d)
                asked == Sel!device_methods(o)
                p == Sel!platform_of(plain, o.get_platform)
                c == Sel!context_methods(Sel!context_of(plain, 1, <<d>>))
                q == Sel!queue_of(2, 3, d)
            IN /\ d \in ToSet(Sel!platform_devices(plain, o.get_platform, "all"))
               /\ p = Sel!get_platforms(plain)[asked.get_platform + 1]
               /\ o.is_host \/ \A e \in DOMAIN asked.has_extension : asked.has_extension[e]
               /\ {o.is_host, p.is_host, c.is_host, q.is_host} = {Sel!is_host(d)}
               /\ o.is_host <=> o.get = Sel!Error
               /\ ~o.is_host => Sel!device_of(plain, o.get) = o
               /\ c.get_devices = <<d>> /\ c.get_platform = o.get_platform
               /\ Sel!queue_info(q).device = d
               /\ Sel!context_info(Sel!queue_info(q).context).devices = c.get_devices
               /\ ~o.is_accelerator => o.info_type = Sel!device_type(plain, d)
       /\ \A default \in ToSet(devices),
             kind \in {"all", "automatic", "opencl", "cpu", "gpu", "accelerator", "host"} :
            LET sys == [plain EXCEPT !.default = default]
            IN Sel!all_devices(sys, kind) =
                 FlattenSeq([p \in 1 .. Len(input.platforms) + 1 |->
                               Sel!platform_devices(sys, p - 1, kind)])
       /\ \A p \in indices :
            LET list == Sel!platform_devices(plain, p, "all")
            IN list # <<>> => Sel!context_of(plain, 1, list).get_platform = p
       /\ Sel!default_queue(plain, 2, 3).is_host
       /\ \A p \in ToSet(Sel!get_platforms(plain)) :
            LET asked == Sel!platform_methods(p)
            IN \A e \in DOMAIN asked.has_extension : asked.has_extension[e] <=> e \in asked.extensions
       /\ \A status \in {"submitted", "running", "complete"} :
            LET e == Sel!event_of(1, [status |-> status, refs |-> 1, time |-> 0])
            IN Sel!event_methods(e).status = status /\ Sel!event_methods(e).wait = (status # "complete")

(* Each parameter of an OpenCL device is either asked to OpenCL, whose types are not  *)
(* the subject here, or answered without it in the type that get_info casts to: none  *)
(* is forgotten; of the host device, only the six parameters it knows do not throw.   *)
InfoAnswered ==
  input.kind = "system" =>
    /\ \A param \in Sel!Params \ Sel!ClFields : ~Sel!get_info_throws(FALSE, param)
    /\ {param \in Sel!Params : ~Sel!get_info_throws(TRUE, param)} =
         {"max_work_group_size", "max_work_item_sizes", "max_compute_units", "device_type",
          "local_mem_type", "local_mem_size"}

(* What the device compiler packs in the images of the modules is registered: each   *)
(* kernel with its binary byte for byte, new lines and digits included, in the order *)
(* of the modules; a kernel is found by its name, the first registered one when two  *)
(* have it (program_manager::addImages, get_bin_data).                               *)
KernelsRegistered ==
  input.kind = "kernels" =>
    LET packed == [i \in DOMAIN input.list |-> Img!Packed(input.list[i])]
        cut == IF input.cut <= Len(packed) THEN input.cut ELSE Len(packed)
        list == Img!addImages(<<FlattenSeq(SubSeq(packed, 1, cut)),
                                FlattenSeq(SubSeq(packed, cut + 1, Len(packed)))>>)
    IN /\ list = input.list
       /\ \A i \in DOMAIN list :
            (\A j \in 1 .. i - 1 : list[j].Name # list[i].Name) =>
              Img!get_bin_data(list, list[i].Name) = list[i]

(* A symbol is found under its own name whatever the order of the sections: the names*)
(* of the sections are not taken for those of the symbols (lookup_symbol).           *)
SymbolsFound ==
  input.kind = "elf" =>
    LET sections == [i \in 1 .. 3 |-> ElfSections[input.order[i]]]
    IN /\ Img!lookup_symbol(sections, "f").value = 64
       /\ Img!lookup_symbol(sections, "g").value = 96

(* The ways to index an accessor designate the same elements: a chain of integers and*)
(* an id the same one; ids of the range distinct ones, which the iterators visit, in *)
(* order and in reverse; the offsets of a device are those of the only dimension     *)
(* (mixin::accessor, facade::accessor, drt::accessor).                               *)
AccessorsAgree ==
  input.kind = "index" =>
    LET access == Arr!mdspan_of(5, input.r)
        ndr == Loop!NdRange(input.r, [d \in DOMAIN input.r |-> 1], Loop!Zero(Len(input.r)))
        sizes == Arr!sizes(access, 4)
        iterators == Arr!accessor_iterators(access)
        id(i) == Arr!At(access, [by |-> "id", of |-> i])
    IN /\ sizes.range = input.r /\ Arr!buffer_sizes(input.r, 4) = sizes
       /\ sizes.size = 4 * Cardinality({id(i) : i \in Box(input.r)})
       /\ \A i \in Box(input.r) :
            /\ Arr!At(access, [by |-> "integers", of |-> <<i>>]) = id(i)
            /\ Arr!At(access, [by |-> "integers", of |-> [d \in DOMAIN i |-> <<i[d]>>]]) = id(i)
       /\ {Arr!At(access, [by |-> "item", of |-> it]) :
             it \in ToSet(Loop!parallel_for_global_offset(input.r, Loop!Zero(Len(input.r))))}
            = ToSet(iterators.plain)
       /\ {Arr!At(access, [by |-> "nd_item", of |-> it]) :
             it \in ToSet(Loop!parallel_for_nd_range(ndr))} = ToSet(iterators.const)
       /\ sizes.count > 0 => Range(Arr!accessor_first(access)) = {Head(iterators.plain)}
       /\ iterators.reverse = Reverse(iterators.plain)
       /\ iterators.const_reverse = Reverse(iterators.const)
       /\ Len(input.r) = 1 => \A i \in Box(input.r) : Arr!DeviceAt(access, i[1]) = id(i)

(* fmax, fmin, max, min, fabs, clamp and sign of a vec treat each element by itself; *)
(* with a scalar as with a vec of it; a NaN comes out of fmax and fmin only where    *)
(* both elements are NaN, elsewhere they bound the two; sign keeps the sign of what  *)
(* is neither zero nor NaN, and is idempotent (math.hpp).                            *)
MathElementwise ==
  input.kind = "floats" =>
    LET x == input.x
        y == input.y
        big == Vec!fmax(x, y)
        small == Vec!fmin(x, y)
        same == [k \in DOMAIN x |-> y[1]]
    IN /\ \A k \in DOMAIN x :
            /\ {big[k], small[k]} \subseteq {x[k], y[k]}
            /\ ((big[k] = Vec!NaN) <=> (x[k] = Vec!NaN /\ y[k] = Vec!NaN))
            /\ ((small[k] = Vec!NaN) <=> (big[k] = Vec!NaN))
            /\ \A e \in {x[k], y[k]} : ~Vec!LessThan(big[k], e) /\ ~Vec!LessThan(e, small[k])
            /\ Vec!IsZero(Vec!sign(x)[k]) <=> (x[k] = Vec!NaN \/ Vec!IsZero(x[k]))
       /\ Vec!max(x, y) = big /\ Vec!min(x, y) = small
       /\ Vec!fmax_scalar(x, y[1]) = Vec!fmax(x, same)
       /\ Vec!fmin_scalar(x, y[1]) = Vec!fmin(x, same)
       /\ Vec!sign(Vec!sign(x)) = Vec!sign(x)
       /\ Vec!LessThan(x[1], y[1]) =>
            \A k \in DOMAIN x : LET c == Vec!clamp(y, x[1], y[1])[k]
                                IN ~Vec!LessThan(c, x[1]) /\ ~Vec!LessThan(y[1], c)
       /\ \A e \in ToSet(Vec!fabs(x)) : ~Vec!LessThan(e, Vec!Float(1, 0))
       /\ Vec!max3(x[1], y[1], y[1]) = Vec!std_max(x[1], y[1])
       /\ Vec!min3(x[1], x[1], y[1]) = Vec!std_min(x[1], y[1])

(* The cross product is orthogonal to both vecs, changes its sign when they are      *)
(* swapped and has the length that the lengths and the dot product give it; the w of *)
(* a cross product of two vecs of four is 0, whatever their own (math.hpp).          *)
CrossProduct ==
  input.kind = "cross" =>
    LET x == input.x
        y == input.y
        c == Vec!cross(x, y)
    IN /\ Vec!dot(x, c) = 0 /\ Vec!dot(y, c) = 0
       /\ Vec!cross(y, x) = [k \in DOMAIN c |-> -c[k]]
       /\ Vec!length(c).sqrt
            = Vec!length(x).sqrt * Vec!length(y).sqrt - Vec!dot(x, y) * Vec!dot(x, y)
       /\ Vec!cross(x \o <<5>>, y \o <<7>>) = c \o <<0>>
       /\ Vec!accumulate([k \in 1 .. 3 |-> Vec!normalize(x)[k].value ^ 2]) = Vec!length(x).sqrt

(* A value that goes through variables of several address spaces is converted as if  *)
(* they were plain variables, the pointer to a variable leads to it in its own space *)
(* after any conversion, and on a device with OpenCL 2 no two spaces are the same    *)
(* one; with an older one only generic is, with private (address_space.hpp).         *)
SpacesKept ==
  input.kind = "space" =>
    LET v(t) == Arr!address_space_variable(t, input.from, input.h)
        w(t, u) == Arr!address_space_fundamental(u, input.to, v(t))
        p == Arr!address_space_ptr(input.build, v("int"))
    IN /\ \A t, u \in Arr!Types :
            /\ Arr!address_space_fundamental(t, input.from, w(t, u)).variable
                 = Arr!Cast(t, Arr!Cast(u, Arr!Cast(t, input.h)))
            /\ w(t, u).as = input.to
       /\ Arr!make_ptr(Arr!PointerFrom(input.to, p)).variable = Arr!Reference(input.build, v("int"))
       /\ input.build.device /\ input.from # input.to
            /\ Arr!ocl_type(input.build, input.from) = Arr!ocl_type(input.build, input.to)
            => input.build.version < 200 /\ {input.from, input.to} = {"generic_space", "private_space"}

(* The array that triSYCL_tool writes for a file has its bytes, also those that are   *)
(* negative as a char, each as a literal of two digits; and it writes it only when    *)
(* it could open the file it has been asked for (put_file_into_source).              *)
SourceKeepsFile ==
  input.kind = "source" =>
    LET file == [k \in 1 .. 256 |-> k - 129]
        source == Img!put_file_into_source(file)
        went == Img!tool_main(input.options, input.exists, input.writable)
    IN /\ \A k \in DOMAIN file : Img!CharLiteral(source[k]) = file[k] /\ Len(source[k]) = 2
       /\ went \in {"cout", "file"} => "source-in" \in input.options /\ input.exists
       /\ went = "cout" => "output" \notin input.options
       /\ went = "file" => input.writable

(* Each index space is visited once and each work-item knows its place in it; arrays,  *)
(* accessors and kernel invocations agree on the indices (parallel_for, handler, id,   *)
(* range, item, nd_item, accessor).                                                    *)
KernelsCalledOnce == /\ RangeItemsOnce /\ NdItemsOnce /\ HandlerCallsOnce
                     /\ WorkItemViewsAgree /\ ArrayArithmetic /\ AccessorsAgree

(* vec is built, cut, reinterpreted and computed element by element, and pointers keep *)
(* their address space (vec.hpp, math.hpp, address_space.hpp).                         *)
VectorsAgree == /\ VecHalves /\ VecMadeInOrder /\ VecAsRoundTrip
                /\ MathElementwise /\ CrossProduct /\ SpacesKept

(* The tiles of an array are wired to their neighbours, the cascade and the barriers   *)
(* of a row are lines, and two neighbours name a memory module alike (geography.hpp,   *)
(* axi_stream_switch, device.hpp).                                                     *)
ArrayWired == /\ CascadeIsPath /\ MemoryModulesAgree /\ RowBarrierIsLine
              /\ NetworkWired /\ UserPortsReachPorts

(* Host and tile agree on addresses, sections, transfers, services and types, and what *)
(* one writes the other reads back (hardware.hpp, exec_kernel.hpp, aie.hpp).           *)
TileMemoryAgrees == /\ HostAndDeviceAgree /\ RegistersApart /\ SectionsInOrder
                    /\ ServicesReached /\ MemoryTypesMatch
                    /\ StreamRoundTrip /\ NumberReadsBack

(* Devices, platforms, contexts and queues chosen in different ways are the same ones, *)
(* and answer alike (device_selector, device, platform, context, queue).               *)
SystemAnswers == SelectionAgrees /\ ObjectsAgree /\ InfoAnswered
=============================================================================
