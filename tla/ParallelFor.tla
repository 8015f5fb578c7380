---------------------------- MODULE ParallelFor ----------------------------
(***************************************************************************)
(* The loops behind parallel_for: what each calls the kernel with, in the  *)
(* order of the sequential build, and what the threads of the OpenMP build *)
(* call it with; and the methods of handler that lead to them.             *)
(***************************************************************************)
EXTENDS Indexing

MapSeq(f(_), s) == [k \in DOMAIN s |-> f(s[k])]

\* parallel_for_iterate<level>: the values of index at the calls of f
parallel_for_iterate(r) ==
  LET n == Len(r)
      Box == [Dims(r) -> 0 .. SizeMod]
      iterate[level \in 0 .. n, index \in Box] ==
        IF level = 0 THEN <<index>>
        ELSE LET d == n - level + 1
             IN FlattenSeq([k \in 1 .. r[d] |-> iterate[level - 1, [index EXCEPT ![d] = k - 1]]])
  IN iterate[n, Zero(n)]

\* parallel_for(range, f) with an item, without and with an offset
parallel_for_item(r) ==
  MapSeq(LAMBDA l : Item(r, l, Zero(Len(r))), parallel_for_iterate(r))
parallel_for_global_offset(r, offset) ==
  MapSeq(LAMBDA l : Item(r, Plus(l, offset), offset), parallel_for_iterate(r))

\* parallel_for_workgroup: one group object whose group_id is the index
parallel_for_workgroup(ndr) ==
  MapSeq(LAMBDA g : Group(g, ndr), parallel_for_iterate(get_group_range(ndr)))

\* parallel_for_workitem in one group, with T_Item = nd_item or h_item
parallel_for_workitem(g) ==
  MapSeq(LAMBDA local : NdItem(g.ndr, local, Plus(local, Times(g.ndr.local_range, g.group_id))),
         parallel_for_iterate(g.ndr.local_range))

\* parallel_for(nd_range): the index object is reused, group and local are the loop indices
parallel_for_nd_range(ndr) ==
  LET in_work_group(group) ==
        MapSeq(LAMBDA local : NdItem(ndr, local, Plus(local, Times(ndr.local_range, group))),
               parallel_for_iterate(ndr.local_range))
  IN FlattenSeq(MapSeq(in_work_group, parallel_for_iterate(get_group_range(ndr))))

\* The hierarchical form: parallel_for_work_group, then parallel_for_work_item
hierarchical(ndr) == FlattenSeq(MapSeq(parallel_for_workitem, parallel_for_workgroup(ndr)))

-----------------------------------------------------------------------------
\* The OpenMP build: the loop on the top dimension is shared among the threads,
\* each with its own index; the calls are a set, their order is any
Below(r, S) == {i \in [Dims(r) -> S] : \A d \in Dims(r) : i[d] < r[d]}
Extent(r) == 0 .. FoldLeft(LAMBDA m, v : IF v > m THEN v ELSE m, 0, r)
parallel_OpenMP_for_iterate(r) ==
  UNION {{[i EXCEPT ![1] = top] : i \in Below([r EXCEPT ![1] = 1], Extent(r))}
         : top \in {t \in Extent(r) : t < r[1]}}

\* parallel_for_workitem: a thread per work-item, each with its own T_Item
omp_parallel_for_workitem(g) ==
  {NdItem(g.ndr, i, Plus(i, Times(g.ndr.local_range, g.group_id)))
   : i \in Below(g.ndr.local_range, Extent(g.ndr.local_range))}

omp_parallel_for_nd_range(ndr) ==
  UNION {omp_parallel_for_workitem(Group(g, ndr))
         : g \in ToSet(parallel_for_iterate(get_group_range(ndr)))}
-----------------------------------------------------------------------------
\* The TBB build: the dimensions of the blocked_range that stands for a range
to_tbb_range(r) ==
  CASE Len(r) = 1 -> [range |-> r[1]]
    [] Len(r) = 2 -> [rows |-> r[1], cols |-> r[2]]
    [] Len(r) = 3 -> [pages |-> r[1], rows |-> r[2], cols |-> r[3]]

\* The id of a block of one element.  In three dimensions the page comes last.
to_sycl_id(i) ==
  CASE DOMAIN i = {"range"} -> <<i.range>>
    [] DOMAIN i = {"rows", "cols"} -> <<i.rows, i.cols>>
    [] DOMAIN i = {"pages", "rows", "cols"} -> <<i.rows, i.cols, i.pages>>

\* tbb::parallel_for with the simple_partitioner: the blocks of one element
tbb_blocks(t, S) == {i \in [DOMAIN t -> S] : \A d \in DOMAIN t : i[d] < t[d]}
tbb_parallel_for_iterate(r) == {to_sycl_id(i) : i \in tbb_blocks(to_tbb_range(r), Extent(r))}

tbb_parallel_for_workitem(g) ==
  {NdItem(g.ndr, local, Plus(local, Times(g.ndr.local_range, g.group_id)))
   : local \in tbb_parallel_for_iterate(g.ndr.local_range)}
tbb_parallel_for_nd_range(ndr) ==
  UNION {tbb_parallel_for_workitem(Group(g, ndr))
         : g \in tbb_parallel_for_iterate(get_group_range(ndr))}
-----------------------------------------------------------------------------
(* The kernel invocation methods of handler: the calls of the body of the   *)
(* kernel each of them leads to, on the host and on an OpenCL device, where *)
(* the loops are inside a kernel of one work-item, or in the native build   *)
(* made by the work-items of the device.                                    *)

\* The work-items of the device (external), each with its OpenCL built-ins
WorkItems(num_work_items) ==
  MapSeq(LAMBDA id : [global_id |-> id, global_size |-> num_work_items,
                      global_offset |-> Zero(Len(num_work_items))],
         parallel_for_iterate(num_work_items))

\* opencl_kernel::single_task and parallel_for: the work-items enqueued
enqueue_task == WorkItems(<<1>>)
enqueue_nd_range(num_work_items) == WorkItems(num_work_items)

\* create_parallel_for_arg: what a native work-item gives its kernel
make_array_with_func(n, func) == [d \in 1 .. n |-> func[d]]
create_parallel_for_arg(n, index, w) ==
  IF index = "id" THEN make_array_with_func(n, w.global_id)
  ELSE Item(make_array_with_func(n, w.global_size), make_array_with_func(n, w.global_id),
            make_array_with_func(n, w.global_offset))

\* parallel_for of detail: the type of the kernel's parameter selects the loop
capture_arg(r, index) ==
  IF index = "id" THEN parallel_for_iterate(r) ELSE parallel_for_item(r)

-----------------------------------------------------------------------------

\* schedule_kernel: on the host, or as a task of the device
schedule_kernel(calls, host) ==
  IF host THEN calls ELSE FlattenSeq(MapSeq(LAMBDA w : calls, enqueue_task))

\* schedule_parallel_for_kernel: there is no host version of it
schedule_parallel_for_kernel(n, index, num_work_items) ==
  MapSeq(LAMBDA w : create_parallel_for_arg(n, index, w), enqueue_nd_range(num_work_items))

\* The overloads of handler::single_task and handler::parallel_for on functions
single_task(host) == schedule_kernel(<<"call">>, host)

parallel_for_range(r, index, native, host) ==
  IF native THEN schedule_parallel_for_kernel(Len(r), index, r)
            ELSE schedule_kernel(capture_arg(r, index), host)

parallel_for_array(a, index, native, host) ==
  parallel_for_range([d \in DOMAIN a |-> a[d]], index, native, host)

parallel_for_integer(n, index, native, host) == parallel_for_range(<<n>>, index, native, host)

parallel_for_offset(r, offset, host) ==
  schedule_kernel(parallel_for_global_offset(r, offset), host)

parallel_for_nd(ndr, host) == schedule_kernel(parallel_for_nd_range(ndr), host)

\* The hierarchical forms; their body calls parallel_for_work_item once
parallel_for_work_group(ndr, host) == schedule_kernel(hierarchical(ndr), host)
parallel_for_work_group_ranges(r1, r2, host) ==
  parallel_for_work_group(NdRange(r1, r2, Zero(Len(r1))), host)

\* The overloads on a kernel object, which only a device runs
rangeify(r, integral) == IF integral THEN <<r>> ELSE r
kernel_single_task == enqueue_task
kernel_parallel_for(r, integral) == enqueue_nd_range(rangeify(r, integral))
=============================================================================
