---------------------------- MODULE ObjectModel ----------------------------
(***************************************************************************)
(* What the devices, platforms, contexts, queues and events answer.  A     *)
(* class of the implementation is the record of the answers of its virtual *)
(* methods, to which the user-facing classes forward; Error, or NoHandle,  *)
(* stands for an exception.  Two objects are equal when they share their   *)
(* implementation, which the caches make unique for an OpenCL handle: an   *)
(* object is identified with the handle.  The platform of index 0 is the   *)
(* host one.                                                               *)
(***************************************************************************)
EXTENDS Integers, Sequences, SequencesExt

(* How a device, a platform, a context and a queue are chosen.  A system   *)
(* is the sequence of the device types of each OpenCL platform and its     *)
(* default device; a device is <<0, 1>>, the host, or <<p, i>>, the i-th   *)
(* device of the p-th OpenCL platform.  A selector is a function from the  *)
(* devices to scores.                                                      *)

HostDevice == <<0, 1>>
Error      == <<-1, -1>>   \* an exception

\* device::is_cpu, is_gpu, is_accelerator test bits of the OpenCL type
TypeBits == {"cpu", "gpu", "accelerator"}

is_host(d) == d = HostDevice
BitsOf(sys, d) == IF is_host(d) THEN {} ELSE sys.platforms[d[1]][d[2]]

\* device::type, which throws for a device of none of these types: the systems
\* have no such device
device_type(sys, d) == CASE is_host(d) -> "host"
                         [] "cpu" \in BitsOf(sys, d) -> "cpu"
                         [] "gpu" \in BitsOf(sys, d) -> "gpu"
                         [] OTHER -> "accelerator"

\* platform::get_platforms, with their devices
Platforms(sys) == <<<<HostDevice>>>> \o
  [p \in 1 .. Len(sys.platforms) |-> [i \in 1 .. Len(sys.platforms[p]) |-> <<p, i>>]]

\* device_type_selector::operator()
device_type_selector(sys, kind) ==
  [d \in ToSet(FlattenSeq(Platforms(sys))) |->
    IF \/ kind = "all"
       \/ kind = "automatic" /\ d = sys.default
       \/ kind = "opencl" /\ ~is_host(d)
       \/ kind \notin {"all", "automatic", "opencl"} /\ device_type(sys, d) = kind
    THEN 1 ELSE -1]

\* opencl_platform::get_devices and host_platform::get_devices
get_devices(platform, score) == SelectSeq(platform, LAMBDA d : score[d] > 0)

\* device::get_devices
all_devices(sys, kind) ==
  LET s == device_type_selector(sys, kind)
  IN SelectSeq(FlattenSeq(Platforms(sys)), LAMBDA d : s[d] >= 0)

\* Mutation: the last device with the highest score
better_late(score, best, d) == IF score[d] >= best.score THEN [device |-> d, score |-> score[d]] ELSE best

\* device_selector::select_device: the first device with the highest score
better(score, best, d) == IF score[d] > best.score THEN [device |-> d, score |-> score[d]] ELSE best

select_device(sys, score) ==
  FoldLeft(LAMBDA best, d : better(score, best, d),
           [device |-> Error, score |-> -1], FlattenSeq(Platforms(sys))).device

\* The constructor of device: std::max_element, then the test of its score
max_element(score, devices) ==
  LET first == CHOOSE i \in 1 .. Len(devices) :
                 /\ \A j \in 1 .. Len(devices) : score[devices[j]] <= score[devices[i]]
                 /\ \A j \in 1 .. i - 1 : score[devices[j]] < score[devices[i]]
  IN devices[first]

device(sys, score) == LET m == max_element(score, all_devices(sys, "all"))
                      IN IF score[m] < 0 THEN Error ELSE m

\* The constructor of platform: its index in Platforms
platform(sys, score) ==
  LET has == {p \in 1 .. Len(Platforms(sys)) : get_devices(Platforms(sys)[p], score) # <<>>}
  IN IF has = {} THEN 1 ELSE CHOOSE p \in has : \A q \in has : p <= q

\* The devices of the context built from a selector, a device or a platform:
\* the first of the list, the host being a context of its own
context(sys, list, score) == LET l == IF list = <<>> THEN <<select_device(sys, score)>> ELSE list
                             IN IF is_host(l[1]) THEN <<HostDevice>> ELSE <<l[1]>>

\* The constructor of queue from a context and a selector: the device of the queue
queue(sys, ctx, score) == LET d == select_device(sys, score)
                          IN IF d \in ToSet(ctx) THEN d ELSE Error
-----------------------------------------------------------------------------

HostPlatform == 0
NoHandle     == -1

-----------------------------------------------------------------------------
(* The information about a device: the type of the value a query returns    *)

\* info::device and its param_traits, by type
ReturnTypes == [
  device_type |-> {"device_type"},
  cl_uint |-> {"vendor_id", "max_compute_units", "max_work_item_dimensions",
    "preferred_vector_width_char", "preferred_vector_width_short", "preferred_vector_width_int",
    "preferred_vector_width_long", "preferred_vector_width_float", "preferred_vector_width_double",
    "preferred_vector_width_half", "native_vector_width_char", "native_vector_width_short",
    "native_vector_width_int", "native_vector_width_long", "native_vector_width_float",
    "native_vector_width_double", "native_vector_width_half", "max_clock_frequency", "address_bits",
    "max_read_image_args", "max_write_image_args", "max_samplers", "mem_base_addr_align",
    "global_mem_cache_line_size", "max_constant_args", "partition_max_sub_devices",
    "reference_count"},
  cl_ulong |-> {"max_mem_alloc_size", "global_mem_cache_size", "global_mem_size",
    "max_constant_buffer_size", "local_mem_size"},
  size_t |-> {"max_work_group_size", "image2d_max_width", "image2d_max_height", "image3d_max_width",
    "image3d_max_height", "image3d_max_depth", "image_max_buffer_size", "image_max_array_size",
    "max_parameter_size", "profiling_timer_resolution", "printf_buffer_size"},
  bool |-> {"image_support", "error_correction_support", "host_unified_memory", "is_endian_little",
    "is_available", "is_compiler_available", "is_linker_available", "queue_profiling",
    "preferred_interop_user_sync"},
  string |-> {"name", "vendor", "driver_version", "profile", "version", "opencl_c_version"},
  strings |-> {"built_in_kernels", "extensions"},
  id3 |-> {"max_work_item_sizes"}, platform |-> {"platform"}, device |-> {"parent_device"},
  fp_configs |-> {"half_fp_config", "single_fp_config", "double_fp_config"},
  execution_capabilities |-> {"execution_capabilities"},
  global_mem_cache_type |-> {"global_mem_cache_type"}, local_mem_type |-> {"local_mem_type"},
  partition_property |-> {"partition_type_property"},
  partition_properties |-> {"partition_properties"},
  affinity_domain |-> {"partition_type_affinity_domain"},
  affinity_domains |-> {"partition_affinity_domains"}]

Params == UNION {ReturnTypes[t] : t \in DOMAIN ReturnTypes}
return_type(param) == CHOOSE t \in DOMAIN ReturnTypes : param \in ReturnTypes[t]

\* What the OpenCL device does not ask OpenCL: constants, by type
Constants == [
  cl_uint |-> {"preferred_vector_width_half", "native_vector_width_half", "max_constant_args",
    "partition_max_sub_devices", "global_mem_cache_line_size"},
  cl_ulong |-> {"max_constant_buffer_size"},
  size_t |-> {"image_max_buffer_size", "image_max_array_size"},
  bool |-> {"is_linker_available", "queue_profiling"},
  strings |-> {"built_in_kernels", "extensions"},
  id3 |-> {"max_work_item_sizes"}, platform |-> {"platform"}, device |-> {"parent_device"},
  device_type |-> {"device_type"},
  fp_configs |-> {"half_fp_config", "single_fp_config", "double_fp_config"},
  execution_capabilities |-> {"execution_capabilities"},
  global_mem_cache_type |-> {"global_mem_cache_type"}, local_mem_type |-> {"local_mem_type"},
  partition_property |-> {"partition_type_property"},
  partition_properties |-> {"partition_properties"},
  affinity_domain |-> {"partition_type_affinity_domain"},
  affinity_domains |-> {"partition_affinity_domains"}]

\* The fields asked to OpenCL, which have the types that Boost.Compute gives them
ClFields == {"vendor_id", "max_compute_units", "max_work_item_dimensions", "max_work_group_size",
    "preferred_vector_width_char", "preferred_vector_width_short", "preferred_vector_width_int",
    "preferred_vector_width_long", "preferred_vector_width_float", "preferred_vector_width_double",
    "native_vector_width_char", "native_vector_width_short", "native_vector_width_int",
    "native_vector_width_long", "native_vector_width_float", "native_vector_width_double",
    "max_clock_frequency", "address_bits", "max_mem_alloc_size", "image_support",
    "max_read_image_args", "max_write_image_args", "image2d_max_width", "image2d_max_height",
    "image3d_max_width", "image3d_max_height", "image3d_max_depth", "max_samplers",
    "max_parameter_size", "mem_base_addr_align", "global_mem_cache_size", "global_mem_size",
    "local_mem_size", "error_correction_support", "host_unified_memory",
    "profiling_timer_resolution", "is_endian_little", "is_available", "is_compiler_available",
    "name", "vendor", "driver_version", "profile", "version", "opencl_c_version",
    "printf_buffer_size", "preferred_interop_user_sync", "reference_count"}

\* The default of both switches returns the int 0
TypeIn(table, param) ==
  LET t == {u \in DOMAIN table : param \in table[u]} IN IF t = {} THEN "int" ELSE CHOOSE u \in t : TRUE

\* opencl_device::get_info
opencl_info(param) == IF param \in ClFields THEN "boost_compute" ELSE TypeIn(Constants, param)

\* host_device::get_info
host_info(param) ==
  TypeIn([size_t |-> {"max_work_group_size"}, id3 |-> {"max_work_item_sizes"},
          cl_uint |-> {"max_compute_units"}, device_type |-> {"device_type"},
          local_mem_type |-> {"local_mem_type"}, cl_ulong |-> {"local_mem_size"}], param)

\* The cast of device::get_info throws when the types differ
get_info_throws(host, param) ==
  return_type(param) # IF host THEN host_info(param) ELSE opencl_info(param)

\* info::device::device_type of an OpenCL device
info_device_type(bits) == IF bits = {"cpu"} THEN "cpu" ELSE "gpu"

-----------------------------------------------------------------------------
(* The implementations                                                       *)

\* has_extension is true of the extensions of the last field
host_device == [get |-> Error, is_host |-> TRUE, is_cpu |-> FALSE, is_gpu |-> FALSE,
                is_accelerator |-> FALSE, get_platform |-> HostPlatform, info_type |-> "host",
                has_extensions |-> {}]

\* The extensions that OpenCL tells of a platform or a device
ClExtensions == {"cl_khr_fp64"}

opencl_device(sys, d) ==
  LET bits == sys.platforms[d[1]][d[2]]
  IN [get |-> d, is_host |-> FALSE, is_cpu |-> "cpu" \in bits, is_gpu |-> "gpu" \in bits,
      is_accelerator |-> "accelerator" \in bits, get_platform |-> d[1],
      info_type |-> info_device_type(bits), has_extensions |-> ClExtensions]

\* device{}, and device{d}: the cached implementation of the OpenCL device
device_of(sys, d) == IF d = HostDevice THEN host_device ELSE opencl_device(sys, d)

\* device: what the user asks is forwarded, the list of the extensions is the
\* information of ReturnTypes, and there are no sub-devices
device_methods(o) ==
  [get |-> o.get, get_platform |-> o.get_platform, extensions |-> {},
   has_extension |-> [e \in ClExtensions |-> e \in o.has_extensions],
   create_sub_devices |-> Error]

host_platform == [get |-> NoHandle, is_host |-> TRUE, devices |-> <<HostDevice>>,
                  platform_extensions |-> {"Xilinx_blocking_pipes"}]

opencl_platform(sys, p) ==
  [get |-> p, is_host |-> FALSE, devices |-> [i \in 1 .. Len(sys.platforms[p]) |-> <<p, i>>],
   platform_extensions |-> ClExtensions]

platform_of(sys, p) == IF p = HostPlatform THEN host_platform ELSE opencl_platform(sys, p)

\* platform::get, get_info, has_extension and is_host
platform_methods(p) ==
  [get |-> p.get, is_host |-> p.is_host, extensions |-> p.platform_extensions,
   has_extension |-> [e \in ClExtensions \union {"Xilinx_blocking_pipes"} |->
                        e \in p.platform_extensions]]

\* platform::get_platforms
get_platforms(sys) == [i \in 1 .. Len(sys.platforms) + 1 |-> platform_of(sys, i - 1)]

\* host_platform::get_devices
host_platform_devices(score) == IF score[HostDevice] > 0 THEN <<HostDevice>> ELSE <<>>

\* platform::get_devices
platform_devices(sys, p, kind) ==
  LET score == device_type_selector(sys, kind)
  IN IF p = HostPlatform THEN host_platform_devices(score)
                         ELSE get_devices(opencl_platform(sys, p).devices, score)

host_context == [get |-> NoHandle, is_host |-> TRUE, get_platform |-> HostPlatform,
                 get_devices |-> <<HostDevice>>, reference_count |-> 0]

\* h is the handle of the OpenCL context, made for the devices of the list
opencl_context(h, list, refs) ==
  [get |-> h, is_host |-> FALSE, get_platform |-> list[1][1], get_devices |-> list,
   reference_count |-> refs]

\* context::get, is_host, get_platform and get_devices forward
context_methods(c) == [get |-> c.get, is_host |-> c.is_host, get_platform |-> c.get_platform,
                       get_devices |-> c.get_devices]

\* context::get_info
context_info(c) == [reference_count |-> c.reference_count, platform |-> c.get_platform,
                    devices |-> c.get_devices]

\* context{list}, context{device} and context{platform}
context_of(sys, h, list) ==
  LET used == context(sys, list, device_type_selector(sys, "automatic"))
  IN IF is_host(used[1]) THEN host_context ELSE opencl_context(h, used, 1)

host_queue == [get |-> NoHandle, is_host |-> TRUE, get_device |-> HostDevice,
               get_context |-> host_context]

\* The OpenCL context c of the OpenCL queue h has the device of the queue
opencl_queue(h, c, d) ==
  [get |-> h, is_host |-> FALSE, get_device |-> d, get_context |-> opencl_context(c, <<d>>, 1)]

\* queue::get_info: no queue tells its references
queue_info(q) == [device |-> q.get_device, context |-> q.get_context, reference_count |-> 0]

\* queue{device}: an OpenCL queue in an OpenCL context of its own
queue_of(h, c, d) == IF is_host(d) THEN host_queue ELSE opencl_queue(h, c, d)

\* queue{selector}; queue{} has TRISYCL_DEFAULT_QUEUE_SELECTOR, the host one
queue_selected(sys, h, c, score) ==
  LET d == device(sys, score) IN IF d = Error THEN Error ELSE queue_of(h, c, d)

default_queue(sys, h, c) == queue_selected(sys, h, c, device_type_selector(sys, "host"))

host_event == [get |-> NoHandle, is_host |-> TRUE, status |-> "submitted", reference_count |-> 0,
               profiling |-> 0, waits |-> FALSE]

\* The state of the command is that of the OpenCL event e
opencl_event(h, e) == [get |-> h, is_host |-> FALSE, status |-> e.status, reference_count |-> e.refs,
                       profiling |-> e.time, waits |-> e.status # "complete"]

event_of(h, e) == IF h = NoHandle THEN host_event ELSE opencl_event(h, e)

\* event: wait and the queries forward; wait_and_throw and the wait list do nothing
event_methods(e) == [wait |-> e.waits, wait_and_throw |-> FALSE, wait_list |-> <<>>,
                     status |-> e.status, profiling |-> e.profiling]
=============================================================================
