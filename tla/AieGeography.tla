---------------------------- MODULE AieGeography ----------------------------
(***************************************************************************)
(* The geography of an AI Engine array: numbering of the tiles, cascade    *)
(* path, memory modules around a core, the directions of hw::position, and *)
(* the stream switches with their wires.  Operators take the layout g, the *)
(* record of its x_max and y_max.                                          *)
(***************************************************************************)
EXTENDS Integers, Sequences, FiniteSets

x_size(g) == g.x_max + 1
y_size(g) == g.y_max + 1
size(g) == x_size(g) * y_size(g)

is_x_valid(g, x) == 0 <= x /\ x <= g.x_max
is_y_valid(g, y) == 0 <= y /\ y <= g.y_max
is_x_y_valid(g, x, y) == is_x_valid(g, x) /\ is_y_valid(g, y)

IsOdd(y) == y % 2 = 1

linear_id(g, x, y) == x + x_size(g) * y
linear_x(g, id) == id % x_size(g)
linear_y(g, id) == id \div x_size(g)

\* The tiles of the hana tuple of generate_tiles, in their order
tile_coordinates(g) ==
  [k \in 1 .. size(g) |-> <<(k - 1) % x_size(g), (k - 1) \div x_size(g)>>]

is_west_column(g, x) == x = 0
is_east_column(g, x) == x = g.x_max
is_south_row(g, y) == y = 0
is_north_row(g, y) == y = g.y_max

\* The cascade stream snakes through the rows
is_cascade_start(g, x, y) == x = 0 /\ y = 0
is_cascade_end(g, x, y) == x = (IF IsOdd(y) THEN 0 ELSE g.x_max) /\ y = g.y_max
cascade_linear_id(g, x, y) ==
  x_size(g) * y + (IF IsOdd(y) THEN g.x_max - x ELSE x)
cascade_linear_y(g, id) == id \div x_size(g)
\* Mutation: all the rows go from west to east
cascade_linear_x_straight(g, id) == id % x_size(g)
cascade_linear_x(g, id) ==
  LET x == id % x_size(g)
  IN IF IsOdd(cascade_linear_y(g, id)) THEN g.x_max - x ELSE x

\* Where write48 of the emulated tile puts its 48 bytes
CascadeTarget(g, x, y) ==
  LET id == cascade_linear_id(g, x, y) + 1
  IN <<cascade_linear_x(g, id), cascade_linear_y(g, id)>>

is_valid_memory_module_offset(dx, dy) ==
  \/ dx = 0 /\ dy \in {-1, 1}
  \/ dy = 0 /\ dx \in {-1, 1}

is_memory_module(g, x, y, dx, dy) ==
  /\ is_valid_memory_module_offset(dx, dy)
  /\ ~(is_south_row(g, y) /\ dy = -1)
  /\ ~(is_north_row(g, y) /\ dy = 1)
  /\ ~(is_west_column(g, x) /\ ~IsOdd(y) /\ dx = -1)
  /\ ~(is_east_column(g, x) /\ IsOdd(y) /\ dx = 1)

\* The memory of a tile is on the west of its core in odd rows, on its east in
\* even rows: the offset of the tile owning the memory module at dx.  The
\* division is on -2 and 0 only.
memory_module_dx_coordinate(y, dx) == ((dx - 1) \div 2) + (y % 2)

memory_module_linear_id(g, x, y, dx, dy) ==
  IF dx = 0 THEN linear_id(g, x, y + dy)
  ELSE linear_id(g, x + memory_module_dx_coordinate(y, dx), y)
-----------------------------------------------------------------------------
\* namespace hw: enum dir, in the order of the addresses and of the lock ids
DirValue == [south |-> 0, west |-> 1, north |-> 2, east |-> 3]
Dirs == DOMAIN DirValue

\* The parity is the side on which a tile has its own memory
get_parity(y) == IF IsOdd(y) THEN "west" ELSE "east"
get_self_dir(parity) == parity

get_simple_offset(d) ==
  [south |-> <<0, -1>>, west |-> <<-1, 0>>, north |-> <<0, 1>>, east |-> <<1, 0>>][d]

\* The tile whose memory is on side d of a core of this parity
get_offset(parity, d) == IF d = parity THEN <<0, 0>> ELSE get_simple_offset(d)

moved(x, y, d) ==
  LET o == get_offset(get_parity(y), d) IN <<x + o[1], y + o[2]>>

\* aie/: the direction seen from the other side
opposite_dir(d) == [south |-> "north", north |-> "south", west |-> "east", east |-> "west"][d]

\* aie/: tile_base::has_mem and tile_base::has_neighbor
has_mem(g, x, y, d) == LET p == moved(x, y, d) IN is_x_y_valid(g, p[1], p[2])
has_neighbor(g, x, y, d) ==
  LET o == get_simple_offset(d) IN is_x_y_valid(g, x + o[1], y + o[2])

\* The side through which a tile sees the lock of the next tile of its row, or
\* the order of the row in horizontal_barrier: from west to east in odd rows,
\* from east to west in even ones
RowDir(y) == IF IsOdd(y) THEN "east" ELSE "west"
RowFirst(g, x, y) == IF IsOdd(y) THEN is_west_column(g, x) ELSE is_east_column(g, x)
RowForwards(g, x, y) ==
  LET o == get_simple_offset(RowDir(y)) IN is_memory_module(g, x, y, o[1], o[2])

\* The tile whose lock a tile uses to talk to the next one: get_lock(d, id) is
\* the lock of the tile moved to in emulation
RowNext(g, x, y) == moved(x, y, RowDir(y))
-----------------------------------------------------------------------------
Layouts(n, m) == [x_max : 0 .. n, y_max : 0 .. m]
Coords(g) == (0 .. g.x_max) \X (0 .. g.y_max)
Neighbours(p, q) == (p[1] - q[1]) * (p[1] - q[1]) + (p[2] - q[2]) * (p[2] - q[2]) = 1
-----------------------------------------------------------------------------
(* The ports of the AXI stream switches and the network built on them by    *)
(* the constructor of aie::detail::device: port layouts of core and shim    *)
(* tiles, port ranges, translation of user ports, wires between switches.   *)
(* A switch is the coordinate of its tile; shim x is the switch <<x, -1>>.  *)

\* A layout is the sequence of the kinds of ports with their numbers
CoreMaster == <<<<"me", 2>>, <<"dma", 2>>, <<"tile_ctrl", 1>>, <<"fifo", 2>>,
                <<"south", 4>>, <<"west", 4>>, <<"north", 6>>, <<"east", 4>>>>
CoreSlave == <<<<"me", 2>>, <<"dma", 2>>, <<"tile_ctrl", 1>>, <<"fifo", 2>>,
               <<"south", 6>>, <<"west", 4>>, <<"north", 4>>, <<"east", 4>>,
               <<"core_trace", 1>>, <<"mem_trace", 1>>>>
ShimMaster == <<<<"tile_ctrl", 1>>, <<"fifo", 2>>, <<"south", 6>>, <<"west", 4>>,
                <<"north", 6>>, <<"east", 4>>>>
ShimSlave == <<<<"tile_ctrl", 1>>, <<"fifo", 2>>, <<"south", 8>>, <<"west", 4>>,
               <<"north", 4>>, <<"east", 4>>, <<"shim_trace", 1>>>>

\* The enumerators are numbered from 0 in the order of the layout
first(l, kind) ==
  LET k == CHOOSE i \in DOMAIN l : l[i][1] = kind
      sum[i \in 0 .. Len(l)] == IF i = 0 THEN 0 ELSE sum[i - 1] + l[i][2]
  IN sum[k - 1]
enum_count(l, kind) == l[CHOOSE i \in DOMAIN l : l[i][1] = kind][2]
last(l, kind) == first(l, kind) + enum_count(l, kind) - 1
nb_port(l) == last(l, l[Len(l)][1]) + 1

\* views::enum_type from the first to the last port of a kind, included
ports(l, kind) == [i \in 1 .. enum_count(l, kind) |-> first(l, kind) + i - 1]

\* ranges::views::zip stops with the shorter range
zip(s, t) ==
  {<<s[i], t[i]>> : i \in 1 .. (IF Len(s) < Len(t) THEN Len(s) ELSE Len(t))}

\* The user port is the one after port_min, or an exception is thrown
IsUserPort(l, kind, user_port) == ~(user_port < 0 \/ user_port > last(l, kind) - first(l, kind))
translate_port(l, kind, user_port) == first(l, kind) + user_port

MasterOf(t) == IF t[2] = -1 THEN ShimMaster ELSE CoreMaster
SlaveOf(t) == IF t[2] = -1 THEN ShimSlave ELSE CoreSlave
Switches(g) == Coords(g) \cup {<<x, -1>> : x \in 0 .. g.x_max}

\* The wires of ports of kind m of switch t into ports of kind s of switch u
Wires(t, m, u, s) ==
  {[from |-> t, out |-> w[1], to |-> u, in |-> w[2]] :
     w \in zip(ports(MasterOf(t), m), ports(SlaveOf(u), s))}

\* dx, dy, kinds of the master and of the slave ports
interconnect == {<<1, 0, "east", "west">>, <<-1, 0, "west", "east">>,
                 <<0, 1, "north", "south">>, <<0, -1, "south", "north">>}

for_each_tile_neighborhood(g) ==
  UNION {LET to == <<t[1] + c[1], t[2] + c[2]>>
         IN IF is_x_y_valid(g, to[1], to[2]) THEN Wires(t, c[3], to, c[4]) ELSE {} :
           t \in Coords(g), c \in interconnect}

ShimWires(g) ==
  UNION {LET s == <<x, -1>> IN
           Wires(s, "north", <<x, 0>>, "south") \cup
           Wires(<<x, 0>>, "south", s, "north") \cup
           (IF is_east_column(g, x) THEN {} ELSE Wires(s, "east", <<x + 1, -1>>, "west")) \cup
           (IF is_west_column(g, x) THEN {} ELSE Wires(s, "west", <<x - 1, -1>>, "east"))
         : x \in 0 .. g.x_max}

\* axi_stream_switch::start: the FIFO is the router of its slave port
SwitchWires(t) == Wires(t, "fifo", t, "fifo")

Network(g) ==
  UNION {SwitchWires(t) : t \in Switches(g)} \cup for_each_tile_neighborhood(g) \cup ShimWires(g)

\* The output ports with a receiver of the tile: core and DMA of a core tile,
\* BLI receivers of a shim tile
ReceiverPorts(t) ==
  UNION {{first(MasterOf(t), k) + i - 1 : i \in 1 .. enum_count(MasterOf(t), k)} :
           k \in IF t[2] = -1 THEN {"south"} ELSE {"me", "dma"}}

\* The side of the array on which a switch has no neighbour
AtEdge(g, t, kind) ==
  \/ kind = "west" /\ is_west_column(g, t[1])
  \/ kind = "east" /\ is_east_column(g, t[1])
  \/ kind = "north" /\ is_north_row(g, t[2])
  \/ kind = "south" /\ t[2] = -1

\* The name of a port for libxaiengine, by which tile_hw_config::connect
\* configures the hardware.  The type is the kind; the numbers are counted from
\* entry PType of the table arr.
XaieTypes == <<"me", "dma", "tile_ctrl", "fifo", "south", "west", "north", "east">>
KindOf(l, p) == CHOOSE k \in {l[i][1] : i \in DOMAIN l} : first(l, k) <= p /\ p <= last(l, k)
acap_port_to_xaie_port_type(l, p) ==
  LET types == {i \in DOMAIN XaieTypes : p <= last(l, XaieTypes[i])}
  IN IF types = {} THEN "trace" ELSE XaieTypes[CHOOSE i \in types : \A j \in types : i <= j]
acap_port_to_xaie_port_id(l, p, type) ==
  LET i == CHOOSE i \in 1 .. 9 : IF i = 9 THEN type = "trace" ELSE XaieTypes[i] = type
      base == IF i = 1 THEN 1 ELSE last(l, XaieTypes[i - 1])
  IN p - base + 1
=============================================================================
