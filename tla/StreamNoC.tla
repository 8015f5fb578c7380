----------------------------- MODULE StreamNoC -----------------------------
(****************************************************************************)
(* The emulated AXI stream network of an AI Engine array: router minions,   *)
(* each a channel and a fiber forwarding its packets to a list of outputs,  *)
(* the receivers of the cores, the sending DMAs, and the destruction of the *)
(* device.  Tiles are destroyed one after the other; a port lives until     *)
(* nobody holds a shared_ptr to it.                                         *)
(****************************************************************************)
EXTENDS Integers, Sequences, FiniteSets, SequencesExt

CONSTANTS Routers, Receivers,
          Outputs,   \* router -> sequence of ports, by connect()
          Room,      \* port -> packets its channel holds
          TileOf,    \* port -> the tile whose switch holds it
          Writes,    \* router -> number of values written into it by its core or DMA
          ByDMA,     \* routers fed by a sending DMA
          Destroyed  \* the tiles in the order of their destruction

Ports == Routers \union Receivers

ASSUME NoCAssumption ==
  /\ Outputs \in [Routers -> Seq(Ports)]
  /\ Room \in [Ports -> Nat \ {0}] /\ Writes \in [Routers -> Nat]
  /\ ByDMA \subseteq Routers

VARIABLES chan,      \* packets in the channel of each port
          held,      \* packet each router is forwarding, with the outputs left
          written,   \* values written so far into each router
          pending,   \* values in the commands queued in the DMA of a router
          got,       \* values read from each receiver
          owned,     \* <<tile, port>>: the arrays of the tile's switch hold the port
          gone,      \* ports destroyed
          dying,     \* router whose destructor runs, after its shutdown packet
          tile       \* index in Destroyed of the tile being destroyed

nvars == <<chan, held, written, pending, got, owned, gone, dying, tile>>

Shutdown == <<"shutdown", 0>>
Idle == [packet |-> Shutdown, left |-> <<>>, state |-> "pop"]
Nobody == "nobody"

\* The values that reach a receiver, for each router they enter by
Reached[n \in Nat, p \in Ports] ==
  IF n = 0 \/ p \notin Routers THEN {p}
  ELSE {p} \union UNION {Reached[n - 1, Outputs[p][k]] : k \in DOMAIN Outputs[p]}
FlowsTo(r, p) == p \in Reached[Cardinality(Routers), r]

\* input_ports of its tile, and output_ports of the tiles routing to it, hold a port
Holding == {h \in ToSet(Destroyed) \X Ports :
              \/ TileOf[h[2]] = h[1]
              \/ \E r \in Routers : TileOf[r] = h[1] /\ h[2] \in ToSet(Outputs[r])}

NInit == /\ chan = [p \in Ports |-> <<>>]
         /\ held = [r \in Routers |-> Idle]
         /\ written = [r \in Routers |-> 0]
         /\ pending = [r \in Routers |-> 0]
         /\ got = [p \in Receivers |-> <<>>]
         /\ owned = Holding
         /\ gone = {}
         /\ dying = Nobody
         /\ tile = 0

\* router_minion::write, port_receiver::write: a blocking push
Push(c, p) == Len(chan[c]) < Room[c] /\ chan' = [chan EXCEPT ![c] = Append(@, p)]

NextValue(r) == <<r, written[r] + 1>>

\* A core writes a value to its output port
CoreWrite(r) ==
  /\ r \notin ByDMA /\ written[r] < Writes[r]
  /\ Push(r, NextValue(r))
  /\ written' = [written EXCEPT ![r] = @ + 1]
  /\ UNCHANGED <<held, pending, got, owned, gone, dying, tile>>

\* sending_dma::send: a command of all the values of a span
Send(r) ==
  /\ r \in ByDMA /\ pending[r] = 0 /\ written[r] = 0 /\ Writes[r] > 0
  /\ pending' = [pending EXCEPT ![r] = Writes[r]]
  /\ UNCHANGED <<chan, held, written, got, owned, gone, dying, tile>>

\* The data mover of the DMA executes its command, a value at a time
MoveData(r) ==
  /\ pending[r] > 0
  /\ Push(r, NextValue(r))
  /\ written' = [written EXCEPT ![r] = @ + 1]
  /\ pending' = [pending EXCEPT ![r] = @ - 1]
  /\ UNCHANGED <<held, got, owned, gone, dying, tile>>

\* The routing fiber takes a packet ...
RoutePop(r) ==
  /\ held[r].state = "pop" /\ chan[r] # <<>>
  /\ chan' = [chan EXCEPT ![r] = Tail(@)]
  /\ held' = [held EXCEPT ![r] =
                IF Head(chan[r]) = Shutdown THEN [Idle EXCEPT !.state = "ended"]
                ELSE [packet |-> Head(chan[r]), left |-> Outputs[r], state |-> "route"]]
  /\ UNCHANGED <<written, pending, got, owned, gone, dying, tile>>

\* ... and writes it on each output in turn
RouteWrite(r) ==
  /\ held[r].state = "route" /\ held[r].left # <<>>
  /\ Push(Head(held[r].left), held[r].packet)
  /\ held' = [held EXCEPT ![r].left = Tail(@)]
  /\ UNCHANGED <<written, pending, got, owned, gone, dying, tile>>

RouteDone(r) ==
  /\ held[r].state = "route" /\ held[r].left = <<>>
  /\ held' = [held EXCEPT ![r] = Idle]
  /\ UNCHANGED <<chan, written, pending, got, owned, gone, dying, tile>>

\* A core or a receiving DMA reads a value; it reads all it expects
Expected(p) == {r \in Routers : FlowsTo(r, p) /\ Writes[r] > 0}
SumOf(S) == FoldSet(LAMBDA r, n : n + Writes[r], 0, S)
Read(p) ==
  /\ Len(got[p]) < SumOf(Expected(p)) /\ chan[p] # <<>>
  /\ got' = [got EXCEPT ![p] = Append(@, Head(chan[p]))]
  /\ chan' = [chan EXCEPT ![p] = Tail(@)]
  /\ UNCHANGED <<held, written, pending, owned, gone, dying, tile>>

PortsOf(t) == {p \in Ports : TileOf[p] = t}
\* future_work and the DMAs are destroyed before the switch: the program of the
\* tile has returned and the data movers have executed their commands
TileQuiet(t) ==
  /\ \A r \in Routers \intersect PortsOf(t) :
       IF r \in ByDMA THEN pending[r] = 0 /\ written[r] = Writes[r] ELSE written[r] = Writes[r]
  /\ \A p \in Receivers \intersect PortsOf(t) : Len(got[p]) = SumOf(Expected(p))

\* Mutation: the references of the routers upstream are forgotten
Referenced_owned(p) == \E t \in ToSet(Destroyed) : <<t, p>> \in owned

Referenced(p) ==
  \/ \E t \in ToSet(Destroyed) : <<t, p>> \in owned
  \/ \E r \in Routers \ gone : p \in ToSet(Outputs[r])
Unreferenced == {p \in Ports \ gone : ~Referenced(p)}

\* ~tile_infrastructure: the next tile, once the one before is destroyed
DestroyTile ==
  /\ dying = Nobody /\ Unreferenced = {} /\ tile < Len(Destroyed)
  /\ \A h \in owned : \A k \in 1 .. tile : h[1] # Destroyed[k]
  /\ TileQuiet(Destroyed[tile + 1])
  /\ tile' = tile + 1
  /\ UNCHANGED <<chan, held, written, pending, got, owned, gone, dying>>

\* input_ports holds the routers of the tile, output_ports the ports they lead to
IsInput(h) == h[2] \in Routers /\ TileOf[h[2]] = h[1]

\* an element of output_ports is destroyed, then those of input_ports
ReleasePort(p) ==
  /\ dying = Nobody /\ Unreferenced = {} /\ tile > 0
  /\ <<Destroyed[tile], p>> \in owned
  /\ IsInput(<<Destroyed[tile], p>>) => \A h \in owned : h[1] = Destroyed[tile] => IsInput(h)
  /\ owned' = owned \ {<<Destroyed[tile], p>>}
  /\ UNCHANGED <<chan, held, written, pending, got, gone, dying, tile>>

\* ~router_minion: the shutdown packet, behind all the others ...
DestroyRouter(r) ==
  /\ dying = Nobody /\ r \in Unreferenced
  /\ Push(r, Shutdown)
  /\ dying' = r
  /\ UNCHANGED <<held, written, pending, got, owned, gone, tile>>

\* ... and join(); its references to its outputs go with it
RouterGone(r) ==
  /\ dying = r /\ held[r].state = "ended"
  /\ gone' = gone \union {r} /\ dying' = Nobody
  /\ UNCHANGED <<chan, held, written, pending, got, owned, tile>>

ReceiverGone(p) ==
  /\ dying = Nobody /\ p \in Unreferenced
  /\ gone' = gone \union {p}
  /\ UNCHANGED <<chan, held, written, pending, got, owned, dying, tile>>

Moving(r) == CoreWrite(r) \/ MoveData(r) \/ Send(r)
Routing(r) == RoutePop(r) \/ RouteWrite(r) \/ RouteDone(r)
Destruction == \/ DestroyTile
               \/ \E p \in Ports : ReleasePort(p)
               \/ \E r \in Routers : DestroyRouter(r) \/ RouterGone(r)
               \/ \E p \in Receivers : ReceiverGone(p)

Dismantled == gone = Ports /\ UNCHANGED nvars

NNext == \/ \E r \in Routers : Moving(r) \/ Routing(r)
         \/ \E p \in Receivers : Read(p)
         \/ Destruction \/ Dismantled

NSpec == NInit /\ [][NNext]_nvars
-----------------------------------------------------------------------------
NTypeOK == /\ \A c \in Ports : Len(chan[c]) <= Room[c]
           /\ \A r \in Routers : written[r] + pending[r] <= Writes[r]
           /\ owned \subseteq Holding /\ gone \subseteq Ports

(* The routing fibers and the channels: a receiver gets the values written at   *)
(* each entry of the network in their order, none twice and none left out.      *)
StreamsInOrder ==
  \A p \in Receivers, r \in Routers :
    LET s == SelectSeq(got[p], LAMBDA v : v[1] = r)
    IN \A k \in DOMAIN s : s[k] = <<r, k>>

(* outputs and output_ports hold shared pointers: no fiber writes to a port or   *)
(* takes from a channel that is destroyed, while the network is dismantled.      *)
NoUseAfterDestruction ==
  \A r \in Routers :
    /\ held[r].state = "route" =>
         r \notin gone /\ ToSet(held[r].left) \intersect gone = {}
    /\ r \in gone => chan[r] = <<>>

(* ~router_minion: the shutdown packet is behind every value, so that each value  *)
(* has reached its receivers when the device is destroyed.                        *)
NothingDropped ==
  gone = Ports => \A p \in Receivers : \A r \in Expected(p) :
    Len(SelectSeq(got[p], LAMBDA v : v[1] = r)) = Writes[r]

(* The destruction of a device whose programs read what is sent to them ends.     *)
DismantlingEnds == <>(gone = Ports)

(* The stream network gives each receiver what was sent to it, in order and to the    *)
(* last value, and is dismantled without a use of what is destroyed (router_minion,   *)
(* axi_stream_switch, ~device).                                                       *)
StreamsSound == NTypeOK /\ StreamsInOrder /\ NoUseAfterDestruction /\ NothingDropped
=============================================================================
