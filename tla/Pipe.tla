-------------------------------- MODULE Pipe --------------------------------
(***************************************************************************)
(* The pipe of SYCL 2.2 (detail::sycl_2_2::pipe) with its read and write   *)
(* reservations (detail::sycl_2_2::pipe_reservation).  The kernels at both *)
(* ends run in threads of their own; a pipe operation holds cb_mutex, but  *)
(* a commit marks its reservation ready without it, then moves the         *)
(* reservations forward under the mutex.                                   *)
(*                                                                         *)
(* The n-th element pushed into the circular buffer has the value n.  The  *)
(* slots of a write reservation hold 0 until their owner stores into them. *)
(* An iterator of the circular buffer is the number of the element it      *)
(* points at.  A blocking operation is enabled when its predicate holds,   *)
(* every change of which is notified; a non blocking one that fails, or a  *)
(* reservation of no element, changes nothing.                             *)
(***************************************************************************)
EXTENDS Naturals, Sequences

CONSTANTS
  Capacity,    \* of the circular buffer
  MaxReserve,  \* bound on the elements of one reservation
  MaxSent,     \* bound on the elements pushed
  MaxPending   \* bound on the reservations pending at each end

ASSUME PipeAssumption ==
  Capacity \in Nat /\ MaxReserve \in Nat /\ MaxSent \in Nat /\ MaxPending \in Nat

VARIABLES
  cb,                    \* pipe::cb
  begun,                 \* the elements that have left cb: cb.begin() points
                         \* at element begun + 1
  w_rid_q,               \* pipe::w_rid_q
  r_rid_q,               \* pipe::r_rid_q
  read_reserved_frozen,  \* pipe::read_reserved_frozen
  w_moves,               \* commits between ready and the write queue's move
  r_moves,               \* commits between ready and the read queue's move
  received               \* history: the elements given to the readers, in order

vars == <<cb, begun, w_rid_q, r_rid_q, read_reserved_frozen, w_moves, r_moves,
          received>>

Init ==
  /\ cb = << >>
  /\ begun = 0
  /\ w_rid_q = << >>
  /\ r_rid_q = << >>
  /\ read_reserved_frozen = 0
  /\ w_moves = 0
  /\ r_moves = 0
  /\ received = << >>

-----------------------------------------------------------------------------
(* A reservation: its first element, its size and whether it is committed *)
reserve_id(start, size) == [start |-> start, size |-> size, ready |-> FALSE]

(* cb.end() *)
End == begun + Len(cb) + 1

reserved_for_reading == read_reserved_frozen

(* Mutation: the plain writes behind a reservation are not held back *)
reserved_for_writing_first ==
  IF w_rid_q = << >> THEN 0 ELSE Head(w_rid_q).size

(* From the first pending write reservation to the end of the content *)
reserved_for_writing ==
  IF w_rid_q = << >> THEN 0 ELSE End - Head(w_rid_q).start

(* pipe::size, an unsigned number *)
size == Len(cb) - (reserved_for_reading + reserved_for_writing)

(* There is room to push n elements *)
HasRoom(n) == Len(cb) + n <= Capacity

(* boost::circular_buffer: a push into a full buffer overwrites its front *)
push_back(values) ==
  LET all == cb \o values
      lost == IF Len(all) > Capacity THEN Len(all) - Capacity ELSE 0
  IN  /\ cb' = SubSeq(all, lost + 1, Len(all))
      /\ begun' = begun + lost

pop_front(n) ==
  /\ cb' = SubSeq(cb, n + 1, Len(cb))
  /\ begun' = begun + n

(* The first reservation of a queue is ready *)
FirstReady(q) == q # << >> /\ q[1].ready

(* The reservations at the front of a queue that are ready are the first n *)
Leading(q, n) ==
  /\ \A i \in 1..n : q[i].ready
  /\ n < Len(q) => ~q[n + 1].ready

(* q without its first n reservations *)
Drop(q, n) == SubSeq(q, n + 1, Len(q))

(* The elements released with the n first read reservations: those up to the
   next reservation, or all the frozen ones *)
n_to_pop(n) ==
  CASE n = 0 -> 0
    [] n > 0 /\ n = Len(r_rid_q) -> read_reserved_frozen
    [] OTHER -> r_rid_q[n + 1].start - (begun + 1)

-----------------------------------------------------------------------------
(* pipe::write *)
write ==
  /\ End <= MaxSent
  /\ HasRoom(1)
  /\ push_back(<<End>>)
  /\ UNCHANGED <<w_rid_q, r_rid_q, read_reserved_frozen, w_moves, r_moves,
                 received>>

(* pipe::read: behind pending read reservations the element read stays in the
   buffer, frozen *)
read ==
  /\ size > 0
  /\ received' = Append(received, cb[read_reserved_frozen + 1])
  /\ IF read_reserved_frozen > 0
       THEN /\ read_reserved_frozen' = read_reserved_frozen + 1
            /\ UNCHANGED <<cb, begun>>
       ELSE /\ pop_front(1)
            /\ UNCHANGED read_reserved_frozen
  /\ UNCHANGED <<w_rid_q, r_rid_q, w_moves, r_moves>>

(* pipe::reserve_write *)
reserve_write(n) ==
  /\ Len(w_rid_q) < MaxPending /\ End + n - 1 <= MaxSent
  /\ HasRoom(n)
  /\ push_back([i \in 1..n |-> 0])
  /\ w_rid_q' = Append(w_rid_q, reserve_id(End, n))
  /\ UNCHANGED <<r_rid_q, read_reserved_frozen, w_moves, r_moves, received>>

(* pipe::reserve_read.  The reader may read its elements from now on. *)
reserve_read(n) ==
  /\ Len(r_rid_q) < MaxPending
  /\ n <= size
  /\ r_rid_q' = Append(r_rid_q, reserve_id(begun + read_reserved_frozen + 1, n))
  /\ read_reserved_frozen' = read_reserved_frozen + n
  /\ received' = received \o SubSeq(cb, read_reserved_frozen + 1,
                                    read_reserved_frozen + n)
  /\ UNCHANGED <<cb, begun, w_rid_q, w_moves, r_moves>>

(* The elements of the i-th write reservation are stored, and its commit marks
   it ready *)
CommitWrite(i) ==
  LET r == w_rid_q[i] IN
  /\ ~r.ready
  /\ cb' = [k \in 1..Len(cb) |->
              IF begun + k \in r.start..(r.start + r.size - 1)
                THEN begun + k ELSE cb[k]]
  /\ w_rid_q' = [w_rid_q EXCEPT ![i].ready = TRUE]
  /\ w_moves' = w_moves + 1
  /\ UNCHANGED <<begun, r_rid_q, read_reserved_frozen, r_moves, received>>

(* The commit of the i-th read reservation marks it ready *)
CommitRead(i) ==
  /\ ~r_rid_q[i].ready
  /\ r_rid_q' = [r_rid_q EXCEPT ![i].ready = TRUE]
  /\ r_moves' = r_moves + 1
  /\ UNCHANGED <<cb, begun, w_rid_q, read_reserved_frozen, w_moves, received>>

(* pipe::move_write_reservation_forward *)
move_write_reservation_forward ==
  /\ w_moves > 0
  /\ w_moves' = w_moves - 1
  /\ \E done \in 0..Len(w_rid_q) :
       Leading(w_rid_q, done) /\ w_rid_q' = Drop(w_rid_q, done)
  /\ UNCHANGED <<cb, begun, r_rid_q, read_reserved_frozen, r_moves, received>>

(* Mutation: only the first reservation is processed *)
move_read_reservation_forward_once ==
  LET done == IF FirstReady(r_rid_q) THEN 1 ELSE 0 IN
  /\ r_moves > 0
  /\ r_moves' = r_moves - 1
  /\ r_rid_q' = Drop(r_rid_q, done)
  /\ read_reserved_frozen' = read_reserved_frozen - n_to_pop(done)
  /\ pop_front(n_to_pop(done))
  /\ UNCHANGED <<w_rid_q, w_moves, received>>

(* pipe::move_read_reservation_forward *)
move_read_reservation_forward ==
  /\ r_moves > 0
  /\ r_moves' = r_moves - 1
  /\ \E done \in 0..Len(r_rid_q) :
       /\ Leading(r_rid_q, done)
       /\ r_rid_q' = Drop(r_rid_q, done)
       /\ read_reserved_frozen' = read_reserved_frozen - n_to_pop(done)
       /\ pop_front(n_to_pop(done))
  /\ UNCHANGED <<w_rid_q, w_moves, received>>

Next ==
  \/ write
  \/ read
  \/ \E n \in 1..MaxReserve : reserve_write(n) \/ reserve_read(n)
  \/ \E i \in 1..Len(w_rid_q) : CommitWrite(i)
  \/ \E i \in 1..Len(r_rid_q) : CommitRead(i)
  \/ move_write_reservation_forward
  \/ move_read_reservation_forward

Spec == Init /\ [][Next]_vars

(* A thread inside commit proceeds; nothing else is asked of the kernels. *)
FairSpec ==
  /\ Spec
  /\ WF_vars(move_write_reservation_forward)
  /\ WF_vars(move_read_reservation_forward)

-----------------------------------------------------------------------------
(* Every variable keeps its type, and pipe::size never wraps around. *)
TypeOK ==
  /\ cb \in Seq(0..MaxSent) /\ Len(cb) <= Capacity
  /\ begun \in Nat /\ read_reserved_frozen \in Nat
  /\ \A q \in {w_rid_q, r_rid_q} :
       q \in Seq([start : Nat, size : 1..MaxReserve, ready : BOOLEAN])
  /\ w_moves \in Nat /\ r_moves \in Nat
  /\ received \in Seq(Nat)
  /\ reserved_for_reading + reserved_for_writing <= Len(cb)

(* The reservations of one end follow one another, whatever was read or written
   between them; those for reading lie among the frozen elements; and nothing
   stays frozen when no read reservation is left. *)
ReservationsSound ==
  /\ \A q \in {w_rid_q, r_rid_q} : \A i \in 1..(Len(q) - 1) :
       q[i].start + q[i].size <= q[i + 1].start
  /\ \A i \in 1..Len(w_rid_q) : w_rid_q[i].start + w_rid_q[i].size <= End
  /\ \A i \in 1..Len(r_rid_q) :
       /\ r_rid_q[i].start > begun
       /\ r_rid_q[i].start + r_rid_q[i].size <= begun + read_reserved_frozen + 1
  /\ r_rid_q = << >> => read_reserved_frozen = 0

(* A committed reservation does not stay in its queue when all those before it
   are committed, in whatever order they were. *)
CommitsReleased ==
  /\ FirstReady(r_rid_q) ~> ~FirstReady(r_rid_q)
  /\ FirstReady(w_rid_q) ~> ~FirstReady(w_rid_q)

(* The elements that can be read *)
Readable == SubSeq(cb, read_reserved_frozen + 1, Len(cb) - reserved_for_writing)

F == INSTANCE Fifo WITH
  channel <- Readable,
  sent <- begun + Len(cb) - reserved_for_writing

(* The pipe is a bounded FIFO: plain reads and writes mixed with reservations
   committed in any order give the elements in order, each of them once, and
   none before it was committed. *)
IsFifo == F!FifoSpec

=============================================================================
