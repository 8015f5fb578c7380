----------------------------- MODULE PipeProofs -----------------------------
(***************************************************************************)
(* The pipe of SYCL 2.2, for any capacity and any number and size of       *)
(* reservations: the reservations of an end lie in order in the buffer,    *)
(* pipe::size never wraps around and the pipe is a bounded FIFO; and the   *)
(* accessors of a pipe stay apart.                                         *)
(***************************************************************************)
EXTENDS PipeFacade, SequenceTheorems, TLAPS

Reservation == [start : Nat, size : 1..MaxReserve, ready : BOOLEAN]

PipeTypes ==
  /\ cb \in Seq(0..MaxSent) /\ Len(cb) <= Capacity /\ begun \in Nat
  /\ begun + Len(cb) <= MaxSent
  /\ read_reserved_frozen \in Nat /\ read_reserved_frozen <= Len(cb)
  /\ w_rid_q \in Seq(Reservation) /\ r_rid_q \in Seq(Reservation)
  /\ w_moves \in Nat /\ r_moves \in Nat /\ received \in Seq(Nat)

(* Any two reservations of a queue, not only neighbours, lie one behind the other *)
InOrder(q) == \A i, j \in 1..Len(q) : i < j => q[i].start + q[i].size <= q[j].start

(* Write reservations lie behind what is frozen, inside the buffer *)
WritesInside == \A i \in 1..Len(w_rid_q) :
  /\ begun + read_reserved_frozen < w_rid_q[i].start
  /\ w_rid_q[i].start + w_rid_q[i].size <= begun + Len(cb) + 1

(* Read reservations lie among what is frozen *)
ReadsInside ==
  /\ \A i \in 1..Len(r_rid_q) :
       /\ r_rid_q[i].start > begun
       /\ r_rid_q[i].start + r_rid_q[i].size <= begun + read_reserved_frozen + 1
  /\ Len(r_rid_q) = 0 => read_reserved_frozen = 0

(* An element has its value, unless it is reserved and not committed yet *)
Filled == \A k \in 1..Len(cb) :
  \/ cb[k] = begun + k
  \/ \E i \in 1..Len(w_rid_q) :
       /\ ~w_rid_q[i].ready
       /\ w_rid_q[i].start <= begun + k /\ begun + k < w_rid_q[i].start + w_rid_q[i].size

PipeInv == /\ PipeTypes /\ InOrder(w_rid_q) /\ InOrder(r_rid_q)
           /\ WritesInside /\ ReadsInside /\ Filled

\* The number of the last element that can be read
LastReadable == IF Len(w_rid_q) = 0 THEN begun + Len(cb) ELSE w_rid_q[1].start - 1

\* A step gives some elements to the readers and makes others readable
Passes(got, put) ==
  /\ begun' + read_reserved_frozen' = begun + read_reserved_frozen + got
  /\ LastReadable' = LastReadable + put

(* A queue without its first reservations. *)
LEMMA Dropped ==
  ASSUME NEW S, NEW q \in Seq(S), NEW n \in 0..Len(q)
  PROVE  /\ Drop(q, n) \in Seq(S) /\ Len(Drop(q, n)) = Len(q) - n
         /\ \A i \in 1..(Len(q) - n) : Drop(q, n)[i] = q[n + i]
<1>1. Len(q) \in Nat /\ \A i \in 1..Len(q) : q[i] \in S
      BY LenProperties, ElementOfSeq
<1>2. \A i \in (n + 1)..Len(q) : q[i] \in S
      BY <1>1
<1>3. /\ SubSeq(q, n + 1, Len(q)) \in Seq(S)
      /\ Len(SubSeq(q, n + 1, Len(q))) = IF n + 1 <= Len(q) THEN Len(q) - (n + 1) + 1 ELSE 0
      /\ \A i \in 1..(Len(q) - (n + 1) + 1) : SubSeq(q, n + 1, Len(q))[i] = q[n + 1 + i - 1]
      BY <1>1, <1>2, SubSeqProperties
<1>4. QED BY <1>1, <1>3 DEF Drop

(* What the types say of a reservation of a queue. *)
LEMMA Reserved ==
  ASSUME NEW q \in Seq(Reservation)
  PROVE  /\ Len(q) \in Nat
         /\ \A i \in 1..Len(q) : /\ q[i] \in Reservation /\ q[i].start \in Nat
                                 /\ q[i].size \in Nat /\ q[i].size >= 1
<1>1. Len(q) \in Nat /\ \A i \in 1..Len(q) : q[i] \in Reservation
      BY LenProperties, ElementOfSeq
<1>2. \A r \in Reservation : r.start \in Nat /\ r.size \in Nat /\ r.size >= 1
      BY PipeAssumption DEF Reservation
<1>3. QED BY <1>1, <1>2

(* What lies before the end of a part still does when the part grows. *)
LEMMA Further ==
  ASSUME NEW x \in Nat, NEW lo \in Nat, NEW len \in Nat, NEW n \in Nat, x <= lo + len + 1
  PROVE  x <= lo + (len + n) + 1
OBVIOUS

(* A push with room for it loses no element. *)
LEMMA Pushed ==
  ASSUME PipeTypes, NEW values \in Seq(0..MaxSent), HasRoom(Len(values)), push_back(values)
  PROVE  /\ cb' \in Seq(0..MaxSent) /\ begun' = begun
         /\ Len(values) \in Nat /\ Len(cb') = Len(cb) + Len(values)
         /\ \A k \in 1..Len(cb) : cb'[k] = cb[k]
         /\ \A k \in 1..Len(values) : cb'[Len(cb) + k] = values[k]
<1> DEFINE all == cb \o values
<1>1. cb \in Seq(0..MaxSent) /\ Len(cb) \in Nat /\ Len(values) \in Nat /\ begun \in Nat
      BY LenProperties DEF PipeTypes
<1>2. /\ all \in Seq(0..MaxSent) /\ Len(all) = Len(cb) + Len(values)
      /\ \A i \in 1..(Len(cb) + Len(values)) : all[i] = IF i <= Len(cb) THEN cb[i] ELSE values[i - Len(cb)]
      BY <1>1, ConcatProperties
<1> HIDE DEF all
<1>3. ~(Len(all) > Capacity)
      BY <1>1, <1>2, PipeAssumption DEF HasRoom
<1>4. cb' = SubSeq(all, 1, Len(all)) /\ begun' = begun
  <2>1. cb' = SubSeq(all, 0 + 1, Len(all)) /\ begun' = begun + 0
        BY <1>3 DEF push_back, all
  <2>2. 0 + 1 = 1 /\ begun + 0 = begun
        BY <1>1
  <2>3. QED BY <2>1, <2>2
<1>5. cb' = all
      BY <1>2, <1>4, SubSeqFull
<1>6. \A k \in 1..Len(cb) : all[k] = cb[k]
      BY <1>1, <1>2
<1>7. ASSUME NEW k \in 1..Len(values) PROVE all[Len(cb) + k] = values[k]
  <2>1. /\ Len(cb) + k \in 1..(Len(cb) + Len(values)) /\ ~(Len(cb) + k <= Len(cb))
        /\ Len(cb) + k - Len(cb) = k
        BY <1>1
  <2>2. QED BY <1>2, <2>1
<1>8. QED BY Zenon, <1>1, <1>2, <1>4, <1>5, <1>6, <1>7

(* A pop of n elements. *)
LEMMA Popped ==
  ASSUME PipeTypes, NEW n \in 0..Len(cb), pop_front(n)
  PROVE  /\ cb' \in Seq(0..MaxSent) /\ begun' = begun + n /\ Len(cb') = Len(cb) - n
         /\ \A k \in 1..(Len(cb) - n) : cb'[k] = cb[n + k]
<1>1. cb \in Seq(0..MaxSent)
      BY DEF PipeTypes
<1>2. cb' = Drop(cb, n) /\ begun' = begun + n
      BY DEF pop_front, Drop
<1>3. QED BY Zenon, <1>1, <1>2, Dropped

(* The empty pipe. *)
LEMMA PipeInvInit == Init => PipeInv
BY PipeAssumption, EmptySeq DEF Init, PipeInv, PipeTypes, InOrder, WritesInside, ReadsInside, Filled

(* pipe::size does not wrap around, and the readable elements have their values. *)
LEMMA SizeIs ==
  ASSUME PipeInv
  PROVE  /\ Len(cb) \in Nat /\ begun \in Nat /\ read_reserved_frozen \in Nat
         /\ Len(w_rid_q) \in Nat /\ Len(r_rid_q) \in Nat
         /\ LastReadable \in Nat /\ begun + read_reserved_frozen <= LastReadable
         /\ LastReadable <= begun + Len(cb)
         /\ reserved_for_writing = begun + Len(cb) - LastReadable
         /\ size = LastReadable - (begun + read_reserved_frozen)
         /\ \A i \in 1..Len(w_rid_q) : w_rid_q[i].start > LastReadable
         /\ \A k \in 1..Len(cb) : begun + k <= LastReadable => cb[k] = begun + k
<1>1. /\ Len(cb) \in Nat /\ begun \in Nat /\ read_reserved_frozen \in Nat
      /\ Len(w_rid_q) \in Nat /\ Len(r_rid_q) \in Nat /\ read_reserved_frozen <= Len(cb)
      BY LenProperties DEF PipeInv, PipeTypes
<1>2. \A i \in 1..Len(w_rid_q) :
        w_rid_q[i].start \in Nat /\ w_rid_q[i].size \in Nat /\ w_rid_q[i].size >= 1
      BY Reserved DEF PipeInv, PipeTypes
<1>3. /\ LastReadable \in Nat /\ begun + read_reserved_frozen <= LastReadable
      /\ LastReadable <= begun + Len(cb)
  <2>1. CASE Len(w_rid_q) = 0
        BY <1>1, <2>1 DEF LastReadable
  <2>2. CASE Len(w_rid_q) # 0
    <3>1. 1 \in 1..Len(w_rid_q) /\ LastReadable = w_rid_q[1].start - 1
          BY <1>1, <2>2 DEF LastReadable
    <3>2. /\ begun + read_reserved_frozen < w_rid_q[1].start
          /\ w_rid_q[1].start + w_rid_q[1].size <= begun + Len(cb) + 1
          BY <3>1 DEF PipeInv, WritesInside
    <3>3. w_rid_q[1].start \in Nat /\ w_rid_q[1].size \in Nat /\ w_rid_q[1].size >= 1
          BY <1>2, <3>1
    <3>4. QED BY <1>1, <3>1, <3>2, <3>3
  <2>3. QED BY <2>1, <2>2
<1>4. reserved_for_writing = begun + Len(cb) - LastReadable
  <2>1. w_rid_q \in Seq(Reservation)
        BY DEF PipeInv, PipeTypes
  <2>2. CASE Len(w_rid_q) = 0
    <3>1. w_rid_q = << >>
          BY <2>1, <2>2, EmptySeq
    <3>2. QED BY <1>1, <2>2, <3>1 DEF reserved_for_writing, LastReadable
  <2>3. CASE Len(w_rid_q) # 0
    <3>1. w_rid_q # << >> /\ Head(w_rid_q) = w_rid_q[1] /\ 1 \in 1..Len(w_rid_q)
          BY <1>1, <2>1, <2>3
    <3>2. QED BY <1>1, <1>2, <2>3, <3>1 DEF reserved_for_writing, LastReadable, End
  <2>4. QED BY <2>2, <2>3
<1>5. size = LastReadable - (begun + read_reserved_frozen)
      BY <1>1, <1>3, <1>4 DEF size, reserved_for_reading
<1>6. \A i \in 1..Len(w_rid_q) : w_rid_q[i].start > LastReadable
  <2> SUFFICES ASSUME NEW i \in 1..Len(w_rid_q) PROVE w_rid_q[i].start > LastReadable
      OBVIOUS
  <2>1. 1 \in 1..Len(w_rid_q) /\ LastReadable = w_rid_q[1].start - 1
        BY <1>1 DEF LastReadable
  <2>2. i = 1 \/ w_rid_q[1].start + w_rid_q[1].size <= w_rid_q[i].start
        BY <1>1, <2>1 DEF PipeInv, InOrder
  <2>3. QED BY <1>2, <2>1, <2>2
<1>7. \A k \in 1..Len(cb) : begun + k <= LastReadable => cb[k] = begun + k
      BY <1>1, <1>2, <1>3, <1>6 DEF PipeInv, Filled
<1>8. QED BY <1>1, <1>3, <1>4, <1>5, <1>6, <1>7

(* pipe::write. *)
LEMMA WriteKeeps == ASSUME PipeInv, write PROVE PipeInv' /\ (Passes(0, 0) \/ Passes(0, 1))
<1>1. /\ cb \in Seq(0..MaxSent) /\ Len(cb) \in Nat /\ begun \in Nat /\ read_reserved_frozen \in Nat
      /\ Len(w_rid_q) \in Nat /\ Len(r_rid_q) \in Nat
      BY LenProperties DEF PipeInv, PipeTypes
<1>2. End = begun + Len(cb) + 1 /\ End <= MaxSent /\ End \in 0..MaxSent
      BY <1>1, PipeAssumption DEF write, End
<1> HIDE DEF End
<1>3. /\ cb' \in Seq(0..MaxSent) /\ begun' = begun /\ Len(cb') = Len(cb) + 1
      /\ \A k \in 1..Len(cb) : cb'[k] = cb[k]
      /\ cb'[Len(cb) + 1] = begun + Len(cb) + 1
  <2>1. <<End>> \in Seq(0..MaxSent) /\ Len(<<End>>) = 1 /\ <<End>>[1] = End
        BY <1>2
  <2>2. PipeTypes /\ HasRoom(Len(<<End>>)) /\ push_back(<<End>>)
        BY <2>1 DEF write, PipeInv
  <2>3. /\ cb' \in Seq(0..MaxSent) /\ begun' = begun /\ Len(cb') = Len(cb) + Len(<<End>>)
        /\ \A k \in 1..Len(cb) : cb'[k] = cb[k]
        /\ \A k \in 1..Len(<<End>>) : cb'[Len(cb) + k] = <<End>>[k]
        BY Zenon, <2>1, <2>2, Pushed
  <2>4. QED BY <1>2, <2>1, <2>3
<1>4. /\ UNCHANGED <<w_rid_q, r_rid_q, read_reserved_frozen, w_moves, r_moves, received>>
      /\ Len(cb) + 1 <= Capacity
      BY DEF write, HasRoom
<1>5. PipeTypes'
      BY <1>1, <1>2, <1>3, <1>4, PipeAssumption DEF PipeInv, PipeTypes
<1>6. InOrder(w_rid_q)' /\ InOrder(r_rid_q)' /\ ReadsInside'
      BY <1>3, <1>4 DEF PipeInv, InOrder, ReadsInside
<1>7. WritesInside'
  <2>1. \A i \in 1..Len(w_rid_q) : w_rid_q[i].start \in Nat /\ w_rid_q[i].size \in Nat
        BY Reserved DEF PipeInv, PipeTypes
  <2>2. QED BY <1>1, <1>3, <1>4, <2>1 DEF PipeInv, WritesInside
<1>8. Filled'
  <2>1. \A k \in 1..Len(cb') : k \in 1..Len(cb) \/ k = Len(cb) + 1
        BY <1>1, <1>3
  <2>2. cb'[Len(cb) + 1] = begun' + (Len(cb) + 1)
        BY <1>1, <1>3
  <2>3. QED BY <1>3, <1>4, <2>1, <2>2 DEF PipeInv, Filled
<1>9. Passes(0, 0) \/ Passes(0, 1)
  <2>1. begun' + read_reserved_frozen' = begun + read_reserved_frozen + 0
        BY <1>1, <1>3, <1>4
  <2>2. CASE Len(w_rid_q) = 0
        BY <1>1, <1>3, <1>4, <2>1, <2>2 DEF Passes, LastReadable
  <2>3. CASE Len(w_rid_q) # 0
    <3>1. w_rid_q[1].start \in Nat
          BY <1>1, <2>3, Reserved DEF PipeInv, PipeTypes
    <3>2. QED BY <1>4, <2>1, <2>3, <3>1 DEF Passes, LastReadable
  <2>4. QED BY <2>2, <2>3
<1>10. QED BY <1>5, <1>6, <1>7, <1>8, <1>9 DEF PipeInv

(* pipe::read. *)
LEMMA ReadKeeps == ASSUME PipeInv, read PROVE PipeInv' /\ Passes(1, 0)
<1>1. /\ Len(cb) \in Nat /\ begun \in Nat /\ read_reserved_frozen \in Nat
      /\ Len(w_rid_q) \in Nat /\ Len(r_rid_q) \in Nat
      /\ read_reserved_frozen + 1 <= Len(cb)
      /\ \A i \in 1..Len(w_rid_q) : w_rid_q[i].start > begun + read_reserved_frozen + 1
  <2>1. LastReadable >= begun + read_reserved_frozen + 1
        BY SizeIs DEF read
  <2>2. \A i \in 1..Len(w_rid_q) : w_rid_q[i].start \in Nat
        BY Reserved DEF PipeInv, PipeTypes
  <2>3. /\ Len(cb) \in Nat /\ begun \in Nat /\ read_reserved_frozen \in Nat
        /\ Len(w_rid_q) \in Nat /\ Len(r_rid_q) \in Nat
        /\ LastReadable \in Nat /\ LastReadable <= begun + Len(cb)
        BY SizeIs
  <2>4. read_reserved_frozen + 1 <= Len(cb)
        BY <2>1, <2>3
  <2>5. ASSUME NEW i \in 1..Len(w_rid_q) PROVE w_rid_q[i].start > begun + read_reserved_frozen + 1
    <3>1. w_rid_q[i].start > LastReadable /\ w_rid_q[i].start \in Nat
          BY SizeIs, <2>2
    <3>2. QED BY <2>1, <2>3, <3>1
  <2>6. QED BY <2>3, <2>4, <2>5
<1>2. /\ UNCHANGED <<w_rid_q, r_rid_q, w_moves, r_moves>>
      BY DEF read
<1>3. received' \in Seq(Nat)
  <2>1. cb[read_reserved_frozen + 1] \in 0..MaxSent
    <3>1. cb \in Seq(0..MaxSent) /\ read_reserved_frozen + 1 \in 1..Len(cb)
          BY <1>1 DEF PipeInv, PipeTypes
    <3>2. QED BY Zenon, <3>1, ElementOfSeq
  <2>2. received \in Seq(Nat) /\ cb[read_reserved_frozen + 1] \in Nat
        BY <2>1, PipeAssumption DEF PipeInv, PipeTypes
  <2>3. QED BY <2>2, AppendProperties DEF read
<1>4. \A i \in 1..Len(r_rid_q) :
        r_rid_q[i].start \in Nat /\ r_rid_q[i].size \in Nat /\ r_rid_q[i].size >= 1
      BY Reserved DEF PipeInv, PipeTypes
<1>5. InOrder(w_rid_q)' /\ InOrder(r_rid_q)'
      BY <1>2 DEF PipeInv, InOrder
<1>6. CASE read_reserved_frozen > 0
  <2>1. read_reserved_frozen' = read_reserved_frozen + 1 /\ UNCHANGED <<cb, begun>>
        BY <1>6 DEF read
  <2>2. PipeTypes'
        BY <1>1, <1>2, <1>3, <2>1 DEF PipeInv, PipeTypes
  <2>3. WritesInside'
        BY <1>1, <1>2, <2>1 DEF PipeInv, WritesInside
  <2>4. ReadsInside'
        BY <1>1, <1>2, <1>4, <1>6, <2>1 DEF PipeInv, ReadsInside
  <2>5. Filled'
        BY <1>2, <2>1 DEF PipeInv, Filled
  <2>6. Passes(1, 0)
        BY <1>1, <1>2, <2>1, SizeIs DEF Passes, LastReadable
  <2>7. QED BY <1>5, <2>2, <2>3, <2>4, <2>5, <2>6 DEF PipeInv
<1>7. CASE ~(read_reserved_frozen > 0)
  <2>1. read_reserved_frozen' = 0 /\ read_reserved_frozen = 0 /\ pop_front(1)
        BY <1>1, <1>7 DEF read
  <2>2. /\ cb' \in Seq(0..MaxSent) /\ begun' = begun + 1 /\ Len(cb') = Len(cb) - 1
        /\ \A k \in 1..(Len(cb) - 1) : cb'[k] = cb[1 + k]
    <3>1. PipeTypes /\ 1 \in 0..Len(cb)
          BY <1>1, <2>1 DEF PipeInv
    <3>2. QED BY <2>1, <3>1, Popped
  <2>3. Len(r_rid_q) = 0
        BY <1>1, <1>4, <2>1 DEF PipeInv, ReadsInside
  <2>4. PipeTypes'
        BY <1>1, <1>2, <1>3, <2>1, <2>2, PipeAssumption DEF PipeInv, PipeTypes
  <2>5. WritesInside'
        BY <1>1, <1>2, <2>1, <2>2 DEF PipeInv, WritesInside
  <2>6. ReadsInside'
        BY <1>2, <2>1, <2>3 DEF ReadsInside
  <2>7. Filled'
    <3> SUFFICES ASSUME NEW k \in 1..Len(cb')
                 PROVE  \/ cb'[k] = begun' + k
                        \/ \E i \in 1..Len(w_rid_q) :
                             /\ ~w_rid_q[i].ready
                             /\ w_rid_q[i].start <= begun' + k
                             /\ begun' + k < w_rid_q[i].start + w_rid_q[i].size
        BY <1>2 DEF Filled
    <3>1. 1 + k \in 1..Len(cb) /\ begun' + k = begun + (1 + k) /\ cb'[k] = cb[1 + k]
          BY <1>1, <2>2
    <3>2. QED BY <3>1 DEF PipeInv, Filled
  <2>8. Passes(1, 0)
    <3>1. begun' + Len(cb') = begun + Len(cb)
          BY <1>1, <2>2
    <3>2. LastReadable' = LastReadable
          BY <1>2, <3>1 DEF LastReadable
    <3>3. QED BY <1>1, <2>1, <2>2, <3>2, SizeIs DEF Passes
  <2>9. QED BY <1>5, <2>4, <2>5, <2>6, <2>7, <2>8 DEF PipeInv
<1>8. QED BY <1>6, <1>7

(* A reservation behind the others of its queue. *)
LEMMA Appended ==
  ASSUME NEW q \in Seq(Reservation), InOrder(q), NEW start \in Nat, NEW n \in 1..MaxReserve,
         \A i \in 1..Len(q) : q[i].start + q[i].size <= start
  PROVE  LET all == Append(q, reserve_id(start, n))
         IN /\ all \in Seq(Reservation) /\ Len(all) = Len(q) + 1 /\ InOrder(all)
            /\ \A i \in 1..Len(q) : all[i] = q[i]
            /\ all[Len(q) + 1].start = start /\ all[Len(q) + 1].size = n
            /\ ~all[Len(q) + 1].ready
            /\ \A i \in 1..Len(all) : i \in 1..Len(q) \/ i = Len(q) + 1
<1> DEFINE r == reserve_id(start, n)
           all == Append(q, r)
<1>1. r \in Reservation /\ r.start = start /\ r.size = n /\ ~r.ready
      BY DEF reserve_id, Reservation
<1> HIDE DEF r
<1>2. /\ all \in Seq(Reservation) /\ Len(all) = Len(q) + 1
      /\ \A i \in 1..Len(q) : all[i] = q[i]
      /\ all[Len(q) + 1] = r
      BY <1>1, AppendProperties
<1> HIDE DEF all
<1>3. Len(q) \in Nat
      BY LenProperties
<1>4. \A i \in 1..Len(all) : i \in 1..Len(q) \/ i = Len(q) + 1
      BY <1>2, <1>3
<1>5. InOrder(all)
      BY <1>1, <1>2, <1>3, <1>4 DEF InOrder
<1>6. QED BY <1>1, <1>2, <1>4, <1>5 DEF all, r

(* pipe::reserve_write. *)
LEMMA ReserveWriteKeeps ==
  ASSUME PipeInv, NEW n \in 1..MaxReserve, reserve_write(n)
  PROVE  PipeInv' /\ Passes(0, 0)
<1> DEFINE slots == [i \in 1..n |-> 0]
<1>1. /\ Len(cb) \in Nat /\ begun \in Nat /\ read_reserved_frozen \in Nat
      /\ Len(w_rid_q) \in Nat /\ Len(r_rid_q) \in Nat /\ read_reserved_frozen <= Len(cb)
      BY SizeIs DEF PipeInv, PipeTypes
<1>2. /\ slots \in Seq(0..MaxSent) /\ Len(slots) = n /\ n \in Nat /\ n >= 1
      BY PipeAssumption
<1> HIDE DEF slots
<1>3. /\ UNCHANGED <<r_rid_q, read_reserved_frozen, w_moves, r_moves, received>>
      /\ Len(cb) + n <= Capacity /\ begun + Len(cb) + n <= MaxSent
      /\ HasRoom(n) /\ push_back(slots) /\ End = begun + Len(cb) + 1
      BY <1>1, <1>2, PipeAssumption DEF reserve_write, HasRoom, End, slots
<1>4. /\ cb' \in Seq(0..MaxSent) /\ begun' = begun /\ Len(cb') = Len(cb) + n
      /\ \A k \in 1..Len(cb) : cb'[k] = cb[k]
  <2>1. PipeTypes /\ HasRoom(Len(slots))
        BY <1>2, <1>3 DEF PipeInv
  <2>2. QED BY <1>2, <1>3, <2>1, Pushed
<1>5. /\ w_rid_q' \in Seq(Reservation) /\ Len(w_rid_q') = Len(w_rid_q) + 1 /\ InOrder(w_rid_q')
      /\ \A i \in 1..Len(w_rid_q) : w_rid_q'[i] = w_rid_q[i]
      /\ w_rid_q'[Len(w_rid_q) + 1].start = begun + Len(cb) + 1
      /\ w_rid_q'[Len(w_rid_q) + 1].size = n
      /\ ~w_rid_q'[Len(w_rid_q) + 1].ready
      /\ \A i \in 1..Len(w_rid_q') : i \in 1..Len(w_rid_q) \/ i = Len(w_rid_q) + 1
  <2>1. /\ w_rid_q \in Seq(Reservation) /\ InOrder(w_rid_q) /\ begun + Len(cb) + 1 \in Nat
        /\ \A i \in 1..Len(w_rid_q) : w_rid_q[i].start + w_rid_q[i].size <= begun + Len(cb) + 1
        BY <1>1 DEF PipeInv, PipeTypes, WritesInside
  <2>2. w_rid_q' = Append(w_rid_q, reserve_id(begun + Len(cb) + 1, n))
        BY <1>3 DEF reserve_write
  <2>3. QED BY <2>1, <2>2, Appended
<1>6. \A i \in 1..Len(w_rid_q) : w_rid_q[i].start \in Nat /\ w_rid_q[i].size \in Nat
      BY Reserved DEF PipeInv, PipeTypes
<1>7. PipeTypes'
      BY <1>1, <1>2, <1>3, <1>4, <1>5, PipeAssumption DEF PipeInv, PipeTypes
<1>8. InOrder(w_rid_q)' /\ InOrder(r_rid_q)' /\ ReadsInside'
      BY <1>3, <1>4, <1>5 DEF PipeInv, InOrder, ReadsInside
<1>9. WritesInside'
  <2> SUFFICES ASSUME NEW i \in 1..Len(w_rid_q')
               PROVE  /\ begun + read_reserved_frozen < w_rid_q'[i].start
                      /\ w_rid_q'[i].start + w_rid_q'[i].size <= begun + (Len(cb) + n) + 1
      BY <1>3, <1>4 DEF WritesInside
  <2>1. CASE i \in 1..Len(w_rid_q)
    <3>1. /\ begun + read_reserved_frozen < w_rid_q[i].start
          /\ w_rid_q[i].start + w_rid_q[i].size <= begun + Len(cb) + 1
          BY <2>1 DEF PipeInv, WritesInside
    <3>2. w_rid_q'[i] = w_rid_q[i] /\ w_rid_q[i].start + w_rid_q[i].size \in Nat
          BY <1>5, <1>6, <2>1
    <3>3. begun \in Nat /\ Len(cb) \in Nat /\ n \in Nat
          BY <1>1, <1>2
    <3>4. w_rid_q[i].start + w_rid_q[i].size <= begun + (Len(cb) + n) + 1
          BY Zenon, <3>1, <3>2, <3>3, Further
    <3>5. QED BY Zenon, <3>1, <3>2, <3>4
  <2>2. CASE i = Len(w_rid_q) + 1
        BY <1>1, <1>2, <1>5, <2>2
  <2>3. QED BY <1>5, <2>1, <2>2
<1>10. Filled'
  <2> SUFFICES ASSUME NEW k \in 1..Len(cb')
               PROVE  \/ cb'[k] = begun' + k
                      \/ \E i \in 1..Len(w_rid_q') :
                           /\ ~w_rid_q'[i].ready
                           /\ w_rid_q'[i].start <= begun' + k
                           /\ begun' + k < w_rid_q'[i].start + w_rid_q'[i].size
      BY DEF Filled
  <2>1. CASE k \in 1..Len(cb)
    <3>1. \A i \in 1..Len(w_rid_q) : i \in 1..Len(w_rid_q')
          BY <1>1, <1>5
    <3>2. QED BY Zenon, <1>4, <1>5, <2>1, <3>1 DEF PipeInv, Filled
  <2>2. CASE k \notin 1..Len(cb)
    <3>1. Len(w_rid_q) + 1 \in 1..Len(w_rid_q')
          BY <1>1, <1>5
    <3>2. k \in Nat /\ k > Len(cb) /\ k <= Len(cb) + n
          BY <1>1, <1>2, <1>4, <2>2
    <3>3. begun + Len(cb) + 1 <= begun' + k /\ begun' + k < begun + Len(cb) + 1 + n
          BY <1>1, <1>2, <1>4, <3>2
    <3>4. QED BY <1>5, <3>1, <3>3
  <2>3. QED BY <2>1, <2>2
<1>11. Passes(0, 0)
  <2>1. LastReadable' = LastReadable
    <3>1. CASE Len(w_rid_q) = 0
          BY <1>1, <1>5, <3>1 DEF LastReadable
    <3>2. CASE Len(w_rid_q) # 0
      <4>1. w_rid_q'[1] = w_rid_q[1] /\ Len(w_rid_q') # 0
            BY <1>1, <1>5, <3>2
      <4>2. QED BY <3>2, <4>1 DEF LastReadable
    <3>3. QED BY <3>1, <3>2
  <2>2. QED BY <1>1, <1>3, <1>4, <2>1, SizeIs DEF Passes
<1>12. QED BY <1>7, <1>8, <1>9, <1>10, <1>11 DEF PipeInv

(* pipe::reserve_read. *)
LEMMA ReserveReadKeeps ==
  ASSUME PipeInv, NEW n \in 1..MaxReserve, reserve_read(n)
  PROVE  PipeInv' /\ Passes(n, 0)
<1> DEFINE lo == begun + read_reserved_frozen
<1>1. /\ Len(cb) \in Nat /\ begun \in Nat /\ read_reserved_frozen \in Nat
      /\ Len(w_rid_q) \in Nat /\ Len(r_rid_q) \in Nat /\ n \in Nat /\ n >= 1
      /\ read_reserved_frozen + n <= Len(cb)
      /\ \A i \in 1..Len(w_rid_q) : w_rid_q[i].start > lo + n
  <2>1. /\ LastReadable >= lo + n /\ n \in Nat /\ n >= 1
    <3>1. n <= size /\ n \in Nat /\ n >= 1
          BY PipeAssumption DEF reserve_read
    <3>2. QED BY SizeIs, <3>1
  <2>2. \A i \in 1..Len(w_rid_q) : w_rid_q[i].start \in Nat
        BY Reserved DEF PipeInv, PipeTypes
  <2>3. /\ Len(cb) \in Nat /\ begun \in Nat /\ read_reserved_frozen \in Nat
        /\ Len(w_rid_q) \in Nat /\ Len(r_rid_q) \in Nat
        /\ LastReadable \in Nat /\ LastReadable <= begun + Len(cb)
        BY SizeIs
  <2>4. read_reserved_frozen + n <= Len(cb)
        BY <2>1, <2>3
  <2>5. ASSUME NEW i \in 1..Len(w_rid_q) PROVE w_rid_q[i].start > lo + n
    <3>1. w_rid_q[i].start > LastReadable /\ w_rid_q[i].start \in Nat
          BY SizeIs, <2>2
    <3>2. QED BY <2>1, <2>3, <3>1
  <2>6. QED BY <2>1, <2>3, <2>4, <2>5
<1>2. /\ UNCHANGED <<cb, begun, w_rid_q, w_moves, r_moves>>
      /\ read_reserved_frozen' = read_reserved_frozen + n
      BY DEF reserve_read
<1>3. received' \in Seq(Nat)
  <2> DEFINE read_now == SubSeq(cb, read_reserved_frozen + 1, read_reserved_frozen + n)
  <2>1. \A k \in (read_reserved_frozen + 1)..(read_reserved_frozen + n) : cb[k] \in Nat
    <3>1. \A k \in 1..Len(cb) : cb[k] \in 0..MaxSent
          BY Zenon, ElementOfSeq DEF PipeInv, PipeTypes
    <3>2. QED BY <1>1, <3>1, PipeAssumption
  <2>2. read_now \in Seq(Nat)
        BY <1>1, <2>1, SubSeqProperties
  <2> HIDE DEF read_now
  <2>3. received \in Seq(Nat) /\ received' = received \o read_now
        BY DEF PipeInv, PipeTypes, reserve_read, read_now
  <2>4. QED BY <2>2, <2>3, ConcatProperties
<1>4. /\ r_rid_q' \in Seq(Reservation) /\ Len(r_rid_q') = Len(r_rid_q) + 1 /\ InOrder(r_rid_q')
      /\ \A i \in 1..Len(r_rid_q) : r_rid_q'[i] = r_rid_q[i]
      /\ r_rid_q'[Len(r_rid_q) + 1].start = lo + 1
      /\ r_rid_q'[Len(r_rid_q) + 1].size = n
      /\ \A i \in 1..Len(r_rid_q') : i \in 1..Len(r_rid_q) \/ i = Len(r_rid_q) + 1
  <2>1. /\ r_rid_q \in Seq(Reservation) /\ InOrder(r_rid_q) /\ lo + 1 \in Nat
        /\ \A i \in 1..Len(r_rid_q) : r_rid_q[i].start + r_rid_q[i].size <= lo + 1
        BY <1>1 DEF PipeInv, PipeTypes, ReadsInside
  <2>2. r_rid_q' = Append(r_rid_q, reserve_id(lo + 1, n))
        BY DEF reserve_read
  <2>3. QED BY <2>1, <2>2, Appended
<1>5. \A i \in 1..Len(r_rid_q) : r_rid_q[i].start \in Nat /\ r_rid_q[i].size \in Nat
      BY Reserved DEF PipeInv, PipeTypes
<1>6. PipeTypes'
      BY <1>1, <1>2, <1>3, <1>4 DEF PipeInv, PipeTypes
<1>7. InOrder(w_rid_q)' /\ InOrder(r_rid_q)'
      BY <1>2, <1>4 DEF PipeInv, InOrder
<1>8. WritesInside'
      BY <1>1, <1>2 DEF PipeInv, WritesInside
<1>9. ReadsInside'
  <2> SUFFICES ASSUME NEW i \in 1..Len(r_rid_q')
               PROVE  /\ r_rid_q'[i].start > begun
                      /\ r_rid_q'[i].start + r_rid_q'[i].size <= begun + (read_reserved_frozen + n) + 1
      BY <1>1, <1>2, <1>4 DEF ReadsInside
  <2>1. CASE i \in 1..Len(r_rid_q)
    <3>1. /\ r_rid_q[i].start > begun
          /\ r_rid_q[i].start + r_rid_q[i].size <= begun + read_reserved_frozen + 1
          BY <2>1 DEF PipeInv, ReadsInside
    <3>2. r_rid_q'[i] = r_rid_q[i] /\ r_rid_q[i].start + r_rid_q[i].size \in Nat
          BY <1>4, <1>5, <2>1
    <3>3. r_rid_q[i].start + r_rid_q[i].size <= begun + (read_reserved_frozen + n) + 1
          BY <1>1, <3>1, <3>2, Further
    <3>4. QED BY <3>1, <3>2, <3>3
  <2>2. CASE i = Len(r_rid_q) + 1
        BY <1>1, <1>4, <2>2
  <2>3. QED BY <1>4, <2>1, <2>2
<1>10. Filled'
      BY <1>2 DEF PipeInv, Filled
<1>11. Passes(n, 0)
  <2>1. LastReadable' = LastReadable
        BY <1>2 DEF LastReadable
  <2>2. QED BY <1>1, <1>2, <2>1, SizeIs DEF Passes
<1>12. QED BY <1>6, <1>7, <1>8, <1>9, <1>10, <1>11 DEF PipeInv

(* A function from the first numbers is a sequence. *)
LEMMA ArraySeq ==
  ASSUME NEW S, NEW n \in Nat, NEW f \in [1..n -> S] PROVE f \in Seq(S) /\ Len(f) = n
<1>1. f \in Seq(S)
      OBVIOUS
<1>2. Len(f) = n
      OBVIOUS
<1>3. QED BY <1>1, <1>2

(* A commit marks the i-th reservation of a queue and leaves the rest. *)
LEMMA Marked ==
  ASSUME NEW q \in Seq(Reservation), InOrder(q), NEW i \in 1..Len(q),
         NEW marked, marked = [q EXCEPT ![i].ready = TRUE]
  PROVE  /\ marked \in Seq(Reservation) /\ Len(marked) = Len(q) /\ InOrder(marked)
         /\ \A j \in 1..Len(q) : marked[j].start = q[j].start /\ marked[j].size = q[j].size
         /\ \A j \in 1..Len(q) \ {i} : (~q[j].ready => ~marked[j].ready)
<1> DEFINE r == [q[i] EXCEPT !.ready = TRUE]
<1>1. Len(q) \in Nat /\ q[i] \in Reservation
      BY Reserved
<1>2. r \in Reservation /\ r.start = q[i].start /\ r.size = q[i].size
      BY Zenon, <1>1 DEF Reservation
<1>3. q \in [1..Len(q) -> Reservation]
      BY LenProperties
<1>4. /\ marked \in Seq(Reservation) /\ Len(marked) = Len(q)
      /\ \A j \in 1..Len(q) : marked[j] = IF j = i THEN r ELSE q[j]
  <2>1. marked = [j \in 1..Len(q) |-> IF j = i THEN r ELSE q[j]]
        BY Zenon, <1>3
  <2> HIDE DEF r
  <2>2. \A j \in 1..Len(q) : (IF j = i THEN r ELSE q[j]) \in Reservation
        BY <1>2, <1>3
  <2>3. marked \in [1..Len(q) -> Reservation]
        BY Zenon, <2>1, <2>2
  <2>4. marked \in Seq(Reservation) /\ Len(marked) = Len(q)
        BY <1>1, <2>3, ArraySeq
  <2>5. \A j \in 1..Len(q) : marked[j] = IF j = i THEN r ELSE q[j]
        BY Zenon, <2>1
  <2>6. QED BY Zenon, <2>4, <2>5
<1> HIDE DEF r
<1>5. \A j \in 1..Len(q) : marked[j].start = q[j].start /\ marked[j].size = q[j].size
      BY <1>2, <1>4
<1>6. \A j \in 1..Len(q) \ {i} : (~q[j].ready => ~marked[j].ready)
      BY <1>4
<1>7. InOrder(marked)
      BY <1>4, <1>5 DEF InOrder
<1>8. QED BY <1>4, <1>5, <1>6, <1>7

(* The stores into a write reservation and its commit. *)
LEMMA CommitWriteKeeps ==
  ASSUME PipeInv, NEW i \in 1..Len(w_rid_q), CommitWrite(i)
  PROVE  PipeInv' /\ Passes(0, 0)
<1>1. /\ Len(cb) \in Nat /\ begun \in Nat /\ read_reserved_frozen \in Nat
      /\ Len(w_rid_q) \in Nat /\ cb \in Seq(0..MaxSent) /\ begun + Len(cb) <= MaxSent
      BY SizeIs DEF PipeInv, PipeTypes
<1>2. /\ UNCHANGED <<begun, r_rid_q, read_reserved_frozen, r_moves, received>>
      /\ w_moves' = w_moves + 1
      BY DEF CommitWrite
<1>3. w_rid_q[i].start \in Nat /\ w_rid_q[i].size \in Nat
      BY Reserved DEF PipeInv, PipeTypes
<1>4. /\ cb' \in Seq(0..MaxSent) /\ Len(cb') = Len(cb)
      /\ \A k \in 1..Len(cb) :
           cb'[k] = IF w_rid_q[i].start <= begun + k /\ begun + k < w_rid_q[i].start + w_rid_q[i].size
                      THEN begun + k ELSE cb[k]
  <2> DEFINE kept(k) == IF w_rid_q[i].start <= begun + k /\ begun + k < w_rid_q[i].start + w_rid_q[i].size
                          THEN begun + k ELSE cb[k]
  <2>1. \A k \in 1..Len(cb) : cb[k] \in 0..MaxSent
        BY Zenon, <1>1, ElementOfSeq
  <2>2. \A k \in 1..Len(cb) : kept(k) \in 0..MaxSent
        BY <1>1, <2>1, PipeAssumption
  <2>3. cb' = [k \in 1..Len(cb) |-> kept(k)]
    <3>1. \A k \in 1..Len(cb) :
            begun + k \in w_rid_q[i].start..(w_rid_q[i].start + w_rid_q[i].size - 1)
              <=> w_rid_q[i].start <= begun + k /\ begun + k < w_rid_q[i].start + w_rid_q[i].size
          BY <1>1, <1>3
    <3>2. QED BY <3>1 DEF CommitWrite
  <2> HIDE DEF kept
  <2>4. cb' \in Seq(0..MaxSent) /\ Len(cb') = Len(cb) /\ \A k \in 1..Len(cb) : cb'[k] = kept(k)
        BY <1>1, <2>2, <2>3
  <2>5. QED BY <2>4 DEF kept
<1>5. /\ w_rid_q' \in Seq(Reservation) /\ Len(w_rid_q') = Len(w_rid_q) /\ InOrder(w_rid_q')
      /\ \A j \in 1..Len(w_rid_q) :
           w_rid_q'[j].start = w_rid_q[j].start /\ w_rid_q'[j].size = w_rid_q[j].size
      /\ \A j \in 1..Len(w_rid_q) \ {i} : (~w_rid_q[j].ready => ~w_rid_q'[j].ready)
  <2>1. w_rid_q \in Seq(Reservation) /\ InOrder(w_rid_q)
        BY DEF PipeInv, PipeTypes
  <2>2. w_rid_q' = [w_rid_q EXCEPT ![i].ready = TRUE]
        BY DEF CommitWrite
  <2>3. w_rid_q' \in Seq(Reservation) /\ Len(w_rid_q') = Len(w_rid_q)
        BY Zenon, <2>1, <2>2, Marked
  <2>4. InOrder(w_rid_q')
        BY Zenon, <2>1, <2>2, Marked
  <2>5. \A j \in 1..Len(w_rid_q) : w_rid_q'[j].start = w_rid_q[j].start /\ w_rid_q'[j].size = w_rid_q[j].size
        BY <2>1, <2>2, Marked
  <2>6. \A j \in 1..Len(w_rid_q) \ {i} : (~w_rid_q[j].ready => ~w_rid_q'[j].ready)
        BY <2>1, <2>2, Marked
  <2>7. QED BY <2>3, <2>4, <2>5, <2>6
<1>6. PipeTypes'
      BY <1>1, <1>2, <1>4, <1>5 DEF PipeInv, PipeTypes
<1>7. InOrder(w_rid_q)' /\ InOrder(r_rid_q)' /\ ReadsInside'
      BY <1>2, <1>5 DEF PipeInv, InOrder, ReadsInside
<1>8. WritesInside'
      BY <1>2, <1>4, <1>5 DEF PipeInv, WritesInside
<1>9. Filled'
  <2> SUFFICES ASSUME NEW k \in 1..Len(cb), cb'[k] # begun + k
               PROVE  \E j \in 1..Len(w_rid_q) :
                        /\ ~w_rid_q'[j].ready
                        /\ w_rid_q'[j].start <= begun + k
                        /\ begun + k < w_rid_q'[j].start + w_rid_q'[j].size
      BY <1>2, <1>4, <1>5 DEF Filled
  <2>1. /\ ~(w_rid_q[i].start <= begun + k /\ begun + k < w_rid_q[i].start + w_rid_q[i].size)
        /\ cb'[k] = cb[k]
        BY <1>4
  <2>2. PICK j \in 1..Len(w_rid_q) :
          /\ ~w_rid_q[j].ready
          /\ w_rid_q[j].start <= begun + k /\ begun + k < w_rid_q[j].start + w_rid_q[j].size
        BY <2>1 DEF PipeInv, Filled
  <2>3. j # i
        BY <2>1, <2>2
  <2>4. QED BY <1>5, <2>2, <2>3
<1>10. Passes(0, 0)
  <2>1. LastReadable' = LastReadable
        BY <1>1, <1>2, <1>4, <1>5 DEF LastReadable
  <2>2. QED BY <1>1, <1>2, <2>1, SizeIs DEF Passes
<1>11. QED BY <1>6, <1>7, <1>8, <1>9, <1>10 DEF PipeInv

(* The commit of a read reservation. *)
LEMMA CommitReadKeeps ==
  ASSUME PipeInv, NEW i \in 1..Len(r_rid_q), CommitRead(i)
  PROVE  PipeInv' /\ Passes(0, 0)
<1>1. /\ UNCHANGED <<cb, begun, w_rid_q, read_reserved_frozen, w_moves, received>>
      /\ r_moves' = r_moves + 1
      BY DEF CommitRead
<1>2. /\ r_rid_q' \in Seq(Reservation) /\ Len(r_rid_q') = Len(r_rid_q) /\ InOrder(r_rid_q')
      /\ \A j \in 1..Len(r_rid_q) :
           r_rid_q'[j].start = r_rid_q[j].start /\ r_rid_q'[j].size = r_rid_q[j].size
  <2>1. r_rid_q \in Seq(Reservation) /\ InOrder(r_rid_q)
        BY DEF PipeInv, PipeTypes
  <2>2. r_rid_q' = [r_rid_q EXCEPT ![i].ready = TRUE]
        BY DEF CommitRead
  <2>3. r_rid_q' \in Seq(Reservation) /\ Len(r_rid_q') = Len(r_rid_q)
        BY Zenon, <2>1, <2>2, Marked
  <2>4. InOrder(r_rid_q')
        BY Zenon, <2>1, <2>2, Marked
  <2>5. \A j \in 1..Len(r_rid_q) : r_rid_q'[j].start = r_rid_q[j].start /\ r_rid_q'[j].size = r_rid_q[j].size
        BY <2>1, <2>2, Marked
  <2>6. QED BY <2>3, <2>4, <2>5
<1>3. PipeTypes'
      BY <1>1, <1>2 DEF PipeInv, PipeTypes
<1>4. InOrder(w_rid_q)' /\ InOrder(r_rid_q)' /\ WritesInside'
      BY <1>1, <1>2 DEF PipeInv, InOrder, WritesInside
<1>5. ReadsInside' /\ Filled'
      BY <1>1, <1>2 DEF PipeInv, ReadsInside, Filled
<1>6. Passes(0, 0)
  <2>1. LastReadable' = LastReadable
        BY <1>1 DEF LastReadable
  <2>2. QED BY <1>1, <2>1, SizeIs DEF Passes
<1>7. QED BY <1>3, <1>4, <1>5, <1>6 DEF PipeInv

(* The reservations that stay in a queue keep their order. *)
LEMMA DroppedInOrder ==
  ASSUME NEW q \in Seq(Reservation), InOrder(q), NEW n \in 0..Len(q)
  PROVE  InOrder(Drop(q, n))
<1>1. Len(q) \in Nat
      BY LenProperties
<1>2. /\ Len(Drop(q, n)) = Len(q) - n
      /\ \A i \in 1..(Len(q) - n) : Drop(q, n)[i] = q[n + i]
      BY Dropped
<1>3. \A i \in 1..(Len(q) - n) : n + i \in 1..Len(q)
      BY <1>1
<1>4. \A i, j \in 1..(Len(q) - n) : i < j => n + i < n + j
      BY <1>1
<1>5. QED BY <1>2, <1>3, <1>4 DEF InOrder

(* pipe::move_write_reservation_forward. *)
LEMMA MoveWriteKeeps ==
  ASSUME PipeInv, move_write_reservation_forward
  PROVE  PipeInv' /\ \E n \in Nat : Passes(0, n)
<1>0. PICK d \in 0..Len(w_rid_q) : Leading(w_rid_q, d) /\ w_rid_q' = Drop(w_rid_q, d)
      BY Zenon DEF move_write_reservation_forward
<1>1. /\ UNCHANGED <<cb, begun, r_rid_q, read_reserved_frozen, r_moves, received>>
      /\ w_moves' \in Nat /\ w_rid_q' = Drop(w_rid_q, d)
      BY <1>0 DEF move_write_reservation_forward, PipeInv, PipeTypes
<1>2. /\ w_rid_q \in Seq(Reservation) /\ Len(w_rid_q) \in Nat /\ InOrder(w_rid_q)
      BY SizeIs DEF PipeInv, PipeTypes
<1>3. d \in 0..Len(w_rid_q) /\ \A i \in 1..d : w_rid_q[i].ready
      BY <1>0 DEF Leading
<1>4. /\ w_rid_q' \in Seq(Reservation) /\ Len(w_rid_q') = Len(w_rid_q) - d
      /\ \A i \in 1..(Len(w_rid_q) - d) : w_rid_q'[i] = w_rid_q[d + i]
      BY Zenon, <1>1, <1>2, <1>3, Dropped
<1>5. InOrder(w_rid_q')
      BY <1>1, <1>2, <1>3, DroppedInOrder
<1>6. PipeTypes' /\ ReadsInside' /\ InOrder(w_rid_q)' /\ InOrder(r_rid_q)'
      BY <1>1, <1>4, <1>5 DEF PipeInv, PipeTypes, ReadsInside, InOrder
<1>7. WritesInside'
  <2>1. \A i \in 1..(Len(w_rid_q) - d) : d + i \in 1..Len(w_rid_q)
        BY <1>2, <1>3
  <2>2. QED BY <1>1, <1>4, <2>1 DEF PipeInv, WritesInside
<1>8. Filled'
  <2> SUFFICES ASSUME NEW k \in 1..Len(cb), cb[k] # begun + k
               PROVE  \E j \in 1..Len(w_rid_q') :
                        /\ ~w_rid_q'[j].ready
                        /\ w_rid_q'[j].start <= begun + k
                        /\ begun + k < w_rid_q'[j].start + w_rid_q'[j].size
      BY <1>1 DEF Filled
  <2>1. PICK i \in 1..Len(w_rid_q) :
          /\ ~w_rid_q[i].ready
          /\ w_rid_q[i].start <= begun + k /\ begun + k < w_rid_q[i].start + w_rid_q[i].size
        BY DEF PipeInv, Filled
  <2>2. i \notin 1..d
        BY <1>3, <2>1
  <2>3. i - d \in 1..(Len(w_rid_q) - d) /\ d + (i - d) = i
        BY <1>2, <1>3, <2>2
  <2>4. w_rid_q'[i - d] = w_rid_q[i] /\ i - d \in 1..Len(w_rid_q')
        BY <1>4, <2>3
  <2>5. QED BY <2>1, <2>4
<1>9. \E n \in Nat : Passes(0, n)
  <2>1. LastReadable' \in Nat /\ LastReadable' >= LastReadable
    <3>1. CASE Len(w_rid_q') = 0
      <4>1. LastReadable' = begun + Len(cb)
            BY <1>1, <3>1 DEF LastReadable
      <4>2. QED BY <4>1, SizeIs
    <3>2. CASE Len(w_rid_q') # 0
      <4>1. /\ 1 \in 1..(Len(w_rid_q) - d) /\ d + 1 \in 1..Len(w_rid_q)
            BY <1>2, <1>3, <1>4, <3>2
      <4>2. LastReadable' = w_rid_q[d + 1].start - 1
            BY <1>4, <3>2, <4>1 DEF LastReadable
      <4>3. w_rid_q[d + 1].start > LastReadable /\ w_rid_q[d + 1].start \in Nat
            BY <1>2, <4>1, SizeIs, Reserved
      <4>4. LastReadable \in Nat
            BY SizeIs
      <4>5. QED BY <4>2, <4>3, <4>4
    <3>3. QED BY <3>1, <3>2
  <2>2. /\ LastReadable' - LastReadable \in Nat
        /\ LastReadable' = LastReadable + (LastReadable' - LastReadable)
        BY <2>1, SizeIs
  <2>3. begun' + read_reserved_frozen' = begun + read_reserved_frozen + 0
        BY <1>1, SizeIs
  <2>4. QED BY <2>2, <2>3 DEF Passes
<1>10. QED BY <1>6, <1>7, <1>8, <1>9 DEF PipeInv

(* What move_read_reservation_forward pops was frozen, up to the next reservation. *)
LEMMA ReleasedFrozen ==
  ASSUME PipeInv, NEW d \in 0..Len(r_rid_q)
  PROVE  /\ n_to_pop(d) \in 0..read_reserved_frozen
         /\ d = Len(r_rid_q) => n_to_pop(d) = read_reserved_frozen
         /\ \A i \in (d + 1)..Len(r_rid_q) : r_rid_q[i].start > begun + n_to_pop(d)
<1>1. /\ begun \in Nat /\ read_reserved_frozen \in Nat /\ Len(r_rid_q) \in Nat
      BY SizeIs
<1>2. \A i \in 1..Len(r_rid_q) :
        r_rid_q[i].start \in Nat /\ r_rid_q[i].size \in Nat /\ r_rid_q[i].size >= 1
      BY Reserved DEF PipeInv, PipeTypes
<1>3. \A i \in 1..Len(r_rid_q) :
        /\ r_rid_q[i].start > begun
        /\ r_rid_q[i].start + r_rid_q[i].size <= begun + read_reserved_frozen + 1
      BY DEF PipeInv, ReadsInside
<1>4. CASE d = Len(r_rid_q)
  <2>1. d = 0 => read_reserved_frozen = 0
        BY <1>4 DEF PipeInv, ReadsInside
  <2>2. CASE d = 0
    <3>1. n_to_pop(d) = 0
          BY <2>2 DEF n_to_pop
    <3>2. QED BY <1>1, <1>4, <2>1, <2>2, <3>1
  <2>3. CASE d > 0
    <3>1. n_to_pop(d) = read_reserved_frozen
          BY <1>1, <1>4, <2>3 DEF n_to_pop
    <3>2. QED BY <1>1, <1>4, <3>1
  <2>4. d = 0 \/ d > 0
        BY <1>1
  <2>5. QED BY <2>2, <2>3, <2>4
<1>5. CASE d # Len(r_rid_q) /\ d = 0
  <2>1. n_to_pop(d) = 0
        BY <1>5 DEF n_to_pop
  <2>2. QED BY <1>1, <1>2, <1>3, <1>5, <2>1
<1>6. CASE d # Len(r_rid_q) /\ d # 0
  <2>1. n_to_pop(d) = r_rid_q[d + 1].start - (begun + 1)
        BY <1>6 DEF n_to_pop
  <2>2. d + 1 \in 1..Len(r_rid_q)
        BY <1>1, <1>6
  <2>3. n_to_pop(d) \in 0..read_reserved_frozen /\ begun + n_to_pop(d) = r_rid_q[d + 1].start - 1
    <3> DEFINE start == r_rid_q[d + 1].start
               count == r_rid_q[d + 1].size
    <3>1. /\ start \in Nat /\ count \in Nat /\ count >= 1 /\ start > begun
          /\ start + count <= begun + read_reserved_frozen + 1
          BY <1>2, <1>3, <2>2
    <3>2. n_to_pop(d) = start - (begun + 1)
          BY <2>1
    <3> HIDE DEF start, count
    <3>3. n_to_pop(d) \in 0..read_reserved_frozen /\ begun + n_to_pop(d) = start - 1
          BY <1>1, <3>1, <3>2
    <3>4. QED BY <3>3 DEF start
  <2>4. ASSUME NEW i \in (d + 1)..Len(r_rid_q) PROVE r_rid_q[i].start > begun + n_to_pop(d)
    <3>1. i \in 1..Len(r_rid_q) /\ (i = d + 1 \/ d + 1 < i)
          BY <1>1
    <3>2. i = d + 1 \/ r_rid_q[d + 1].start + r_rid_q[d + 1].size <= r_rid_q[i].start
          BY <2>2, <3>1 DEF PipeInv, InOrder
    <3>3. QED BY <1>2, <2>2, <2>3, <3>1, <3>2
  <2>5. QED BY <1>6, <2>3, <2>4
<1>7. QED BY <1>4, <1>5, <1>6

(* pipe::move_read_reservation_forward. *)
LEMMA MoveReadKeeps ==
  ASSUME PipeInv, move_read_reservation_forward
  PROVE  PipeInv' /\ Passes(0, 0)
<1>0. PICK d \in 0..Len(r_rid_q) :
        /\ Leading(r_rid_q, d) /\ r_rid_q' = Drop(r_rid_q, d)
        /\ read_reserved_frozen' = read_reserved_frozen - n_to_pop(d)
        /\ pop_front(n_to_pop(d))
      BY Zenon DEF move_read_reservation_forward
<1> DEFINE p == n_to_pop(d)
<1>1. /\ UNCHANGED <<w_rid_q, w_moves, received>> /\ r_moves' \in Nat
      /\ r_rid_q' = Drop(r_rid_q, d) /\ read_reserved_frozen' = read_reserved_frozen - p
      /\ pop_front(p)
      BY <1>0 DEF move_read_reservation_forward, PipeInv, PipeTypes
<1>2. /\ r_rid_q \in Seq(Reservation) /\ Len(r_rid_q) \in Nat /\ InOrder(r_rid_q)
      /\ Len(cb) \in Nat /\ begun \in Nat /\ read_reserved_frozen \in Nat
      /\ read_reserved_frozen <= Len(cb)
      BY SizeIs DEF PipeInv, PipeTypes
<1>3. d \in 0..Len(r_rid_q)
      OBVIOUS
<1>4. /\ p \in 0..read_reserved_frozen /\ (d = Len(r_rid_q) => p = read_reserved_frozen)
      /\ \A i \in (d + 1)..Len(r_rid_q) : r_rid_q[i].start > begun + p
      BY <1>3, ReleasedFrozen
<1> HIDE DEF p
<1>5. /\ r_rid_q' \in Seq(Reservation) /\ Len(r_rid_q') = Len(r_rid_q) - d
      /\ \A i \in 1..(Len(r_rid_q) - d) : r_rid_q'[i] = r_rid_q[d + i]
      BY Zenon, <1>1, <1>2, <1>3, Dropped
<1>6. InOrder(r_rid_q')
      BY <1>1, <1>2, <1>3, DroppedInOrder
<1>7. /\ cb' \in Seq(0..MaxSent) /\ begun' = begun + p /\ Len(cb') = Len(cb) - p
      /\ \A k \in 1..(Len(cb) - p) : cb'[k] = cb[p + k]
  <2>1. p \in 0..Len(cb) /\ PipeTypes
        BY <1>2, <1>4 DEF PipeInv
  <2>2. QED BY Zenon, <1>1, <2>1, Popped
<1>8. begun' + read_reserved_frozen' = begun + read_reserved_frozen
      BY <1>1, <1>2, <1>4, <1>7
<1>9. PipeTypes'
  <2>1. /\ begun' \in Nat /\ begun' + Len(cb') = begun + Len(cb) /\ Len(cb') <= Len(cb)
        /\ read_reserved_frozen' \in Nat /\ read_reserved_frozen' <= Len(cb')
        BY <1>1, <1>2, <1>4, <1>7
  <2>2. Len(cb') <= Capacity /\ begun' + Len(cb') <= MaxSent
    <3>1. Len(cb) <= Capacity /\ begun + Len(cb) <= MaxSent /\ Len(cb') \in Int
          BY <1>2, <1>4, <1>7 DEF PipeInv, PipeTypes
    <3>2. QED BY <1>2, <2>1, <3>1, PipeAssumption
  <2>3. QED BY <1>1, <1>5, <1>7, <2>1, <2>2 DEF PipeInv, PipeTypes
<1>10. InOrder(w_rid_q)' /\ InOrder(r_rid_q)'
      BY Zenon, <1>1, <1>6 DEF PipeInv, InOrder
<1>11. WritesInside'
  <2>1. begun' + Len(cb') + 1 = begun + Len(cb) + 1
        BY <1>2, <1>4, <1>7
  <2>2. QED BY <1>1, <1>8, <2>1 DEF PipeInv, WritesInside
<1>12. ReadsInside'
  <2>1. \A i \in 1..(Len(r_rid_q) - d) : d + i \in (d + 1)..Len(r_rid_q) /\ d + i \in 1..Len(r_rid_q)
        BY <1>2, <1>3
  <2>2. Len(r_rid_q') = 0 => read_reserved_frozen' = 0
        BY <1>1, <1>2, <1>3, <1>4, <1>5
  <2>3. QED BY <1>4, <1>5, <1>7, <1>8, <2>1, <2>2 DEF PipeInv, ReadsInside
<1>13. Filled'
  <2> SUFFICES ASSUME NEW k \in 1..Len(cb')
               PROVE  \/ cb'[k] = begun' + k
                      \/ \E i \in 1..Len(w_rid_q) :
                           /\ ~w_rid_q[i].ready
                           /\ w_rid_q[i].start <= begun' + k
                           /\ begun' + k < w_rid_q[i].start + w_rid_q[i].size
      BY <1>1 DEF Filled
  <2>a. k \in 1..(Len(cb) - p) /\ p \in Nat /\ begun \in Nat /\ Len(cb) \in Nat
        BY <1>2, <1>4, <1>7
  <2>b. p + k \in 1..Len(cb) /\ (begun + p) + k = begun + (p + k)
        BY <2>a
  <2>1. p + k \in 1..Len(cb) /\ begun' + k = begun + (p + k) /\ cb'[k] = cb[p + k]
        BY Zenon, <1>7, <2>a, <2>b
  <2>2. QED BY Zenon, <2>1 DEF PipeInv, Filled
<1>14. Passes(0, 0)
  <2>1. begun' + Len(cb') = begun + Len(cb)
        BY <1>2, <1>4, <1>7
  <2>2. LastReadable' = LastReadable
        BY <1>1, <2>1 DEF LastReadable
  <2>3. QED BY <1>2, <1>8, <2>2, SizeIs DEF Passes
<1>15. QED BY <1>9, <1>10, <1>11, <1>12, <1>13, <1>14 DEF PipeInv

(* Every step keeps the invariant. *)
LEMMA PipeInvStep == PipeInv /\ [Next]_vars => PipeInv'
<1> SUFFICES ASSUME PipeInv, [Next]_vars PROVE PipeInv'
    OBVIOUS
<1>1. ASSUME UNCHANGED vars PROVE PipeInv'
      BY <1>1 DEF vars, PipeInv, PipeTypes, InOrder, WritesInside, ReadsInside, Filled
<1>2. QED BY <1>1, WriteKeeps, ReadKeeps, ReserveWriteKeeps, ReserveReadKeeps, CommitWriteKeeps,
             CommitReadKeeps, MoveWriteKeeps, MoveReadKeeps DEF Next

(* pipe::size never wraps around and the reservations of each end are in order. *)
LEMMA PipeInvImplies == PipeInv => TypeOK /\ ReservationsSound
<1> SUFFICES ASSUME PipeInv PROVE TypeOK /\ ReservationsSound
    OBVIOUS
<1>1. TypeOK
  <2>1. reserved_for_reading + reserved_for_writing <= Len(cb)
        BY SizeIs DEF reserved_for_reading
  <2>2. \A q \in {w_rid_q, r_rid_q} : q \in Seq([start : Nat, size : 1..MaxReserve, ready : BOOLEAN])
        BY DEF PipeInv, PipeTypes, Reservation
  <2>3. QED BY <2>1, <2>2 DEF PipeInv, PipeTypes, TypeOK
<1>2. ReservationsSound
  <2>1. \A q \in {w_rid_q, r_rid_q} : \A i \in 1..(Len(q) - 1) : q[i].start + q[i].size <= q[i + 1].start
    <3>1. SUFFICES ASSUME NEW q \in {w_rid_q, r_rid_q}, NEW i \in 1..(Len(q) - 1)
                   PROVE  q[i].start + q[i].size <= q[i + 1].start
          OBVIOUS
    <3>2. InOrder(q) /\ Len(q) \in Nat
          BY SizeIs DEF PipeInv
    <3>3. i \in 1..Len(q) /\ i + 1 \in 1..Len(q) /\ i < i + 1
          BY <3>2
    <3>4. QED BY <3>2, <3>3 DEF InOrder
  <2>2. \A i \in 1..Len(w_rid_q) : w_rid_q[i].start + w_rid_q[i].size <= End
        BY DEF PipeInv, WritesInside, End
  <2>3. r_rid_q = << >> => read_reserved_frozen = 0
        BY DEF PipeInv, ReadsInside
  <2>4. QED BY <2>1, <2>2, <2>3 DEF PipeInv, ReadsInside, ReservationsSound
<1>3. QED BY <1>1, <1>2

(* The pipe of SYCL 2.2, for any capacity and any number of reservations pending at     *)
(* each end: every variable keeps its type, pipe::size never wraps around, and the      *)
(* reservations follow one another in the buffer.                                       *)
THEOREM PipeReservationsSound == Spec => [](TypeOK /\ ReservationsSound)
BY PipeInvInit, PipeInvStep, PipeInvImplies, PTL DEF Spec

-----------------------------------------------------------------------------
(* The elements with the numbers between lo and hi *)
Between(lo, hi) == [j \in 1..(hi - lo) |-> lo + j]

(* Operations on such a sequence. *)
LEMMA BetweenIs ==
  ASSUME NEW lo \in Nat, NEW hi \in Nat, lo <= hi, NEW n \in Nat
  PROVE  /\ Between(lo, hi) \in Seq(Nat) /\ Len(Between(lo, hi)) = hi - lo
         /\ Between(lo, hi) \o [i \in 1..n |-> hi + i] = Between(lo, hi + n)
         /\ lo + n <= hi => SubSeq(Between(lo, hi), n + 1, hi - lo) = Between(lo + n, hi)
<1>1. \A a, b \in Nat : a <= b => /\ Between(a, b) \in Seq(Nat) /\ Len(Between(a, b)) = b - a
                                  /\ \A j \in 1..(b - a) : Between(a, b)[j] = a + j
  <2> SUFFICES ASSUME NEW a \in Nat, NEW b \in Nat, a <= b
               PROVE  /\ Between(a, b) \in Seq(Nat) /\ Len(Between(a, b)) = b - a
                      /\ \A j \in 1..(b - a) : Between(a, b)[j] = a + j
      OBVIOUS
  <2>1. b - a \in Nat /\ Between(a, b) \in [1..(b - a) -> Nat]
        BY DEF Between
  <2>2. QED BY <2>1, ArraySeq DEF Between
<1>0. /\ Between(lo, hi) \in Seq(Nat) /\ Len(Between(lo, hi)) = hi - lo
      /\ \A j \in 1..(hi - lo) : Between(lo, hi)[j] = lo + j
      BY <1>1
<1>2. Between(lo, hi) \o [i \in 1..n |-> hi + i] = Between(lo, hi + n)
  <2> DEFINE more == [i \in 1..n |-> hi + i]
  <2>1. more \in Seq(Nat) /\ Len(more) = n /\ \A i \in 1..n : more[i] = hi + i
    <3>1. more \in [1..n -> Nat]
          OBVIOUS
    <3>2. QED BY <3>1, ArraySeq
  <2> HIDE DEF more
  <2>2. /\ Between(lo, hi) \o more \in Seq(Nat) /\ Len(Between(lo, hi) \o more) = (hi - lo) + n
        /\ \A i \in 1..((hi - lo) + n) : (Between(lo, hi) \o more)[i] =
                     IF i <= hi - lo THEN Between(lo, hi)[i] ELSE more[i - (hi - lo)]
    <3>1. /\ Between(lo, hi) \o more \in Seq(Nat)
          /\ Len(Between(lo, hi) \o more) = Len(Between(lo, hi)) + Len(more)
          /\ \A i \in 1..(Len(Between(lo, hi)) + Len(more)) : (Between(lo, hi) \o more)[i] =
               IF i <= Len(Between(lo, hi)) THEN Between(lo, hi)[i] ELSE more[i - Len(Between(lo, hi))]
          BY Zenon, <1>0, <2>1, ConcatProperties
    <3>2. QED BY <1>0, <2>1, <3>1
  <2>3. /\ hi + n \in Nat /\ lo <= hi + n /\ (hi + n) - lo = (hi - lo) + n
        OBVIOUS
  <2>4. /\ Between(lo, hi + n) \in Seq(Nat) /\ Len(Between(lo, hi + n)) = (hi - lo) + n
        /\ \A j \in 1..((hi - lo) + n) : Between(lo, hi + n)[j] = lo + j
        BY <1>1, <2>3
  <2>5. ASSUME NEW i \in 1..((hi - lo) + n)
        PROVE  (Between(lo, hi) \o more)[i] = Between(lo, hi + n)[i]
    <3>1. CASE i <= hi - lo
      <4>1. i \in 1..(hi - lo)
            BY <3>1
      <4>2. QED BY <1>0, <2>2, <2>4, <3>1, <4>1
    <3>2. CASE ~(i <= hi - lo)
      <4>1. i - (hi - lo) \in 1..n /\ hi + (i - (hi - lo)) = lo + i
            BY <3>2
      <4>2. QED BY <2>1, <2>2, <2>4, <3>2, <4>1
    <3>3. QED BY Zenon, <3>1, <3>2
  <2>6. QED BY Zenon, <2>2, <2>4, <2>5, SeqEqual DEF more
<1>3. ASSUME lo + n <= hi PROVE SubSeq(Between(lo, hi), n + 1, hi - lo) = Between(lo + n, hi)
  <2>1. /\ lo + n \in Nat /\ hi - (lo + n) \in Nat /\ hi - lo \in Nat
        /\ (IF n + 1 <= hi - lo THEN (hi - lo) - (n + 1) + 1 ELSE 0) = hi - (lo + n)
        /\ (hi - lo) - (n + 1) + 1 = hi - (lo + n)
        BY <1>3
  <2>2. \A i \in (n + 1)..(hi - lo) : Between(lo, hi)[i] \in Nat
    <3>1. \A i \in (n + 1)..(hi - lo) : i \in 1..(hi - lo) /\ lo + i \in Nat
          BY <2>1
    <3>2. QED BY <1>0, <3>1
  <2>3. /\ SubSeq(Between(lo, hi), n + 1, hi - lo) \in Seq(Nat)
        /\ Len(SubSeq(Between(lo, hi), n + 1, hi - lo)) = hi - (lo + n)
        /\ \A i \in 1..(hi - (lo + n)) :
             SubSeq(Between(lo, hi), n + 1, hi - lo)[i] = Between(lo, hi)[n + 1 + i - 1]
        BY <2>1, <2>2, SubSeqProperties
  <2>4. /\ Between(lo + n, hi) \in Seq(Nat) /\ Len(Between(lo + n, hi)) = hi - (lo + n)
        /\ \A j \in 1..(hi - (lo + n)) : Between(lo + n, hi)[j] = lo + n + j
        BY <1>1, <1>3, <2>1
  <2>5. ASSUME NEW i \in 1..(hi - (lo + n))
        PROVE  SubSeq(Between(lo, hi), n + 1, hi - lo)[i] = Between(lo + n, hi)[i]
    <3>1. n + 1 + i - 1 \in 1..(hi - lo) /\ lo + (n + 1 + i - 1) = lo + n + i
          BY <2>1
    <3>2. QED BY <1>0, <2>3, <2>4, <3>1
  <2>6. QED BY <2>3, <2>4, <2>5, SeqEqual
<1>4. QED BY Zenon, <1>0, <1>2, <1>3

(* The channel of the FIFO, by the numbers of its first and last elements *)
Channel ==
  /\ Readable = Between(begun + read_reserved_frozen, LastReadable)
  /\ begun + Len(cb) - reserved_for_writing = LastReadable
  /\ begun + read_reserved_frozen \in Nat /\ LastReadable \in Nat
  /\ begun + read_reserved_frozen <= LastReadable
  /\ LastReadable - (begun + read_reserved_frozen) <= Capacity

(* The elements that can be read are those between what was given and what is held back *)
(* by a write reservation, each with its value.                                         *)
LEMMA ReadableIs == ASSUME PipeInv PROVE Channel
<1> DEFINE f == read_reserved_frozen
           lo == begun + f
           m == f + 1
           n == LastReadable - begun
<1>1. /\ Len(cb) \in Nat /\ begun \in Nat /\ f \in Nat /\ LastReadable \in Nat
      /\ lo <= LastReadable /\ LastReadable <= begun + Len(cb)
      /\ reserved_for_writing = begun + Len(cb) - LastReadable
      /\ \A k \in 1..Len(cb) : begun + k <= LastReadable => cb[k] = begun + k
      BY SizeIs
<1>2. Len(cb) <= Capacity
      BY DEF PipeInv, PipeTypes
<1>3. Readable = SubSeq(cb, m, n)
  <2>1. Len(cb) - reserved_for_writing = n
        BY <1>1
  <2>2. QED BY Zenon, <2>1 DEF Readable
<1>4. /\ m \in Int /\ n \in Int /\ n - m + 1 = LastReadable - lo
      /\ (IF m <= n THEN n - m + 1 ELSE 0) = LastReadable - lo
      BY <1>1
<1>5. \A i \in m..n : cb[i] = begun + i /\ cb[i] \in Nat
  <2>1. \A i \in m..n : i \in 1..Len(cb) /\ begun + i <= LastReadable /\ begun + i \in Nat
        BY <1>1
  <2>2. QED BY <1>1, <2>1
<1>6. /\ SubSeq(cb, m, n) \in Seq(Nat) /\ Len(SubSeq(cb, m, n)) = LastReadable - lo
      /\ \A i \in 1..(LastReadable - lo) : SubSeq(cb, m, n)[i] = cb[m + i - 1]
  <2>1. /\ SubSeq(cb, m, n) \in Seq(Nat)
        /\ Len(SubSeq(cb, m, n)) = IF m <= n THEN n - m + 1 ELSE 0
        /\ \A i \in 1..(n - m + 1) : SubSeq(cb, m, n)[i] = cb[m + i - 1]
        BY <1>4, <1>5, SubSeqProperties
  <2>2. QED BY <1>4, <2>1
<1>7. ASSUME NEW i \in 1..(LastReadable - lo) PROVE SubSeq(cb, m, n)[i] = lo + i
  <2>1. m + i - 1 \in m..n /\ begun + (m + i - 1) = lo + i
        BY <1>1
  <2>2. QED BY <1>5, <1>6, <2>1
<1>8. /\ Between(lo, LastReadable) \in Seq(Nat) /\ Len(Between(lo, LastReadable)) = LastReadable - lo
      /\ \A i \in 1..(LastReadable - lo) : Between(lo, LastReadable)[i] = lo + i
  <2>1. lo \in Nat
        BY <1>1
  <2>2. QED BY <1>1, <2>1, BetweenIs DEF Between
<1>9. SubSeq(cb, m, n) = Between(lo, LastReadable)
  <2> DEFINE s == SubSeq(cb, m, n)
             t == Between(lo, LastReadable)
  <2>1. s \in Seq(Nat) /\ t \in Seq(Nat) /\ Len(s) = Len(t)
        BY <1>6, <1>8
  <2>2. \A i \in 1..Len(s) : s[i] = t[i]
        BY <1>6, <1>7, <1>8
  <2> HIDE DEF s, t
  <2>3. s = t
        BY <2>1, <2>2, SeqEqual
  <2>4. QED BY <2>3 DEF s, t
<1>10. QED BY <1>1, <1>2, <1>3, <1>9, PipeAssumption DEF Channel

(* A step that only makes elements readable puts them into the FIFO, or changes nothing. *)
LEMMA PutRefines ==
  ASSUME Channel, Channel', NEW n \in Nat, Passes(0, n), received' = received
  PROVE  [F!FifoNext]_F!fifoVars
<1> DEFINE lo == begun + read_reserved_frozen
           hi == LastReadable
<1>1. /\ lo \in Nat /\ hi \in Nat /\ lo <= hi /\ Readable = Between(lo, hi)
      /\ begun + Len(cb) - reserved_for_writing = hi
      BY DEF Channel
<1>2. /\ lo' = lo /\ hi' = hi + n
      BY <1>1 DEF Passes
<1>3. /\ Readable' = Between(lo, hi + n) /\ (hi + n) - lo <= Capacity
      /\ (begun + Len(cb) - reserved_for_writing)' = hi + n
  <2>1. /\ Readable' = Between(lo', hi') /\ hi' - lo' <= Capacity
        /\ (begun + Len(cb) - reserved_for_writing)' = hi'
        BY DEF Channel
  <2>2. QED BY <1>2, <2>1
<1>4. CASE n = 0
  <2>1. hi + n = hi
        BY <1>1, <1>4
  <2>2. QED BY <1>1, <1>3, <2>1 DEF F!fifoVars
<1>5. CASE n # 0
  <2> HIDE DEF lo, hi
  <2>0. Len(Between(lo, hi)) = hi - lo
        BY Zenon, <1>1, BetweenIs
  <2>1. n \in 1..Capacity /\ Len(Between(lo, hi)) + n <= Capacity
        BY <1>1, <1>3, <1>5, <2>0, PipeAssumption
  <2>2. Between(lo, hi) \o [i \in 1..n |-> hi + i] = Between(lo, hi + n)
        BY ZenonT(30), <1>1, BetweenIs
  <2>3. F!Put(n)
        BY Zenon, <1>1, <1>3, <2>1, <2>2 DEF F!Put
  <2>4. QED BY <2>1, <2>3 DEF F!FifoNext
<1>6. QED BY <1>4, <1>5

(* A step that gives elements to a reader takes them from the FIFO. *)
LEMMA TakeRefines ==
  ASSUME Channel, Channel', NEW n \in Nat \ {0}, Passes(n, 0),
         received' = received \o SubSeq(Readable, 1, n)
  PROVE  [F!FifoNext]_F!fifoVars
<1> DEFINE lo == begun + read_reserved_frozen
           hi == LastReadable
<1>1. /\ lo \in Nat /\ hi \in Nat /\ lo <= hi /\ Readable = Between(lo, hi) /\ hi - lo <= Capacity
      /\ begun + Len(cb) - reserved_for_writing = hi
      BY DEF Channel
<1>2. /\ lo' = lo + n /\ hi' = hi
      BY <1>1 DEF Passes
<1>3. /\ Readable' = Between(lo + n, hi) /\ lo + n <= hi
      /\ (begun + Len(cb) - reserved_for_writing)' = hi
  <2>1. /\ Readable' = Between(lo', hi') /\ lo' <= hi'
        /\ (begun + Len(cb) - reserved_for_writing)' = hi'
        BY DEF Channel
  <2>2. QED BY <1>2, <2>1
<1>4. Len(Between(lo, hi)) = hi - lo /\ SubSeq(Between(lo, hi), n + 1, hi - lo) = Between(lo + n, hi)
  <2> HIDE DEF lo, hi
  <2>1. Len(Between(lo, hi)) = hi - lo
        BY Zenon, <1>1, BetweenIs
  <2>2. n \in Nat
        OBVIOUS
  <2>3. lo \in Nat /\ hi \in Nat /\ lo <= hi /\ lo + n <= hi
        BY <1>1, <1>3
  <2>4. SubSeq(Between(lo, hi), n + 1, hi - lo) = Between(lo + n, hi)
        BY Zenon, <2>2, <2>3, BetweenIs
  <2>5. QED BY <2>1, <2>4
<1>5. n \in 1..Capacity /\ n <= hi - lo
  <2> HIDE DEF lo, hi
  <2> QED BY <1>1, <1>3, PipeAssumption
<1>6. F!Take(n)
      BY <1>1, <1>3, <1>4, <1>5 DEF F!Take
<1>7. QED BY <1>5, <1>6 DEF F!FifoNext

(* What read and reserve_read give are the first elements of the channel. *)
LEMMA GivenFirst ==
  ASSUME PipeInv
  PROVE  /\ read => received' = received \o SubSeq(Readable, 1, 1)
         /\ \A n \in 1..MaxReserve :
              reserve_read(n) => received' = received \o SubSeq(Readable, 1, n)
<1> DEFINE f == read_reserved_frozen
           hi == Len(cb) - reserved_for_writing
<1>1. /\ Len(cb) \in Nat /\ f \in Nat /\ hi \in Int /\ hi <= Len(cb) /\ size = hi - f
      /\ cb \in Seq(0..MaxSent) /\ received \in Seq(Nat)
      BY SizeIs DEF PipeInv, PipeTypes
<1>2. \A k \in 1..Len(cb) : cb[k] \in 0..MaxSent
      BY Zenon, <1>1, ElementOfSeq
<1>3. ASSUME NEW n \in Nat \ {0}, n <= size
      PROVE  SubSeq(Readable, 1, n) = SubSeq(cb, f + 1, f + n)
  <2> DEFINE s == SubSeq(Readable, 1, n)
             t == SubSeq(cb, f + 1, f + n)
  <2>1. f + n <= hi /\ f + 1 <= hi
        BY <1>1, <1>3
  <2>2. /\ Readable \in Seq(0..MaxSent) /\ Len(Readable) = hi - f
        /\ \A i \in 1..(hi - f) : Readable[i] = cb[f + i]
    <3>1. \A i \in (f + 1)..hi : cb[i] \in 0..MaxSent
          BY <1>1, <1>2
    <3>2. /\ SubSeq(cb, f + 1, hi) \in Seq(0..MaxSent)
          /\ Len(SubSeq(cb, f + 1, hi)) = IF f + 1 <= hi THEN hi - (f + 1) + 1 ELSE 0
          /\ \A i \in 1..(hi - (f + 1) + 1) : SubSeq(cb, f + 1, hi)[i] = cb[f + 1 + i - 1]
          BY <1>1, <3>1, SubSeqProperties
    <3>3. /\ hi - (f + 1) + 1 = hi - f /\ (IF f + 1 <= hi THEN hi - (f + 1) + 1 ELSE 0) = hi - f
          /\ \A i \in 1..(hi - f) : f + 1 + i - 1 = f + i
          BY <1>1, <2>1
    <3>4. Readable = SubSeq(cb, f + 1, hi)
          BY DEF Readable
    <3> HIDE DEF f, hi
    <3>5. QED BY <3>2, <3>3, <3>4
  <2> HIDE DEF f, hi
  <2>3. /\ s \in Seq(0..MaxSent) /\ Len(s) = n /\ \A i \in 1..n : s[i] = Readable[i]
    <3>1. \A i \in 1..n : Readable[i] \in 0..MaxSent
      <4>1. \A i \in 1..n : i \in 1..(hi - f) /\ f + i \in 1..Len(cb)
            BY <1>1, <2>1
      <4>2. QED BY <1>2, <2>2, <4>1
    <3>2. /\ s \in Seq(0..MaxSent) /\ Len(s) = IF 1 <= n THEN n - 1 + 1 ELSE 0
          /\ \A i \in 1..(n - 1 + 1) : s[i] = Readable[1 + i - 1]
          BY <3>1, SubSeqProperties
    <3>3. (IF 1 <= n THEN n - 1 + 1 ELSE 0) = n /\ n - 1 + 1 = n /\ \A i \in 1..n : 1 + i - 1 = i
          OBVIOUS
    <3> HIDE DEF s
    <3>4. QED BY <3>2, <3>3
  <2>4. /\ t \in Seq(0..MaxSent) /\ Len(t) = n /\ \A i \in 1..n : t[i] = cb[f + i]
    <3>1. \A i \in (f + 1)..(f + n) : cb[i] \in 0..MaxSent
          BY <1>1, <1>2, <2>1
    <3>2. /\ t \in Seq(0..MaxSent) /\ Len(t) = IF f + 1 <= f + n THEN (f + n) - (f + 1) + 1 ELSE 0
          /\ \A i \in 1..((f + n) - (f + 1) + 1) : t[i] = cb[f + 1 + i - 1]
          BY <1>1, <3>1, SubSeqProperties
    <3>3. /\ (IF f + 1 <= f + n THEN (f + n) - (f + 1) + 1 ELSE 0) = n /\ (f + n) - (f + 1) + 1 = n
          /\ \A i \in 1..n : f + 1 + i - 1 = f + i
          BY <1>1
    <3> HIDE DEF t
    <3>4. QED BY <3>2, <3>3
  <2> HIDE DEF s, t
  <2>5. \A i \in 1..n : i \in 1..(hi - f)
        BY <1>1, <2>1
  <2>6. s = t
        BY <2>2, <2>3, <2>4, <2>5, SeqEqual
  <2>7. QED BY Zenon, <2>6 DEF s, t
<1>4. ASSUME read PROVE received' = received \o SubSeq(Readable, 1, 1)
  <2>1. 1 <= size /\ received' = Append(received, cb[f + 1])
        BY <1>1, <1>4 DEF read
  <2>2. f + 1 \in 1..Len(cb) /\ cb[f + 1] \in 0..MaxSent
        BY <1>1, <1>2, <2>1
  <2>3. SubSeq(cb, f + 1, f + 1) = <<cb[f + 1]>>
    <3> DEFINE s == SubSeq(cb, f + 1, f + 1)
               t == <<cb[f + 1]>>
    <3>1. \A i \in (f + 1)..(f + 1) : cb[i] \in 0..MaxSent
          BY <1>1, <2>2
    <3>2. /\ s \in Seq(0..MaxSent) /\ Len(s) = IF f + 1 <= f + 1 THEN (f + 1) - (f + 1) + 1 ELSE 0
          /\ \A i \in 1..((f + 1) - (f + 1) + 1) : s[i] = cb[f + 1 + i - 1]
          BY <1>1, <3>1, SubSeqProperties
    <3>3. /\ (IF f + 1 <= f + 1 THEN (f + 1) - (f + 1) + 1 ELSE 0) = 1 /\ (f + 1) - (f + 1) + 1 = 1
          /\ f + 1 + 1 - 1 = f + 1
          BY <1>1
    <3>4. t \in Seq(0..MaxSent) /\ Len(t) = 1 /\ t[1] = cb[f + 1]
          BY <2>2
    <3> HIDE DEF s, t
    <3>5. Len(s) = 1 /\ s[1] = cb[f + 1]
          BY <3>2, <3>3
    <3>6. \A i \in 1..Len(s) : s[i] = t[i]
          BY <3>4, <3>5
    <3>7. s = t
          BY <3>2, <3>4, <3>5, <3>6, SeqEqual
    <3>8. QED BY <3>7 DEF s, t
  <2>4. SubSeq(Readable, 1, 1) = <<cb[f + 1]>>
    <3>1. 1 \in Nat \ {0}
          OBVIOUS
    <3>2. SubSeq(Readable, 1, 1) = SubSeq(cb, f + 1, f + 1)
          BY Zenon, <1>3, <2>1, <3>1
    <3>3. QED BY Zenon, <2>3, <3>2
  <2>5. cb[f + 1] \in Nat
        BY <2>2, PipeAssumption
  <2>6. QED BY Zenon, <1>1, <2>1, <2>4, <2>5, AppendIsConcat
<1>5. ASSUME NEW n \in 1..MaxReserve, reserve_read(n)
      PROVE  received' = received \o SubSeq(Readable, 1, n)
  <2>1. n \in Nat \ {0} /\ n <= size /\ received' = received \o SubSeq(cb, f + 1, f + n)
        BY <1>5, PipeAssumption DEF reserve_read
  <2>2. QED BY Zenon, <1>3, <2>1
<1>6. QED BY <1>4, <1>5

(* Every step of the pipe is one of the FIFO. *)
LEMMA PipeStepRefines ==
  PipeInv /\ Channel /\ Channel' /\ [Next]_vars => [F!FifoNext]_F!fifoVars
<1> SUFFICES ASSUME PipeInv, Channel, Channel', [Next]_vars PROVE [F!FifoNext]_F!fifoVars
    OBVIOUS
<1>1. CASE write
  <2>1. received' = received /\ (Passes(0, 0) \/ Passes(0, 1))
        BY <1>1, WriteKeeps DEF write
  <2>2. QED BY <2>1, PutRefines
<1>2. CASE read
  <2>1. Passes(1, 0) /\ received' = received \o SubSeq(Readable, 1, 1)
        BY <1>2, ReadKeeps, GivenFirst
  <2>2. QED BY <2>1, TakeRefines
<1>3. ASSUME NEW n \in 1..MaxReserve, reserve_write(n) PROVE [F!FifoNext]_F!fifoVars
  <2>1. received' = received /\ Passes(0, 0)
        BY <1>3, ReserveWriteKeeps DEF reserve_write
  <2>2. QED BY <2>1, PutRefines
<1>4. ASSUME NEW n \in 1..MaxReserve, reserve_read(n) PROVE [F!FifoNext]_F!fifoVars
  <2>1. Passes(n, 0) /\ received' = received \o SubSeq(Readable, 1, n) /\ n \in Nat \ {0}
        BY <1>4, ReserveReadKeeps, GivenFirst, PipeAssumption
  <2>2. QED BY <2>1, TakeRefines
<1>5. ASSUME NEW i \in 1..Len(w_rid_q), CommitWrite(i) PROVE [F!FifoNext]_F!fifoVars
  <2>1. received' = received /\ Passes(0, 0)
        BY Zenon, <1>5, CommitWriteKeeps DEF CommitWrite
  <2>2. QED BY <2>1, PutRefines
<1>6. ASSUME NEW i \in 1..Len(r_rid_q), CommitRead(i) PROVE [F!FifoNext]_F!fifoVars
  <2>1. received' = received /\ Passes(0, 0)
        BY Zenon, <1>6, CommitReadKeeps DEF CommitRead
  <2>2. QED BY <2>1, PutRefines
<1>7. CASE move_write_reservation_forward
  <2>1. received' = received /\ \E n \in Nat : Passes(0, n)
        BY <1>7, MoveWriteKeeps DEF move_write_reservation_forward
  <2>2. QED BY <2>1, PutRefines
<1>8. CASE move_read_reservation_forward
  <2>1. received' = received /\ Passes(0, 0)
        BY <1>8, MoveReadKeeps DEF move_read_reservation_forward
  <2>2. QED BY <2>1, PutRefines
<1>9. CASE UNCHANGED vars
      BY <1>9 DEF vars, F!fifoVars, Readable, reserved_for_writing, End
<1>10. QED BY <1>1, <1>2, <1>3, <1>4, <1>5, <1>6, <1>7, <1>8, <1>9 DEF Next

(* The empty pipe is the empty FIFO. *)
LEMMA PipeInitRefines == Init => F!FifoInit
<1> SUFFICES ASSUME Init PROVE F!FifoInit
    OBVIOUS
<1>1. /\ cb = << >> /\ begun = 0 /\ w_rid_q = << >> /\ read_reserved_frozen = 0 /\ received = << >>
      /\ reserved_for_writing = 0
      BY DEF Init, reserved_for_writing
<1>2. Readable = << >>
      BY <1>1, SubSeqEmpty DEF Readable
<1>3. QED BY <1>1, <1>2 DEF F!FifoInit

(* The pipe is a bounded FIFO for any capacity, any number of reservations and any order *)
(* of their commits: plain reads and writes mixed with reservations give every element   *)
(* once, in order, and none before it is committed.                                      *)
THEOREM PipeImplementsFifo == Spec => IsFifo
<1>1. PipeInv => Channel
      BY ReadableIs
<1>2. QED BY <1>1, PipeInvInit, PipeInvStep, PipeInitRefines, PipeStepRefines, PTL
          DEF Spec, IsFifo, F!FifoSpec

-----------------------------------------------------------------------------
AccType == [step : {"new", "tested", "refused", "open", "closed"},
            mode : PipeModes, copies : Nat]

PATypeOK ==
  /\ used \in [PipeModes -> BOOLEAN]
  /\ acc \in [Opens -> AccType]
  /\ \A a \in Opens : acc[a].step = "open" => acc[a].copies > 0
  /\ overlap \subseteq PipeModes /\ orphan \subseteq PipeModes
  /\ ok \in BOOLEAN /\ contested \in BOOLEAN /\ commits \in Nat
  /\ item \in [Items -> {"holds", "commit", "last", "gone"}]

(* Until two constructors test a flag together, or a mere copy clears it, an open *)
(* accessor has its flag set and no other constructor is past the test.           *)
FlagsGuard ==
  \A a \in Opens :
    acc[a].mode \notin overlap \union orphan =>
      /\ acc[a].step = "open" => used[acc[a].mode]
      /\ acc[a].step \in {"tested", "open"} =>
           \A b \in Opens \ {a} : acc[b].mode = acc[a].mode => acc[b].step \notin {"tested", "open"}

(* ok is set until the first commit; the last handle is alone; one work-item at a *)
(* time is between the test of ok and its commit.                                 *)
CommitGuard ==
  /\ ok <=> commits = 0
  /\ \A i, j \in Items : i # j /\ item[i] = "last" => item[j] = "gone"
  /\ \A i \in Items : item[i] = "last" => ok
  /\ ~contested =>
       /\ commits <= 1
       /\ \A i \in Items : item[i] = "commit" => ok
       /\ \A i, j \in Items : item[i] = "commit" /\ item[j] = "commit" => i = j
  /\ (\A i \in Items : item[i] = "gone") => commits >= 1

PAInv == PATypeOK /\ FlagHasOwner /\ FlagsGuard /\ CommitGuard

(* The invariant holds before the first accessor. *)
LEMMA PAInvInit == PAInit => PAInv
<1> SUFFICES ASSUME PAInit PROVE PAInv
    OBVIOUS
<1> USE DEF PAInit, PipeModes
<1>1. PATypeOK
  <2>1. \A m \in PipeModes : [step |-> "new", mode |-> m, copies |-> 0] \in AccType
        BY DEF AccType
  <2>2. acc \in [Opens -> AccType]
        BY <2>1
  <2>3. \A a \in Opens : acc[a].step = "new"
        OBVIOUS
  <2>4. QED BY Zenon, <2>2, <2>3 DEF PATypeOK
<1>2. FlagHasOwner /\ FlagsGuard
      BY DEF FlagHasOwner, FlagsGuard
<1>3. CommitGuard
      BY PipeAccessAssumption DEF CommitGuard
<1>4. QED BY <1>1, <1>2, <1>3 DEF PAInv

(* The steps of the accessors keep the invariant. *)
LEMMA AccessorStep ==
  ASSUME PAInv, NEW a \in Opens, TestFlag(a) \/ SetFlag(a) \/ CopyAccessor(a) \/ DropAccessor(a)
  PROVE  PAInv'
<1>1. CommitGuard'
      BY DEF PAInv, CommitGuard, TestFlag, SetFlag, CopyAccessor, DropAccessor, Reserving
<1>2. acc[a].mode \in PipeModes
      BY DEF PAInv, PATypeOK, AccType
<1>3. CASE TestFlag(a)
  <2>1. PATypeOK'
        BY <1>3 DEF PAInv, PATypeOK, AccType, TestFlag, Reserving
  <2>2. FlagHasOwner'
        BY <1>3 DEF PAInv, PATypeOK, AccType, FlagHasOwner, TestFlag
  <2>3. FlagsGuard'
        BY <1>3 DEF PAInv, PATypeOK, AccType, FlagsGuard, TestFlag, MayUse
  <2>4. QED BY <1>1, <2>1, <2>2, <2>3 DEF PAInv
<1>4. CASE SetFlag(a)
  <2>1. PATypeOK'
    <3>1. acc' \in [Opens -> AccType]
      <4>1. acc \in [Opens -> AccType] /\ acc[a] \in AccType
            BY DEF PAInv, PATypeOK
      <4>2. [acc[a] EXCEPT !.step = "open", !.copies = 1] \in AccType
            BY Zenon, <4>1 DEF AccType
      <4>3. QED BY <1>4, <4>1, <4>2 DEF SetFlag
    <3>2. \A b \in Opens : acc'[b].step = "open" => acc'[b].copies > 0
          BY <1>4 DEF PAInv, PATypeOK, SetFlag, AccType
    <3>3. QED BY Zenon, <1>4, <3>1, <3>2 DEF PAInv, PATypeOK, SetFlag, Reserving
  <2>2. FlagHasOwner'
        BY <1>2, <1>4 DEF PAInv, PATypeOK, AccType, FlagHasOwner, SetFlag
  <2>3. FlagsGuard'
        BY <1>2, <1>4 DEF PAInv, PATypeOK, AccType, FlagsGuard, SetFlag
  <2>4. QED BY <1>1, <2>1, <2>2, <2>3 DEF PAInv
<1>5. CASE CopyAccessor(a)
  <2>1. PATypeOK'
        BY <1>5 DEF PAInv, PATypeOK, AccType, CopyAccessor, Reserving
  <2>2. FlagHasOwner'
        BY <1>5 DEF PAInv, PATypeOK, AccType, FlagHasOwner, CopyAccessor
  <2>3. FlagsGuard'
        BY <1>5 DEF PAInv, PATypeOK, AccType, FlagsGuard, CopyAccessor
  <2>4. QED BY <1>1, <2>1, <2>2, <2>3 DEF PAInv
<1>6. CASE DropAccessor(a)
  <2>1. PATypeOK'
    <3>1. acc[a].copies \in Nat /\ acc[a].copies - 1 \in Nat
          BY <1>6 DEF PAInv, PATypeOK, DropAccessor, AccType
    <3>2. acc' \in [Opens -> AccType]
      <4>1. acc \in [Opens -> AccType] /\ acc[a] \in AccType
            BY DEF PAInv, PATypeOK
      <4>2. [acc[a] EXCEPT !.copies = acc[a].copies - 1, !.step = "closed"] \in AccType
            BY Zenon, <3>1, <4>1 DEF AccType
      <4>3. [acc[a] EXCEPT !.copies = acc[a].copies - 1, !.step = "open"] \in AccType
            BY Zenon, <3>1, <4>1 DEF AccType
      <4>4. QED BY Zenon, <1>6, <4>1, <4>2, <4>3 DEF DropAccessor
    <3>3. \A b \in Opens : acc'[b].step = "open" => acc'[b].copies > 0
          BY <1>6, <3>1 DEF PAInv, PATypeOK, DropAccessor, AccType
    <3>4. orphan' \subseteq PipeModes /\ used' \in [PipeModes -> BOOLEAN]
          BY Zenon, <1>2, <1>6 DEF PAInv, PATypeOK, DropAccessor
    <3>5. QED BY <1>6, <3>2, <3>3, <3>4 DEF PAInv, PATypeOK, DropAccessor, Reserving
  <2>2. FlagHasOwner'
        BY <1>2, <1>6 DEF PAInv, PATypeOK, AccType, FlagHasOwner, DropAccessor, Freed
  <2>3. FlagsGuard'
        BY <1>2, <1>6 DEF PAInv, PATypeOK, AccType, FlagsGuard, DropAccessor, Freed
  <2>4. QED BY <1>1, <2>1, <2>2, <2>3 DEF PAInv
<1>7. QED BY <1>3, <1>4, <1>5, <1>6

(* The steps of the work-items keep the invariant. *)
LEMMA ItemStep ==
  ASSUME PAInv, NEW i \in Items, CommitTest(i) \/ CommitBody(i) \/ DropHandle(i)
  PROVE  PAInv'
<1>1. FlagHasOwner' /\ FlagsGuard'
      BY DEF PAInv, FlagHasOwner, FlagsGuard, CommitTest, CommitBody, DropHandle, Accessing
<1>2. PATypeOK'
  <2>1. item' \in [Items -> {"holds", "commit", "last", "gone"}]
        BY DEF PAInv, PATypeOK, CommitTest, CommitBody, DropHandle
  <2>2. contested' \in BOOLEAN
        BY Zenon DEF PAInv, PATypeOK, CommitTest, CommitBody, DropHandle
  <2>3. ok' \in BOOLEAN
        BY Zenon DEF PAInv, PATypeOK, CommitTest, CommitBody, DropHandle, Committed
  <2>4. commits' \in Nat
        BY DEF PAInv, PATypeOK, CommitTest, CommitBody, DropHandle
  <2>5. UNCHANGED Accessing
        BY DEF CommitTest, CommitBody, DropHandle
  <2>6. QED BY <2>1, <2>2, <2>3, <2>4, <2>5 DEF PAInv, PATypeOK, Accessing
<1>3. CASE CommitTest(i)
      BY Zenon, <1>1, <1>2, <1>3 DEF PAInv, PATypeOK, CommitGuard, CommitTest
<1>4. CASE CommitBody(i)
      BY <1>1, <1>2, <1>4 DEF PAInv, PATypeOK, CommitGuard, CommitBody, Committed
<1>5. CASE DropHandle(i)
      BY <1>1, <1>2, <1>5 DEF PAInv, PATypeOK, CommitGuard, DropHandle
<1>6. QED BY <1>3, <1>4, <1>5

(* pipe_accessor and pipe_reservation, for any number of accessors and of work-items: *)
(* a flag has an owner, one accessor has the pipe per mode and a reservation is       *)
(* committed once, but for the races and the copies named in these properties.        *)
THEOREM PipeUsersApart == PASpec => [](FlagHasOwner /\ OneUserPerMode /\ CommittedOnce)
<1>1. PAInv /\ [PANext]_pavars => PAInv'
  <2> SUFFICES ASSUME PAInv, [PANext]_pavars PROVE PAInv'
      OBVIOUS
  <2>1. ASSUME UNCHANGED pavars PROVE PAInv'
        BY <2>1 DEF pavars, PAInv, PATypeOK, FlagHasOwner, FlagsGuard, CommitGuard
  <2>2. QED BY <2>1, AccessorStep, ItemStep DEF PANext, PADone
<1>2. PAInv => FlagHasOwner /\ OneUserPerMode /\ CommittedOnce
      BY DEF PAInv, PATypeOK, AccType, FlagsGuard, CommitGuard, OneUserPerMode, CommittedOnce
<1>3. QED BY <1>1, <1>2, PAInvInit, PTL DEF PASpec

-----------------------------------------------------------------------------
(* What the kernels see.  An element of a reservation is 0 until it is stored;  *)
(* the reader stops before the reservation, whose elements are the last ones of *)
(* the pipe, and a commit comes after the stores.                               *)
-----------------------------------------------------------------------------
(* PipeFacade.  The n-th element of the pipe is n, or 0 in the reservation *)
(* of the writer, none of which the reader has passed.                     *)

FacTypes == /\ target \in Targets /\ elements \in Seq(Nat) /\ taken \in Seq(Nat) /\ given \in Nat
            /\ station \in [held : BOOLEAN, ok : BOOLEAN, start : Nat, size : Nat]

(* The place of the reservation that is not committed *)
InStation(n) == Pending /\ station.start <= n /\ n < station.start + station.size

Numbered == \A i \in 1 .. Len(elements) :
              \/ elements[i] = Len(taken) + i
              \/ elements[i] = 0 /\ InStation(Len(taken) + i)

StationAhead == Pending => Len(taken) < station.start /\ station.start + station.size <= given + 1

FacInv == FacTypes /\ SuccessIsTransfer /\ TakenAreWritten /\ Numbered /\ StationAhead

(* The capacity is a number, and depends on the kind of pipe only. *)
LEMMA CapacityIs == capacity \in Nat /\ (UNCHANGED target => UNCHANGED capacity)
BY FacadeAssumption DEF capacity

(* What is put in the pipe comes after what is there. *)
LEMMA PutIs ==
  ASSUME FacTypes, NEW n \in Nat, NEW v \in BOOLEAN, Put(n, v)
  PROVE  /\ elements' \in Seq(Nat) /\ Len(elements') = Len(elements) + n
         /\ given' = given + n /\ given' \in Nat
         /\ \A i \in 1 .. Len(elements) : elements'[i] = elements[i]
         /\ \A i \in Len(elements) + 1 .. Len(elements) + n :
              elements'[i] = IF v THEN given + i - Len(elements) ELSE 0
<1> DEFINE new == [i \in 1 .. n |-> IF v THEN given + i ELSE 0]
<1>1. /\ elements' = elements \o new /\ given' = given + n
      /\ elements \in Seq(Nat) /\ given \in Nat /\ Len(elements) \in Nat
      BY LenProperties DEF Put, FacTypes
<1>2. new \in [1 .. n -> Nat]
      BY <1>1
<1>3. new \in Seq(Nat) /\ Len(new) = n
      BY <1>2, SeqDef
<1>4. \A i \in 1 .. n : new[i] = IF v THEN given + i ELSE 0
      OBVIOUS
<1> HIDE DEF new
<1>5. /\ elements' \in Seq(Nat) /\ Len(elements') = Len(elements) + n
      /\ \A i \in 1 .. Len(elements) + n :
           elements'[i] = IF i <= Len(elements) THEN elements[i] ELSE new[i - Len(elements)]
      BY <1>1, <1>3, ConcatProperties
<1>6. ASSUME NEW i \in Len(elements) + 1 .. Len(elements) + n
      PROVE  elements'[i] = IF v THEN given + i - Len(elements) ELSE 0
  <2>1. i - Len(elements) \in 1 .. n /\ i \in 1 .. Len(elements) + n /\ ~(i <= Len(elements))
        BY <1>1, <1>6
  <2>2. elements'[i] = new[i - Len(elements)]
        BY Zenon, <1>5, <2>1
  <2>3. given + (i - Len(elements)) = given + i - Len(elements)
        BY <1>1
  <2> QED BY <1>4, <2>1, <2>2, <2>3
<1>7. \A i \in 1 .. Len(elements) : elements'[i] = elements[i]
      BY <1>1, <1>5
<1> QED BY <1>1, <1>5, <1>6, <1>7

(* What is written enters the pipe with its number. *)
LEMMA WrittenKept ==
  ASSUME FacInv, Put(1, TRUE), Len(elements) # capacity, counted' = counted + 1,
         UNCHANGED <<target, taken, station>>
  PROVE  FacInv'
<1>1. /\ FacTypes /\ counted = given /\ Len(elements) \in Nat /\ Len(taken) \in Nat
      /\ Len(taken) + Len(elements) = given /\ Len(elements) <= capacity
      BY LenProperties DEF FacInv, FacTypes, SuccessIsTransfer, TakenAreWritten
<1>2. /\ elements' \in Seq(Nat) /\ Len(elements') = Len(elements) + 1
      /\ given' = given + 1 /\ given' \in Nat
      /\ \A i \in 1 .. Len(elements) : elements'[i] = elements[i]
      /\ elements'[Len(elements) + 1] = given + 1
  <2>1. /\ elements' \in Seq(Nat) /\ Len(elements') = Len(elements) + 1
        /\ given' = given + 1 /\ given' \in Nat
        /\ \A i \in 1 .. Len(elements) : elements'[i] = elements[i]
        /\ \A i \in Len(elements) + 1 .. Len(elements) + 1 :
             elements'[i] = given + i - Len(elements)
        BY Zenon, <1>1, PutIs
  <2>2. given + (Len(elements) + 1) - Len(elements) = given + 1
        BY <1>1 DEF FacTypes
  <2> QED BY <1>1, <2>1, <2>2
<1>3. FacTypes' /\ SuccessIsTransfer'
      BY <1>1, <1>2 DEF FacTypes, SuccessIsTransfer
<1>4. TakenAreWritten'
      BY <1>1, <1>2, CapacityIs DEF FacInv, TakenAreWritten
<1>5. Numbered'
  <2> SUFFICES ASSUME NEW i \in 1 .. Len(elements')
               PROVE  (\/ elements[i] = Len(taken) + i
                       \/ elements[i] = 0 /\ InStation(Len(taken) + i))'
      BY DEF Numbered
  <2>1. CASE i = Len(elements) + 1
    <3>1. Len(taken) + (Len(elements) + 1) = given + 1
          BY <1>1
    <3> QED BY <1>2, <2>1, <3>1
  <2>2. CASE i # Len(elements) + 1
    <3>1. i \in 1 .. Len(elements) /\ elements'[i] = elements[i]
          BY <1>1, <1>2, <2>2
    <3> QED BY <3>1 DEF FacInv, Numbered, InStation, Pending
  <2> QED BY <2>1, <2>2
<1>6. StationAhead'
      BY <1>1, <1>2 DEF FacInv, StationAhead, Pending, FacTypes
<1> QED BY <1>3, <1>4, <1>5, <1>6 DEF FacInv

(* The places of the elements of a reservation of sz elements from number st on, in
   a pipe of e elements of which t were taken. *)
PlaceOf(t, e, st, sz) == \A k \in Nat : k < sz => /\ (st + k) - t \in 1 .. e
                                                 /\ t + ((st + k) - t) = st + k
IndexOf(t, st, sz) == \A i \in Nat : (st <= t + i /\ t + i < st + sz)
                        => /\ (t + i) - st \in 0 .. sz - 1 /\ st + ((t + i) - st) = t + i
                           /\ t + i # 0 /\ (t + i) - t = i /\ (t + i) - st < sz

(* A reservation that is ahead of the reader is in the pipe. *)
LEMMA PlacesAhead ==
  ASSUME NEW t \in Nat, NEW e \in Nat, NEW st \in Nat, NEW sz \in Nat, NEW g \in Nat,
         t + e = g, t < st, st + sz <= g + 1
  PROVE  /\ (st - t - 1 # 0 => e >= 1 /\ t + 1 < st)
         /\ PlaceOf(t, e, st, sz) /\ IndexOf(t, st, sz)
BY DEF PlaceOf, IndexOf

(* One element less in the pipe is one more with the reader. *)
LEMMA OneTaken ==
  ASSUME NEW t \in Nat, NEW e \in Nat, NEW g \in Nat, NEW c \in Nat, t + e = g, e <= c
  PROVE  e - 1 <= c /\ (t + 1) + (e - 1) = g
OBVIOUS

(* What is read is the next number: the reader stops before the reservation. *)
LEMMA ReadKept ==
  ASSUME FacInv, Visible # 0, taken' = Append(taken, Head(elements)), elements' = Tail(elements),
         UNCHANGED <<target, given, counted, station>>
  PROVE  FacInv'
<1>1. /\ FacTypes /\ counted = given /\ Len(elements) \in Nat /\ Len(taken) \in Nat
      /\ Len(taken) + Len(elements) = given /\ Len(elements) <= capacity
      /\ elements \in Seq(Nat) /\ taken \in Seq(Nat) /\ given \in Nat
      /\ station.start \in Nat /\ station.size \in Nat
      BY LenProperties DEF FacInv, FacTypes, SuccessIsTransfer, TakenAreWritten
<1>2. Len(elements) >= 1 /\ (Pending => Len(taken) + 1 < station.start)
  <2>1. CASE Pending
    <3>1. /\ station.start - Len(taken) - 1 # 0 /\ Len(taken) < station.start
          /\ station.start + station.size <= given + 1
          BY <2>1 DEF FacInv, StationAhead, Visible
    <3> QED BY Zenon, <1>1, <3>1, PlacesAhead
  <2>2. CASE ~Pending
        BY <1>1, <2>2 DEF Visible
  <2> QED BY <2>1, <2>2
<1>3. elements[1] = Len(taken) + 1
      BY <1>1, <1>2 DEF FacInv, Numbered, InStation
<1>4. /\ Head(elements) = elements[1] /\ elements' \in Seq(Nat) /\ Len(elements') = Len(elements) - 1
      /\ \A i \in 1 .. Len(elements) - 1 : elements'[i] = elements[i + 1]
      BY <1>1, <1>2, EmptySeq, HeadTailProperties
<1>5. /\ taken' \in Seq(Nat) /\ Len(taken') = Len(taken) + 1 /\ taken'[Len(taken) + 1] = Len(taken) + 1
      /\ \A i \in 1 .. Len(taken) : taken'[i] = taken[i]
      BY <1>1, <1>3, <1>4, AppendProperties
<1>6. FacTypes' /\ SuccessIsTransfer'
      BY <1>1, <1>4, <1>5 DEF FacTypes, SuccessIsTransfer
<1>7. TakenAreWritten'
  <2>1. \A i \in 1 .. Len(taken) + 1 : taken'[i] = i
    <3>1. \A i \in 1 .. Len(taken) : taken'[i] = i
          BY <1>5 DEF FacInv, TakenAreWritten
    <3> QED BY <1>1, <1>5, <3>1
  <2>2. Len(taken') + Len(elements') = given' /\ Len(elements') <= capacity'
    <3>1. capacity' = capacity /\ capacity \in Nat
          BY <1>1, CapacityIs
    <3>2. Len(elements) - 1 <= capacity /\ (Len(taken) + 1) + (Len(elements) - 1) = given
          BY Zenon, <1>1, <3>1, OneTaken
    <3>3. given' = given
          OBVIOUS
    <3> QED BY <1>4, <1>5, <3>1, <3>2, <3>3
  <2> QED BY Zenon, <1>5, <2>1, <2>2 DEF TakenAreWritten
<1>8. Numbered'
  <2> SUFFICES ASSUME NEW i \in 1 .. Len(elements')
               PROVE  (\/ elements[i] = Len(taken) + i
                       \/ elements[i] = 0 /\ InStation(Len(taken) + i))'
      BY DEF Numbered
  <2>1. i + 1 \in 1 .. Len(elements) /\ elements'[i] = elements[i + 1]
        BY <1>1, <1>4
  <2>2. Len(taken) + (i + 1) = Len(taken') + i
        BY <1>1, <1>5
  <2> QED BY <2>1, <2>2 DEF FacInv, Numbered, InStation, Pending
<1>9. StationAhead'
      BY <1>1, <1>2, <1>5 DEF FacInv, StationAhead, Pending
<1> QED BY <1>6, <1>7, <1>8, <1>9 DEF FacInv

(* A reservation holds zeros until its elements are stored. *)
LEMMA ReserveKept == ASSUME FacInv, NEW n \in 1 .. MinCapacity + 1, reserve(n) PROVE FacInv'
<1> DEFINE fits == Len(elements) + n <= capacity
<1>1. /\ FacTypes /\ counted = given /\ Len(elements) \in Nat /\ Len(taken) \in Nat /\ n \in Nat
      /\ Len(taken) + Len(elements) = given /\ Len(elements) <= capacity /\ given \in Nat
      /\ ~station.held /\ ~Pending /\ UNCHANGED <<target, taken>>
      /\ station' = [held |-> TRUE, ok |-> fits, start |-> given + 1, size |-> IF fits THEN n ELSE 0]
      /\ (fits => Put(n, FALSE) /\ counted' = counted + n)
      /\ (~fits => UNCHANGED <<elements, given, counted>>)
  <2>1. /\ FacTypes /\ counted = given /\ Len(elements) \in Nat /\ Len(taken) \in Nat /\ n \in Nat
        /\ Len(taken) + Len(elements) = given /\ Len(elements) <= capacity /\ given \in Nat
        BY FacadeAssumption, LenProperties DEF FacInv, FacTypes, SuccessIsTransfer, TakenAreWritten
  <2>3. ~station.held /\ ~Pending /\ UNCHANGED <<target, taken>>
        BY DEF reserve, Pending
  <2>4. /\ station' = [held |-> TRUE, ok |-> fits /\ ~MovedFrom(fits), start |-> given + 1,
                       size |-> IF fits THEN n ELSE 0]
        /\ (fits => Put(n, FALSE) /\ counted' = counted + n)
        /\ (~fits => UNCHANGED <<elements, given, counted>>)
        BY Zenon DEF reserve
  <2>5. (fits /\ ~MovedFrom(fits)) = fits
        BY DEF MovedFrom
  <2> QED BY Zenon, <2>1, <2>3, <2>4, <2>5
<1>2. \A i \in 1 .. Len(elements) : elements[i] = Len(taken) + i
      BY <1>1 DEF FacInv, Numbered, InStation
<1>3. /\ elements' \in Seq(Nat) /\ given' \in Nat /\ counted' = given'
      /\ Len(taken') + Len(elements') = given' /\ Len(elements') <= capacity'
      /\ \A i \in 1 .. Len(elements) : elements'[i] = elements[i]
      /\ Len(elements') = Len(elements) + (IF fits THEN n ELSE 0)
      /\ given' = given + (IF fits THEN n ELSE 0)
      /\ \A i \in Len(elements) + 1 .. Len(elements') : elements'[i] = 0
  <2>1. CASE fits
    <3>1. /\ elements' \in Seq(Nat) /\ Len(elements') = Len(elements) + n
          /\ given' = given + n /\ given' \in Nat
          /\ \A i \in 1 .. Len(elements) : elements'[i] = elements[i]
          /\ \A i \in Len(elements) + 1 .. Len(elements) + n : elements'[i] = 0
          BY Zenon, <1>1, <2>1, PutIs
    <3>2. capacity' = capacity /\ capacity \in Nat
          BY <1>1, CapacityIs
    <3>3. Len(elements) + n <= capacity
          BY <2>1
    <3>4. counted' = given' /\ Len(taken') = Len(taken)
          BY <1>1, <2>1, <3>1
    <3>5. Len(taken') + Len(elements') = given' /\ Len(elements') <= capacity'
      <4>1. Len(taken) + (Len(elements) + n) = given + n
            BY <1>1
      <4> QED BY <3>1, <3>2, <3>3, <3>4, <4>1
    <3> QED BY <2>1, <3>1, <3>4, <3>5
  <2>2. CASE ~fits
        BY <1>1, <2>2, CapacityIs DEF FacTypes
  <2> QED BY <2>1, <2>2
<1>4. FacTypes' /\ SuccessIsTransfer' /\ TakenAreWritten'
      BY <1>1, <1>3 DEF FacInv, FacTypes, SuccessIsTransfer, TakenAreWritten
<1>5. /\ station'.start = given + 1 /\ station'.size = (IF fits THEN n ELSE 0)
      /\ Pending' <=> fits
      BY Zenon, <1>1 DEF Pending
<1>6. Numbered'
  <2> SUFFICES ASSUME NEW i \in 1 .. Len(elements')
               PROVE  (\/ elements[i] = Len(taken) + i
                       \/ elements[i] = 0 /\ InStation(Len(taken) + i))'
      BY DEF Numbered
  <2>1. CASE i <= Len(elements)
    <3>1. i \in 1 .. Len(elements)
          BY <1>1, <2>1
    <3> QED BY Zenon, <1>1, <1>2, <1>3, <3>1
  <2>2. CASE ~(i <= Len(elements))
    <3>1. fits /\ i \in Len(elements) + 1 .. Len(elements') /\ Len(elements') = Len(elements) + n
          BY <1>1, <1>3, <2>2
    <3>2. elements'[i] = 0 /\ Pending' /\ station'.start = given + 1 /\ station'.size = n
          BY <1>3, <1>5, <3>1
    <3>3. given + 1 <= Len(taken) + i /\ Len(taken) + i < given + 1 + n
          BY <1>1, <3>1
    <3> QED BY <1>1, <3>2, <3>3 DEF InStation
  <2> QED BY <2>1, <2>2
<1>7. StationAhead'
      BY <1>1, <1>3, <1>5 DEF StationAhead
<1> QED BY <1>4, <1>6, <1>7 DEF FacInv

(* The writer stores its elements with their numbers. *)
LEMMA StoreKept == ASSUME FacInv, NEW k \in 0 .. MinCapacity, store(k) PROVE FacInv'
<1>1. /\ FacTypes /\ Len(elements) \in Nat /\ Len(taken) \in Nat /\ k \in Nat /\ given \in Nat
      /\ Len(taken) + Len(elements) = given /\ elements \in Seq(Nat)
      /\ station.start \in Nat /\ station.size \in Nat
      /\ UNCHANGED <<target, taken, given, counted, station>>
      BY FacadeAssumption, LenProperties DEF FacInv, FacTypes, TakenAreWritten, store
<1> DEFINE at == (station.start + k) - Len(taken)
<1>2. /\ Pending /\ k < station.size /\ elements' = [elements EXCEPT ![at] = station.start + k]
  <2>1. Index(k) # 0 /\ elements' = [elements EXCEPT ![Index(k) - Len(taken)] = Index(k)]
        BY DEF store
  <2>2. Pending /\ k < station.size /\ Index(k) = station.start + k
        BY <2>1 DEF Index
  <2>3. at = Index(k) - Len(taken)
        BY <2>2
  <2> HIDE DEF at
  <2> QED BY <2>1, <2>2, <2>3
<1>3. at \in 1 .. Len(elements) /\ Len(taken) + at = station.start + k
  <2>1. Len(taken) < station.start /\ station.start + station.size <= given + 1
        BY <1>2 DEF FacInv, StationAhead
  <2>2. PlaceOf(Len(taken), Len(elements), station.start, station.size)
        BY Zenon, <1>1, <2>1, PlacesAhead
  <2> QED BY Zenon, <1>1, <1>2, <2>2 DEF PlaceOf
<1>4. station.start + k \in Nat
      BY <1>1
<1> HIDE DEF at
<1>5. /\ elements' \in Seq(Nat) /\ Len(elements') = Len(elements)
      /\ \A i \in 1 .. Len(elements) : elements'[i] = IF i = at THEN station.start + k ELSE elements[i]
  <2> DEFINE v == station.start + k
  <2>1. v \in Nat /\ elements' = [elements EXCEPT ![at] = v] /\ at \in 1 .. Len(elements)
        BY <1>2, <1>3, <1>4
  <2> HIDE DEF v
  <2>2. /\ elements' \in Seq(Nat) /\ Len(elements') = Len(elements)
        /\ \A i \in 1 .. Len(elements) : elements'[i] = IF i = at THEN v ELSE elements[i]
        BY <1>1, <2>1, ExceptSeq
  <2> QED BY <2>2 DEF v
<1>6. FacTypes' /\ SuccessIsTransfer' /\ StationAhead'
      BY <1>1, <1>5 DEF FacInv, FacTypes, SuccessIsTransfer, StationAhead, Pending
<1>7. TakenAreWritten'
      BY <1>1, <1>5, CapacityIs DEF FacInv, TakenAreWritten
<1>8. Numbered'
      BY Zenon, <1>1, <1>3, <1>5 DEF FacInv, Numbered, InStation, Pending
<1> QED BY <1>6, <1>7, <1>8 DEF FacInv

(* A commit, explicit or not, comes after the stores. *)
LEMMA CommitKept == ASSUME FacInv, commit \/ DropStation PROVE FacInv'
<1>1. /\ FacTypes /\ Len(elements) \in Nat /\ Len(taken) \in Nat /\ given \in Nat /\ Stored
      /\ Len(taken) + Len(elements) = given
      /\ station.start \in Nat /\ station.size \in Nat
      /\ UNCHANGED <<target, elements, taken, given, counted>>
      BY LenProperties DEF FacInv, FacTypes, TakenAreWritten, commit, DropStation
<1>2. station' \in [held : BOOLEAN, ok : BOOLEAN, start : Nat, size : Nat] /\ ~station'.ok
  <2>1. CASE commit
        BY Zenon, <1>1, <2>1 DEF FacTypes, commit
  <2>2. CASE DropStation
        BY <2>2 DEF DropStation, NoStation
  <2> QED BY <2>1, <2>2
<1>3. \A i \in 1 .. Len(elements) : elements[i] = Len(taken) + i
  <2> SUFFICES ASSUME NEW i \in 1 .. Len(elements), elements[i] = 0, InStation(Len(taken) + i)
               PROVE  FALSE
      BY DEF FacInv, Numbered
  <2>1. /\ Pending /\ Len(taken) < station.start
        /\ station.start <= Len(taken) + i /\ Len(taken) + i < station.start + station.size
        BY DEF FacInv, StationAhead, InStation
  <2> DEFINE k == (Len(taken) + i) - station.start
  <2>2. /\ k \in 0 .. station.size - 1 /\ station.start + k = Len(taken) + i /\ k < station.size
        /\ Len(taken) + i # 0 /\ (Len(taken) + i) - Len(taken) = i
    <3>1. i \in Nat /\ station.start + station.size <= given + 1
          BY <2>1 DEF FacInv, StationAhead
    <3>2. IndexOf(Len(taken), station.start, station.size)
          BY Zenon, <1>1, <2>1, <3>1, PlacesAhead
    <3> QED BY Zenon, <2>1, <3>1, <3>2 DEF IndexOf
  <2>3. Index(k) = Len(taken) + i /\ Index(k) # 0
        BY <1>1, <2>1, <2>2 DEF Index
  <2> HIDE DEF k
  <2>4. elements[Index(k) - Len(taken)] # 0
        BY <1>1, <2>2, <2>3 DEF Stored
  <2> QED BY <2>2, <2>3, <2>4
<1>4. ~Pending'
      BY <1>2 DEF Pending
<1>5. FacTypes' /\ SuccessIsTransfer' /\ TakenAreWritten'
      BY <1>1, <1>2, CapacityIs DEF FacInv, FacTypes, SuccessIsTransfer, TakenAreWritten
<1>6. Numbered' /\ StationAhead'
      BY <1>1, <1>3, <1>4 DEF Numbered, StationAhead
<1> QED BY <1>5, <1>6 DEF FacInv

(* pipe_accessor, pipe_reservation, the pipe on a channel: for any capacity and any number *)
(* of elements, an operation that reports a success gave its elements to the pipe, and the *)
(* reader gets them in order, none before the writer wrote it.                             *)
THEOREM FacadeTransfers == FSpec => [](SuccessIsTransfer /\ TakenAreWritten)
<1>1. FInit => FacInv
  <2> SUFFICES ASSUME FInit PROVE FacInv
      OBVIOUS
  <2>1. <<>> \in Seq(Nat) /\ Len(<<>>) = 0
        BY EmptySeq
  <2>2. /\ elements = <<>> /\ taken = <<>> /\ given = 0 /\ counted = 0 /\ ~Pending
        /\ target \in Targets /\ station = NoStation
        BY DEF FInit, Pending, NoStation
  <2>3. FacTypes
        BY <2>1, <2>2 DEF FacTypes, NoStation
  <2> QED BY <2>1, <2>2, <2>3, CapacityIs
          DEF FacInv, SuccessIsTransfer, TakenAreWritten, Numbered, StationAhead
<1>2. FacInv /\ [FNext]_fvars => FacInv'
  <2> SUFFICES ASSUME FacInv, [FNext]_fvars PROVE FacInv'
      OBVIOUS
  <2>1. ASSUME UNCHANGED <<target, elements, taken, given, counted, station>> PROVE FacInv'
        BY <2>1, CapacityIs DEF FacInv, FacTypes, SuccessIsTransfer, TakenAreWritten, Numbered,
                                InStation, StationAhead, Pending
  <2>2. CASE accessor_write
    <3>1. CASE full
          BY <2>1, <2>2, <3>1 DEF accessor_write, WriteOk
    <3>2. CASE ~full
          BY <2>2, <3>2, WrittenKept DEF accessor_write, WriteOk, full
    <3> QED BY <3>1, <3>2
  <2>3. CASE accessor_read
    <3>1. CASE empty
          BY <2>1, <2>3, <3>1 DEF accessor_read
    <3>2. CASE ~empty
          BY <2>3, <3>2, ReadKept DEF accessor_read, empty
    <3> QED BY <3>1, <3>2
  <2>4. CASE channel_write
        BY <2>4, WrittenKept DEF channel_write, full
  <2>5. CASE channel_read
        BY <2>5, ReadKept DEF channel_read, empty
  <2>6. CASE FDone \/ UNCHANGED fvars
        BY <2>1, <2>6 DEF FDone, fvars
  <2> QED BY <2>2, <2>3, <2>4, <2>5, <2>6, ReserveKept, StoreKept, CommitKept DEF FNext
<1>3. FSpec => []FacInv
      BY <1>1, <1>2, PTL DEF FSpec
<1>4. FacInv => SuccessIsTransfer /\ TakenAreWritten
      BY DEF FacInv
<1> QED BY <1>3, <1>4, PTL

(* The pipe at its three levels, for any capacity, any number of accessors and  *)
(* any number of elements.                                                      *)
THEOREM PipeEndsStaySound == Spec /\ PASpec /\ FSpec => []PipeEndsSound
BY PipeReservationsSound, PipeUsersApart, FacadeTransfers, PTL DEF PipeEndsSound

=============================================================================
