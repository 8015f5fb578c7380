-------------------------------- MODULE Fifo --------------------------------
(***************************************************************************)
(* What a pipe promises to the kernels it connects: what was sent is       *)
(* received in the same order, nothing lost nor duplicated, and never more *)
(* than the capacity is in transit.  The n-th element sent is n.           *)
(***************************************************************************)
EXTENDS Naturals, Sequences

CONSTANTS Capacity

VARIABLES
  channel,   \* the elements in transit
  sent,      \* how many elements were sent
  received   \* the elements received, in order

fifoVars == <<channel, sent, received>>

FifoInit == channel = << >> /\ sent = 0 /\ received = << >>

Put(n) ==
  /\ Len(channel) + n <= Capacity
  /\ channel' = channel \o [i \in 1..n |-> sent + i]
  /\ sent' = sent + n
  /\ UNCHANGED received

Take(n) ==
  /\ n <= Len(channel)
  /\ received' = received \o SubSeq(channel, 1, n)
  /\ channel' = SubSeq(channel, n + 1, Len(channel))
  /\ UNCHANGED sent

FifoNext == \E n \in 1..Capacity : Put(n) \/ Take(n)

FifoSpec == FifoInit /\ [][FifoNext]_fifoVars

=============================================================================
