---------------------------- MODULE PipeFacade ----------------------------
(***************************************************************************)
(* What two kernels see of a pipe: the accessors of a pipe, blocking or    *)
(* not, of SYCL 2.2, the reservation a writer takes from its accessor, and *)
(* the pipe on a channel of fibers.  Module Pipe has the implementation    *)
(* behind the first two, of which this one only keeps the content.         *)
(*                                                                         *)
(* The n-th element of the pipe is n once it is written and 0 before that; *)
(* the writer writes all the elements of a reservation before it commits   *)
(* it explicitly or lets it go, as the interface asks.                     *)
(***************************************************************************)
EXTENDS Pipe, PipeAccess

CONSTANTS MinCapacity,   \* the capacity asked for
          MaxElements    \* bound on the elements given to the pipe

VARIABLES target,     \* the kind of pipe
          elements,   \* what is in the pipe
          taken,      \* history: what the reader got
          given,      \* the elements that entered the pipe
          counted,    \* those of the operations that reported a success
          w_ok, r_ok, \* pipe_accessor::ok, or success_code, at each end
          station     \* the writer's reservation

fvars == <<target, elements, taken, given, counted, w_ok, r_ok, station>>

Targets == {"pipe", "blocking_pipe", "channel"}

\* The size of a reservation, its first element, and pipe_reservation::ok
NoStation == [held |-> FALSE, ok |-> FALSE, start |-> 0, size |-> 0]

\* pipe::bit_ceil_at_least_2
bit_ceil_at_least_2(value) ==
  CHOOSE r \in {2 ^ i : i \in 1 .. value + 1} :
    r >= value /\ \A i \in 1 .. value + 1 : 2 ^ i >= value => r <= 2 ^ i

\* boost::fibers::buffered_channel keeps one of its slots free
ChannelCapacity(n) == bit_ceil_at_least_2(n) - 1

ASSUME FacadeAssumption == /\ MinCapacity \in Nat \ {0} /\ MaxElements \in Nat
                           /\ ChannelCapacity(MinCapacity) \in Nat

capacity == IF target = "channel" THEN ChannelCapacity(MinCapacity) ELSE MinCapacity

FInit == /\ target \in Targets
         /\ elements = <<>> /\ taken = <<>> /\ given = 0 /\ counted = 0
         /\ w_ok = FALSE /\ r_ok = FALSE
         /\ station = NoStation

blocking == target = "blocking_pipe"

\* An uncommitted reservation hides what is behind it
Pending == station.held /\ station.ok
Visible == IF Pending THEN station.start - Len(taken) - 1 ELSE Len(elements)

full == Len(elements) = capacity
empty == Visible = 0

-----------------------------------------------------------------------------

\* What a write reports
WriteOk == ~full

Put(n, v) == /\ elements' = elements \o [i \in 1 .. n |-> IF v THEN given + i ELSE 0]
             /\ given' = given + n

\* pipe_accessor::write and <<, pipe::write
accessor_write == /\ given < MaxElements
                  /\ blocking => ~full
                  /\ IF full THEN UNCHANGED <<elements, given>> ELSE Put(1, TRUE)
                  /\ w_ok' = WriteOk
                  /\ counted' = IF WriteOk THEN counted + 1 ELSE counted
                  /\ UNCHANGED <<target, taken, r_ok, station>>

\* pipe_accessor::read and >>, pipe::read.  The read() of a blocking pipe does not
\* set ok.
accessor_read == /\ blocking => ~empty
                 /\ IF empty THEN UNCHANGED <<elements, taken>>
                    ELSE taken' = Append(taken, Head(elements)) /\ elements' = Tail(elements)
                 /\ r_ok' \in IF blocking THEN {TRUE, r_ok} ELSE {~empty}
                 /\ UNCHANGED <<target, given, counted, w_ok, station>>

\* The blocking write and read of the pipe on a channel have no status
channel_write == /\ target = "channel" /\ given < MaxElements /\ ~full
                 /\ Put(1, TRUE) /\ counted' = counted + 1
                 /\ UNCHANGED <<target, taken, w_ok, r_ok, station>>

channel_read == /\ target = "channel" /\ ~empty
                /\ taken' = Append(taken, Head(elements)) /\ elements' = Tail(elements)
                /\ UNCHANGED <<target, given, counted, w_ok, r_ok, station>>

-----------------------------------------------------------------------------

\* The move constructor of detail::pipe_reservation: ok of the original, whose
\* destructor runs when reserve() has returned
MovedFrom(reserved) == FALSE

\* accessor::reserve: a reservation of the implementation, moved to the shared
\* object behind pipe_reservation.  The accessor's ok is not concerned.
reserve(n) ==
  LET fits == Len(elements) + n <= capacity IN
  /\ target # "channel" /\ ~station.held
  /\ given + n <= MaxElements
  /\ blocking => fits
  /\ IF fits THEN Put(n, FALSE) ELSE UNCHANGED <<elements, given>>
  /\ counted' = IF fits THEN counted + n ELSE counted
  /\ station' = [held |-> TRUE, ok |-> fits /\ ~MovedFrom(fits),
                 start |-> given + 1, size |-> IF fits THEN n ELSE 0]
  /\ UNCHANGED <<target, taken, w_ok, r_ok>>

\* begin, end, operator[] and size of a reservation assert ok
Index(k) == IF Pending /\ k < station.size THEN station.start + k ELSE 0

\* The writer stores into the k-th element
store(k) ==
  /\ Index(k) # 0
  /\ elements' = [elements EXCEPT ![Index(k) - Len(taken)] = Index(k)]
  /\ UNCHANGED <<target, taken, given, counted, w_ok, r_ok, station>>

Stored == \A k \in 0 .. station.size - 1 : Index(k) # 0 => elements[Index(k) - Len(taken)] # 0

\* pipe_reservation::commit, which does nothing the second time
commit == /\ station.held /\ Stored
          /\ station' = [station EXCEPT !.ok = FALSE]
          /\ UNCHANGED <<target, elements, taken, given, counted, w_ok, r_ok>>

\* The last handle is gone, and ~pipe_reservation commits
DropStation == /\ station.held /\ Stored
               /\ station' = NoStation
               /\ UNCHANGED <<target, elements, taken, given, counted, w_ok, r_ok>>

\* The bound is reached and the pipe is empty
FDone == given = MaxElements /\ elements = <<>> /\ ~station.held /\ UNCHANGED fvars

FNext == \/ accessor_write \/ accessor_read \/ channel_write \/ channel_read
         \/ \E n \in 1 .. MinCapacity + 1 : reserve(n)
         \/ \E k \in 0 .. MinCapacity : store(k)
         \/ commit \/ DropStation \/ FDone

FSpec == FInit /\ [][FNext]_fvars
-----------------------------------------------------------------------------
(* pipe_accessor::ok, pipe_reservation::operator bool and success_code: the
   operations that report a success are those that gave an element to the pipe. *)
SuccessIsTransfer == counted = given

(* pipe_accessor, pipe_reservation: the reader gets the elements in order, none of
   them before the writer wrote it, though reserve() moves the reservation
   through objects whose destructors commit.                                    *)
TakenAreWritten == /\ \A i \in 1 .. Len(taken) : taken[i] = i
                   /\ Len(taken) + Len(elements) = given
                   /\ Len(elements) <= capacity

(* Reservations, accessors, facades and channels of a pipe: reservations do not *)
(* overlap, one user has the pipe per mode, a reservation is committed once,    *)
(* and a success is a transfer (pipe, pipe_accessor, pipe_reservation).         *)
PipeEndsSound == /\ TypeOK /\ ReservationsSound
                 /\ FlagHasOwner /\ OneUserPerMode /\ CommittedOnce
                 /\ SuccessIsTransfer /\ TakenAreWritten
=============================================================================
