----------------------------- MODULE BufferData -----------------------------
(***************************************************************************)
(* The content of one buffer, from its construction to its destruction:    *)
(* the memory its data lie in, the accessors that point into that memory,  *)
(* and the place the data are copied to in the end.  The order of the      *)
(* kernels, the accessors built without get_access and two threads that    *)
(* call get_access at once are in Lifetime.                                *)
(*                                                                         *)
(* "user" is the memory given to the constructor, "own" the one the buffer *)
(* allocates, "final" the one the user may pass to set_final_data.  What a *)
(* memory stores is the number of the write it comes from: Given for what  *)
(* the user has put there, Garbage for memory not initialised.             *)
(***************************************************************************)
EXTENDS Naturals

CONSTANTS
  Views,      \* the accessors the user may hold at a time
  LastWrite,  \* bound on the number of a write
  MaxBuffers  \* bound on the copies of the user's buffer

ASSUME BufferDataAssumption ==
  LastWrite \in Nat \ {0, 1} /\ MaxBuffers \in Nat \ {0}

VARIABLES
  made,     \* the constructor of the buffer
  data,     \* the members of detail::buffer
  stored,   \* the content of each memory
  written,   \* history: the content the accessors have given the buffer
  view,     \* the accessors
  buffers,  \* the user's buffer objects that share the implementation
  owns,     \* the memories the user still owns
  ended     \* detail::buffer is destroyed

bdvars == <<made, data, stored, written, view, buffers, owns, ended>>

Given == 0
Garbage == 1
Memories == {"user", "own", "final"}
NoView == [mode |-> "none", at |-> "own"]
LocalView == CHOOSE v \in Views : TRUE
NoFinal == [kind |-> "none", to |-> "final"]

-----------------------------------------------------------------------------
\* detail::buffer and its mixin: where the data are, what was allocated
Fields(at, allocation, data_host, copy_if_modified) ==
  [at |-> at, allocation |-> allocation, data_host |-> data_host,
   copy_if_modified |-> copy_if_modified, modified |-> FALSE,
   final_write_back |-> NoFinal]

of_range      == Fields("own", TRUE, FALSE, FALSE)
of_const_host == Fields("user", FALSE, TRUE, TRUE)
of_host       == Fields("user", FALSE, TRUE, FALSE)
of_shared     == Fields("user", FALSE, TRUE, FALSE)
of_iterators  == Fields("own", TRUE, FALSE, FALSE)

\* A container or an array: its storage, through the constructor for a pointer
of_container == of_host

constructor == [range |-> of_range, const_host |-> of_const_host, host |-> of_host,
                container |-> of_container, shared |-> of_shared,
                iterators |-> of_iterators, local |-> of_range]

\* input_shared_pointer owns the user's memory along with the user
KeepsInput == made = "shared"

\* The memory is allocated: by the user, or by the buffer
Allocated(m) ==
  \/ m \in owns
  \/ m = "user" /\ KeepsInput /\ ~ended
  \/ m = "own" /\ data.allocation /\ ~ended

\* The user builds a buffer.  A local accessor is an accessor on a buffer of its
\* own, which nobody else has.  assign copies what the iterators give.
BDInit ==
  /\ made \in DOMAIN constructor
  /\ data = constructor[made]
  /\ stored = [user |-> Given, final |-> Garbage,
                own |-> IF made = "iterators" THEN Given ELSE Garbage]
  /\ written = stored[data.at]
  /\ view = [v \in Views |-> IF made = "local" /\ v = LocalView
                              THEN [mode |-> "write", at |-> "own"] ELSE NoView]
  /\ buffers = IF made = "local" THEN 0 ELSE 1
  /\ owns = {"user", "final"}
  /\ ended = FALSE

-----------------------------------------------------------------------------

\* track_access_mode: the first access that may write gets a copy of constant data
tracked(mode) ==
  LET copies == mode = "write" /\ data.copy_if_modified IN
  [data EXCEPT !.modified = @ \/ mode = "write",
               !.at = IF copies THEN "own" ELSE @,
               !.allocation = @ \/ copies,
               !.copy_if_modified = @ /\ ~copies,
               !.data_host = @ /\ ~copies]

\* uninitialized_copy_n of track_access_mode
copied(mode) ==
  IF mode = "write" /\ data.copy_if_modified
    THEN [stored EXCEPT !["own"] = stored["user"]] ELSE stored

\* buffer::get_access, for the host or for a kernel: the accessor takes the
\* address of the data once the mode is tracked
get_access(v, mode) ==
  /\ buffers > 0 /\ view[v] = NoView
  /\ data' = tracked(mode)
  /\ stored' = copied(mode)
  /\ view' = [view EXCEPT ![v] = [mode |-> mode, at |-> data'.at]]
  /\ UNCHANGED <<made, written, buffers, owns, ended>>

\* The user writes the elements of an accessor
WriteThrough(v) ==
  /\ view[v].mode = "write" /\ written < LastWrite
  /\ written' = written + IF written = Given THEN 2 ELSE 1
  /\ stored' = [stored EXCEPT ![view[v].at] = written']
  /\ UNCHANGED <<made, data, view, buffers, owns, ended>>

-----------------------------------------------------------------------------
\* Mutation: what the user's memory owns when the buffer was made is copied
write_back_source_first == stored["user"]

\* The data at the time of the destruction: final_write_back captures the buffer
write_back_source == stored[data.at]

\* final_write_back: an expired weak_ptr gets nothing, an iterator always does
write_back ==
  LET f == data.final_write_back IN
  IF data.modified /\ (f.kind = "iterator" \/ (f.kind = "weak" /\ Allocated(f.to)))
    THEN [stored EXCEPT ![f.to] = write_back_source] ELSE stored

\* The last reference to detail::buffer goes: ~buffer
DropReference ==
  IF buffers' = 0 /\ \A v \in Views : view'[v] = NoView
    THEN ended' = TRUE /\ stored' = write_back
    ELSE UNCHANGED <<ended, stored>>

DropView(v) ==
  /\ view[v] # NoView
  /\ view' = [view EXCEPT ![v] = NoView]
  /\ UNCHANGED buffers
  /\ DropReference
  /\ UNCHANGED <<made, data, written, owns>>

\* buffer_waiter waits for the accessors to be gone when the user must find the
\* data; a thread that owns one of them would wait for itself
MustWait == data.modified /\ (data.final_write_back.kind # "none" \/ data.data_host)

DropBuffer ==
  /\ buffers > 0
  /\ buffers = 1 /\ MustWait => \A v \in Views : view[v] = NoView
  /\ buffers' = buffers - 1
  /\ UNCHANGED view
  /\ DropReference
  /\ UNCHANGED <<made, data, written, owns>>

CopyBuffer ==
  /\ buffers \in 1 .. MaxBuffers - 1
  /\ buffers' = buffers + 1
  /\ UNCHANGED <<made, data, stored, written, view, owns, ended>>

-----------------------------------------------------------------------------
SetFinal(f) ==
  /\ buffers > 0
  /\ data' = [data EXCEPT !.final_write_back = f]
  /\ UNCHANGED <<made, stored, written, view, buffers, owns, ended>>

\* buffer::set_final_data, from a shared_ptr of the user, nothing, or an iterator
set_final_data_weak(m) == m \in owns /\ SetFinal([kind |-> "weak", to |-> m])
set_final_data_nullptr == SetFinal(NoFinal)
set_final_data_iterator(m) == m \in owns /\ SetFinal([kind |-> "iterator", to |-> m])

mark_as_written ==
  /\ buffers > 0
  /\ data' = [data EXCEPT !.modified = TRUE]
  /\ UNCHANGED <<made, stored, written, view, buffers, owns, ended>>

\* The user may free memory that was copied, that is shared with the buffer or
\* that only a weak_ptr designates
Free(m) ==
  /\ m \in owns /\ ~ended
  /\ m = "user" => made \in {"range", "iterators", "shared", "local"}
  /\ data.final_write_back # [kind |-> "iterator", to |-> m]
  /\ owns' = owns \ {m}
  /\ UNCHANGED <<made, data, stored, written, view, buffers, ended>>

Ended == ended /\ UNCHANGED bdvars

BDNext ==
  \/ \E v \in Views : \/ \E mode \in {"read", "write"} : get_access(v, mode)
                      \/ WriteThrough(v) \/ DropView(v)
  \/ DropBuffer \/ CopyBuffer
  \/ \E m \in {"user", "final"} :
       set_final_data_weak(m) \/ set_final_data_iterator(m) \/ Free(m)
  \/ set_final_data_nullptr
  \/ mark_as_written
  \/ Ended

BDSpec == BDInit /\ [][BDNext]_bdvars

-----------------------------------------------------------------------------
(* Every variable keeps its type, and an accessor points to memory that is still    *)
(* allocated, whoever of the user and the buffer let it go first.                   *)
ViewsAllocated ==
  /\ stored \in [Memories -> 0 .. LastWrite] /\ buffers \in 0 .. MaxBuffers
  /\ \A v \in Views : view[v] # NoView => Allocated(view[v].at)

(* Constant host data are not modified, whatever is written through the accessors;    *)
(* only set_final_data lets the destructor write there: "there is no write after its  *)
(* destruction, unless there is another final data address given".  Nothing is said   *)
(* of a buffer made from iterators, whose write-back, though announced, is not there. *)
InputKept ==
  made = "const_host" /\ stored["user"] # Given =>
    ended /\ data.final_write_back.to = "user" /\ data.final_write_back.kind # "none"

(* An accessor shows what any accessor wrote last, but for those obtained for reading *)
(* on constant data before the first one for writing: they keep the data as given.    *)
ViewsShowNewest ==
  \A v \in Views : view[v] # NoView =>
    \/ stored[view[v].at] = written
    \/ made = "const_host" /\ view[v].mode = "read" /\ stored[view[v].at] = Given

(* In the end the user finds what was written last: in the memory given to the       *)
(* constructor when it is not constant, and where the last set_final_data told if it *)
(* is still there; that memory gets nothing when no access could write (~buffer).    *)
ResultReachesUser ==
  LET f == data.final_write_back IN
  ended =>
    /\ made \in {"host", "container", "shared"} => stored["user"] = written
    /\ (/\ data.modified /\ f.kind # "none"
        /\ f.to \in owns \/ (f.to = "user" /\ made = "shared")) => stored[f.to] = written
    /\ stored["final"] # Garbage => data.modified /\ f.kind # "none" /\ f.to = "final"

(* The memory behind a buffer: accessors point to live memory and show what was       *)
(* written last, constant data is kept, and the result reaches the user (~buffer,      *)
(* track_access_mode, set_final_data).                                                *)
BufferContents == ViewsAllocated /\ InputKept /\ ViewsShowNewest /\ ResultReachesUser
=============================================================================
