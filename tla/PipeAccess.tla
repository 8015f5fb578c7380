----------------------------- MODULE PipeAccess -----------------------------
(***************************************************************************)
(* The accessors of a SYCL 2.2 pipe and their reservations.  An accessor   *)
(* takes the pipe for its mode: the constructor tests a flag of the pipe   *)
(* and then sets it, without a lock, and throws when it is set.  A kernel  *)
(* works on copies of the accessor, and the destructor of every copy       *)
(* clears the flag.  A reservation is one object behind handles that the   *)
(* work-items copy; a commit tests ok, commits, and then clears ok, also   *)
(* without a lock.                                                         *)
(***************************************************************************)
EXTENDS Naturals

CONSTANTS Opens,       \* the accessors constructed from the pipe
          MaxCopies,   \* bound on the copies of an accessor alive together
          Items        \* the work-items that share a reservation

ASSUME PipeAccessAssumption == MaxCopies \in Nat /\ Items # {}

VARIABLES used,       \* used_for_reading and used_for_writing
          acc,        \* each accessor: its step, its mode and its live copies
          overlap,    \* modes two constructors tested together
          orphan,     \* modes an accessor of which lost a copy, not the last
          ok,         \* pipe_reservation::ok
          item,       \* step of each work-item that holds a handle
          commits,    \* how often the reservation was committed
          contested   \* two work-items committed at the same time

pavars == <<used, acc, overlap, orphan, ok, item, commits, contested>>

PipeModes == {"read", "write"}

PAInit == /\ used = [m \in PipeModes |-> FALSE]
          /\ acc \in [Opens -> {[step |-> "new", mode |-> m, copies |-> 0] : m \in PipeModes}]
          /\ overlap = {} /\ orphan = {}
          /\ ok = TRUE
          /\ item = [i \in Items |-> "holds"]
          /\ commits = 0 /\ contested = FALSE

Reserving == <<ok, item, commits, contested>>
Accessing == <<used, acc, overlap, orphan>>

\* Mutation: the test passes whatever the flag
MayUse_any(m) == TRUE
\* pipe_accessor: the pipe is not used in the requested mode
MayUse(m) == ~used[m]

\* The constructor tests the flag, and throws when it is set
TestFlag(a) ==
  LET m == acc[a].mode IN
  /\ acc[a].step = "new"
  /\ acc' = [acc EXCEPT ![a].step = IF MayUse(m) THEN "tested" ELSE "refused"]
  /\ overlap' = IF \E b \in Opens : acc[b].step = "tested" /\ acc[b].mode = m
                  THEN overlap \cup {m} ELSE overlap
  /\ UNCHANGED <<used, orphan, Reserving>>

SetFlag(a) == /\ acc[a].step = "tested"
              /\ acc' = [acc EXCEPT ![a].step = "open", ![a].copies = 1]
              /\ used' = [used EXCEPT ![acc[a].mode] = TRUE]
              /\ UNCHANGED <<overlap, orphan, Reserving>>

\* The accessor is copied, into a kernel for instance
CopyAccessor(a) == /\ acc[a].step = "open" /\ acc[a].copies < MaxCopies
                   /\ acc' = [acc EXCEPT ![a].copies = @ + 1]
                   /\ UNCHANGED <<used, overlap, orphan, Reserving>>

\* The mode ~pipe_accessor frees the pipe for
Freed(m) == m

\* ~pipe_accessor, of any copy
DropAccessor(a) ==
  LET m == acc[a].mode IN
  /\ acc[a].step = "open"
  /\ acc' = [acc EXCEPT ![a].copies = @ - 1,
                        ![a].step = IF acc[a].copies = 1 THEN "closed" ELSE "open"]
  /\ used' = [used EXCEPT ![Freed(m)] = FALSE]
  /\ orphan' = IF acc[a].copies > 1 THEN orphan \cup {m} ELSE orphan
  /\ UNCHANGED <<overlap, Reserving>>

-----------------------------------------------------------------------------
\* pipe_reservation::commit first tests ok; it does nothing when it is not set
CommitTest(i) == /\ item[i] = "holds" /\ ok
                 /\ item' = [item EXCEPT ![i] = "commit"]
                 /\ contested' = (contested \/ \E j \in Items : item[j] = "commit")
                 /\ UNCHANGED <<ok, commits, Accessing>>

\* The destructor of a handle; that of the last one destroys the reservation,
\* which commits it
DropHandle(i) ==
  /\ item[i] = "holds"
  /\ item' = [item EXCEPT ![i] = IF ok /\ \A j \in Items \ {i} : item[j] = "gone"
                                   THEN "last" ELSE "gone"]
  /\ UNCHANGED <<ok, commits, contested, Accessing>>

\* ok after a commit
Committed == FALSE

\* The commit marks the reservation ready, moves the queue of the pipe and
\* clears ok
CommitBody(i) ==
  /\ item[i] \in {"commit", "last"}
  /\ commits' = commits + 1 /\ ok' = Committed
  /\ item' = [item EXCEPT ![i] = IF item[i] = "commit" THEN "holds" ELSE "gone"]
  /\ UNCHANGED <<contested, Accessing>>

\* Every accessor and every handle is gone
PADone == /\ \A a \in Opens : acc[a].step \in {"refused", "closed"}
          /\ \A i \in Items : item[i] = "gone"
          /\ UNCHANGED pavars

PANext == \/ \E a \in Opens : TestFlag(a) \/ SetFlag(a) \/ CopyAccessor(a) \/ DropAccessor(a)
          \/ \E i \in Items : CommitTest(i) \/ CommitBody(i) \/ DropHandle(i)
          \/ PADone

PASpec == PAInit /\ [][PANext]_pavars
-----------------------------------------------------------------------------
(* ~pipe_accessor: the flag of a mode is only set while an accessor of the mode
   is alive, so that a pipe is never lost for the next kernel.               *)
FlagHasOwner == \A m \in PipeModes :
                  used[m] => \E a \in Opens : acc[a].step = "open" /\ acc[a].mode = m

(* pipe_accessor: two accessors have the pipe in one mode only after the flag was
   cleared by the end of a mere copy, or when their constructors tested the flag
   at the same time.                                                        *)
OneUserPerMode ==
  \A a, b \in Opens :
    a # b /\ acc[a].step = "open" /\ acc[b].step = "open" /\ acc[a].mode = acc[b].mode
      => acc[a].mode \in overlap \cup orphan

(* pipe_reservation: whatever the handles commit explicitly, the reservation is
   committed once, unless two work-items commit it at the same time, and it is
   committed when the last handle is gone.                                  *)
CommittedOnce == /\ ~contested => commits <= 1
                 /\ (\A i \in Items : item[i] = "gone") => commits >= 1
=============================================================================
