---------------------------- MODULE CountedWaitAbs ----------------------------
(***************************************************************************)
(* What the blocking waits of the runtime promise: users come and go, and  *)
(* a waiter returns at a moment where nobody is counted, and does return   *)
(* if nobody ever comes again.                                             *)
(***************************************************************************)
EXTENDS Naturals

CONSTANTS User, Waiter, MaxUses

VARIABLES
  count,    \* the users counted
  uses,     \* how many times each user came
  present,  \* the users counted at present
  waiting   \* "out", "in" or "back": where each waiter stands

absVars == <<count, uses, present, waiting>>

AbsInit ==
  /\ count = 0
  /\ uses = [u \in User |-> 0]
  /\ present = {}
  /\ waiting = [w \in Waiter |-> "out"]

Arrive(u) ==
  /\ u \notin present /\ uses[u] < MaxUses
  /\ count' = count + 1
  /\ uses' = [uses EXCEPT ![u] = @ + 1]
  /\ present' = present \cup {u}
  /\ UNCHANGED waiting

Leave(u) ==
  /\ u \in present
  /\ count' = count - 1
  /\ present' = present \ {u}
  /\ UNCHANGED <<uses, waiting>>

Call(w) ==
  /\ waiting[w] = "out"
  /\ waiting' = [waiting EXCEPT ![w] = "in"]
  /\ UNCHANGED <<count, uses, present>>

Return(w) ==
  /\ waiting[w] = "in"
  /\ count = 0
  /\ waiting' = [waiting EXCEPT ![w] = "back"]
  /\ UNCHANGED <<count, uses, present>>

AbsNext ==
  \/ \E u \in User : Arrive(u) \/ Leave(u)
  \/ \E w \in Waiter : Call(w) \/ Return(w)

AbsSpec == AbsInit /\ [][AbsNext]_absVars

AbsFairSpec ==
  /\ AbsSpec
  /\ \A u \in User : WF_absVars(Leave(u))
  /\ \A w \in Waiter : WF_absVars(Return(w))

=============================================================================
