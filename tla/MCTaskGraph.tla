----------------------------- MODULE MCTaskGraph -----------------------------
(* TaskGraph on small instances. *)
EXTENDS TaskGraph, TLC

(* Tasks, buffers, queues and host threads are interchangeable. *)
Symmetry ==
  Permutations(Task) \cup Permutations(Buffer) \cup Permutations(Queue)
    \cup Permutations(Host)

=============================================================================
