---------------------------- MODULE LineBarrier ----------------------------
(***************************************************************************)
(* What a barrier across a line of tiles promises: a tile that arrives     *)
(* leaves only when every tile of the line has arrived as often.           *)
(***************************************************************************)
EXTENDS Naturals

CONSTANTS Tiles,   \* the tiles of the line
          Rounds   \* how often each tile calls the barrier

VARIABLES arrived, \* how often a tile has entered the barrier
          left     \* how often a tile has returned from it

lbvars == <<arrived, left>>

LBInit == arrived = [i \in Tiles |-> 0] /\ left = [i \in Tiles |-> 0]

Arrive(i) == /\ arrived[i] = left[i]
             /\ arrived[i] < Rounds
             /\ arrived' = [arrived EXCEPT ![i] = @ + 1]
             /\ UNCHANGED left

Leave(i) == /\ left[i] < arrived[i]
            /\ \A j \in Tiles : arrived[i] <= arrived[j]
            /\ left' = [left EXCEPT ![i] = @ + 1]
            /\ UNCHANGED arrived

\* a line of a single tile: the call returns at once
Pass(i) == /\ Tiles = {i}
           /\ arrived[i] = left[i]
           /\ arrived[i] < Rounds
           /\ arrived' = [arrived EXCEPT ![i] = @ + 1]
           /\ left' = [left EXCEPT ![i] = @ + 1]

LBNext == \E i \in Tiles : Arrive(i) \/ Leave(i) \/ Pass(i)

LBSpec == LBInit /\ [][LBNext]_lbvars
=============================================================================
