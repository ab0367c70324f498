----------------------------- MODULE MCSlabMulti -----------------------------
(* SlabMulti with few threads and small slabs.                              *)
EXTENDS SlabMulti, TLC

\* Bound: no new calls once slabs were moved by an outdated position (those under
\* way go on).
MCNext ==
  /\ Next
  /\ stale => \A t \in Threads : pc[t] = "idle" => pc'[t] = "idle"

MCSpec == Init /\ [][MCNext]_vars

\* The memory of the dispatcher, the blocks of a slab and the threads that
\* only deallocate are interchangeable.
Symmetric == Permutations(Mems) \cup Permutations(Indices)
               \cup Permutations(Threads \ Allocators)
=============================================================================
