------------------------------ MODULE MCHandles ------------------------------
(* Handles with few handles.                                                *)
EXTENDS Handles, TLC

\* Bound: how often a handle is assigned to an interface.
CONSTANT MaxAssigned

MCNext == Next /\ \A x \in Interfaces : assigned'[x] <= MaxAssigned

MCSpec == Init /\ [][MCNext]_vars

Symmetric == Permutations(Names) \cup Permutations(Interfaces)
=============================================================================
