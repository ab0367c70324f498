-------------------------------- MODULE Heap --------------------------------
(***************************************************************************)
(* What every allocator of this library promises its callers: a pointer    *)
(* handed out is not in use, and stays the caller's until it is given      *)
(* back.  Where the memory comes from is left open.                        *)
(***************************************************************************)
EXTENDS Naturals

CONSTANT Pointers       \* Everything allocate() could return.

VARIABLES live,         \* Pointers handed out and not given back.
          size          \* How many, as the allocator counts them.

vars == <<live, size>>

Init == live = {} /\ size = 0

Allocate(p) ==
  /\ p \notin live
  /\ live' = live \cup {p}
  /\ size' = size + 1

Deallocate(p) ==
  /\ p \in live
  /\ live' = live \ {p}
  /\ size' = size - 1

Next == \E p \in Pointers : Allocate(p) \/ Deallocate(p)

Spec == Init /\ [][Next]_vars
=============================================================================
