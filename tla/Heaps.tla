-------------------------------- MODULE Heaps -------------------------------
(***************************************************************************)
(* Heap for an allocator that serves each caller from a cache of its own:  *)
(* callers share the pointers, and each cache counts those it handed out.  *)
(***************************************************************************)
EXTENDS Integers

CONSTANTS Owners,       \* The callers that have a cache.
          Pointers      \* Everything allocate() could return.

VARIABLES lent,         \* Pointers in use, each with the owner of its cache.
          size          \* Per owner, how many, as its cache counts them.

vars == <<lent, size>>

Init == lent = {} /\ size = [o \in Owners |-> 0]

\* The pointer is in use out of no cache at all.
Allocate(o, p) ==
  /\ \A u \in Owners : <<u, p>> \notin lent
  /\ lent' = lent \cup {<<o, p>>}
  /\ size' = [size EXCEPT ![o] = @ + 1]

Deallocate(o, p) ==
  /\ <<o, p>> \in lent
  /\ lent' = lent \ {<<o, p>>}
  /\ size' = [size EXCEPT ![o] = @ - 1]

Next == \E o \in Owners, p \in Pointers : Allocate(o, p) \/ Deallocate(o, p)

Spec == Init /\ [][Next]_vars
=============================================================================
