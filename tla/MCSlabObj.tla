------------------------------ MODULE MCSlabObj ------------------------------
(* SlabMem and SlabObj with a few small caches.                             *)
EXTENDS SlabObj, TLC

\* The pool has blocks of 3 units, SlabMem blocks of 1 and of 3.
MCStores    == 0 .. 2
MCBlockSize == [c \in MCStores |-> IF c = 1 THEN 1 ELSE 3]

\* Bounds: the first cache and the pool have three slabs between them, the
\* second cache has one; four blocks are held at a time, and one of them
\* leaked; freeEmpty() lowers the capacity
\* of one cache, and of that once, before the next freeAll() of it.
MCNext ==
  /\ Next
  /\ (SlabCount(1) + SlabCount(Pool))' <= 3 /\ SlabCount(2)' <= 1
  /\ Cardinality(Held') + Cardinality(out') <= 4 /\ Cardinality(leaked') <= 1
  /\ Cardinality(emptied') <= 1
  /\ \A c \in emptied \cap emptied' : myCapacity'[c] >= myCapacity[c]

MCSpec == Init /\ [][MCNext]_vars

Symmetric == Permutations(Mems)
=============================================================================
