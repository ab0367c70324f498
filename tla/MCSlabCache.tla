----------------------------- MODULE MCSlabCache -----------------------------
(* SlabCache on a few small slabs.                                          *)
EXTENDS SlabCache, TLC

\* The memory blocks of the dispatcher are interchangeable, and so are the
\* blocks of a slab.
Symmetric == Permutations(Mems) \cup Permutations(Indices)
=============================================================================
