------------------------------ MODULE Vectors -------------------------------
(***************************************************************************)
(* What the caches do to their vectors, as functions of the vector.        *)
(* ImplSlabMulti::Cache does the same to two of them, slabs and ptrs;      *)
(* SwapPop is also how SlabImpl::Cache takes a slab off a list.            *)
(***************************************************************************)
EXTENDS Naturals, Sequences

\* splice(): the element at i is moved to just before the one at pos < i.
Splice(v, pos, i) ==
  [k \in DOMAIN v |-> IF k = pos THEN v[i]
                      ELSE IF pos < k /\ k <= i THEN v[k - 1] ELSE v[k]]

\* std::swap(v[i], v.back()), v.pop_back().
SwapPop(v, i) ==
  [k \in 1 .. Len(v) - 1 |-> IF k = i THEN v[Len(v)] ELSE v[k]]

\* v.erase(i)
Erase(v, i) == [k \in 1 .. Len(v) - 1 |-> IF k < i THEN v[k] ELSE v[k + 1]]

\* Mutant: the new element stays at the back.
SwapIn_NoSwap(v, i, e) == Append(v, e)

\* v.emplace_back(e), std::swap(v[i], v.back()).
SwapIn(v, i, e) ==
  [k \in 1 .. Len(v) + 1 |-> IF k = i THEN e
                             ELSE IF k = Len(v) + 1 THEN v[i] ELSE v[k]]
=============================================================================
