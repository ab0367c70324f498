---------------------------- MODULE VectorsProofs ----------------------------
(***************************************************************************)
(* What the four moves do to a vector of anything.  Each is described by   *)
(* the position in the old vector that an element of the new one comes     *)
(* from.                                                                   *)
(***************************************************************************)
EXTENDS Vectors, SequenceTheorems, TLAPS

SpliceFrom(pos, i, k) ==
  IF k = pos THEN i ELSE IF pos < k /\ k <= i THEN k - 1 ELSE k
SwapPopFrom(n, i, k) == IF k = i THEN n ELSE k
EraseFrom(i, k)      == IF k < i THEN k ELSE k + 1

\* A function on 1 .. n is a sequence of length n.
LEMMA SeqOfFunction ==
  ASSUME NEW S, NEW n \in Nat, NEW f \in [1 .. n -> S]
  PROVE  f \in Seq(S) /\ Len(f) = n
<1>1. f \in Seq(S)
  BY SeqDef
<1>2. DOMAIN f = 1 .. Len(f) /\ Len(f) \in Nat
  BY <1>1, LenProperties
<1>3. 1 .. Len(f) = 1 .. n
  BY <1>2
<1>4. Len(f) = n
  <2>1. CASE Len(f) < n
    BY <2>1, <1>2, <1>3
  <2>2. CASE n < Len(f)
    BY <2>2, <1>2, <1>3
  <2> QED BY <2>1, <2>2, <1>2
<1> QED BY <1>1, <1>4

\* splice() permutes the vector.
LEMMA SpliceIs ==
  ASSUME NEW S, NEW v \in Seq(S), NEW i \in 1 .. Len(v), NEW pos \in 1 .. Len(v),
         pos < i
  PROVE  /\ Splice(v, pos, i) \in Seq(S)
         /\ Len(Splice(v, pos, i)) = Len(v)
         /\ \A k \in 1 .. Len(v) :
              /\ SpliceFrom(pos, i, k) \in 1 .. Len(v)
              /\ Splice(v, pos, i)[k] = v[SpliceFrom(pos, i, k)]
<1>1. Len(v) \in Nat /\ DOMAIN v = 1 .. Len(v) /\ v \in [1 .. Len(v) -> S]
  BY LenProperties
<1>2. \A k \in 1 .. Len(v) : SpliceFrom(pos, i, k) \in 1 .. Len(v)
  BY <1>1 DEF SpliceFrom
<1>3. \A k \in 1 .. Len(v) : Splice(v, pos, i)[k] = v[SpliceFrom(pos, i, k)]
  BY <1>1 DEF Splice, SpliceFrom
<1>4. Splice(v, pos, i) \in [1 .. Len(v) -> S]
  BY <1>1, <1>2, <1>3 DEF Splice
<1> QED BY <1>1, <1>2, <1>3, <1>4, SeqOfFunction

\* Moving the last element into a gap shortens the vector by the gap.
LEMMA SwapPopIs ==
  ASSUME NEW S, NEW v \in Seq(S), NEW i \in 1 .. Len(v)
  PROVE  /\ SwapPop(v, i) \in Seq(S)
         /\ Len(SwapPop(v, i)) = Len(v) - 1
         /\ \A k \in 1 .. Len(v) - 1 :
              /\ SwapPopFrom(Len(v), i, k) \in 1 .. Len(v)
              /\ SwapPop(v, i)[k] = v[SwapPopFrom(Len(v), i, k)]
<1>1. Len(v) \in Nat /\ DOMAIN v = 1 .. Len(v) /\ v \in [1 .. Len(v) -> S]
  BY LenProperties
<1>2. \A k \in 1 .. Len(v) - 1 : SwapPopFrom(Len(v), i, k) \in 1 .. Len(v)
  BY <1>1 DEF SwapPopFrom
<1>3. \A k \in 1 .. Len(v) - 1 : SwapPop(v, i)[k] = v[SwapPopFrom(Len(v), i, k)]
  BY <1>1 DEF SwapPop, SwapPopFrom
<1>4. SwapPop(v, i) \in [1 .. Len(v) - 1 -> S]
  BY <1>1, <1>2, <1>3 DEF SwapPop
<1>5. Len(v) - 1 \in Nat
  BY <1>1
<1> QED BY <1>2, <1>3, <1>4, <1>5, SeqOfFunction

\* So does erase().
LEMMA EraseIs ==
  ASSUME NEW S, NEW v \in Seq(S), NEW i \in 1 .. Len(v)
  PROVE  /\ Erase(v, i) \in Seq(S)
         /\ Len(Erase(v, i)) = Len(v) - 1
         /\ \A k \in 1 .. Len(v) - 1 :
              /\ EraseFrom(i, k) \in 1 .. Len(v)
              /\ Erase(v, i)[k] = v[EraseFrom(i, k)]
<1>1. Len(v) \in Nat /\ DOMAIN v = 1 .. Len(v) /\ v \in [1 .. Len(v) -> S]
  BY LenProperties
<1>2. \A k \in 1 .. Len(v) - 1 : EraseFrom(i, k) \in 1 .. Len(v)
  BY <1>1 DEF EraseFrom
<1>3. \A k \in 1 .. Len(v) - 1 : Erase(v, i)[k] = v[EraseFrom(i, k)]
  BY <1>1 DEF Erase, EraseFrom
<1>4. Erase(v, i) \in [1 .. Len(v) - 1 -> S]
  BY <1>1, <1>2, <1>3 DEF Erase
<1>5. Len(v) - 1 \in Nat
  BY <1>1
<1> QED BY <1>2, <1>3, <1>4, <1>5, SeqOfFunction

\* A new element takes the place of the one at i, which goes to the back.
LEMMA SwapInIs ==
  ASSUME NEW S, NEW v \in Seq(S), NEW i \in 1 .. Len(v), NEW e \in S
  PROVE  /\ SwapIn(v, i, e) \in Seq(S)
         /\ Len(SwapIn(v, i, e)) = Len(v) + 1
         /\ SwapIn(v, i, e)[i] = e
         /\ SwapIn(v, i, e)[Len(v) + 1] = v[i]
         /\ \A k \in 1 .. Len(v) : k # i => SwapIn(v, i, e)[k] = v[k]
<1>1. Len(v) \in Nat /\ DOMAIN v = 1 .. Len(v) /\ v \in [1 .. Len(v) -> S]
  BY LenProperties
<1>2. SwapIn(v, i, e) \in [1 .. Len(v) + 1 -> S]
  BY <1>1 DEF SwapIn
<1>3. Len(v) + 1 \in Nat
  BY <1>1
<1>4. /\ SwapIn(v, i, e)[i] = e
      /\ SwapIn(v, i, e)[Len(v) + 1] = v[i]
      /\ \A k \in 1 .. Len(v) : k # i => SwapIn(v, i, e)[k] = v[k]
  BY <1>1 DEF SwapIn
<1> QED BY <1>2, <1>3, <1>4, SeqOfFunction

\* It takes that of the first one.
LEMMA SwapInFirst ==
  ASSUME NEW S, NEW v \in Seq(S), 1 \in 1 .. Len(v), NEW e \in S
  PROVE  /\ SwapIn(v, 1, e) \in Seq(S)
         /\ Len(SwapIn(v, 1, e)) = Len(v) + 1
         /\ SwapIn(v, 1, e)[1] = e
         /\ SwapIn(v, 1, e)[Len(v) + 1] = v[1]
         /\ \A k \in 1 .. Len(v) : k # 1 => SwapIn(v, 1, e)[k] = v[k]
BY SwapInIs
=============================================================================
