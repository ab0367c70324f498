--------------------------- MODULE SlabCacheProofs ---------------------------
(***************************************************************************)
(* Proofs about SlabCache, for slabs of any size and any supply of memory. *)
(***************************************************************************)
EXTENDS SlabCache, VectorsProofs, FiniteSetTheorems, SequenceTheorems, TLAPS

\* A slab has a natural number of blocks, at least two.
LEMMA CountType == Count \in Nat /\ Count >= 2
BY IndicesAssumption, FS_CardinalityType DEF Count

-----------------------------------------------------------------------------
(* The inductive invariant.                                                 *)

\* Slab s accounts for every block of memory m, given that those of L are in
\* use.
Fits(L, s, m) ==
  /\ s \in Slab
  /\ s.availible \cap s.foreigns = {}
  /\ s.availible \cup s.foreigns = {i \in Indices : [mem |-> m, idx |-> i] \notin L}

Inv == /\ TypeOK
       /\ IsFiniteSet(live)
       /\ SlabsManageTheirMemory
       /\ LiveMemoryIsKept
       /\ Accounting

\* What the steps below use of it.
LEMMA InvFacts ==
  ASSUME Inv
  PROVE  /\ slabs \in Seq(Slab) /\ ptrs \in Seq(Mems)
         /\ Len(slabs) \in Nat /\ Len(slabs) = Len(ptrs)
         /\ DOMAIN slabs = 1 .. Len(slabs) /\ DOMAIN ptrs = 1 .. Len(slabs)
         /\ actBlock = actMem /\ actBlock \in 1 .. Len(slabs)
         /\ \A k \in 1 .. Len(slabs) : ptrs[k] \in Mems /\ Fits(live, slabs[k], ptrs[k])
<1>1. /\ Len(slabs) \in Nat /\ DOMAIN slabs = 1 .. Len(slabs)
      /\ slabs \in [1 .. Len(slabs) -> Slab]
  BY LenProperties DEF Inv, TypeOK
<1>2. DOMAIN ptrs = 1 .. Len(ptrs) /\ ptrs \in [1 .. Len(ptrs) -> Mems]
  BY LenProperties DEF Inv, TypeOK
<1>3. Len(slabs) = Len(ptrs) /\ actBlock = actMem
  BY DEF Inv, SlabsManageTheirMemory
<1>4. \A k \in 1 .. Len(slabs) : ptrs[k] \in Mems /\ Fits(live, slabs[k], ptrs[k])
  BY <1>1, <1>2, <1>3 DEF Inv, SlabsManageTheirMemory, Fits, LiveIn
<1> QED BY <1>1, <1>2, <1>3, <1>4 DEF Inv, TypeOK

\* ... and what they have to show: vectors that fit.
LEMMA VectorsThatFit ==
  ASSUME slabs' \in Seq(Slab), ptrs' \in Seq(Mems), Len(slabs') = Len(ptrs'),
         actBlock' = actMem',
         \A k \in 1 .. Len(slabs') : Fits(live', slabs'[k], ptrs'[k])
  PROVE  SlabsManageTheirMemory'
<1>1. DOMAIN ptrs' = 1 .. Len(slabs')
  BY LenProperties
<1> QED BY <1>1 DEF SlabsManageTheirMemory, Fits, LiveIn

\* Slab::allocate() touches availible only.
LEMMA TakeIs ==
  ASSUME NEW s \in Slab, NEW i
  PROVE  /\ Take(s, i) \in Slab
         /\ Take(s, i).availible = s.availible \ {i}
         /\ Take(s, i).foreigns = s.foreigns
BY DEF Take, Slab

\* The block that allocate() hands out was not in use.
LEMMA HandOutFacts ==
  ASSUME Inv, NEW i \in Indices, HandOut(i)
  PROVE  /\ [mem |-> ptrs[actMem], idx |-> i] \in Pointers \ live
         /\ live' = live \cup {[mem |-> ptrs[actMem], idx |-> i]}
         /\ \A q \in live' : q \in live \/ q.mem = ptrs[actMem]
         /\ live' \subseteq Pointers
         /\ IsFiniteSet(live') /\ mySize' \in Nat /\ mySize' = Cardinality(live')
         /\ released' = released /\ overrun' = overrun
         /\ \A k \in 1 .. Len(slabs) :
              Fits(live', IF k = actBlock THEN Take(slabs[k], i) ELSE slabs[k], ptrs[k])
<1> DEFINE p == [mem |-> ptrs[actMem], idx |-> i]
<1>1. p \in Pointers \ live
  BY InvFacts DEF HandOut, Active, Fits, Slab, Pointers
<1>2. live' = live \cup {p} /\ mySize' = mySize + 1 /\ UNCHANGED <<released, overrun>>
  BY DEF HandOut
<1>3. live' \subseteq Pointers
  BY <1>1, <1>2 DEF Inv, TypeOK
<1>7. \A q \in live' : q \in live \/ q.mem = ptrs[actMem]
  <2>1. p.mem = ptrs[actMem]
    OBVIOUS
  <2> QED BY <1>2, <2>1
<1>4. IsFiniteSet(live') /\ Cardinality(live') = Cardinality(live) + 1
  BY <1>1, <1>2, FS_AddElement DEF Inv
<1>5. mySize' \in Nat /\ mySize' = Cardinality(live')
  BY <1>2, <1>4 DEF Inv, Accounting, TypeOK
<1>6. ASSUME NEW k \in 1 .. Len(slabs)
      PROVE  Fits(live', IF k = actBlock THEN Take(slabs[k], i) ELSE slabs[k], ptrs[k])
  <2>1. Fits(live, slabs[k], ptrs[k]) /\ ptrs[k] \in Mems
    BY InvFacts
  <2>2. CASE k = actBlock
    <3>1. /\ Take(slabs[k], i) \in Slab
          /\ Take(slabs[k], i).availible = slabs[k].availible \ {i}
          /\ Take(slabs[k], i).foreigns = slabs[k].foreigns
      BY <2>1, TakeIs DEF Fits
    <3>2. i \in slabs[k].availible /\ ptrs[actMem] = ptrs[k]
      BY <2>2, InvFacts DEF HandOut, Active
    <3>3. \A j \in Indices :
            [mem |-> ptrs[k], idx |-> j] \in live'
              <=> j = i \/ [mem |-> ptrs[k], idx |-> j] \in live
      BY <1>2, <3>2
    <3> QED BY <2>1, <2>2, <3>1, <3>2, <3>3 DEF Fits, Slab
  <2>3. CASE k # actBlock
    <3>1. ptrs[k] # ptrs[actMem]
      BY <2>3, InvFacts DEF Inv, LiveMemoryIsKept
    <3> QED BY <1>2, <2>1, <2>3, <3>1 DEF Fits
  <2> QED BY <2>2, <2>3
<1> QED BY <1>1, <1>2, <1>3, <1>4, <1>5, <1>6, <1>7

\* deallocate() gives the block back to the slab that handed it out.
LEMMA PutBackFacts ==
  ASSUME Inv, NEW p \in live, NEW i \in DOMAIN ptrs, NEW b \in BOOLEAN,
         PutBack(p, i)
  PROVE  /\ i \in 1 .. Len(slabs)
         /\ live' = live \ {p} /\ live' \subseteq Pointers
         /\ IsFiniteSet(live') /\ mySize' \in Nat /\ mySize' = Cardinality(live')
         /\ blocks' = blocks /\ overrun' = overrun
         /\ After(p, i, b) \in Seq(Slab) /\ Len(After(p, i, b)) = Len(slabs)
         /\ \A k \in 1 .. Len(slabs) : Fits(live', After(p, i, b)[k], ptrs[k])
<1>1. /\ i \in 1 .. Len(slabs) /\ ptrs[i] = p.mem /\ p \in Pointers
      /\ p = [mem |-> ptrs[i], idx |-> p.idx] /\ p.idx \in Indices
  BY InvFacts DEF PutBack, Inv, TypeOK, Pointers
<1>2. live' = live \ {p} /\ mySize' = mySize - 1 /\ UNCHANGED <<blocks, overrun>>
  BY DEF PutBack
<1>3. live' \subseteq Pointers
  BY <1>2 DEF Inv, TypeOK
<1>4. IsFiniteSet(live') /\ Cardinality(live') = Cardinality(live) - 1
  BY <1>2, FS_RemoveElement DEF Inv
<1>5. mySize' \in Nat /\ mySize' = Cardinality(live')
  BY <1>2, <1>4, FS_CardinalityType DEF Inv, Accounting, TypeOK
<1>6. slabs[i] \in Slab
  BY <1>1, InvFacts DEF Fits
<1>7. GiveBack(slabs[i], p.idx, b) \in Slab
  BY <1>1, <1>6 DEF GiveBack, Slab
<1>8. /\ After(p, i, b) \in Seq(Slab) /\ Len(After(p, i, b)) = Len(slabs)
      /\ \A k \in 1 .. Len(slabs) :
           After(p, i, b)[k] = IF k = i THEN GiveBack(slabs[i], p.idx, b) ELSE slabs[k]
  BY <1>1, <1>7, InvFacts, ExceptSeq DEF After
<1>9. ASSUME NEW k \in 1 .. Len(slabs) PROVE Fits(live', After(p, i, b)[k], ptrs[k])
  <2>1. Fits(live, slabs[k], ptrs[k]) /\ ptrs[k] \in Mems
    BY InvFacts
  <2>2. CASE k = i
    BY <1>1, <1>2, <1>7, <1>8, <2>1, <2>2 DEF Fits, GiveBack, Slab
  <2>3. CASE k # i
    <3>1. ptrs[k] # ptrs[i]
      BY <1>1, <2>3, InvFacts DEF Inv, LiveMemoryIsKept
    <3> QED BY <1>1, <1>2, <1>8, <2>1, <2>3, <3>1 DEF Fits
  <2> QED BY <2>2, <2>3
<1> QED BY <1>1, <1>2, <1>3, <1>4, <1>5, <1>8, <1>9

-----------------------------------------------------------------------------
(* The steps.                                                               *)

\* A call to allocate() that stays within the memory of the cache.
LEMMA AllocateKeepsMemory ==
  ASSUME Inv, NEW i \in Indices, HandOut(i),
         UNCHANGED <<ptrs, blocks, myCapacity>>,
         slabs' \in Seq(Slab), Len(slabs') = Len(slabs),
         actBlock' = actMem', actBlock' \in 1 .. Len(slabs),
         \A k \in 1 .. Len(slabs) : Fits(live', slabs'[k], ptrs[k])
  PROVE  Inv'
<1>1. TypeOK'
  BY HandOutFacts, InvFacts DEF TypeOK, Inv
<1>2. SlabsManageTheirMemory'
  BY InvFacts, VectorsThatFit
<1>3. LiveMemoryIsKept'
  <2>1. actMem \in DOMAIN ptrs
    BY InvFacts
  <2>2. \A q \in live' : \E k \in DOMAIN ptrs : ptrs[k] = q.mem
    <3>1. \A q \in live' : q \in live \/ q.mem = ptrs[actMem]
      BY HandOutFacts
    <3> QED BY <2>1, <3>1 DEF LiveMemoryIsKept, Inv
  <2>3. released' = released
    BY HandOutFacts
  <2> QED BY <2>2, <2>3 DEF LiveMemoryIsKept, Inv
<1>4. Accounting'
  BY HandOutFacts DEF Accounting, Inv
<1> QED BY <1>1, <1>2, <1>3, <1>4, HandOutFacts DEF Inv

\* mergeForeigns() moves blocks within the slab.
LEMMA MergeFits ==
  ASSUME NEW L, NEW s, NEW m, Fits(L, s, m)
  PROVE  Fits(L, MergeForeigns(s), m)
BY DEF Fits, MergeForeigns, Slab

\* allocate() from an active slab that has more.
LEMMA FromActiveStep ==
  ASSUME Inv, NEW i \in Indices, AllocateFromActive(i) PROVE Inv'
<1>1. HandOut(i) /\ UNCHANGED <<ptrs, actBlock, actMem, myCapacity, blocks>>
  BY DEF AllocateFromActive
<1>2. slabs[actBlock] \in Slab
  BY InvFacts DEF Fits
<1>3. /\ slabs' \in Seq(Slab) /\ Len(slabs') = Len(slabs)
      /\ \A k \in 1 .. Len(slabs) :
           slabs'[k] = IF k = actBlock THEN Take(slabs[k], i) ELSE slabs[k]
  BY <1>2, TakeIs, InvFacts, ExceptSeq DEF AllocateFromActive
<1> QED BY <1>1, <1>3, InvFacts, HandOutFacts, AllocateKeepsMemory

\* allocate() of the last block of a slab with foreigns.
LEMMA AndMergeStep ==
  ASSUME Inv, NEW i \in Indices, AllocateAndMerge(i) PROVE Inv'
<1>1. HandOut(i) /\ UNCHANGED <<ptrs, actBlock, actMem, myCapacity, blocks>>
  BY DEF AllocateAndMerge
<1>2. Fits(live', MergeForeigns(Take(slabs[actBlock], i)), ptrs[actBlock])
  BY <1>1, InvFacts, HandOutFacts, MergeFits
<1>3. /\ slabs' \in Seq(Slab) /\ Len(slabs') = Len(slabs)
      /\ \A k \in 1 .. Len(slabs) :
           slabs'[k] = IF k = actBlock THEN MergeForeigns(Take(slabs[k], i)) ELSE slabs[k]
  BY <1>2, InvFacts, ExceptSeq DEF AllocateAndMerge, Fits
<1>4. \A k \in 1 .. Len(slabs) : Fits(live', slabs'[k], ptrs[k])
  BY <1>1, <1>2, <1>3, HandOutFacts
<1> QED BY <1>1, <1>3, <1>4, InvFacts, AllocateKeepsMemory

\* allocate() that makes the slab before the active one active.
LEMMA AndStepBackStep ==
  ASSUME Inv, NEW i \in Indices, AllocateAndStepBack(i) PROVE Inv'
<1>1. /\ HandOut(i) /\ UNCHANGED <<ptrs, myCapacity, blocks>>
      /\ actBlock' = actBlock - 1 /\ actMem' = actMem - 1 /\ actBlock # 1
  BY DEF AllocateAndStepBack
<1>2. slabs[actBlock] \in Slab
  BY InvFacts DEF Fits
<1>3. /\ slabs' \in Seq(Slab) /\ Len(slabs') = Len(slabs)
      /\ \A k \in 1 .. Len(slabs) :
           slabs'[k] = IF k = actBlock THEN Take(slabs[k], i) ELSE slabs[k]
  BY <1>2, TakeIs, InvFacts, ExceptSeq DEF AllocateAndStepBack
<1>4. actBlock' = actMem' /\ actBlock' \in 1 .. Len(slabs)
  BY <1>1, InvFacts
<1> QED BY <1>1, <1>3, <1>4, InvFacts, HandOutFacts, AllocateKeepsMemory

\* allocate() that adds a slab.
LEMMA AndAddCacheStep ==
  ASSUME Inv, NEW i \in Indices, AllocateAndAddCache(i) PROVE Inv'
<1> DEFINE taken == [slabs EXCEPT ![actBlock] = Take(@, i)]
           n     == Len(slabs)
<1>1. /\ HandOut(i) /\ actBlock = 1 /\ slabs' = SwapIn(taken, actBlock, NewSlab)
      /\ myCapacity' = myCapacity + Count /\ actMem' = actBlock /\ actBlock' = actBlock
  BY DEF AllocateAndAddCache
<1>2. PICK m \in blocks : ptrs' = SwapIn(ptrs, actBlock, m) /\ blocks' = blocks \ {m}
  BY DEF AllocateAndAddCache
<1>3. m \in Mems /\ (\A k \in 1 .. n : ptrs[k] # m) /\ \A q \in live : q.mem # m
  BY InvFacts DEF Inv, TypeOK, LiveMemoryIsKept
<1>4. /\ taken \in Seq(Slab) /\ Len(taken) = n
      /\ \A k \in 1 .. n : taken[k] = IF k = actBlock THEN Take(slabs[k], i) ELSE slabs[k]
  BY TakeIs, InvFacts, ExceptSeq DEF Fits
<1>5. NewSlab \in Slab
  BY DEF NewSlab, Slab
<1>0. n \in Nat /\ n >= 1 /\ n = Len(ptrs) /\ ptrs \in Seq(Mems)
  BY <1>1, InvFacts
<1>6. /\ slabs' \in Seq(Slab) /\ Len(slabs') = n + 1
      /\ slabs'[1] = NewSlab /\ slabs'[n + 1] = taken[1]
      /\ \A k \in 1 .. n : k # 1 => slabs'[k] = taken[k]
  <2>1. slabs' = SwapIn(taken, 1, NewSlab)
    BY <1>1
  <2>2. PICK v \in Seq(Slab) : v = taken /\ Len(v) = n
    BY <1>0, <1>4
  <2>3. 1 \in 1 .. Len(v) /\ NewSlab \in Slab
    BY <1>0, <1>5, <2>2
  <2>4. /\ SwapIn(v, 1, NewSlab) \in Seq(Slab)
        /\ Len(SwapIn(v, 1, NewSlab)) = Len(v) + 1
        /\ SwapIn(v, 1, NewSlab)[1] = NewSlab
        /\ SwapIn(v, 1, NewSlab)[Len(v) + 1] = v[1]
        /\ \A k \in 1 .. Len(v) : k # 1 => SwapIn(v, 1, NewSlab)[k] = v[k]
    BY ONLY <2>3, v \in Seq(Slab), SwapInFirst
  <2> QED BY <2>1, <2>2, <2>4
<1>7. /\ ptrs' \in Seq(Mems) /\ Len(ptrs') = n + 1
      /\ ptrs'[1] = m /\ ptrs'[n + 1] = ptrs[1]
      /\ \A k \in 1 .. n : k # 1 => ptrs'[k] = ptrs[k]
  <2>1. ptrs' = SwapIn(ptrs, 1, m)
    BY <1>1, <1>2
  <2>2. PICK v \in Seq(Mems) : v = ptrs /\ Len(v) = n
    BY <1>0, <1>4
  <2>3. 1 \in 1 .. Len(v) /\ m \in Mems
    BY <1>0, <1>3, <2>2
  <2>4. /\ SwapIn(v, 1, m) \in Seq(Mems)
        /\ Len(SwapIn(v, 1, m)) = Len(v) + 1
        /\ SwapIn(v, 1, m)[1] = m
        /\ SwapIn(v, 1, m)[Len(v) + 1] = v[1]
        /\ \A k \in 1 .. Len(v) : k # 1 => SwapIn(v, 1, m)[k] = v[k]
    BY ONLY <2>3, v \in Seq(Mems), SwapInFirst
  <2> QED BY <2>1, <2>2, <2>4
<1>8. DOMAIN ptrs' = 1 .. n + 1 /\ n \in Nat /\ n >= 1
  BY <1>7, InvFacts, LenProperties
<1>9. \A k \in 1 .. n : Fits(live', taken[k], ptrs[k])
  BY <1>1, <1>4, HandOutFacts
<1>10. Fits(live', NewSlab, m)
  <2>1. \A q \in live' : q.mem # m
    BY <1>1, <1>3, HandOutFacts, InvFacts
  <2> QED BY <2>1, <1>5 DEF Fits, NewSlab
<1>11. ASSUME NEW k \in 1 .. n + 1 PROVE Fits(live', slabs'[k], ptrs'[k])
  <2>1. CASE k = 1
    BY <2>1, <1>6, <1>7, <1>10
  <2>2. CASE k = n + 1
    BY <2>2, <1>6, <1>7, <1>8, <1>9
  <2>3. CASE k \in 1 .. n /\ k # 1
    BY <2>3, <1>6, <1>7, <1>9
  <2> QED BY <2>1, <2>2, <2>3, <1>8
<1>12. SlabsManageTheirMemory'
  BY <1>1, <1>6, <1>7, <1>11, VectorsThatFit
<1>13. TypeOK'
  <2>1. myCapacity' \in Nat
    BY <1>1, CountType DEF Inv, TypeOK
  <2>2. actBlock' \in 1 .. Len(slabs') /\ actMem' \in 1 .. Len(ptrs')
    BY <1>1, <1>6, <1>7, <1>8
  <2> QED BY <1>1, <1>2, <1>6, <1>7, <2>1, <2>2, HandOutFacts DEF TypeOK, Inv
<1>14. LiveMemoryIsKept'
  <2>1. \A k \in 1 .. n : \E j \in 1 .. n + 1 : ptrs'[j] = ptrs[k]
    BY <1>7, <1>8
  <2>2. \A q \in live' : \E k \in 1 .. n : ptrs[k] = q.mem
    BY <1>1, HandOutFacts, InvFacts DEF LiveMemoryIsKept, Inv
  <2>3. \A j, k \in 1 .. n + 1 : ptrs'[j] = ptrs'[k] => j = k
    BY <1>3, <1>7, <1>8, InvFacts DEF LiveMemoryIsKept, Inv
  <2>6. \A k \in 1 .. n + 1 : ptrs'[k] = m \/ \E j \in 1 .. n : ptrs'[k] = ptrs[j]
    BY <1>7, <1>8
  <2>7. \A j \in 1 .. n : ptrs[j] # m /\ ptrs[j] \notin blocks
    BY <1>3, InvFacts DEF LiveMemoryIsKept, Inv
  <2>8. \A k \in 1 .. n + 1 : ptrs'[k] \notin blocks'
    BY <1>2, <2>6, <2>7
  <2>9. \A q \in live' : \E k \in 1 .. n + 1 : ptrs'[k] = q.mem
    BY <2>1, <2>2
  <2> QED BY <1>8, <2>3, <2>8, <2>9 DEF LiveMemoryIsKept
<1>15. Accounting'
  <2>1. myCapacity + Count = Count * (Len(slabs) + 1)
    BY CountType, InvFacts DEF Inv, Accounting
  <2> QED BY <2>1, <1>1, <1>6, HandOutFacts DEF Accounting
<1> QED BY <1>1, <1>12, <1>13, <1>14, <1>15, HandOutFacts DEF Inv

-----------------------------------------------------------------------------
(* deallocate() moves the slabs: From[k] is where the one at k was.         *)

\* The vectors have moved together and have lost no memory that is in use; the
\* counters follow.
Moved(p, i, b, n, From) ==
  /\ \A j, k \in 1 .. n : From[j] = From[k] => j = k
  /\ slabs' \in Seq(Slab) /\ Len(slabs') = n
  /\ ptrs' \in Seq(Mems) /\ Len(ptrs') = n
  /\ \A k \in 1 .. n : slabs'[k] = After(p, i, b)[From[k]] /\ ptrs'[k] = ptrs[From[k]]
  /\ \A q \in live' : \E k \in 1 .. n : ptrs[From[k]] = q.mem
  /\ released' \subseteq Mems
  /\ actBlock' = actMem' /\ actBlock' \in 1 .. n
  /\ myCapacity' \in Nat /\ myCapacity' = Count * n

\* Then every slab still manages its memory.
LEMMA VectorsMoved ==
  ASSUME Inv, NEW p \in live, NEW i \in DOMAIN ptrs, NEW b \in BOOLEAN,
         PutBack(p, i),
         NEW n \in Nat, NEW From \in [1 .. n -> 1 .. Len(slabs)],
         Moved(p, i, b, n, From)
  PROVE  Inv'
<1> USE DEF Moved
<1>1. \A k \in 1 .. n : Fits(live', slabs'[k], ptrs'[k])
  <2>1. \A k \in 1 .. Len(slabs) : Fits(live', After(p, i, b)[k], ptrs[k])
    BY PutBackFacts
  <2>2. \A k \in 1 .. n : From[k] \in 1 .. Len(slabs)
    OBVIOUS
  <2> QED BY <2>1, <2>2
<1>2. SlabsManageTheirMemory'
  BY <1>1, VectorsThatFit
<1>3. TypeOK'
  BY PutBackFacts DEF TypeOK, Inv
<1>4. DOMAIN ptrs' = 1 .. n
  BY LenProperties
<1>5. LiveMemoryIsKept'
  <2>1. blocks' = blocks
    BY PutBackFacts
  <2>2. \A k \in 1 .. n : From[k] \in DOMAIN ptrs
    BY InvFacts
  <2>6. \A k \in 1 .. n : ptrs'[k] = ptrs[From[k]]
    OBVIOUS
  <2>7. \A j, k \in 1 .. n : From[j] = From[k] => j = k
    OBVIOUS
  <2>8. /\ \A j, k \in DOMAIN ptrs : ptrs[j] = ptrs[k] => j = k
        /\ \A k \in DOMAIN ptrs : ptrs[k] \notin blocks
    BY DEF LiveMemoryIsKept, Inv
  <2>3. \A j, k \in 1 .. n : ptrs'[j] = ptrs'[k] => j = k
    BY ONLY <2>2, <2>6, <2>7, <2>8
  <2>4. \A k \in 1 .. n : ptrs'[k] \notin blocks
    BY ONLY <2>2, <2>6, <2>8
  <2>9. \A q \in live' : \E k \in 1 .. n : ptrs[From[k]] = q.mem
    OBVIOUS
  <2>5. \A q \in live' : \E k \in 1 .. n : ptrs'[k] = q.mem
    BY ONLY <2>6, <2>9
  <2> QED BY <1>4, <2>1, <2>3, <2>4, <2>5 DEF LiveMemoryIsKept
<1>6. Accounting'
  BY PutBackFacts DEF Accounting
<1> QED BY <1>2, <1>3, <1>5, <1>6, PutBackFacts DEF Inv

\* deallocate() that moves nothing.
LEMMA OnlyStep ==
  ASSUME Inv, NEW p \in live, NEW i \in DOMAIN ptrs, NEW b \in BOOLEAN,
         DeallocateOnly(p, i, b)
  PROVE  Inv'
<1>0. PICK n \in Nat : n = Len(slabs)
  BY InvFacts
<1> DEFINE From == [k \in 1 .. n |-> k]
<1>1. /\ PutBack(p, i) /\ slabs' = After(p, i, b)
      /\ UNCHANGED <<ptrs, actBlock, actMem, myCapacity, released>>
  BY DEF DeallocateOnly
<1>2. /\ From \in [1 .. n -> 1 .. Len(slabs)]
      /\ \A k \in 1 .. n : From[k] = k
      /\ \A j, k \in 1 .. n : From[j] = From[k] => j = k
  BY <1>0
<1>3. /\ slabs' \in Seq(Slab) /\ Len(slabs') = n
      /\ ptrs' \in Seq(Mems) /\ Len(ptrs') = n
  BY <1>0, <1>1, PutBackFacts, InvFacts
<1>4. \A k \in 1 .. n : slabs'[k] = After(p, i, b)[From[k]] /\ ptrs'[k] = ptrs[From[k]]
  BY <1>0, <1>1, <1>2, InvFacts DEF LiveMemoryIsKept, Inv
<1>5. \A q \in live' : \E k \in 1 .. n : ptrs[From[k]] = q.mem
  BY <1>0, <1>1, <1>2, PutBackFacts, InvFacts DEF LiveMemoryIsKept, Inv
<1>6. released' \subseteq Mems
  BY <1>1 DEF TypeOK, Inv
<1>7. actBlock' = actMem' /\ actBlock' \in 1 .. n
  BY <1>0, <1>1, InvFacts
<1>8. myCapacity' \in Nat /\ myCapacity' = Count * n
  BY <1>0, <1>1 DEF Accounting, TypeOK, Inv
<1> HIDE DEF From
<1>9. Moved(p, i, b, n, From)
  BY <1>2, <1>3, <1>4, <1>5, <1>6, <1>7, <1>8 DEF Moved
<1> QED BY <1>1, <1>2, <1>9, VectorsMoved

\* deallocate() that brings the slab before the active one.
LEMMA AndSpliceStep ==
  ASSUME Inv, NEW p \in live, NEW i \in DOMAIN ptrs, NEW b \in BOOLEAN,
         DeallocateAndSplice(p, i, b)
  PROVE  Inv'
<1>n. PICK n \in Nat : n = Len(slabs)
  BY InvFacts
<1>0. PICK pos \in 1 .. n : n = Len(slabs) /\ pos = actBlock
  BY <1>n, InvFacts
<1> DEFINE From == [k \in 1 .. n |-> SpliceFrom(pos, i, k)]
<1>1. /\ PutBack(p, i) /\ EmptyEnough(i, After(p, i, b)[i])
      /\ slabs' = Splice(After(p, i, b), actBlock, i) /\ ptrs' = Splice(ptrs, actMem, i)
      /\ actBlock' = actBlock + 1 /\ actMem' = actMem + 1
      /\ UNCHANGED <<myCapacity, released>>
  BY DEF DeallocateAndSplice
<1>2. pos < i /\ i \in 1 .. n /\ pos = actMem
  BY <1>0, <1>1, InvFacts DEF EmptyEnough
<1>3. /\ From \in [1 .. n -> 1 .. Len(slabs)]
      /\ \A k \in 1 .. n : From[k] = SpliceFrom(pos, i, k)
      /\ \A j, k \in 1 .. n : From[j] = From[k] => j = k
  BY <1>0, <1>2 DEF SpliceFrom
<1>4. ASSUME NEW S, NEW v \in Seq(S), Len(v) = n
      PROVE  /\ Splice(v, pos, i) \in Seq(S) /\ Len(Splice(v, pos, i)) = n
             /\ \A k \in 1 .. n : Splice(v, pos, i)[k] = v[From[k]]
  <2>1. i \in 1 .. Len(v) /\ pos \in 1 .. Len(v) /\ pos < i
    BY <1>2, <1>4
  <2>2. /\ Splice(v, pos, i) \in Seq(S) /\ Len(Splice(v, pos, i)) = Len(v)
        /\ \A k \in 1 .. Len(v) : Splice(v, pos, i)[k] = v[SpliceFrom(pos, i, k)]
    BY <2>1, SpliceIs
  <2> QED BY <1>3, <1>4, <2>2
<1> HIDE DEF From
<1>5. After(p, i, b) \in Seq(Slab) /\ Len(After(p, i, b)) = n
  BY <1>0, <1>1, PutBackFacts
<1>6. /\ slabs' \in Seq(Slab) /\ Len(slabs') = n
      /\ \A k \in 1 .. n : slabs'[k] = After(p, i, b)[From[k]]
  BY <1>0, <1>1, <1>4, <1>5
<1>7. /\ ptrs' \in Seq(Mems) /\ Len(ptrs') = n
      /\ \A k \in 1 .. n : ptrs'[k] = ptrs[From[k]]
  BY <1>0, <1>1, <1>2, <1>4, InvFacts
<1>9. \A q \in live' : \E k \in 1 .. n : ptrs[From[k]] = q.mem
  <2>1. \A j \in 1 .. n : \E k \in 1 .. n : From[k] = j
    <3>1. ASSUME NEW j \in 1 .. n PROVE \E k \in 1 .. n : From[k] = j
      <4>1. CASE j = i
        BY <1>2, <1>3, <4>1 DEF SpliceFrom
      <4>2. CASE pos <= j /\ j < i
        <5>1. j + 1 \in 1 .. n /\ From[j + 1] = j
          BY <1>2, <1>3, <4>2 DEF SpliceFrom
        <5> QED BY <5>1
      <4>3. CASE j < pos \/ i < j
        BY <1>2, <1>3, <4>3 DEF SpliceFrom
      <4> QED BY <1>2, <4>1, <4>2, <4>3
    <3> QED BY <3>1
  <2>2. \A q \in live' : \E j \in 1 .. n : ptrs[j] = q.mem
    BY <1>0, <1>1, PutBackFacts, InvFacts DEF LiveMemoryIsKept, Inv
  <2> QED BY <2>1, <2>2
<1>10. released' \subseteq Mems
  BY <1>1 DEF TypeOK, Inv
<1>11. actBlock' = actMem' /\ actBlock' \in 1 .. n
  BY <1>0, <1>1, <1>2
<1>12. myCapacity' \in Nat /\ myCapacity' = Count * n
  BY <1>0, <1>1 DEF Accounting, TypeOK, Inv
<1>13. Moved(p, i, b, n, From)
  BY <1>3, <1>6, <1>7, <1>9, <1>10, <1>11, <1>12 DEF Moved
<1> QED BY <1>1, <1>3, <1>13, VectorsMoved

\* A slab with no block in use accounts for the whole of its memory.
LEMMA EmptySlab ==
  ASSUME NEW L, NEW s, NEW m, Fits(L, s, m), Empty(s)
  PROVE  \A j \in Indices : [mem |-> m, idx |-> j] \notin L
<1> DEFINE A == s.availible
           F == s.foreigns
<1>1. A \in SUBSET Indices /\ F \in SUBSET Indices /\ A \cap F = {}
  BY DEF Fits, Slab
<1>2. IsFiniteSet(Indices) /\ IsFiniteSet(A) /\ IsFiniteSet(F)
  BY <1>1, IndicesAssumption, FS_Subset
<1>3. Cardinality(A \cup F) = Cardinality(A) + Cardinality(F)
  <2>1. Cardinality({}) = 0 /\ Cardinality(A) \in Nat /\ Cardinality(F) \in Nat
    BY <1>2, FS_EmptySet, FS_CardinalityType
  <2>2. Cardinality(A \cup F) = Cardinality(A) + Cardinality(F) - Cardinality(A \cap F)
    BY <1>2, FS_Union
  <2>3. Cardinality(A \cap F) = 0
    BY <1>1, <2>1
  <2> HIDE DEF A, F
  <2> QED BY <2>1, <2>2, <2>3
<1>4. Cardinality(A) + Cardinality(F) = Cardinality(Indices)
  <2>1. Count - (Cardinality(A) + Cardinality(F)) = 0
    BY DEF Empty, Used
  <2>2. Cardinality(A) \in Nat /\ Cardinality(F) \in Nat
    BY <1>2, FS_CardinalityType
  <2> QED BY <2>1, <2>2, CountType DEF Count
<1>5. A \cup F = Indices
  <2>1. A \cup F \in SUBSET Indices /\ Cardinality(Indices) = Cardinality(A \cup F)
    BY <1>1, <1>3, <1>4
  <2> QED BY <2>1, <1>2, FS_Subset
<1> QED BY <1>5 DEF Fits

\* deallocate() that releases the slab.
LEMMA AndReleaseStep ==
  ASSUME Inv, NEW p \in live, NEW i \in DOMAIN ptrs, NEW b \in BOOLEAN,
         DeallocateAndRelease(p, i, b)
  PROVE  Inv'
<1>0. PICK n \in Nat : n + 1 = Len(slabs) /\ n >= 1
  <2>1. Len(slabs) > 1 /\ Len(slabs) \in Nat
    BY InvFacts DEF DeallocateAndRelease, Spare, MinSlabs
  <2>2. Len(slabs) - 1 \in Nat /\ (Len(slabs) - 1) + 1 = Len(slabs) /\ Len(slabs) - 1 >= 1
    BY <2>1
  <2> QED BY <2>2
<1>a. PICK act \in 1 .. n + 1 : act = actBlock
  BY <1>0, InvFacts
<1> DEFINE From == [k \in 1 .. n |-> IF i < act THEN EraseFrom(i, k)
                                                ELSE SwapPopFrom(n + 1, i, k)]
<1>1. /\ PutBack(p, i) /\ Empty(After(p, i, b)[i])
      /\ released' = released \cup {ptrs[i]} /\ myCapacity' = myCapacity - Count
      /\ slabs' = IF i < act THEN Erase(After(p, i, b), i) ELSE SwapPop(After(p, i, b), i)
      /\ ptrs'  = IF i < act THEN Erase(ptrs, i) ELSE SwapPop(ptrs, i)
      /\ actBlock' = CASE i > act -> act [] i < act -> act - 1 [] i = act -> Len(slabs) - 1
      /\ actMem' = IF i > act THEN actMem ELSE actBlock'
  BY <1>a DEF DeallocateAndRelease, Spare
<1>2. i \in 1 .. n + 1 /\ act = actMem
  BY <1>0, <1>a, <1>1, InvFacts
<1>3. /\ From \in [1 .. n -> 1 .. Len(slabs)]
      /\ \A k \in 1 .. n : From[k] # i
      /\ \A j, k \in 1 .. n : From[j] = From[k] => j = k
  BY <1>0, <1>2 DEF EraseFrom, SwapPopFrom
<1>4. ASSUME NEW S, NEW v \in Seq(S), Len(v) = n + 1
      PROVE  LET w == IF i < act THEN Erase(v, i) ELSE SwapPop(v, i)
             IN w \in Seq(S) /\ Len(w) = n /\ \A k \in 1 .. n : w[k] = v[From[k]]
  <2>0. i \in 1 .. Len(v) /\ Len(v) - 1 = n
    BY <1>2, <1>4
  <2>1. CASE i < act
    <3>1. /\ Erase(v, i) \in Seq(S) /\ Len(Erase(v, i)) = n
          /\ \A k \in 1 .. n : Erase(v, i)[k] = v[EraseFrom(i, k)]
      BY <2>0, EraseIs
    <3> QED BY <2>1, <3>1
  <2>2. CASE ~ i < act
    <3>1. /\ SwapPop(v, i) \in Seq(S) /\ Len(SwapPop(v, i)) = Len(v) - 1
          /\ \A k \in 1 .. Len(v) - 1 :
               SwapPop(v, i)[k] = v[SwapPopFrom(Len(v), i, k)]
      BY ONLY <2>0, SwapPopIs
    <3>2. Len(v) - 1 = n /\ Len(v) = n + 1
      BY <1>4, <2>0
    <3> QED BY <2>2, <3>1, <3>2
  <2> QED BY <2>1, <2>2
<1>x. \A j \in 1 .. n + 1 : j # i => \E k \in 1 .. n : From[k] = j
  <2>1. ASSUME NEW j \in 1 .. n + 1, j # i PROVE \E k \in 1 .. n : From[k] = j
    <3>1. CASE i < act /\ i < j
      <4>1. j - 1 \in 1 .. n /\ From[j - 1] = j
        BY <1>2, <3>1 DEF EraseFrom
      <4> QED BY <4>1
    <3>2. CASE i < act /\ j < i
      BY <1>2, <3>2 DEF EraseFrom
    <3>3. CASE ~ i < act /\ j = n + 1
      BY <1>2, <2>1, <3>3 DEF SwapPopFrom
    <3>4. CASE ~ i < act /\ j # n + 1
      BY <1>2, <2>1, <3>4 DEF SwapPopFrom
    <3> QED BY <1>2, <2>1, <3>1, <3>2, <3>3, <3>4
  <2> QED BY <2>1
<1> HIDE DEF From
<1>5. After(p, i, b) \in Seq(Slab) /\ Len(After(p, i, b)) = n + 1
  BY <1>0, <1>1, PutBackFacts
<1>6. /\ slabs' \in Seq(Slab) /\ Len(slabs') = n
      /\ \A k \in 1 .. n : slabs'[k] = After(p, i, b)[From[k]]
  BY <1>1, <1>4, <1>5
<1>7. /\ ptrs' \in Seq(Mems) /\ Len(ptrs') = n
      /\ \A k \in 1 .. n : ptrs'[k] = ptrs[From[k]]
  BY <1>0, <1>1, <1>4, InvFacts
<1>9. \A q \in live' : \E k \in 1 .. n : ptrs[From[k]] = q.mem
  <2>1. \A q \in live' : q.mem # ptrs[i]
    <3>1. \A j \in Indices : [mem |-> ptrs[i], idx |-> j] \notin live'
      BY <1>0, <1>1, <1>2, PutBackFacts, EmptySlab
    <3>2. \A q \in live' : q = [mem |-> q.mem, idx |-> q.idx] /\ q.idx \in Indices
      BY <1>1, PutBackFacts DEF Pointers
    <3> QED BY <3>1, <3>2
  <2>2. \A q \in live' : \E j \in 1 .. n + 1 : ptrs[j] = q.mem
    BY <1>0, <1>1, PutBackFacts, InvFacts DEF LiveMemoryIsKept, Inv
  <2> QED BY <1>x, <2>1, <2>2
<1>10. released' \subseteq Mems
  BY <1>0, <1>1, <1>2, InvFacts DEF TypeOK, Inv
<1>11. actBlock' = actMem' /\ actBlock' \in 1 .. n
  <2>1. CASE i > act
    BY <1>0, <1>1, <1>2, <1>a, <2>1
  <2>2. CASE i < act
    BY <1>0, <1>1, <1>2, <1>a, <2>2
  <2>3. CASE i = act
    BY <1>0, <1>1, <1>2, <1>a, <2>3
  <2> QED BY <1>2, <2>1, <2>2, <2>3
<1>12. myCapacity' \in Nat /\ myCapacity' = Count * n
  <2>1. myCapacity = Count * (n + 1)
    BY <1>0 DEF Accounting, Inv
  <2>2. Count * (n + 1) = Count * n + Count /\ Count * n \in Nat
    BY CountType
  <2> QED BY <1>1, <2>1, <2>2, CountType
<1>13. Moved(p, i, b, n, From)
  BY <1>3, <1>6, <1>7, <1>9, <1>10, <1>11, <1>12 DEF Moved
<1> QED BY <1>1, <1>3, <1>13, VectorsMoved

-----------------------------------------------------------------------------
(* The order of the slabs.                                                  *)

\* How full a slab is: it is full when it has neither free blocks nor any to
\* merge.
LEMMA UsedIs ==
  ASSUME NEW s \in Slab
  PROVE  /\ Used(s) \in Int /\ Used(s) <= Count
         /\ Used(s) = Count <=> s.availible = {} /\ s.foreigns = {}
<1>1. /\ s.availible \in SUBSET Indices /\ s.foreigns \in SUBSET Indices
      /\ IsFiniteSet(Indices)
  BY IndicesAssumption DEF Slab
<1>2. PICK a, f : a = Cardinality(s.availible) /\ f = Cardinality(s.foreigns)
  OBVIOUS
<1>3. IsFiniteSet(s.availible) /\ IsFiniteSet(s.foreigns)
  BY <1>1, FS_Subset
<1>4. a \in Nat /\ f \in Nat /\ (a = 0 <=> s.availible = {}) /\ (f = 0 <=> s.foreigns = {})
  BY <1>2, <1>3, FS_CardinalityType, FS_EmptySet
<1>5. Used(s) = Count - (a + f)
  BY <1>2 DEF Used
<1> QED BY <1>4, <1>5, CountType

LEMMA UsedTake ==
  ASSUME NEW s \in Slab, NEW i \in s.availible
  PROVE  Used(Take(s, i)) = Used(s) + 1
<1>1. IsFiniteSet(s.availible)
  BY IndicesAssumption, FS_Subset DEF Slab
<1>2. IsFiniteSet(s.foreigns)
  BY IndicesAssumption, FS_Subset DEF Slab
<1>3. Cardinality(s.availible \ {i}) = Cardinality(s.availible) - 1
  BY <1>1, FS_RemoveElement
<1>4. Cardinality(s.availible) \in Nat /\ Cardinality(s.foreigns) \in Nat
  BY <1>1, <1>2, FS_CardinalityType
<1>5. Used(Take(s, i)) = Count - (Cardinality(s.availible \ {i}) + Cardinality(s.foreigns))
  BY TakeIs DEF Used
<1>6. Used(s) = Count - (Cardinality(s.availible) + Cardinality(s.foreigns))
  BY DEF Used
<1> QED BY <1>3, <1>4, <1>5, <1>6, CountType

LEMMA UsedGiveBack ==
  ASSUME NEW s \in Slab, NEW i \in Indices, i \notin s.availible \cup s.foreigns,
         NEW b \in BOOLEAN
  PROVE  GiveBack(s, i, b) \in Slab /\ Used(GiveBack(s, i, b)) = Used(s) - 1
<1>1. PICK t : t = GiveBack(s, i, b)
  OBVIOUS
<1>2. IsFiniteSet(s.availible) /\ IsFiniteSet(s.foreigns)
  BY IndicesAssumption, FS_Subset DEF Slab
<1>3. PICK a, f : a = Cardinality(s.availible) /\ f = Cardinality(s.foreigns)
  OBVIOUS
<1>4. a \in Nat /\ f \in Nat
  BY <1>2, <1>3, FS_CardinalityType
<1>5. /\ Cardinality(s.availible \cup {i}) = a + 1
      /\ Cardinality(s.foreigns \cup {i}) = f + 1
  BY <1>2, <1>3, FS_AddElement
<1>6. /\ t \in Slab
      /\ b => t.availible = s.availible \cup {i} /\ t.foreigns = s.foreigns
      /\ ~ b => t.availible = s.availible /\ t.foreigns = s.foreigns \cup {i}
  BY <1>1 DEF GiveBack, Slab
<1>7. Cardinality(t.availible) + Cardinality(t.foreigns) = (a + f) + 1
  <2>1. CASE b
    BY <1>3, <1>4, <1>5, <1>6, <2>1
  <2>2. CASE ~ b
    <3>1. t.availible = s.availible /\ t.foreigns = s.foreigns \cup {i}
      BY <1>6, <2>2
    <3>2. Cardinality(t.availible) = a
      BY <1>3, <3>1
    <3>3. Cardinality(t.foreigns) = f + 1
      BY <1>5, <3>1
    <3> QED BY <1>4, <3>2, <3>3
  <2> QED BY <2>1, <2>2
<1>8. Used(t) = Count - ((a + f) + 1)
  BY <1>7 DEF Used
<1>9. Used(s) = Count - (a + f)
  BY <1>3 DEF Used
<1> QED BY <1>1, <1>4, <1>6, <1>8, <1>9, CountType

\* The threshold is a fraction of a slab.
LEMMA ThresholdType == Threshold \in Nat /\ Threshold < Count
BY CountType DEF Threshold

Ordered == OrderedByFullness /\ OnlyReleaseStarves

\* The same, of a vector of slabs.
OrderedIn(v, act, none) ==
  /\ \A k \in 1 .. Len(v) : /\ k > act => Used(v[k]) > Threshold
                            /\ k < act /\ none => Used(v[k]) <= Threshold
  /\ none => Used(v[act]) < Count

LEMMA OrderedIs ==
  ASSUME slabs \in Seq(Slab)
  PROVE  Ordered <=> OrderedIn(slabs, actBlock, released = {})
<1>1. DOMAIN slabs = 1 .. Len(slabs)
  BY LenProperties
<1> QED BY <1>1 DEF Ordered, OrderedByFullness, OnlyReleaseStarves, OrderedIn, Active

\* allocate() fills the active slab, and leaves it when it is full.
LEMMA AllocateOrders ==
  ASSUME Inv, Ordered, NEW i \in Indices, Allocate(i)
  PROVE  OrderedIn(slabs', actBlock', released' = {})
<1>1. /\ slabs \in Seq(Slab) /\ Len(slabs) \in Nat /\ actBlock \in 1 .. Len(slabs)
      /\ \A k \in 1 .. Len(slabs) : slabs[k] \in Slab
  BY InvFacts DEF Fits
<1>2. HandOut(i) /\ released' = released /\ i \in Active.availible
  BY DEF Allocate, AllocateFromActive, AllocateAndMerge, AllocateAndStepBack,
         AllocateAndAddCache, HandOut
<1>3. PICK n, act : n = Len(slabs) /\ act = actBlock
  OBVIOUS
<1>4. PICK s : s = slabs[act]
  OBVIOUS
<1>5. PICK t : t = Take(s, i)
  OBVIOUS
<1>6. /\ n \in Nat /\ act \in 1 .. n /\ s \in Slab /\ s = Active /\ i \in s.availible
      /\ t \in Slab /\ t.availible = s.availible \ {i} /\ t.foreigns = s.foreigns
  BY <1>1, <1>2, <1>3, <1>4, <1>5, TakeIs DEF Active
<1>7. /\ \A k \in 1 .. n : /\ slabs[k] \in Slab
                           /\ Used(slabs[k]) \in Int
                           /\ k > act => Used(slabs[k]) > Threshold
                           /\ k < act /\ released = {} => Used(slabs[k]) <= Threshold
      /\ released = {} => Used(s) < Count
  BY <1>1, <1>3, <1>4, OrderedIs, UsedIs DEF OrderedIn
<1>8. Threshold \in Nat /\ Threshold < Count /\ Count \in Nat
  BY ThresholdType, CountType
<1>9. [slabs EXCEPT ![act] = t] \in Seq(Slab) /\ Len([slabs EXCEPT ![act] = t]) = n
      /\ \A k \in 1 .. n : [slabs EXCEPT ![act] = t][k] = IF k = act THEN t ELSE slabs[k]
  BY <1>1, <1>3, <1>6, ExceptSeq
<1>10. CASE AllocateFromActive(i)
  <2>1. /\ slabs' = [slabs EXCEPT ![act] = t] /\ actBlock' = act
        /\ ~ (s.availible = {i})
    BY <1>3, <1>4, <1>5, <1>6, <1>10 DEF AllocateFromActive, LastOne
  <2>2. Used(t) < Count
    <3>1. t.availible # {}
      BY <1>6, <2>1
    <3> QED BY <1>6, <1>8, <3>1, UsedIs
  <2> QED BY <1>2, <1>6, <1>7, <1>9, <2>1, <2>2 DEF OrderedIn
<1>11. CASE AllocateAndMerge(i)
  <2>1. PICK u : u = MergeForeigns(t)
    OBVIOUS
  <2>2. u \in Slab /\ u.availible = t.availible \cup t.foreigns
    BY <1>6, <2>1 DEF MergeForeigns, Slab
  <2>3. /\ slabs' = [slabs EXCEPT ![act] = u] /\ actBlock' = act /\ s.foreigns # {}
    BY <1>3, <1>4, <1>5, <1>6, <1>11, <2>1 DEF AllocateAndMerge
  <2>4. Used(u) < Count
    <3>1. u.availible # {}
      BY <1>6, <2>2, <2>3
    <3> QED BY <1>8, <2>2, <3>1, UsedIs
  <2>5. Len(slabs') = n /\ \A k \in 1 .. n : slabs'[k] = IF k = act THEN u ELSE slabs[k]
    BY <1>1, <1>3, <1>6, <2>2, <2>3, ExceptSeq
  <2> QED BY <1>2, <1>6, <1>7, <2>3, <2>4, <2>5 DEF OrderedIn
<1>12. CASE AllocateAndStepBack(i)
  <2>1. /\ slabs' = [slabs EXCEPT ![act] = t] /\ actBlock' = act - 1 /\ act # 1
        /\ s.availible = {i} /\ s.foreigns = {}
    BY <1>3, <1>4, <1>5, <1>6, <1>12 DEF AllocateAndStepBack, LastOne
  <2>2. Used(t) = Count
    BY <1>6, <2>1, UsedIs
  <2>3. act - 1 \in 1 .. n /\ act - 1 < act
    BY <1>6, <2>1
  <2> QED BY <1>2, <1>6, <1>7, <1>8, <1>9, <2>1, <2>2, <2>3 DEF OrderedIn
<1>13. CASE AllocateAndAddCache(i)
  <2>1. PICK v : v = [slabs EXCEPT ![act] = t]
    OBVIOUS
  <2>2. /\ slabs' = SwapIn(v, 1, NewSlab) /\ actBlock' = 1 /\ act = 1
        /\ s.availible = {i} /\ s.foreigns = {}
    BY <1>3, <1>4, <1>5, <1>6, <1>13, <2>1 DEF AllocateAndAddCache, LastOne
  <2>3. Used(t) = Count
    BY <1>6, <2>2, UsedIs
  <2>4. NewSlab \in Slab /\ NewSlab.availible = Indices
    BY DEF NewSlab, Slab
  <2>5. Used(NewSlab) < Count
    <3>1. NewSlab.availible # {}
      BY <2>4
    <3> QED BY <1>8, <2>4, <3>1, UsedIs
  <2>a. v \in Seq(Slab)
    BY <1>9, <2>1
  <2>6. v \in Seq(Slab) /\ 1 \in 1 .. Len(v) /\ Len(v) = n
    BY <1>6, <1>9, <2>1, <2>2
  <2>7. /\ Len(slabs') = n + 1 /\ slabs'[1] = NewSlab /\ slabs'[n + 1] = v[1]
        /\ \A k \in 1 .. n : k # 1 => slabs'[k] = v[k]
    <3>0. 1 \in 1 .. Len(v) /\ NewSlab \in Slab
      BY <2>4, <2>6
    <3>1. /\ SwapIn(v, 1, NewSlab) \in Seq(Slab)
          /\ Len(SwapIn(v, 1, NewSlab)) = Len(v) + 1
          /\ SwapIn(v, 1, NewSlab)[1] = NewSlab
          /\ SwapIn(v, 1, NewSlab)[Len(v) + 1] = v[1]
          /\ \A k \in 1 .. Len(v) : k # 1 => SwapIn(v, 1, NewSlab)[k] = v[k]
      BY ONLY <2>a, <3>0, SwapInFirst
    <3> QED BY <2>2, <2>6, <3>1
  <2>8. v[1] = t /\ \A k \in 1 .. n : k # 1 => v[k] = slabs[k]
    BY <1>9, <2>1, <2>2, <2>6
  <2> QED BY <1>6, <1>7, <1>8, <2>2, <2>3, <2>5, <2>7, <2>8 DEF OrderedIn
<1> QED BY <1>10, <1>11, <1>12, <1>13 DEF Allocate

\* deallocate() empties one slab, and only a slab behind the active one can
\* become too empty for its place.
LEMMA DeallocateOrders ==
  ASSUME Inv, Ordered, NEW p \in live, NEW i \in DOMAIN ptrs, NEW b \in BOOLEAN,
         Deallocate(p, i, b)
  PROVE  OrderedIn(slabs', actBlock', released' = {})
<1>1. /\ slabs \in Seq(Slab) /\ Len(slabs) \in Nat /\ actBlock \in 1 .. Len(slabs)
      /\ \A k \in 1 .. Len(slabs) : slabs[k] \in Slab
  BY InvFacts DEF Fits
<1>2. PutBack(p, i)
  BY DEF Deallocate, DeallocateOnly, DeallocateAndSplice, DeallocateAndRelease
<1>3. PICK n, act, w : n = Len(slabs) /\ act = actBlock /\ w = After(p, i, b)
  OBVIOUS
<1>4. /\ n \in Nat /\ act \in 1 .. n /\ i \in 1 .. n
      /\ w \in Seq(Slab) /\ Len(w) = n
  BY <1>1, <1>2, <1>3, PutBackFacts
<1>5. /\ \A k \in 1 .. n : w[k] \in Slab /\ (k # i => w[k] = slabs[k])
      /\ Used(w[i]) = Used(slabs[i]) - 1
  <2>1. /\ p.idx \in Indices /\ p.mem = ptrs[i] /\ ptrs[i] \in Mems
        /\ p = [mem |-> ptrs[i], idx |-> p.idx]
    BY <1>2 DEF PutBack, Inv, TypeOK, Pointers
  <2>2. PICK s : s = slabs[i]
    OBVIOUS
  <2>3. s \in Slab /\ p.idx \notin s.availible \cup s.foreigns
    BY <1>3, <1>4, <2>1, <2>2, InvFacts DEF Fits
  <2>4. PICK t : t = GiveBack(s, p.idx, b)
    OBVIOUS
  <2>5. t \in Slab /\ Used(t) = Used(s) - 1
    BY <2>1, <2>3, <2>4, UsedGiveBack
  <2>6. w = [slabs EXCEPT ![i] = t]
    BY <1>3, <2>2, <2>4 DEF After
  <2>7. \A k \in 1 .. n : w[k] = IF k = i THEN t ELSE slabs[k]
    BY <1>1, <1>3, <1>4, <2>5, <2>6, ExceptSeq
  <2> QED BY <1>1, <1>3, <1>4, <2>2, <2>5, <2>7
<1>6. /\ \A k \in 1 .. n : /\ Used(slabs[k]) \in Int /\ Used(slabs[k]) <= Count
                           /\ k > act => Used(slabs[k]) > Threshold
                           /\ k < act /\ released = {} => Used(slabs[k]) <= Threshold
      /\ released = {} => Used(slabs[act]) < Count
  BY <1>1, <1>3, OrderedIs, UsedIs DEF OrderedIn
<1>7. Threshold \in Nat /\ Threshold < Count /\ Count \in Nat
  BY ThresholdType, CountType
<1>8. CASE DeallocateOnly(p, i, b)
  <2>1. /\ slabs' = w /\ actBlock' = act /\ released' = released
        /\ ~ (Used(w[i]) <= Threshold /\ i > act)
    BY <1>3, <1>8 DEF DeallocateOnly, EmptyEnough
  <2>2. \A k \in 1 .. n : Used(w[k]) \in Int
    BY <1>5, UsedIs
  <2>3. \A k \in 1 .. n : /\ k > act => Used(w[k]) > Threshold
                          /\ k < act /\ released = {} => Used(w[k]) <= Threshold
    <3>1. ASSUME NEW k \in 1 .. n
          PROVE  /\ k > act => Used(w[k]) > Threshold
                 /\ k < act /\ released = {} => Used(w[k]) <= Threshold
      <4>1. CASE k = i
        <5>1. Used(w[k]) \in Int /\ ~ (Used(w[k]) <= Threshold /\ k > act)
          BY <2>1, <2>2, <4>1
        <5>2. Used(w[k]) = Used(slabs[k]) - 1
          BY <1>5, <4>1
        <5> QED BY <1>4, <1>6, <1>7, <5>1, <5>2, SMTT(20)
      <4>2. CASE k # i
        BY <1>5, <1>6, <4>2
      <4> QED BY <4>1, <4>2
    <3> QED BY <3>1
  <2>4. released = {} => Used(w[act]) < Count
    <3>1. CASE act = i
      BY <1>4, <1>5, <1>6, <1>7, <3>1
    <3>2. CASE act # i
      BY <1>4, <1>5, <1>6, <3>2
    <3> QED BY <3>1, <3>2
  <2> QED BY <1>4, <2>1, <2>3, <2>4 DEF OrderedIn
<1>9. CASE DeallocateAndSplice(p, i, b)
  <2>1. /\ slabs' = Splice(w, act, i) /\ actBlock' = act + 1 /\ released' = released
        /\ Used(w[i]) <= Threshold /\ i > act
    BY <1>3, <1>9 DEF DeallocateAndSplice, EmptyEnough
  <2>2. /\ Len(Splice(w, act, i)) = n
        /\ \A k \in 1 .. n : Splice(w, act, i)[k] = w[SpliceFrom(act, i, k)]
    <3>1. i \in 1 .. Len(w) /\ act \in 1 .. Len(w) /\ act < i
      BY <1>4, <2>1
    <3>2. /\ Len(Splice(w, act, i)) = Len(w)
          /\ \A k \in 1 .. Len(w) : Splice(w, act, i)[k] = w[SpliceFrom(act, i, k)]
      BY ONLY <1>4, <3>1, SpliceIs
    <3> QED BY <1>4, <3>2
  <2>3. \A k \in 1 .. n : k > act + 1 => Used(slabs'[k]) > Threshold
    <3>1. ASSUME NEW k \in 1 .. n, k > act + 1
          PROVE  Used(slabs'[k]) > Threshold
      <4>1. PICK j : j = SpliceFrom(act, i, k)
        OBVIOUS
      <4>2. j \in 1 .. n /\ j > act /\ j # i
        BY <1>4, <2>1, <3>1, <4>1 DEF SpliceFrom
      <4>3. slabs'[k] = slabs[j]
        BY <1>5, <2>1, <2>2, <4>1, <4>2
      <4> QED BY <1>6, <4>2, <4>3
    <3> QED BY <3>1
  <2>4. \A k \in 1 .. n :
          k < act + 1 /\ released = {} => Used(slabs'[k]) <= Threshold
    <3>1. ASSUME NEW k \in 1 .. n, k < act + 1, released = {}
          PROVE  Used(slabs'[k]) <= Threshold
      <4>1. CASE k = act
        <5>1. slabs'[k] = w[i]
          BY <2>1, <2>2, <4>1 DEF SpliceFrom
        <5> QED BY <2>1, <5>1
      <4>2. CASE k # act
        <5>1. k < act /\ SpliceFrom(act, i, k) = k /\ k # i
          BY <1>4, <2>1, <3>1, <4>2 DEF SpliceFrom
        <5>2. slabs'[k] = slabs[k]
          BY <1>5, <2>1, <2>2, <5>1
        <5> QED BY <1>6, <3>1, <5>1, <5>2
      <4> QED BY <4>1, <4>2
    <3> QED BY <3>1
  <2>5. act + 1 \in 1 .. n /\ slabs'[act + 1] = slabs[act]
    <3>1. act + 1 \in 1 .. n /\ SpliceFrom(act, i, act + 1) = act /\ act # i
      BY <1>4, <2>1 DEF SpliceFrom
    <3> QED BY <1>4, <1>5, <2>1, <2>2, <3>1
  <2> QED BY <1>6, <2>1, <2>2, <2>3, <2>4, <2>5 DEF OrderedIn
<1>10. CASE DeallocateAndRelease(p, i, b)
  <2>1. /\ slabs' = IF i < act THEN Erase(w, i) ELSE SwapPop(w, i)
        /\ actBlock' = CASE i > act -> act [] i < act -> act - 1 [] i = act -> n - 1
        /\ released' # {}
    BY <1>3, <1>10 DEF DeallocateAndRelease
  <2>2. n - 1 \in Nat /\ i \in 1 .. Len(w)
    BY <1>4
  <2>3. CASE i < act
    <3>1. slabs' = Erase(w, i) /\ actBlock' = act - 1
      BY <1>4, <2>1, <2>3
    <3>2. /\ Len(Erase(w, i)) = Len(w) - 1
          /\ \A k \in 1 .. Len(w) - 1 : Erase(w, i)[k] = w[EraseFrom(i, k)]
      BY ONLY <1>4, <2>2, EraseIs
    <3>3. ASSUME NEW k \in 1 .. n - 1, k > act - 1 PROVE Used(slabs'[k]) > Threshold
      <4>1. k + 1 \in 1 .. n /\ k + 1 > act /\ k + 1 # i /\ EraseFrom(i, k) = k + 1
        BY <1>4, <2>3, <3>3 DEF EraseFrom
      <4>2. slabs'[k] = slabs[k + 1]
        BY <1>4, <1>5, <3>1, <3>2, <4>1
      <4> QED BY <1>6, <4>1, <4>2
    <3> QED BY <1>4, <2>1, <3>1, <3>2, <3>3 DEF OrderedIn
  <2>4. CASE i > act
    <3>1. slabs' = SwapPop(w, i) /\ actBlock' = act
      BY <1>4, <2>1, <2>4
    <3>2. /\ Len(SwapPop(w, i)) = Len(w) - 1
          /\ \A k \in 1 .. Len(w) - 1 :
               SwapPop(w, i)[k] = w[SwapPopFrom(Len(w), i, k)]
      BY ONLY <1>4, <2>2, SwapPopIs
    <3>3. ASSUME NEW k \in 1 .. n - 1, k > act PROVE Used(slabs'[k]) > Threshold
      <4>1. PICK j : j = SwapPopFrom(n, i, k)
        OBVIOUS
      <4>2. j \in 1 .. n /\ j > act /\ j # i
        BY <1>4, <2>4, <3>3, <4>1 DEF SwapPopFrom
      <4>3. slabs'[k] = slabs[j]
        BY <1>4, <1>5, <3>1, <3>2, <4>1, <4>2
      <4> QED BY <1>6, <4>2, <4>3
    <3> QED BY <1>4, <2>1, <3>1, <3>2, <3>3 DEF OrderedIn
  <2>5. CASE i = act
    <3>1. slabs' = SwapPop(w, i) /\ actBlock' = n - 1
      BY <1>4, <2>1, <2>5
    <3>2. Len(SwapPop(w, i)) = Len(w) - 1
      BY ONLY <1>4, <2>2, SwapPopIs
    <3>3. \A k \in 1 .. Len(slabs') : ~ (k > actBlock')
      BY <1>4, <3>1, <3>2
    <3> QED BY <2>1, <3>3 DEF OrderedIn
  <2> QED BY <1>4, <2>3, <2>4, <2>5
<1> QED BY <1>8, <1>9, <1>10 DEF Deallocate

\* A new cache is in order, and every call keeps it so.
LEMMA OrderInit == Init => Ordered
<1> SUFFICES ASSUME Init PROVE Ordered
  OBVIOUS
<1>1. slabs = <<NewSlab>> /\ actBlock = 1
  BY DEF Init
<1>2. NewSlab \in Slab /\ NewSlab.availible = Indices
  BY DEF NewSlab, Slab
<1>3. Used(NewSlab) < Count
  <2>1. Indices # {}
    BY IndicesAssumption, CountType, FS_EmptySet DEF Count
  <2> QED BY <1>2, <2>1, UsedIs, CountType
<1>4. slabs \in Seq(Slab) /\ Len(slabs) = 1 /\ slabs[1] = NewSlab
  BY <1>1, <1>2
<1>5. OrderedIn(slabs, actBlock, released = {})
  BY <1>1, <1>3, <1>4 DEF OrderedIn
<1> QED BY <1>4, <1>5, OrderedIs

LEMMA OrderStep == Inv /\ Inv' /\ Ordered /\ [Next]_vars => Ordered'
<1> SUFFICES ASSUME Inv, Inv', Ordered, [Next]_vars PROVE Ordered'
  OBVIOUS
<1>1. slabs \in Seq(Slab) /\ slabs' \in Seq(Slab)
  BY DEF Inv, TypeOK
<1>2. OrderedIn(slabs', actBlock', released' = {}) => Ordered'
  <2>1. DOMAIN slabs' = 1 .. Len(slabs')
    BY <1>1, LenProperties
  <2> QED BY <2>1 DEF Ordered, OrderedByFullness, OnlyReleaseStarves, OrderedIn, Active
<1>3. ASSUME NEW i \in Indices, Allocate(i) PROVE Ordered'
  BY <1>2, <1>3, AllocateOrders
<1>4. CASE AllocateOverrun
  BY <1>4 DEF AllocateOverrun, Ordered, OrderedByFullness, OnlyReleaseStarves, Active
<1>5. ASSUME NEW p \in live, NEW i \in DOMAIN ptrs, NEW b \in BOOLEAN,
             Deallocate(p, i, b)
      PROVE  Ordered'
  BY <1>2, <1>5, DeallocateOrders
<1>6. CASE UNCHANGED vars
  BY <1>6 DEF vars, Ordered, OrderedByFullness, OnlyReleaseStarves, Active
<1> QED BY <1>3, <1>4, <1>5, <1>6 DEF Next

-----------------------------------------------------------------------------
(* The theorems.                                                            *)

\* A new cache holds one slab, with all of its blocks.
LEMMA CacheInit == Init => Inv
<1> SUFFICES ASSUME Init PROVE Inv
  OBVIOUS
<1>1. PICK m \in Mems : ptrs = <<m>> /\ blocks = Mems \ {m}
  BY DEF Init
<1>2. NewSlab \in Slab
  BY DEF NewSlab, Slab
<1>3. /\ slabs = <<NewSlab>> /\ actBlock = 1 /\ actMem = 1 /\ mySize = 0
      /\ myCapacity = Count /\ live = {} /\ released = {} /\ overrun = FALSE
  BY DEF Init
<1>4. TypeOK
  <2>1. /\ slabs \in Seq(Slab) /\ Len(slabs) = 1
        /\ ptrs \in Seq(Mems) /\ Len(ptrs) = 1
    BY <1>1, <1>2, <1>3
  <2>2. live \subseteq Pointers /\ released \subseteq Mems /\ blocks \subseteq Mems
    BY <1>1, <1>3
  <2>3. mySize \in Nat /\ myCapacity \in Nat /\ overrun \in BOOLEAN
    BY <1>3, CountType
  <2>4. actBlock \in 1 .. Len(slabs) /\ actMem \in 1 .. Len(ptrs)
    BY <1>3, <2>1
  <2> QED BY <2>1, <2>2, <2>3, <2>4 DEF TypeOK
<1>5. SlabsManageTheirMemory
  BY <1>1, <1>3 DEF SlabsManageTheirMemory, NewSlab, LiveIn
<1>6. LiveMemoryIsKept
  BY <1>1, <1>3 DEF LiveMemoryIsKept
<1>7. Accounting /\ IsFiniteSet(live)
  BY <1>3, CountType, FS_EmptySet DEF Accounting
<1> QED BY <1>4, <1>5, <1>6, <1>7 DEF Inv

\* Every call keeps it.
LEMMA CacheStep == Inv /\ [Next]_vars => Inv'
<1> SUFFICES ASSUME Inv, [Next]_vars PROVE Inv'
  OBVIOUS
<1>1. ASSUME NEW i \in Indices, Allocate(i) PROVE Inv'
  BY <1>1, FromActiveStep, AndMergeStep, AndStepBackStep, AndAddCacheStep DEF Allocate
<1>2. ASSUME AllocateOverrun PROVE Inv'
  BY <1>2 DEF AllocateOverrun, Inv, TypeOK, SlabsManageTheirMemory, LiveIn,
              LiveMemoryIsKept, Accounting
<1>3. ASSUME NEW p \in live, NEW i \in DOMAIN ptrs, NEW b \in BOOLEAN,
             Deallocate(p, i, b)
      PROVE  Inv'
  BY <1>3, OnlyStep, AndSpliceStep, AndReleaseStep DEF Deallocate
<1>4. CASE UNCHANGED vars
  BY <1>4 DEF vars, Inv, TypeOK, SlabsManageTheirMemory, LiveIn,
              LiveMemoryIsKept, Accounting
<1> QED BY <1>1, <1>2, <1>3, <1>4 DEF Next

\* So the invariant holds throughout.
LEMMA CacheInvariant == Spec => []Inv
BY CacheInit, CacheStep, PTL DEF Spec

\* The state stays in its types: in particular there always is an active slab,
\* also when the cache steps back, moves slabs or releases the active one.
THEOREM CacheTyping == Spec => []TypeOK
<1>1. Inv => TypeOK
  BY DEF Inv
<1> QED BY <1>1, CacheInvariant, PTL

\* spliceBoth(), addCache() and memToDispatch() keep the two vectors in step:
\* each slab accounts for every block of the memory it manages.
THEOREM VectorsInStep == Spec => []SlabsManageTheirMemory
<1>1. Inv => SlabsManageTheirMemory
  BY DEF Inv
<1> QED BY <1>1, CacheInvariant, PTL

\* deallocate() finds every block that is in use, and memToDispatch() releases
\* no memory with such a block.
THEOREM NoLiveMemoryReleased == Spec => []LiveMemoryIsKept
<1>1. Inv => LiveMemoryIsKept
  BY DEF Inv
<1> QED BY <1>1, CacheInvariant, PTL

\* The counters that allocate() and deallocate() keep are right.
THEOREM CountersAreRight == Spec => []Accounting
<1>1. Inv => Accounting
  BY DEF Inv
<1> QED BY <1>1, CacheInvariant, PTL

\* The cache is an allocator: it never hands out a block that is in use.
THEOREM SlabCacheImplementsHeap == Spec => ImplementsHeap
<1>1. Init => H!Init
  BY DEF Init, H!Init
<1>2. ASSUME Inv, [Next]_vars PROVE [H!Next]_(H!vars)
  <2>1. ASSUME NEW i \in Indices, Allocate(i) PROVE H!Next
    <3>1. HandOut(i)
      BY <2>1 DEF Allocate, AllocateFromActive, AllocateAndMerge,
                  AllocateAndStepBack, AllocateAndAddCache
    <3>2. [mem |-> ptrs[actMem], idx |-> i] \in Pointers \ live
      BY <1>2, <3>1, HandOutFacts
    <3>3. H!Allocate([mem |-> ptrs[actMem], idx |-> i])
      BY <3>1, <3>2 DEF HandOut, H!Allocate
    <3> QED BY <3>2, <3>3 DEF H!Next
  <2>2. ASSUME AllocateOverrun PROVE UNCHANGED H!vars
    BY <2>2 DEF AllocateOverrun, H!vars
  <2>3. ASSUME NEW p \in live, NEW i \in DOMAIN ptrs, NEW b \in BOOLEAN,
               Deallocate(p, i, b)
        PROVE  H!Next
    <3>1. PutBack(p, i)
      BY <2>3 DEF Deallocate, DeallocateOnly, DeallocateAndSplice, DeallocateAndRelease
    <3>2. H!Deallocate(p)
      BY <3>1 DEF PutBack, H!Deallocate
    <3>3. p \in Pointers
      BY <1>2 DEF Inv, TypeOK
    <3> QED BY <3>2, <3>3 DEF H!Next
  <2>4. CASE UNCHANGED vars
    BY <2>4 DEF vars, H!vars
  <2> QED BY <1>2, <2>1, <2>2, <2>3, <2>4 DEF Next
<1> QED BY <1>1, <1>2, CacheInvariant, PTL DEF Spec, ImplementsHeap, H!Spec

\* So the order holds throughout.
LEMMA OrderInvariant == Spec => []Ordered
<1>1. Inv /\ Ordered /\ [Next]_vars => (Inv /\ Ordered)'
  BY CacheStep, OrderStep
<1>2. Init => Inv /\ Ordered
  BY CacheInit, OrderInit
<1> QED BY <1>1, <1>2, PTL DEF Spec

\* The slabs behind the active one are more than threshold full, and, until
\* memory is released, those before it are at most that: allocate() may step
\* back to the slab before the active one and deallocate() need look at one
\* slab only.
THEOREM SlabsStayOrdered == Spec => []OrderedByFullness
<1>1. Ordered => OrderedByFullness
  BY DEF Ordered
<1> QED BY <1>1, OrderInvariant, PTL

\* As long as no memory was released, allocate() finds a block that is free or
\* can be merged in the active slab.
THEOREM ReleaseAloneStarves == Spec => []OnlyReleaseStarves
<1>1. Ordered => OnlyReleaseStarves
  BY DEF Ordered
<1> QED BY <1>1, OrderInvariant, PTL
=============================================================================
