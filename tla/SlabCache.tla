------------------------------ MODULE SlabCache ------------------------------
(***************************************************************************)
(* ImplSlabMulti::Cache: the blocks of one size that belong to one thread. *)
(* A slab is a piece of memory cut into Count blocks.  The vector of slabs *)
(* and the vector of the memory they manage run in parallel, each with an  *)
(* iterator to the active slab, the one allocate() takes from.             *)
(*                                                                         *)
(* One action per call, on the path the call takes: calls do not overlap   *)
(* here.  The owner allocates; the owner and other threads deallocate.     *)
(* Which of its free blocks a slab hands out is left open.                 *)
(***************************************************************************)
EXTENDS Naturals, Sequences, FiniteSets, Vectors

CONSTANTS
  Mems,        \* The blocks of the dispatcher, SLAB_SIZE bytes each.
  Indices      \* The blocks of a slab.

Count     == Cardinality(Indices)       \* blocksPerSlab
Threshold == Count \div 4               \* int(count * freeThreshold)
MinSlabs  == 1                          \* MIN_SLABS

ASSUME IndicesAssumption == IsFiniteSet(Indices) /\ Count >= 2
ASSUME MemsAssumption    == Mems # {}

Slab     == [availible : SUBSET Indices, foreigns : SUBSET Indices]
Pointers == [mem : Mems, idx : Indices]

VARIABLES
  slabs,       \* The slabs, in the order of the vector.
  ptrs,        \* The memory they manage, in the same order.
  actBlock,    \* Position of the active slab in slabs.
  actMem,      \* Position of its memory in ptrs.
  mySize,
  myCapacity,
  blocks,      \* GlobalDispatch::blocks.
  live,        \* History: blocks handed out and not given back.
  released,    \* History: memory taken out of the cache again.
  overrun      \* allocate() has taken a block off an empty vector.

vars == <<slabs, ptrs, actBlock, actMem, mySize, myCapacity, blocks, live,
          released, overrun>>

\* Every variable keeps its type; both iterators point into their vector.
TypeOK ==
  /\ slabs \in Seq(Slab)
  /\ ptrs \in Seq(Mems)
  /\ actBlock \in 1 .. Len(slabs)
  /\ actMem \in 1 .. Len(ptrs)
  /\ mySize \in Nat
  /\ myCapacity \in Nat
  /\ blocks \subseteq Mems
  /\ live \subseteq Pointers
  /\ released \subseteq Mems
  /\ overrun \in BOOLEAN

-----------------------------------------------------------------------------
(* Slabs.                                                                   *)

NewSlab == [availible |-> Indices, foreigns |-> {}]

\* Slab::size(), the number of blocks in use.
Used(s) == Count - (Cardinality(s.availible) + Cardinality(s.foreigns))

Empty(s) == Used(s) = 0

\* Mutant: the block stays in the vector.
Take_Kept(s, i) == s

Take(s, i) == [s EXCEPT !.availible = @ \ {i}]

GiveBack(s, i, thisThread) ==
  IF thisThread THEN [s EXCEPT !.availible = @ \cup {i}]
                ELSE [s EXCEPT !.foreigns  = @ \cup {i}]

MergeForeigns(s) ==
  [availible |-> s.availible \cup s.foreigns, foreigns |-> {}]

-----------------------------------------------------------------------------
Init ==
  /\ \E m \in Mems : ptrs = <<m>> /\ blocks = Mems \ {m}
  /\ slabs = <<NewSlab>>
  /\ actBlock = 1 /\ actMem = 1
  /\ mySize = 0 /\ myCapacity = Count
  /\ live = {} /\ released = {} /\ overrun = FALSE

(* allocate().                                                              *)

Active == slabs[actBlock]

\* Block i of the active slab goes to the caller.
HandOut(i) ==
  /\ ~ overrun
  /\ i \in Active.availible
  /\ live' = live \cup {[mem |-> ptrs[actMem], idx |-> i]}
  /\ mySize' = mySize + 1
  /\ UNCHANGED <<released, overrun>>

LastOne(i) == Active.availible = {i}

\* The common case: the active slab has more.
AllocateFromActive(i) ==
  /\ HandOut(i)
  /\ ~ LastOne(i)
  /\ slabs' = [slabs EXCEPT ![actBlock] = Take(@, i)]
  /\ UNCHANGED <<ptrs, actBlock, actMem, myCapacity, blocks>>

\* Its last one, but other threads have given some back meanwhile.
AllocateAndMerge(i) ==
  /\ HandOut(i)
  /\ LastOne(i) /\ Active.foreigns # {}
  /\ slabs' = [slabs EXCEPT ![actBlock] = MergeForeigns(Take(@, i))]
  /\ UNCHANGED <<ptrs, actBlock, actMem, myCapacity, blocks>>

\* Mutant: begin() is not looked at.
AllocateAndStepBack_Unguarded(i) ==
  /\ HandOut(i)
  /\ LastOne(i) /\ Active.foreigns = {}
  /\ slabs' = [slabs EXCEPT ![actBlock] = Take(@, i)]
  /\ actBlock' = actBlock - 1
  /\ actMem' = actMem - 1
  /\ UNCHANGED <<ptrs, myCapacity, blocks>>

\* The slab is full: the one before it becomes active.
AllocateAndStepBack(i) ==
  /\ HandOut(i)
  /\ LastOne(i) /\ Active.foreigns = {}
  /\ actBlock # 1
  /\ slabs' = [slabs EXCEPT ![actBlock] = Take(@, i)]
  /\ actBlock' = actBlock - 1
  /\ actMem' = actMem - 1
  /\ UNCHANGED <<ptrs, myCapacity, blocks>>

\* Mutant: the capacity is not raised.
AllocateAndAddCache_NoCapacity(i) ==
  /\ HandOut(i)
  /\ LastOne(i) /\ Active.foreigns = {}
  /\ actBlock = 1
  /\ \E m \in blocks : /\ ptrs' = SwapIn(ptrs, actBlock, m)
                       /\ blocks' = blocks \ {m}
  /\ slabs' = SwapIn([slabs EXCEPT ![actBlock] = Take(@, i)], actBlock, NewSlab)
  /\ actMem' = actBlock
  /\ UNCHANGED <<actBlock, myCapacity>>

\* There is none before it: addCache(), and the new slab takes its place.
AllocateAndAddCache(i) ==
  /\ HandOut(i)
  /\ LastOne(i) /\ Active.foreigns = {}
  /\ actBlock = 1
  /\ \E m \in blocks : /\ ptrs' = SwapIn(ptrs, actBlock, m)
                       /\ blocks' = blocks \ {m}
  /\ slabs' = SwapIn([slabs EXCEPT ![actBlock] = Take(@, i)], actBlock, NewSlab)
  /\ myCapacity' = myCapacity + Count
  /\ actMem' = actBlock
  /\ UNCHANGED actBlock

\* availible.back() and pop_back() on an empty vector: undefined behaviour.
\* The model stops there.
AllocateOverrun ==
  /\ ~ overrun
  /\ Active.availible = {}
  /\ overrun' = TRUE
  /\ UNCHANGED <<slabs, ptrs, actBlock, actMem, mySize, myCapacity, blocks,
                 live, released>>

-----------------------------------------------------------------------------
(* deallocate().                                                            *)

\* The block goes back to the slab at position i, which contains it.
PutBack(p, i) ==
  /\ ~ overrun
  /\ p \in live
  /\ i \in DOMAIN ptrs /\ ptrs[i] = p.mem
  /\ live' = live \ {p}
  /\ mySize' = mySize - 1
  /\ UNCHANGED <<blocks, overrun>>

After(p, i, thisThread) ==
  [slabs EXCEPT ![i] = GiveBack(@, p.idx, thisThread)]

\* Mutant: any slab is moved.
EmptyEnough_Always(i, s) == i > actBlock

\* The slab is empty enough to be allocated from again soon.
EmptyEnough(i, s) == Used(s) <= Threshold /\ i > actBlock

\* Mutant: the slab need not be empty.
Spare_NotEmpty(s) == Len(slabs) > MinSlabs /\ mySize > myCapacity - Count

\* mySize still counts the block that is being given back.
Spare(s) == Empty(s) /\ Len(slabs) > MinSlabs /\ mySize > myCapacity - Count

DeallocateOnly(p, i, thisThread) ==
  LET after == After(p, i, thisThread)
  IN /\ PutBack(p, i)
     /\ ~ EmptyEnough(i, after[i]) /\ ~ Spare(after[i])
     /\ slabs' = after
     /\ UNCHANGED <<ptrs, actBlock, actMem, myCapacity, released>>

\* Mutant: only the slabs are moved.
DeallocateAndSplice_SlabsOnly(p, i, thisThread) ==
  LET after == After(p, i, thisThread)
  IN /\ PutBack(p, i)
     /\ EmptyEnough(i, after[i])
     /\ slabs' = Splice(after, actBlock, i)
     /\ actBlock' = actBlock + 1
     /\ actMem' = actMem + 1
     /\ UNCHANGED <<ptrs, myCapacity, released>>

\* spliceBoth()
DeallocateAndSplice(p, i, thisThread) ==
  LET after == After(p, i, thisThread)
  IN /\ PutBack(p, i)
     /\ EmptyEnough(i, after[i])
     /\ slabs' = Splice(after, actBlock, i)
     /\ ptrs' = Splice(ptrs, actMem, i)
     /\ actBlock' = actBlock + 1
     /\ actMem' = actMem + 1
     /\ UNCHANGED <<myCapacity, released>>

\* memToDispatch(): the slab leaves the cache; its memory goes nowhere.
DeallocateAndRelease(p, i, thisThread) ==
  LET after == After(p, i, thisThread)
  IN /\ PutBack(p, i)
     /\ ~ EmptyEnough(i, after[i]) /\ Spare(after[i])
     /\ released' = released \cup {ptrs[i]}
     /\ myCapacity' = myCapacity - Count
     /\ slabs' = IF i < actBlock THEN Erase(after, i) ELSE SwapPop(after, i)
     /\ ptrs'  = IF i < actBlock THEN Erase(ptrs, i)  ELSE SwapPop(ptrs, i)
     /\ actBlock' = CASE i > actBlock -> actBlock
                      [] i < actBlock -> actBlock - 1
                      [] i = actBlock -> Len(slabs) - 1
     /\ actMem' = IF i > actBlock THEN actMem ELSE actBlock'

-----------------------------------------------------------------------------
Allocate(i) == \/ AllocateFromActive(i)  \/ AllocateAndMerge(i)
               \/ AllocateAndStepBack(i) \/ AllocateAndAddCache(i)

Deallocate(p, i, thisThread) == \/ DeallocateOnly(p, i, thisThread)
                                \/ DeallocateAndSplice(p, i, thisThread)
                                \/ DeallocateAndRelease(p, i, thisThread)

Next == \/ \E i \in Indices : Allocate(i)
        \/ AllocateOverrun
        \/ \E p \in live, i \in DOMAIN ptrs, b \in BOOLEAN : Deallocate(p, i, b)

Spec == Init /\ [][Next]_vars

-----------------------------------------------------------------------------
(* Properties.                                                              *)

LiveIn(m) == {i \in Indices : [mem |-> m, idx |-> i] \in live}

\* Slab k is the one that manages ptrs[k], through all the moves of the two
\* vectors: each of its blocks is free once, or given back once by another
\* thread, or in use, and never two of these.
SlabsManageTheirMemory ==
  /\ Len(slabs) = Len(ptrs) /\ actBlock = actMem
  /\ \A k \in DOMAIN ptrs :
       LET s == slabs[k]
       IN /\ s.availible \cap s.foreigns = {}
          /\ s.availible \cup s.foreigns = Indices \ LiveIn(ptrs[k])

\* Memory with blocks in use is in the cache, in one place, so deallocate()
\* finds every block; no cache has memory that getBlock() may give to another.
LiveMemoryIsKept ==
  /\ \A p \in live : \E k \in DOMAIN ptrs : ptrs[k] = p.mem
  /\ \A j, k \in DOMAIN ptrs : ptrs[j] = ptrs[k] => j = k
  /\ \A k \in DOMAIN ptrs : ptrs[k] \notin blocks

\* The counters that decide about releasing memory.
Accounting ==
  /\ mySize = Cardinality(live)
  /\ myCapacity = Count * Len(slabs)

\* The slabs behind the active one are more than threshold full, so that
\* allocate() is right not to look at them; those before it are nearly empty,
\* until memory is released.
OrderedByFullness ==
  \A k \in DOMAIN slabs :
    /\ k > actBlock => Used(slabs[k]) > Threshold
    /\ k < actBlock /\ released = {} => Used(slabs[k]) <= Threshold

\* The active slab has a block that is not in use, until memory is released:
\* only the release of an active slab makes a full slab active.
OnlyReleaseStarves == released = {} => Used(Active) < Count

\* allocate() always finds a free block in the active slab.
AllocateFindsBlock == ~ overrun

-----------------------------------------------------------------------------
\* No block is handed out twice, and the size is the number of blocks in use.
H == INSTANCE Heap WITH size <- mySize

\* The cache implements it.
ImplementsHeap == H!Spec
=============================================================================
