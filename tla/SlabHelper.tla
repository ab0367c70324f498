----------------------------- MODULE SlabHelper -----------------------------
(***************************************************************************)
(* SlabImpl::Cache, which SlabMem and SlabObj have in common: a cache keeps *)
(* its slabs in three lists, those with all of their blocks free, with     *)
(* some, and with none.  Not thread safe: one action per call, on the path *)
(* that it takes.  The modules that extend this one add the callers.       *)
(***************************************************************************)
EXTENDS Integers, Sequences, FiniteSets, Functions, Vectors

CONSTANTS
  Stores,      \* The caches of the program.
  BlockSize,   \* The size of their blocks.
  PageSize,
  Mems,        \* What operator new returns.
  NoMem,       \* nullptr
  Modulus      \* size_t counts modulo this.

ASSUME SizesAssumption == /\ BlockSize \in [Stores -> Nat \ {0}]
                          /\ PageSize \in Nat \ {0} /\ Modulus \in Nat \ {0}
ASSUME MemsAssumption == NoMem \notin Mems

VARIABLES
  count,       \* Blocks per slab of each cache.
  slabsFree, slabsPart, slabsFull,   \* Its lists.
  mySize, myCapacity,
  heap,        \* Memory that operator new has given out.
  emptied,     \* History: caches from which freeEmpty() took slabs.
  overrun      \* Caches where an iterator was used after its slab had left.

lists      == <<slabsFree, slabsPart, slabsFull>>
helperVars == <<count, lists, mySize, myCapacity, heap, emptied, overrun>>

-----------------------------------------------------------------------------
Indices(c) == 0 .. count[c] - 1

SlabsOf(c) == Range(slabsFree[c]) \cup Range(slabsPart[c]) \cup Range(slabsFull[c])

MemsOf(c) == {s.mem : s \in SlabsOf(c)}

Pages(bytes) == (bytes + PageSize - 1) \div PageSize

\* nearestPageSz() of n blocks, in blocks.
RoundedCount(c, n) == (Pages(n * BlockSize[c]) * PageSize) \div BlockSize[c]

\* The indices are uint16_t, which nothing checks: this is a slab of the code as
\* long as n is 2^16 at most.
NewSlab(m, n) == [mem |-> m, availible |-> 0 .. n - 1]

\* Mutant: the memory is not taken from the slab that is moved.
MovedFrom_MemKept(s) == [s EXCEPT !.availible = {}]

\* What Slab(Slab&&) and operator=(Slab&&) leave behind.
MovedFrom(s) == [mem |-> NoMem, availible |-> {}]

\* Mutant: a slab does not give its memory back.
DeletedBy_Nothing(S) == {}

\* The memory that the destructors of these slabs give back.
DeletedBy(S) == {s.mem : s \in S} \ {NoMem}

Unused == Mems \ heap

-----------------------------------------------------------------------------
(* allocate(): block i of memory m is handed out.                           *)

Take(s, i) == [s EXCEPT !.availible = @ \ {i}]

HandOut(c) ==
  /\ overrun = {}
  /\ mySize' = [mySize EXCEPT ![c] = (@ + 1) % Modulus]
  /\ UNCHANGED <<count, emptied, overrun>>

\* The first slab with some blocks free has more than one.
AllocateFromPart(c, m, i) ==
  /\ slabsPart[c] # <<>>
  /\ LET s == Head(slabsPart[c])
     IN s.mem = m /\ i \in s.availible /\ s.availible # {i}
  /\ HandOut(c)
  /\ slabsPart' = [slabsPart EXCEPT ![c][1] = Take(@, i)]
  /\ UNCHANGED <<slabsFree, slabsFull, myCapacity, heap>>

\* Mutant: the slab stays where it is.
AllocateLast_NotMoved(c, m, i) ==
  /\ slabsPart[c] # <<>>
  /\ Head(slabsPart[c]).mem = m /\ Head(slabsPart[c]).availible = {i}
  /\ HandOut(c)
  /\ slabsPart' = [slabsPart EXCEPT ![c][1] = Take(@, i)]
  /\ UNCHANGED <<slabsFree, slabsFull, myCapacity, heap>>

\* Its last block: the slab moves to the full ones.  splice() leaves an empty
\* slab at the back of the list it comes from, and destroys that.
AllocateLast(c, m, i) ==
  /\ slabsPart[c] # <<>>
  /\ Head(slabsPart[c]).mem = m /\ Head(slabsPart[c]).availible = {i}
  /\ HandOut(c)
  /\ slabsFull' = [slabsFull EXCEPT ![c] = Append(@, Take(Head(slabsPart[c]), i))]
  /\ slabsPart' = [slabsPart EXCEPT ![c] = SwapPop(@, 1)]
  /\ heap' = heap \ DeletedBy({MovedFrom(Head(slabsPart[c]))})
  /\ UNCHANGED <<slabsFree, myCapacity>>

\* The first free slab is opened.
AllocateFromFree(c, m, i) ==
  /\ slabsPart[c] = <<>> /\ slabsFree[c] # <<>>
  /\ LET s == Head(slabsFree[c])
     IN /\ s.mem = m /\ i \in s.availible /\ s.availible # {i}
        /\ slabsPart' = [slabsPart EXCEPT ![c] = Append(@, Take(s, i))]
        /\ slabsFree' = [slabsFree EXCEPT ![c] = SwapPop(@, 1)]
        /\ heap' = heap \ DeletedBy({MovedFrom(s)})
  /\ HandOut(c)
  /\ UNCHANGED <<slabsFull, myCapacity>>

\* newSlab(), out of fresh memory; it is opened at once.
AllocateFromNew(c, m, i) ==
  /\ slabsPart[c] = <<>> /\ slabsFree[c] = <<>>
  /\ m \in Unused
  /\ i \in Indices(c) /\ Indices(c) # {i}
  /\ HandOut(c)
  /\ myCapacity' = [myCapacity EXCEPT ![c] = (@ + count[c]) % Modulus]
  /\ slabsPart' = [slabsPart EXCEPT ![c] = <<Take(NewSlab(m, count[c]), i)>>]
  /\ heap' = (heap \cup {m}) \ DeletedBy({MovedFrom(NewSlab(m, count[c]))})
  /\ UNCHANGED <<slabsFree, slabsFull>>

\* The slab that is opened has one block: it is moved twice, the second time
\* by an iterator into a list that it has left.  Undefined behaviour; the
\* model stops there.
AllocateOverrun(c) ==
  /\ overrun = {}
  /\ slabsPart[c] = <<>>
  /\ \/ slabsFree[c] # <<>> /\ Cardinality(Head(slabsFree[c]).availible) = 1
     \/ slabsFree[c] = <<>> /\ Unused # {} /\ count[c] = 1
  /\ overrun' = {c}
  /\ UNCHANGED <<count, lists, mySize, myCapacity, heap, emptied>>

AllocateIn(c, m, i) == \/ AllocateFromPart(c, m, i) \/ AllocateLast(c, m, i)
                       \/ AllocateFromFree(c, m, i) \/ AllocateFromNew(c, m, i)

-----------------------------------------------------------------------------
(* deallocate(): block i of memory m comes back.                            *)

\* Mutant: blocks are counted from one.
GiveBack_OffByOne(s, i) == [s EXCEPT !.availible = @ \cup {i + 1}]

GiveBack(s, i) == [s EXCEPT !.availible = @ \cup {i}]

\* Mutant: the size is left as it is.
PutBack_SizeKept(c) ==
  /\ overrun = {}
  /\ UNCHANGED <<count, mySize, myCapacity, emptied, overrun>>

PutBack(c) ==
  /\ overrun = {}
  /\ mySize' = [mySize EXCEPT ![c] = (@ - 1) % Modulus]
  /\ UNCHANGED <<count, myCapacity, emptied, overrun>>

\* Mutant: the slab moves on although one block is free.
DeallocateToFull_Free(c, m, i) ==
  \E k \in DOMAIN slabsFull[c] :
    LET s == slabsFull[c][k]
    IN /\ s.mem = m
       /\ PutBack(c)
       /\ slabsFree' = [slabsFree EXCEPT ![c] = Append(@, GiveBack(s, i))]
       /\ slabsFull' = [slabsFull EXCEPT ![c] = SwapPop(@, k)]
       /\ heap' = heap \ DeletedBy({MovedFrom(s)})
       /\ UNCHANGED slabsPart

\* Its slab was full.
DeallocateToFull(c, m, i) ==
  \E k \in DOMAIN slabsFull[c] :
    LET s == slabsFull[c][k]
    IN /\ s.mem = m
       /\ PutBack(c)
       /\ slabsPart' = [slabsPart EXCEPT ![c] = Append(@, GiveBack(s, i))]
       /\ slabsFull' = [slabsFull EXCEPT ![c] = SwapPop(@, k)]
       /\ heap' = heap \ DeletedBy({MovedFrom(s)})
       /\ UNCHANGED slabsFree

\* It had other blocks free; with all of them free it moves on.
DeallocateToPart(c, m, i) ==
  \E k \in DOMAIN slabsPart[c] :
    LET s == GiveBack(slabsPart[c][k], i)
    IN /\ s.mem = m
       /\ PutBack(c)
       /\ UNCHANGED slabsFull
       /\ \/ /\ s.availible # Indices(c)
             /\ slabsPart' = [slabsPart EXCEPT ![c][k] = s]
             /\ UNCHANGED <<slabsFree, heap>>
          \/ /\ s.availible = Indices(c)
             /\ slabsFree' = [slabsFree EXCEPT ![c] = Append(@, s)]
             /\ slabsPart' = [slabsPart EXCEPT ![c] = SwapPop(@, k)]
             /\ heap' = heap \ DeletedBy({MovedFrom(s)})

DeallocateIn(c, m, i) == DeallocateToFull(c, m, i) \/ DeallocateToPart(c, m, i)

-----------------------------------------------------------------------------
\* freeAll()
FreeAllIn(c) ==
  /\ overrun = {}
  /\ slabsFree' = [slabsFree EXCEPT ![c] = <<>>]
  /\ slabsPart' = [slabsPart EXCEPT ![c] = <<>>]
  /\ slabsFull' = [slabsFull EXCEPT ![c] = <<>>]
  /\ myCapacity' = [myCapacity EXCEPT ![c] = 0]
  /\ mySize' = [mySize EXCEPT ![c] = 0]
  /\ heap' = heap \ DeletedBy(SlabsOf(c))
  /\ emptied' = emptied \ {c}
  /\ UNCHANGED <<count, overrun>>

\* Mutant: the slabs with some blocks free go, too.
FreeEmptyIn_PartToo(c) ==
  /\ overrun = {}
  /\ slabsFree[c] # <<>>
  /\ slabsFree' = [slabsFree EXCEPT ![c] = <<>>]
  /\ slabsPart' = [slabsPart EXCEPT ![c] = <<>>]
  /\ heap' = heap \ DeletedBy(Range(slabsFree[c]) \cup Range(slabsPart[c]))
  /\ emptied' = emptied \cup {c}
  /\ UNCHANGED <<count, slabsFull, mySize, myCapacity, overrun>>

\* freeEmpty().  The capacity, counted in blocks, is lowered by the bytes of a
\* block for each slab.
FreeEmptyIn(c) ==
  /\ overrun = {}
  /\ slabsFree[c] # <<>>
  /\ myCapacity' = [myCapacity EXCEPT
                      ![c] = (@ - Len(slabsFree[c]) * BlockSize[c]) % Modulus]
  /\ slabsFree' = [slabsFree EXCEPT ![c] = <<>>]
  /\ heap' = heap \ DeletedBy(Range(slabsFree[c]))
  /\ emptied' = emptied \cup {c}
  /\ UNCHANGED <<count, slabsPart, slabsFull, mySize, overrun>>

\* Cache(blockSize, count) takes the place of the cache that was there.
NewCacheIn(c, n, m) ==
  /\ overrun = {}
  /\ m \in Unused
  /\ count' = [count EXCEPT ![c] = n]
  /\ slabsFree' = [slabsFree EXCEPT ![c] = <<NewSlab(m, n)>>]
  /\ slabsPart' = [slabsPart EXCEPT ![c] = <<>>]
  /\ slabsFull' = [slabsFull EXCEPT ![c] = <<>>]
  /\ myCapacity' = [myCapacity EXCEPT ![c] = n]
  /\ mySize' = [mySize EXCEPT ![c] = 0]
  /\ heap' = (heap \cup {m}) \ DeletedBy(SlabsOf(c))
  /\ emptied' = emptied \ {c}
  /\ UNCHANGED overrun

-----------------------------------------------------------------------------
(* Properties of the lists, whoever calls.                                  *)

Slab(c) == [mem : Mems, availible : SUBSET Indices(c)]

\* Lists hold slabs of their cache; the counters are of type size_t.
HelperTypeOK ==
  /\ count \in [Stores -> Nat]
  /\ \A list \in {slabsFree, slabsPart, slabsFull} :
       DOMAIN list = Stores /\ \A c \in Stores : list[c] \in Seq(Slab(c))
  /\ mySize \in [Stores -> 0 .. Modulus - 1]
  /\ myCapacity \in [Stores -> 0 .. Modulus - 1]
  /\ heap \subseteq Mems
  /\ emptied \cup overrun \subseteq Stores

SlabCount(c) == Len(slabsFree[c]) + Len(slabsPart[c]) + Len(slabsFull[c])

\* Every slab is in the list that tells how full it is, whatever was taken,
\* given back and moved between the lists: findFreeSlab() relies on it.
InRightList ==
  \A c \in Stores :
    /\ \A s \in Range(slabsFree[c]) : s.availible = Indices(c)
    /\ \A s \in Range(slabsPart[c]) : s.availible \notin {{}, Indices(c)}
    /\ \A s \in Range(slabsFull[c]) : s.availible = {}

\* An iterator is used in a list that its slab has left only in caches whose
\* slabs have one block: a slab that is opened has all of its blocks.
OnlySingleBlocksOverrun == \A c \in overrun : count[c] = 1
=============================================================================
