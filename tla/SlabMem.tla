------------------------------ MODULE SlabMem ------------------------------
(***************************************************************************)
(* SlabMem: a row of caches of growing block size, and operator new for    *)
(* what is too large for all of them.                                      *)
(*                                                                         *)
(* The caches are there from the start, as Slab.h demands ("SlabMem        *)
(* requires all caches be added before allocations begin").                *)
(***************************************************************************)
EXTENDS SlabHelper

CONSTANTS
  Buckets,     \* The caches of SlabMem: the first Buckets numbers.
  AddedCounts, \* The numbers of blocks that addCache() is called with.
  Requests     \* The bytes callers ask for.

Caches == 1 .. Buckets

ASSUME BucketsAssumption == Buckets \in Nat /\ Caches \subseteq Stores
ASSUME AddedAssumption   == AddedCounts \subseteq Nat \ {0}
ASSUME RequestsAssumption == Requests \subseteq Nat

VARIABLES
  live,        \* History: blocks handed out and not given back or freed.
  leaked       \* History: blocks that freeAll() should have freed.

memVars == <<live, leaked>>

-----------------------------------------------------------------------------
Served(bytes) == {c \in Caches : BlockSize[c] >= bytes}

\* The first cache with large enough blocks serves a request.
Serves(c, bytes) == c \in Served(bytes) /\ \A d \in Served(bytes) : c <= d

Block(m, i, bytes) == [mem |-> m, idx |-> i, bytes |-> bytes]

\* addCache() of each, in order; other caches begin without a slab.
InitMem ==
  /\ \E n \in [Caches -> AddedCounts] :
       count = [c \in Stores |-> IF c \in Caches THEN RoundedCount(c, n[c]) ELSE 0]
  /\ \E m \in [Caches -> Mems] :
       /\ \A c, d \in Caches : m[c] = m[d] => c = d
       /\ slabsFree = [c \in Stores |-> IF c \in Caches
                                        THEN <<NewSlab(m[c], count[c])>> ELSE <<>>]
       /\ heap = {m[c] : c \in Caches}
  /\ slabsPart = [c \in Stores |-> <<>>]
  /\ slabsFull = [c \in Stores |-> <<>>]
  /\ mySize = [c \in Stores |-> 0]
  /\ myCapacity = count
  /\ emptied = {} /\ overrun = {}
  /\ live = {} /\ leaked = {}

Allocate(bytes, m, i) ==
  /\ \E c \in Caches : Serves(c, bytes) /\ AllocateIn(c, m, i)
  /\ live' = live \cup {Block(m, i, bytes)}
  /\ UNCHANGED leaked

AllocateAstray(bytes) ==
  /\ \E c \in Caches : Serves(c, bytes) /\ AllocateOverrun(c)
  /\ UNCHANGED memVars

\* No cache has blocks of that size.
AllocateLarge(bytes, m) ==
  /\ overrun = {}
  /\ Served(bytes) = {}
  /\ m \in Unused
  /\ heap' = heap \cup {m}
  /\ live' = live \cup {Block(m, 0, bytes)}
  /\ UNCHANGED <<count, lists, mySize, myCapacity, emptied, overrun, leaked>>

\* The caller says how many bytes it had asked for.
Deallocate(p) ==
  /\ \E c \in Caches : Serves(c, p.bytes) /\ DeallocateIn(c, p.mem, p.idx)
  /\ live' = live \ {p}
  /\ UNCHANGED leaked

\* operator delete is told the count and not the bytes, and takes back all of it.
DeallocateLarge(p) ==
  /\ overrun = {}
  /\ Served(p.bytes) = {}
  /\ heap' = heap \ {p.mem}
  /\ live' = live \ {p}
  /\ UNCHANGED <<count, lists, mySize, myCapacity, emptied, overrun, leaked>>

\* freeFunc() returns after the first cache that matches; with 0 that is the
\* first of all.
Matches(size, c) ==
  /\ size = 0 \/ BlockSize[c] = size
  /\ \A d \in Caches : size = 0 \/ BlockSize[d] = size => c <= d

\* The callers take every block for freed that they were told is.
FreeAll(size, c) ==
  LET told    == {p \in live : \E d \in Caches : /\ Serves(d, p.bytes)
                                                 /\ size = 0 \/ BlockSize[d] = size}
      reached == {p \in live \cup leaked : Serves(c, p.bytes)}
  IN /\ Matches(size, c)
     /\ FreeAllIn(c)
     /\ live' = live \ told
     /\ leaked' = (leaked \cup told) \ reached

FreeEmpty(size, c) == Matches(size, c) /\ FreeEmptyIn(c) /\ UNCHANGED memVars

-----------------------------------------------------------------------------
Sizes == {0} \cup {BlockSize[c] : c \in Caches}

NextMem ==
  \/ \E bytes \in Requests :
       \/ \E m \in Mems : \E i \in UNION {Indices(c) : c \in Caches} : Allocate(bytes, m, i)
       \/ AllocateAstray(bytes)
       \/ \E m \in Mems : AllocateLarge(bytes, m)
  \/ \E p \in live : Deallocate(p) \/ DeallocateLarge(p)
  \/ \E size \in Sizes, c \in Caches : FreeAll(size, c) \/ FreeEmpty(size, c)

Held == live \cup leaked
=============================================================================
