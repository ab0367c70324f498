------------------------------ MODULE SlabObj ------------------------------
(***************************************************************************)
(* SlabObj beside SlabMem, over the same operator new.  SlabObj has one    *)
(* cache for a type, whose blocks are objects from the moment their slab   *)
(* is made until it is destroyed.                                          *)
(***************************************************************************)
EXTENDS SlabMem

CONSTANTS
  Pool,        \* SlabObjImpl::Interface<T, Xtors>::storage
  PoolCounts   \* What addCache() is called with.

ASSUME PoolAssumption == /\ Stores = Caches \cup {Pool} /\ Pool \notin Caches
                         /\ PoolCounts \subseteq Nat \ {0}

\* Blocks have addresses of their own, which size_t can count.
ASSUME SpaceAssumption ==
  /\ IsFiniteSet(Mems)
  /\ \A c \in Caches, n \in AddedCounts : Cardinality(Mems) * RoundedCount(c, n) < Modulus
  /\ \A n \in PoolCounts : Cardinality(Mems) * RoundedCount(Pool, n) < Modulus

VARIABLES
  objects,     \* The blocks that are objects: constructed by a slab, and not yet
               \* destroyed with it.
  out          \* History: objects with callers.

objVars == <<objects, out>>
vars    == <<helperVars, memVars, objVars>>

-----------------------------------------------------------------------------
Object(m, i) == [mem |-> m, idx |-> i]

Init == InitMem /\ objects = {} /\ out = {}

\* A slab constructs its objects when it gets its memory, and destroys them
\* before it gives that back.
SlabsMakeObjects ==
  objects' = {o \in objects : o.mem \in heap'}
               \cup {Object(m, i) : m \in heap' \ heap, i \in 0 .. count'[Pool] - 1}

\* addCache(): the pool that was there is destroyed, objects with callers, too.
AddPool(n, m) ==
  /\ NewCacheIn(Pool, RoundedCount(Pool, n), m)
  /\ SlabsMakeObjects
  /\ out' = {}
  /\ UNCHANGED memVars

\* The caller gets an object as its last owner left it.
AllocateObj(m, i) ==
  /\ AllocateIn(Pool, m, i)
  /\ SlabsMakeObjects
  /\ out' = out \cup {Object(m, i)}
  /\ UNCHANGED memVars

AllocateObjAstray ==
  /\ AllocateOverrun(Pool)
  /\ UNCHANGED <<memVars, objVars>>

\* destruct() is called on it, and nothing constructs it again; the model counts
\* it as an object until its slab goes.
DeallocateObj(o) ==
  /\ DeallocateIn(Pool, o.mem, o.idx)
  /\ SlabsMakeObjects
  /\ out' = out \ {o}
  /\ UNCHANGED memVars

FreeAllObj == FreeAllIn(Pool) /\ SlabsMakeObjects /\ out' = {} /\ UNCHANGED memVars

FreeEmptyObj == FreeEmptyIn(Pool) /\ SlabsMakeObjects /\ UNCHANGED <<out, memVars>>

NextObj ==
  \/ \E n \in PoolCounts, m \in Mems : AddPool(n, m)
  \/ \E m \in Mems, i \in Indices(Pool) : AllocateObj(m, i)
  \/ AllocateObjAstray
  \/ \E o \in out : DeallocateObj(o)
  \/ FreeAllObj \/ FreeEmptyObj

Next == (NextMem /\ UNCHANGED objVars) \/ NextObj

Spec == Init /\ [][Next]_vars

-----------------------------------------------------------------------------
(* Properties.                                                              *)

\* Every variable keeps its type.
TypeOK ==
  /\ HelperTypeOK
  /\ live \cup leaked \subseteq [mem : Mems, idx : Nat, bytes : Requests]
  /\ objects \cup out \subseteq [mem : Mems, idx : Nat]

LargeBlocks == {p \in Held : Served(p.bytes) = {}}

\* Each block is either free in its slab or held by one caller, and the slab
\* of a block that is held is in the cache that deallocate() will look in.
BlocksAccounted ==
  /\ \A c \in Stores : \A s \in SlabsOf(c) :
       s.availible = {i \in Indices(c) : /\ Object(s.mem, i) \notin out
                                         /\ \A p \in Held : p.mem # s.mem \/ p.idx # i}
  /\ \A p \in Held \ LargeBlocks : \E c \in Caches :
       Serves(c, p.bytes) /\ p.mem \in MemsOf(c)
  /\ \A p, q \in Held : p.mem = q.mem /\ p.idx = q.idx => p = q

\* Memory that operator new has given out is in one place: a list of a cache,
\* where it is managed by one slab, or with the caller of a large block.  None
\* leaks, and none is given back while it is in use.
HeapIsManaged ==
  /\ heap = (UNION {MemsOf(c) : c \in Stores}) \cup {p.mem : p \in LargeBlocks}
  /\ \A c \in Stores : Cardinality(MemsOf(c)) = SlabCount(c)
  /\ \A c, d \in Stores : c # d => MemsOf(c) \cap MemsOf(d) = {}
  /\ \A c \in Stores, p \in LargeBlocks : p.mem \notin MemsOf(c)

\* The size is the number of blocks held, and the capacity that of blocks in
\* the slabs, until freeEmpty() lowers it by something else.
CountersRight ==
  /\ \A c \in Caches : mySize[c] = Cardinality({p \in Held : Serves(c, p.bytes)})
  /\ mySize[Pool] = Cardinality(out)
  /\ \A c \in Stores \ emptied : myCapacity[c] = count[c] * SlabCount(c)

\* An object is there while its block is in the pool, whoever has it, through
\* all moves of its slab, and freeing the pool destroys as many objects as its
\* capacity says (SlabTests.cpp, FreeAll_Objs).
ObjectsLive ==
  /\ objects = {Object(m, i) : m \in MemsOf(Pool), i \in Indices(Pool)}
  /\ out \subseteq objects
  /\ Pool \notin emptied => Cardinality(objects) = myCapacity[Pool]
=============================================================================
