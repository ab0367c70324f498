# Allocators in TLA+

Specifications of the allocator library in this repository, model-checked with
TLC and, for the parts marked so below, proved with TLAPS.  All paths are
relative to the root of the repository.  `A/` stands for `src/Allocators/`.

- [The system](#the-system): inventory of the components
- [The modules](#the-modules): what models what, and how
- [The runs](#the-runs): what TLC checks, with which bounds
- [The proofs](#the-proofs): what holds for every value of the constants
- [What the checks found](#what-the-checks-found)
- [What is not modelled](#what-is-not-modelled)
- [Plan](#plan)

## The system

The library has three families of allocators and a lock.  Only SlabMulti and
what it rests on (SharedMutex, SmpContainer, SlabMultiDispatcher) is meant for
threads; the others are sequential.

| component | state | operations | what makes it correct |
|---|---|---|---|
| **SharedMutex** (`A/SharedMutex.h`) | `spLock`; a flag and an id per slot; per thread a `tmap` from mutex to slot | `lock_shared`, `try_lock_shared`, `unlock_shared`, `lock`, `unlock`, registration on first use, release of the slot when the thread ends | a writer excludes readers and writers; nobody waits for ever; a slot has one owner |
| **SlabMulti: Slab, Cache** (`A/ImplSlabMulti.h`) | per slab the free blocks (`availible`) and those given back by others (`foreigns`); per cache two parallel vectors with an iterator each, and two counters | `allocate` by the owner, `deallocate` by anyone; inside: `addCache`, `spliceBoth`, `memToDispatch`, `mergeForeigns` | a block is handed out once; slabs and memory stay in step; memory in use is never released; the active slab has a block |
| **SlabMulti: Bucket, Interface, handle** (`A/ImplSlabMulti.h`, `A/SlabMulti.h`) | a bucket of caches per thread in an SmpMap; a reference count | registration of a thread, search of the own bucket and then of all others, copying of handles | a block is found wherever its owner is; nobody waits in a circle; the state is deleted once, with the last handle (which the code does not do: finding 4) |
| **SmpContainer** (`A/SmpContainer.h`) | a container and a `SharedMutex<8>` | `emplace` under `lock`, `findDo` and `iterate` under `lock_shared` | nobody reads the container while it is changed |
| **GlobalDispatch** (`A/SlabMultiDispatcher.h`) | memory for slabs, in batches; vectors of indices | `getBlock`, `returnBlock` (called from nowhere), `getIndicies` | a piece of memory has one user |
| **FreeList** (`A/FreeList.h`) | the free chunks by address, `bytesFree`; a header before each block in use | `allocate` (first fit), `deallocate`, `freeAll`; three policies for how chunks are stored | blocks and chunks do not overlap, no byte is lost, neighbours coalesce |
| **SlabHelper: Cache** (`A/SlabHelper.h`) | lists of free, part and full slabs, two counters | `allocate`, `deallocate`, `freeAll`, `freeEmpty` | a slab is in the list that tells how full it is |
| **SlabMem** (`A/SlabMem.h`, `A/Slab.h`) | a row of such caches | `addCache`, `allocate`, `deallocate`, `freeAll`, `freeEmpty` | a block returns to the cache it came from; capacity and size are right |
| **SlabObj** (`A/SlabObj.h`, `A/Slab.h`) | one such cache per type and pair of constructor and destructor | as SlabMem, with objects that are constructed with their slab | an object lives exactly as long as its slab, through all moves of that |
| **Linear** (`A/Linear.h`) | one static region per size and a bump index | `allocate`, `reset` | blocks do not overlap or leave the region |
| AllocHelpers, TMP, Buddy, Pool | none | type and rounding helpers; two stubs | |
| Tests, Bench, main | none of their own | callers | |

How they interact.  `Interface::allocate` runs `Bucket::allocate` inside
`SmpMap::findDo`, that is under the shared lock of the map; `Bucket` calls
`Cache`, which has a `SharedMutex<32>` of its own (`A/ImplSlabMulti.h:146`) and takes
it exclusively to move slabs, and when the active slab is full; a new slab asks `GlobalDispatch`, a static object behind a
`std::mutex`.  `Interface::deallocate` tries the caller's bucket and then all
others, each search under a new shared lock.  SlabMem and SlabObj call the
Cache of SlabHelper directly.  FreeList and Linear stand alone.

What is hard to test in this code:

- SharedMutex: instructions of readers, writers and of threads that register
  or end interleave freely.
- SlabMulti's Cache: long sequences of legal calls decide which slab is active,
  in front of it or behind it; other threads move slabs around a block.
- FreeList: headers, cut chunks and coalescence have to agree on sizes in any
  order of calls; `size_type` may be one byte wide.
- SlabMulti as a whole: calls of several threads overlap; a position found under
  one lock is used under the next.
- SlabHelper: iterators are used across moves between lists; slabs that were
  moved from are destroyed, and must not take anything with them.

The list of these hazards, line by line and with the properties that watch
them, is `hazards` in PROJECT.json.

## The modules

| module | models | actions are |
|---|---|---|
| `RWLock` | what callers expect of a reader/writer lock | acquisitions and releases |
| `SharedMutex` | `A/SharedMutex.h`, all of it | atomic instructions |
| `SharedMutexProofs` | theorems about it | |
| `Heap` | what callers expect of an allocator | `allocate`, `deallocate` |
| `Heaps` | the same of one with a cache for each thread | `allocate`, `deallocate` |
| `SlabCache` | Slab and Cache of `A/ImplSlabMulti.h`, and `getBlock` | calls, on the path they take |
| `SlabCacheProofs` | theorems about it | |
| `Vectors` | the moves inside vectors that the slab caches are made of | (operators) |
| `VectorsProofs` | what each move does to a vector of anything | |
| `SlabMulti` | `A/ImplSlabMulti.h`, Interface of `A/SlabMulti.h`, SmpMap, `getBlock` | what a call does between two points where others may come in |
| `SlabMultiProofs` | theorems about it | |
| `Handles` | copies of a SlabMulti and their reference count | atomic operations on the count, and what follows them |
| `HandlesProofs` | theorems about it | |
| `FreeList` | `A/FreeList.h` | calls |
| `FreeListProofs` | theorems about it | |
| `SlabHelper` | Cache of `A/SlabHelper.h`, for the two below | calls, on the path they take |
| `SlabMem` | Interface of `A/SlabMem.h`; EXTENDS SlabHelper | calls |
| `SlabObj` | `A/SlabObj.h`; EXTENDS SlabMem, which it runs beside | calls |
| `SlabObjProofs` | theorems about it, and with it about SlabMem and SlabHelper | |
| `MC...` | constants and bounds for TLC | |

`MCSharedMutex`, `MCSlabCache`, `MCSlabMulti`, `MCHandles`, `MCFreeList` and
`MCSlabObj` EXTEND the module of their name.  Definitions that begin with the name of another and an
underscore, and carry the comment "Mutant", are faulty variants that stand next
to the definition they vary; no specification uses them.

### SharedMutex

`spLock`, `flag` and `id` are the fields of the mutex and of its array; `mapped`
and `index` are each thread's `tmap`.  `pc` says which atomic instruction a
thread executes next and a thread that spins is one whose next action is not
enabled.  `lock_shared()` is `CallShared` (entry, look-up), then `ClaimSlot`,
`SkipSlot`, `NoSlotLeft`, `SetId` for the loop of `registerThread()`, then
`GateOpen` (the load of `spLock` that reads false) and `Announce` (the store of
`SharedLock`), or `SpillAcquire` for a thread without slot.  `lock()` is
`CallLock`, `LockSpill`, one `ScanSlot` for each flag, `ScanDone`.
`~ThreadRegister` is `Exit` and `DropSlot`.  After it the name of the thread
stands for a new thread.

`late` is a history variable: the readers between `GateOpen` and `Announce` at
the moment `lock()` took `spLock`.  `RWLock` has the same leak on purpose: a
writer may come in beside a bounded set of stragglers, and SharedMutex is shown
to implement it with as many stragglers as slots.

Memory is sequentially consistent.  The code uses acquire, release and relaxed
orders, so what is shown here is a best case: the faults found do not depend on
reordering, and what is proved is about the algorithm and not about the orders.

### SlabCache

One action per call, split by the branch it takes: allocation from the active
slab, with a merge of `foreigns`, with a step back to the slab before it, with
a new slab; deallocation without a move, with `spliceBoth()`, with
`memToDispatch()`.  `thisThread` tells the owner from others.  Calls do not
overlap in this module.  Which free block a slab hands out is left open (the
code takes the last one of the vector), so everything shown holds for any
order.  Taking a block off an empty vector is undefined behaviour:
`AllocateOverrun` records it in `overrun` and nothing happens after that.
`live` and `released` are history.

`ImplementsHeap` is the refinement: `live` and `mySize` behave as `Heap` says,
so no block that is in use is handed out.

### FreeList

`availible` maps the address of each free chunk to its size; vector, list and
map policies differ in how they find a place, not in what they store.  `Add`
is `add()` with its coalescence on both sides, and keeps its two
peculiarities: on an empty list the size is entered as it is given, otherwise
with `headerSize` on top.  Sizes count modulo `Modulus`, the width of
`size_type`.  A block in use is its address, the size its header holds and the
bytes the caller asked for.  The model stops when a caller is given memory
that is in use or outside the region (`clash`).  `headerLost` and `overcounts`
are history; they say which of the peculiarities has come into play.

### SlabMulti

The whole of a call of `allocate()` or `deallocate()`, of several threads at once:
`CallAllocate` and `CallDeallocate` begin one, `FindOwn` and `FindNone` are `findDo()`
of the caller's bucket under the map's shared lock, `Build` and `Emplace`
`registerThread()`.  `visit` is the bucket a thread is at.

`mapMutex` and `mutex` are the map's mutex and those of the caches: who has set
`spLock`, and who reads.  They work as SharedMutex should, with a slot for each
thread: `lock_shared()` goes through while `spLock` is not set (`Open`), also when
the writer that has set it still waits for readers; `lock()` is two steps, one that
takes `spLock` (`ClaimMap`, `ClaimCache`) and one that finds no readers any more
(`Exclusive`), which is that of the section it protects.  `lock_shared()` is part of
the step that comes after it, except in `iterate()` (`EnterMap`), which holds the map
while it waits for caches.  So a thread that would have to wait has no step.

In `allocate()`, `Take` is the part without a lock, `FullMerge`, `FullStepBack` and
`FullAddCache` are the section under the cache's mutex (`InFull`), and `CountUp` the
atomic addition after it.  In `deallocate()`, `SearchOwn` and `SearchNext` find the slab
and give the block back, `Look` is `emptyAndSize()` under the spin lock, `Decide` the
two conditions with the unlock that follows, and `MoveSplice` and `MoveRelease` the
sections under the exclusive lock, with the position `it` and the size `used` of
before.  `CountDown` is the atomic subtraction.  What the spin lock protects is one
step.

As the mutexes are correct here, what this module shows is not due to finding 1.
While a thread may be moving slabs, a read of
`actBlock` and `actMem` by their owner is a data race (`TakeRacing`): undefined
behaviour, like `back()` of an empty vector (`TakeFromNone`) and an iterator
that does not point into its vector (`MoveAstray`).  `broken` says which one was
met, and nothing happens after it.  `emplace_back()` may or may not move a vector to
new memory; iterators that others hold dangle if it does (`FullAddCache`).

`NoDeadlock` says that among any threads there is one that waits for none of them
(`Blockers`).  It reads the locks as they are, so a call that kept one, or took them
in another order, would break it.

`outdated` and `stale` are history: the threads whose `it` or `used` may not be
what they were when they were read, and whether one of these has gone on to move
slabs.  `LiveMemoryIsKept` and `EveryBlockIsFound` say that nothing is lost
without that.  `missed` are the blocks no cache took back.

`ImplementsHeaps` is the refinement: `Heaps` is `Heap` with a size for each owner, and
says of each pointer whose cache it is from.  The size of an owner is what its
cache counts, corrected by the calls that have not counted yet: allocation takes
effect at `Take`, deallocation when the block is put into a slab.

### Handles

`interfacePtr` is a handle's, None if there is no such handle.  `Destroy` and
`Assign` are the decrement, `Delete` what follows when it was the last, `Repoint`
the end of an assignment.  A handle is used by one thread at a time, so a
thread's call and its handle are one (`pc`); several calls may read the same
handle.  `assigned` counts how often a handle was made to point to an interface
without being counted.  `RefsBalance` says that this is the only thing that makes the
count wrong, and `OnlyAssignmentsDeleteEarly` that it takes an assignment for an
interface to be deleted twice, or under a handle.  `DeletedWithLastHandle` is what the
class is for: the interface is deleted once, with the last handle.  The code does not
do that (finding 4).  Nothing is done through a handle whose interface is gone.

### SlabHelper, SlabMem, SlabObj

Three lists per cache, as sequences: `SwapPop` is the swap with the last slab
and `pop_back()` of `splice()`.  What `pop_back()` and `clear()` destroy gives
its memory back (`DeletedBy`), and a slab that was moved from has none
(`MovedFrom`): `heap` is what `operator new` has given out.  Unused memory may be
given out again, so a slab that loses its memory too early would soon
share it with another.

`Serves(c, bytes)` says which cache of SlabMem a request goes to, the first with
large enough blocks; what is too large for all of them goes to `operator new`
(`AllocateLarge`).  `Matches` is the loop of `freeFunc()`, which returns at the first cache.
`live` is what callers hold, `leaked` what `freeAll()` did not reach although they were
told so, `emptied` where `freeEmpty()` has been.

A slab of one block is moved twice by one iterator; the model records the
cache in `overrun` and stops.  Such a cache is not contrived: `addCache()` rounds
`blockSize * count` up to pages and divides by `blockSize`, which is one for
every block larger than half of those pages.

SlabObj has one more cache, `Pool`.  `SlabsMakeObjects` follows its memory: a slab
constructs its objects when it gets memory and destroys them when it gives it
back, whatever moves in between.  `objects` are those there are; a block that
`destruct()` has been at, by `deallocate()`, stays one of them.  `AddPool` is
`addCache()`, which callers may call again: it destroys the pool that was there, with
all its objects.

## The runs

| run | shows | bounds |
|---|---|---|
| `mutex_registration` | slots are claimed, used and given back, with every operation in use, and no two threads share one | 3 threads, 2 slots |
| `mutex_exclusion` | exclusion up to late readers, progress, implementation of RWLock | 3 threads, 2 slots, 2 of them writers |
| `mutex_overlap` | violation: a reader and a writer inside together | 3 threads, 1 writer |
| `slab_cache` | slabs and memory in step, counters right, order of slabs, implementation of Heap | 3 pieces of memory of 4 blocks |
| `slab_cache_starved` | violation: `allocate()` finds no free block in the active slab, which was full when it became active | the same |
| `slab_multi` | overlapping calls: blocks have one holder and are found, sizes are right, nobody waits in a circle, implementation of Heaps | 3 threads, 1 of them allocates; 3 pieces of memory of 2 blocks |
| `slab_multi_release` | violation: a slab is released with a block in use | the same |
| `handles` | the count is right up to assignments, and so is what is deleted | 4 handles, 2 interfaces, 3 assignments to each |
| `handles_left` | violation: an interface is there without a handle | the same |
| `free_list` | no overlap, no loss, coalescence, `bytesFree` | 9 bytes, header of 1, `size_type` of 4 bits |
| `free_list_clash` | violation: a block is handed out over another | 10 bytes |
| `slab_obj` | lists, blocks, memory, counters and objects agree | 2 caches and a pool, 4 pieces of memory |

Why the bounds are enough for the cases to happen:

- **Threads and slots.**  With three threads and two slots one thread is left to
  the spill path while the two others race for the same slot; a scan passes one
  slot while the other's owner is between two instructions.  Two writers, so
  that they meet on `spLock` and one of them also reads.
- **Slabs.**  With four blocks the threshold is one (`int(4 * 0.25)`), so that a
  slab can be empty, at the threshold, above it and full.  Three slabs give a
  slab on either side of the active one.  When the supply `Mems` is used up
  `AllocateAndAddCache` is not enabled; the code would go on with more
  memory, which is a larger instance.
- **FreeList.**  Nine bytes hold three blocks and the chunks between them.  The
  requests are nothing at all, two sizes, and 15, whose sum with the header
  wraps to 0.  `MaxOvercounts` = 1 bounds how often a chunk is entered too long:
  every further one only makes the list more wrong, and the properties except
  `ClashesExplained`, `TypeOK` and what `NothingLost` says of `bytesFree` are about
  lists without any.
- **SlabMulti.**  Two threads that only deallocate, so that one holds a position
  while the other, or the owner, moves slabs.  The owner gets up to three slabs of
  two blocks while the others have no bucket, which is a slab on either side of the
  active one; they need a piece of memory each when they register, and their
  searches go through the buckets of all.  When `Mems` is used up, threads that need
  more stay where they are; the code would go on, which is a larger instance.
  With two blocks the threshold is 0: a slab is spliced when it is empty.  One
  thread allocates: caches of several owners have nothing in common but the map,
  and in that the deallocating threads have buckets, too, each with a slab.
  `MCNext` starts no new call once slabs were moved by an outdated position;
  calls under way go on, so what that leads to is seen.
- **Handles.**  Four handles: one that is assigned, one that it is assigned from,
  one more at each interface.  One assignment makes a deletion with the last
  handle, two make one under a handle, the third is one more.
- **SlabObj.**  SlabMem has a cache of blocks of one unit, slabs of three blocks,
  and one of blocks of three, slabs of one or two (pages are three units); the
  pool has slabs of one or three objects.  Four pieces of memory, so that slabs
  move between lists while another grows, and memory is used again.  Bounds in
  `MCNext`: blocks held and objects out are four together, one block leaked;
  `freeEmpty()` at one cache, and once before its next
  `freeAll()`, since the capacity drifts each time.

Symmetry is used for memory (and not in runs with liveness), where no action
compares or orders the elements.

`CHECK_DEADLOCK FALSE` stands where the model really stops.  `mutex_registration`:
a caller that is told a wrong answer by `try_lock_shared()` goes off with `spLock`
set and everyone else waits for ever.  `slab_cache`, `free_list`, `slab_obj` and
`slab_multi`: the model stops at undefined behaviour, or at an overlap; `handles`:
all interfaces have been used up.  `mutex_exclusion` checks for deadlock, and
`slab_multi` has `NoDeadlock` for it: that also sees some threads wait for each
other while others go on, and tells waiting from undefined behaviour and from
memory that is used up.

**Fairness** is weak fairness of each thread's `Step`: a thread inside a call or
a section is scheduled again and again, and every section ends (in this
repository sections are scopes of lock guards around bounded work).  There is
none for `Call`: a thread need never lock, and need never end.  Weak fairness does
not promise a spinning thread that its exchange ever succeeds, which is why
`LockReturns` asks only about the case that the other users of `spLock` stay
away, and `SomeoneGetsIn` about progress of the whole.

Liveness (`WriterDrainsReaders`, `LockReturns`, `SomeoneGetsIn`,
`SlotsComeBack`) is model-checked only.

## The proofs

All constants are arbitrary, up to the named assumptions next to their
declarations.  SharedMutex: `NumSlots` is a natural number, callers are threads,
`NoThread` is not one.  SlabCache and SlabMulti: a slab has a finite number of
blocks, at least two (the code's slabs have `SLAB_SIZE` bytes and blocks of half
of that at most); there is memory for the first slab; those who allocate are
threads; `Nobody` is not one and `None` is not a pointer.  Handles: there are finitely
many, and `None` is neither a handle nor an interface nor a number.  FreeList: the
region has room for a header and more than one byte, and its size fits `size_type`,
as `FindSizeT` chooses it.  SlabObj: memory is finite, and a cache that had all of it
could still count its blocks in a `size_t` (`SpaceAssumption`; blocks have addresses
of their own, and `size_t` counts those).  TLC evaluates each of them.

**SharedMutexProofs.**

- `Typing`, `SlotOwnership`, `FlagsAreReaders`, `IdsAreOwners` hold whatever the
  callers do.  They need each other: that `ClaimSlot` takes a slot without an
  owner follows from `SlotsOwnedOnce`, that `UnlockShared` and `DropSlot` touch
  only the flag of their own slot from `Stages` (what `mapped`, `index`
  and `pos` are at each `pc`), and that no reader loses its slot from
  `FlagTellsReader`.  The inductive invariant `RegInv` is their conjunction.
- `SpillLockExcludes`, `OverlapIsLate` assume `TryCallers = {}`: the wrong answer of
  `try_lock_shared()` breaks both (below, "Seen while
  modelling").  `OnlyLateReadersOverlap`
  speaks of the moment a writer is inside and is not inductive; `LateReaders`
  adds what holds during the scan: a reader with a slot that the scan has
  passed, or one that is about to raise its flag, is late.
- `NoSlotsNoOverlap`: `SharedMutex<0>`, which `A/main.cpp` instantiates, is a
  correct lock.
- `SharedMutexImplementsRWLock`: every step is a step of RWLock or a stutter.
  `WriterGetsIn` is the step that counts: the stragglers are the late readers,
  and they have different slots.

**SlabCacheProofs.**  `CacheTyping`, `VectorsInStep`, `NoLiveMemoryReleased`,
`CountersAreRight` and `SlabCacheImplementsHeap`.  The inductive invariant `Inv`
is the conjunction of the four invariants and of `live` being finite.  No part
is inductive alone: that the released slab has no live block needs
`SlabsManageTheirMemory` (an empty slab accounts for all of its memory), that
`mySize` stays a natural number needs `Accounting`, and that the block goes back to
the slab it came from needs that no memory is in two places.  The lemmas
of VectorsProofs are used once for slabs and once for memory.

`SlabsStayOrdered` and `ReleaseAloneStarves` are about the order of the slabs (`Ordered`),
which is inductive beside `Inv`: `Inv` says that a block that is given back was in use,
so that its slab has one less (`UsedGiveBack`).  Only a slab behind the active one
can become too empty for its place, and `deallocate()` looks at just that.

The theorems listed also cover behaviours after the faults below, up to
`overrun`: what breaks is that the active slab has a block, and not that
slabs and memory belong together.

**SlabMultiProofs.**  `Typing`, `MemoryIsManaged`, `KeepsLiveMemory`, `FindsEveryBlock`,
`CountsSizes`, `NeverAllWait` and `HeapsAreImplemented`, for any number of threads whose
calls overlap in any way.  The inductive invariant is about what a thread in the
middle of a call may rely on:

- `Places`: which bucket a thread is at, by its `pc`; `Blocks`: which block its call is
  about, and that no other call is about the same; `Buckets`: a thread has one
  bucket, and slabs from the moment it builds it.
- `Memory`: each slab accounts for the blocks of its memory, which belongs to one
  slab of one cache.  `SlabsManageTheirMemory` follows, and is not inductive since it
  does not say that owners of blocks are registered.
- `Positions`: what a thread that is not outdated knows of the slab at its position:
  that it is there, that nobody holds a block of it if it is to be released, that it
  is behind the active one if it is to be spliced.  `LiveMemoryIsKept` needs it.
- `Searches`: the owner of the block is in a bucket that the search has not passed.
  New buckets come at the end of the map, so this survives registrations, and
  `EveryBlockIsFound` needs it.
- `Sizes`: `SizesCount`, with the finiteness that makes its cardinalities numbers.

- `MapLocks` and `CacheLocks`: who has a lock, by its `pc` and the bucket it is at.

`NeverAllWait` turns on the last two.  They order the threads that wait: who has the
`spLock` of a cache waits at most for threads that look at a slab of it, and those
wait for nobody; who is in the map waits at most for who has a cache; who has the
map's `spLock` waits for who is in the map; and all others wait for who has that.  So
whoever comes first in this order among some threads waits for none of them.

For `HeapsAreImplemented` every step but `Take` and the return of a block is a stutter,
because what a counting step adds to `mySize` it takes off the set of calls that
have not counted.

**FreeListProofs.**  `Typing`, `ClashesHaveACause`, `PiecesStayApart`, `ChunksCoalesce` and
`NoByteIsLost`, for every region, header, width and set of requests.  `ListIsRight`
is the part the others turn on: until a chunk is cut beside others, chunks are
apart and none meets the next.  `AddIs` shows that `add()` keeps that of a block that
lies clear of all chunks: it first puts the new chunk between its neighbours
(`PutBetween`), which are the only ones it can meet, and merges with one, the other or
both (`CoalesceIs`, `MergeMeeting`).  That blocks are clear of the chunks is
`BlocksAreClear`, which in turn needs `BlocksFit`: a block that has not clashed is as long
as was asked for, no matter how the sizes wrap.  `RightListNeverClashes` gives
`ClashesExplained`.

`NoByteIsLost` has two parts.  That every byte is covered by a chunk or a block is
`BytesCovered`, in the invariant.  That `bytesFree` is right is about a sum over the
blocks in use, which the community modules define by recursion.  `SumRemove` shows
that any block may be taken out of the sum, by looking at a smallest set where
that fails (`SmallestSet`, from `WFMin` over strict subsets); the rest is arithmetic
modulo the width (`ModIsUnique`, `WrapsOnce`).

**SlabObjProofs.**  `Typing`, `SlabsStayInTheirLists`, `OverrunsNeedSingleBlocks`,
`EveryBlockHasOnePlace`, `MemoryIsManaged`, `CountersCount` and `ObjectsStayAlive`, for any row
of caches, any pool, page size and requests, SlabMem and SlabObj taking memory from
one heap.  The inductive invariant `Inv` is `Core`, which says where everything is, and
`CountersRight`:

- `Lists`: the three lists of a cache hold slabs of its size, with no memory twice,
  each in the list that tells how full it is.  `InRightList` follows, but is not
  inductive alone: `freeFunc()` takes the first slab with the memory it looks for, and
  that is the slab of the block only if no other has that memory.
- `Blocks`: `BlocksAccounted`, and that a block with a caller lies inside its slab, a
  large one at the start of its memory.
- `Places`: all of `HeapIsManaged` but the number of slabs, which `Lists` gives.  That
  memory a slab gives back is not in use elsewhere needs both.
- `Objects`: the objects are those of the pool's blocks.  `Space`: a cache could count
  the blocks of all memory, whatever `addCache()` has made its slabs.

What a call does to the lists is said once, for all of them: one slab is turned into
another in whatever list (`Turned`), one with new memory comes in (`Added`), or slabs go
with their memory (`Dropped`).  `AllocateIs` and `DeallocateIs` show that every
path of `allocate()` and `deallocate()`, with the moves between lists that it makes, is
one of these; the rest of the proof speaks of sets of slabs and not of sequences.
`CountersRight` stands apart since the counters wrap (`Modulus`): `Core` bounds what they
count (`Few`, from `Space`), so that the sum or difference modulo the width is the
number itself.

**VectorsProofs.**  `SpliceIs`, `SwapPopIs`, `EraseIs`, `SwapInIs`: where in the old vector each
element of the new one comes from.  The proofs about SlabCache and SlabMulti cite
them for slabs and for memory.

**HandlesProofs.**  `Typing`, `RefsAreHandles`, `DeletionsAreExplained`.  The inductive
invariant has three parts.  `Calls` is about calls: who reads a handle, and that
handles point to interfaces that were made.  `RefsBalance` needs it, for a
handle that is about to get another interface must not be counted at both.
`Marks` is what is known at a deletion, step by step: a call that has decided to
delete has an interface that was assigned to (`PendingMarks`), and so does an
interface that is gone (`DeletedMarks`).  `WhatLastTells` is the heart of it: it reads the test `fetch_sub(1) < 1` through
`RefsBalance`.

Only model-checked: liveness, which is outside the reach of the prover.  Each safety
property and refinement that a passing run checks has a theorem.

## What the checks found

1. **A reader beside a writer** (`mutex_overlap`, `A/SharedMutex.h:93`).
   `lock_shared()` reads `spLock` and raises its flag afterwards, with no second
   look.  A writer that takes `spLock` and passes the flag in between is inside
   together with the reader.  `OnlyLateReadersOverlap` says that this is the
   only way.
2. **A full active slab** (`slab_cache_starved`, `A/ImplSlabMulti.h:268`).
   Releasing the active slab makes the last one active, and the condition for
   releasing is that the others are full; the next `allocate()` takes a block off an
   empty vector.  It comes to the same when `allocate()` steps back to a slab whose
   free blocks are all in `foreigns` (308): only the slab that it leaves is merged.
   `OnlyReleaseStarves` says that this, too, takes a release.
3. **A slab that is released in use** (`slab_multi_release`,
   `A/ImplSlabMulti.h:380`).  A thread decides under the shared lock that a slab is
   empty, and releases it under the exclusive one; its owner allocates in between.
4. **An interface without handles** (`handles_left`, `A/SlabMulti.h:170`).  The test of
   `decRef()` is true one release too late, so the last handle leaves its interface
   behind.
5. **A chunk that is too long** (`free_list_clash`, `A/FreeList.h:86`).  `add()`
   counts a header that the rest of a cut chunk does not have.

Seen while modelling, and kept in the models as they are:

- `try_lock_shared()` without a slot returns the expected value of the exchange,
  which is false on success (`A/SharedMutex.h:156`).
- `freeAll()` and `freeEmpty()` of all caches of a SlabMem reach the first one
  (`A/SlabMem.h:176`; `A/Slab.h:89` says "all memory of all caches").
- Assignment of handles does not count the new reference (`A/SlabMulti.h:206`), which
  may make up for finding 4, or delete an interface under its handles.  The
  assignment operators lack a return statement; the model takes them to end like
  others.
- SlabObj returns objects that `destruct()` has been at without constructing them
  again, and destroys them again with their slab (`A/SlabObj.h:85`; the comment
  above says "Re-initilize it to the required state").
- A block that comes back to an empty FreeList loses its header's bytes
  (`headerLost`; `src/Tests/FreeListTest.cpp:124` expects "one large block" in the
  case where it does not happen), and a FreeList request is cut to `size_type`
  (`A/FreeList.h:215`).
- `freeEmpty()` subtracts bytes from a number of blocks (`A/SlabHelper.h:177`), and a
  slab of one block is moved by an iterator that is no longer valid (116).
- Released memory of a SlabMulti cache is lost: `memToDispatch()`
  (`A/ImplSlabMulti.h:240`) drops the pointer, although the comment where it is called
  says "Return memory to Dispatcher" (375) and the dispatcher has `returnBlock()`
  (`A/SlabMultiDispatcher.h:64`).  No property claims that this is right.
- The index of a block is a `uint16_t` (`A/SlabHelper.h:10`) and `addCache()` does not
  check the count: with more than 65536 blocks a slab would hand out the same ones
  again.  The theorems about SlabObj hold of the code up to that number.
- The sized `operator delete` gets a count of objects for a number of bytes
  (`A/SlabMem.h:154`).
- `add()` reads `(--prev)->first + prev->second` (`A/FreeList.h:99`), in an order that
  C++ leaves open; the model takes it from left to right.
- The owner of a cache reads `actBlock` without a lock while others move slabs
  (`A/ImplSlabMulti.h:290`), a data race.

## What is not modelled

- Weaker memory orders, and moves of a mutex or of a container that nobody else
  uses at the time.
- The lifetime of a SharedMutex: in this repository it lives as long as its
  allocator or the program.
- In SlabMulti, threads without a slot in a mutex, which SharedMutex has; size classes (all requests are of one) and requests above the
  largest, which go to `operator new` and `operator delete`; that memory runs out
  (`bad_alloc`), here and in the other slab allocators.
- SmpVector, which is used nowhere.
- SlabMem with caches added between allocations, which `A/Slab.h:14` rules out;
  SlabObj without `addCache()` before the first allocation (its slabs would have no
  block, and no constructor).
- FreeList's `bestFit()`, a stub that is never selected.
- Linear: a bump index, with a check that can overflow (`A/Linear.h:26`).
- AllocHelpers but for the widths and the rounding the models use; TMP.h
  (third-party templates), Buddy and Pool (empty), `src/Bench` and `src/Tests`
  (callers).

## Plan

The order is by what can go wrong and how far it reaches.

1. *Done:* SharedMutex with RWLock, and its proofs.  Every thread-safe part
   stands on it.
2. *Done:* SlabCache with Heap, and its proofs.
3. *Done:* FreeList.
4. *Done:* SlabMulti, the calls of SlabCache cut at their lock boundaries, in the
   map of buckets; Handles, and its proofs.
5. *Done:* SlabHelper with SlabMem and SlabObj.
6. *Done:* proofs about the remaining safety properties of SlabCache, about
   SlabMulti with Heaps, about FreeList, and about SlabObj with SlabMem and SlabHelper.
7. Linear, whose one question is the overflow of its check.
