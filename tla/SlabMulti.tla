------------------------------ MODULE SlabMulti -----------------------------
(***************************************************************************)
(* SlabMulti as threads use it: Interface::allocate() and deallocate(),    *)
(* over the SmpMap of buckets, the caches in them and the dispatcher.      *)
(* Calls overlap.  A step is what a call does between two points where     *)
(* other threads may come in: a lock taken or given back, or an access     *)
(* that no lock protects.  SlabCache has the same cache with calls that do *)
(* not overlap.                                                            *)
(*                                                                         *)
(* All requests are of one size class: the caches of a bucket have nothing *)
(* in common.  The mutexes are correct reader/writer locks here, with a    *)
(* slot for each thread: lock_shared() waits for spLock, lock() takes that *)
(* and waits for the readers that are inside.                              *)
(*                                                                         *)
(* Where the code runs into undefined behaviour the model records how in   *)
(* broken and stops.                                                       *)
(***************************************************************************)
EXTENDS Integers, Sequences, FiniteSets, Functions, Vectors

CONSTANTS
  Threads,
  Allocators,  \* The threads that call allocate(); any may deallocate.
  Mems,        \* The blocks of the dispatcher, SLAB_SIZE bytes each.
  Indices,     \* The blocks of a slab.
  Nobody, None

ASSUME ThreadsAssumption == Allocators \subseteq Threads /\ Nobody \notin Threads
ASSUME IndicesAssumption == IsFiniteSet(Indices) /\ Cardinality(Indices) >= 2

Count     == Cardinality(Indices)       \* blocksPerSlab
Threshold == Count \div 4               \* int(count * freeThreshold)
MinSlabs  == 1                          \* MIN_SLABS

Pointers == [mem : Mems, idx : Indices]
ASSUME NoneAssumption == None \notin Pointers

VARIABLES
  reg,         \* The SmpMap: its threads, in the order they registered.
  slabs,       \* The vectors slabs and ptrs of each thread's cache.
  active,      \* actBlock and actMem.
  mySize,
  owner,       \* The thread that getBlock() gave each piece of memory to.
  mapMutex,    \* SmpMap::mutex: who has spLock, and who shares it.
  mutex,       \* Cache::mutex of each thread's cache, the same.
  pc,          \* What each thread does next.
  ptr,         \* The block its call is about.
  visit,       \* The bucket it is at, counted in the map.
  it,          \* The position it found its block at; 0 if it dangles.
  used,        \* What emptyAndSize() told it.
  live,        \* History: blocks handed out and not given back.
  missed,      \* History: blocks given back that no cache took.
  outdated,    \* History: threads whose it or used may be out of date.
  stale,       \* History: such a thread has moved slabs.
  broken       \* Undefined behaviour that was met.

calls == <<pc, ptr, visit, it, used>>
data  == <<reg, slabs, active, mySize, owner>>
hist  == <<live, missed, outdated, stale, broken>>
locks == <<mapMutex, mutex>>
vars  == <<calls, data, hist, locks>>

-----------------------------------------------------------------------------
NewSlab(m) == [mem |-> m, availible |-> Indices, foreigns |-> {}]

\* Slab::size(), the number of blocks in use.
Used(s) == Count - (Cardinality(s.availible) + Cardinality(s.foreigns))

Registered(t) == t \in Range(reg)

\* The owner of the cache that thread t is at.
On(t) == reg[visit[t]]

\* Threads that hold a position in o's cache, or a decision about it.
Judging(o) ==
  {t \in Threads : pc[t] \in {"decide", "splice", "release"} /\ On(t) = o}

\* lock_shared() of mutex l goes through when Open, and leaves it Shared; lock()
\* when Open leaves it Claimed, and returns when Exclusive.
Open(l)         == l.spLock = Nobody
Shared(l, t)    == [l EXCEPT !.shared = @ \cup {t}]
Unshared(l, t)  == [l EXCEPT !.shared = @ \ {t}]
Claimed(l, t)   == [l EXCEPT !.spLock = t]
Exclusive(l, t) == l.spLock = t /\ l.shared = {}
Unlocked(l)     == [l EXCEPT !.spLock = Nobody]

\* Threads in an exclusive section of o's cache that moves slabs.
Moving(o) ==
  {t \in Threads : pc[t] \in {"splice", "release"} /\ Exclusive(mutex[o], t)}

Goto(t, label) == pc' = [pc EXCEPT ![t] = label]

Init ==
  /\ reg = <<>>
  /\ slabs  = [t \in Threads |-> <<>>]
  /\ active = [t \in Threads |-> 0]
  /\ mySize = [t \in Threads |-> 0]
  /\ owner  = [m \in Mems |-> Nobody]
  /\ pc     = [t \in Threads |-> "idle"]
  /\ ptr    = [t \in Threads |-> None]
  /\ visit  = [t \in Threads |-> 0]
  /\ it     = [t \in Threads |-> 0]
  /\ used   = [t \in Threads |-> 0]
  /\ live = {} /\ missed = {} /\ outdated = {} /\ stale = FALSE
  /\ broken = "no"
  /\ mapMutex = [spLock |-> Nobody, shared |-> {}]
  /\ mutex = [t \in Threads |-> [spLock |-> Nobody, shared |-> {}]]

-----------------------------------------------------------------------------
(* Calls.  ptr tells one from the other: allocate() has None until it takes *)
(* a block, deallocate() has the block it is given.                         *)

CallAllocate(t) ==
  /\ pc[t] = "idle" /\ t \in Allocators
  /\ Goto(t, "find")
  /\ UNCHANGED <<ptr, visit, it, used, data, hist, locks>>

\* Callers give back what a call has returned, once.
CallDeallocate(t, p) ==
  /\ pc[t] = "idle" /\ p \in live
  /\ \A u \in Threads : ptr[u] # p
  /\ ptr' = [ptr EXCEPT ![t] = p]
  /\ Goto(t, "find")
  /\ UNCHANGED <<visit, it, used, data, hist, locks>>

\* findDo() of the caller's own bucket, which it works on under lock_shared().
FindOwn(t) ==
  /\ pc[t] = "find" /\ Registered(t)
  /\ Open(mapMutex) /\ mapMutex' = Shared(mapMutex, t)
  /\ visit' = [visit EXCEPT ![t] = CHOOSE k \in DOMAIN reg : reg[k] = t]
  /\ Goto(t, IF ptr[t] = None THEN "take" ELSE "search")
  /\ UNCHANGED <<ptr, it, used, data, hist, mutex>>

\* Mutant: allocate() makes it before findDo() has returned.
FindNone_Inside(t) ==
  /\ pc[t] = "find" /\ ~ Registered(t)
  /\ Open(mapMutex)
  /\ mapMutex' = IF ptr[t] = None THEN Shared(mapMutex, t) ELSE mapMutex
  /\ Goto(t, IF ptr[t] = None THEN "build" ELSE "next")
  /\ UNCHANGED <<ptr, visit, it, used, data, hist, mutex>>

\* There is none: allocate() makes it first, deallocate() when it is done.
FindNone(t) ==
  /\ pc[t] = "find" /\ ~ Registered(t)
  /\ Open(mapMutex)
  /\ Goto(t, IF ptr[t] = None THEN "build" ELSE "next")
  /\ UNCHANGED <<ptr, visit, it, used, data, hist, locks>>

\* getBlock() of the dispatcher, which nothing is ever returned to.
GetBlock(m, o) == owner[m] = Nobody /\ owner' = [owner EXCEPT ![m] = o]

\* registerThread() makes a Bucket, that is a cache and its first slab ...
Build(t) ==
  /\ pc[t] \in {"build", "join"}
  /\ \E m \in Mems : /\ GetBlock(m, t)
                     /\ slabs' = [slabs EXCEPT ![t] = <<NewSlab(m)>>]
  /\ active' = [active EXCEPT ![t] = 1]
  /\ Goto(t, IF pc[t] = "build" THEN "emplace" ELSE "insert")
  /\ UNCHANGED <<reg, mySize, ptr, visit, it, used, hist, locks>>

\* ... and moves it into the map, exclusively.
ClaimMap(t) ==
  /\ pc[t] \in {"emplace", "insert"}
  /\ Open(mapMutex) /\ mapMutex' = Claimed(mapMutex, t)
  /\ UNCHANGED <<calls, data, hist, mutex>>

Emplace(t) ==
  /\ pc[t] \in {"emplace", "insert"}
  /\ Exclusive(mapMutex, t) /\ mapMutex' = Unlocked(mapMutex)
  /\ reg' = Append(reg, t)
  /\ Goto(t, IF pc[t] = "emplace" THEN "find" ELSE "idle")
  /\ UNCHANGED <<slabs, active, mySize, owner, ptr, visit, it, used, hist, mutex>>

-----------------------------------------------------------------------------
(* Cache::allocate(), by the owner and without a lock.                      *)

Active(t) == slabs[t][active[t]]

\* Mutant: the block is read off the vector and left there.
Take_Kept(t, i) ==
  /\ pc[t] = "take"
  /\ i \in Active(t).availible
  /\ ptr' = [ptr EXCEPT ![t] = [mem |-> Active(t).mem, idx |-> i]]
  /\ live' = live \cup {ptr'[t]}
  /\ outdated' = outdated \cup Judging(t)
  /\ Goto(t, IF Active(t).availible = {i} THEN "full" ELSE "count")
  /\ UNCHANGED <<reg, slabs, active, mySize, owner, visit, it, used, missed, stale,
                 broken, locks>>

\* Block i of the active slab.
Take(t, i) ==
  /\ pc[t] = "take"
  /\ i \in Active(t).availible
  /\ slabs' = [slabs EXCEPT ![t][active[t]].availible = @ \ {i}]
  /\ ptr' = [ptr EXCEPT ![t] = [mem |-> Active(t).mem, idx |-> i]]
  /\ live' = live \cup {ptr'[t]}
  /\ outdated' = outdated \cup Judging(t)
  /\ Goto(t, IF Active(t).availible = {i} THEN "full" ELSE "count")
  /\ UNCHANGED <<reg, active, mySize, owner, visit, it, used, missed, stale, broken,
                 locks>>

\* availible.back() of an empty vector.
TakeFromNone(t) ==
  /\ pc[t] = "take" /\ Active(t).availible = {}
  /\ broken' = "empty"
  /\ UNCHANGED <<calls, data, live, missed, outdated, stale, locks>>

\* Another thread is moving slabs while the owner reads which one is active.
TakeRacing(t) ==
  /\ pc[t] = "take" /\ Moving(t) # {}
  /\ broken' = "race"
  /\ UNCHANGED <<calls, data, live, missed, outdated, stale, locks>>

\* A full slab, or a decision to move one: lock() of the mutex of that cache.
ClaimCache(t) ==
  /\ pc[t] \in {"full", "splice", "release"}
  /\ Open(mutex[On(t)])
  /\ mutex' = [mutex EXCEPT ![On(t)] = Claimed(@, t)]
  /\ UNCHANGED <<calls, data, hist, mapMutex>>

\* The exclusive section of allocate().
InFull(t) ==
  /\ pc[t] = "full"
  /\ Exclusive(mutex[t], t)
  /\ mutex' = [mutex EXCEPT ![t] = Unlocked(@)]
  /\ UNCHANGED mapMutex

\* Mutant: what was merged is not cleared.
FullMerge_NotCleared(t) ==
  /\ InFull(t)
  /\ Active(t).availible \cup Active(t).foreigns # {}
  /\ slabs' = [slabs EXCEPT ![t][active[t]].availible = @ \cup Active(t).foreigns]
  /\ Goto(t, "count")
  /\ UNCHANGED <<reg, active, mySize, owner, ptr, visit, it, used, hist>>

\* Others have given some back, or
\* moved another slab to where the active one was.
FullMerge(t) ==
  /\ InFull(t)
  /\ Active(t).availible \cup Active(t).foreigns # {}
  /\ slabs' = [slabs EXCEPT ![t][active[t]].availible = @ \cup Active(t).foreigns,
                            ![t][active[t]].foreigns  = {}]
  /\ Goto(t, "count")
  /\ UNCHANGED <<reg, active, mySize, owner, ptr, visit, it, used, hist>>

\* Mutant: begin() is not looked at.
FullStepBack_Unguarded(t) ==
  /\ InFull(t)
  /\ Active(t).availible \cup Active(t).foreigns = {}
  /\ active' = [active EXCEPT ![t] = @ - 1]
  /\ outdated' = outdated \cup Judging(t)
  /\ Goto(t, "count")
  /\ UNCHANGED <<reg, slabs, mySize, owner, ptr, visit, it, used, live, missed,
                 stale, broken>>

FullStepBack(t) ==
  /\ InFull(t)
  /\ Active(t).availible \cup Active(t).foreigns = {}
  /\ active[t] # 1
  /\ active' = [active EXCEPT ![t] = @ - 1]
  /\ outdated' = outdated \cup Judging(t)
  /\ Goto(t, "count")
  /\ UNCHANGED <<reg, slabs, mySize, owner, ptr, visit, it, used, live, missed,
                 stale, broken>>

\* addCache(): emplace_back() may have to move the elements of the vectors,
\* and iterators into them dangle.
FullAddCache(t) ==
  /\ InFull(t)
  /\ Active(t).availible \cup Active(t).foreigns = {}
  /\ active[t] = 1
  /\ \E m \in Mems : /\ GetBlock(m, t)
                     /\ slabs' = [slabs EXCEPT ![t] = SwapIn(@, 1, NewSlab(m))]
  /\ \E moved \in BOOLEAN :
       it' = [u \in Threads |-> IF moved /\ u \in Judging(t) THEN 0 ELSE it[u]]
  /\ outdated' = outdated \cup Judging(t)
  /\ Goto(t, "count")
  /\ UNCHANGED <<reg, active, mySize, ptr, visit, used, live, missed, stale, broken>>

\* The size is raised last; then the caller has its block.
CountUp(t) ==
  /\ pc[t] = "count"
  /\ mySize' = [mySize EXCEPT ![t] = @ + 1]
  /\ ptr' = [ptr EXCEPT ![t] = None]
  /\ visit' = [visit EXCEPT ![t] = 0]
  /\ Goto(t, "idle")
  /\ mapMutex' = Unshared(mapMutex, t)
  /\ UNCHANGED <<reg, slabs, active, owner, it, used, hist, mutex>>

-----------------------------------------------------------------------------
(* Cache::deallocate(), in the caller's bucket and then in the others.      *)

\* The slab of o's cache that contains the block.
Containing(o, p) == {k \in DOMAIN slabs[o] : slabs[o][k].mem = p.mem}

GiveBack(s, i, thisThread) ==
  IF thisThread THEN [s EXCEPT !.availible = @ \cup {i}]
                ELSE [s EXCEPT !.foreigns  = @ \cup {i}]

\* The k-th bucket has the block.  The mutex of its cache is held, shared,
\* until the thread has decided what to do about the slab.
Return(t, k) ==
  \E j \in Containing(reg[k], ptr[t]) :
    /\ slabs' = [slabs EXCEPT ![reg[k]][j] = GiveBack(@, ptr[t].idx, reg[k] = t)]
    /\ live' = live \ {ptr[t]}
    /\ ptr' = [ptr EXCEPT ![t] = None]
    /\ visit' = [visit EXCEPT ![t] = k]
    /\ it' = [it EXCEPT ![t] = j]
    /\ Goto(t, "look")
    /\ Open(mutex[reg[k]])
    /\ mutex' = [mutex EXCEPT ![reg[k]] = Shared(@, t)]
    /\ UNCHANGED <<reg, active, mySize, owner, used, missed, outdated, stale,
                   broken, mapMutex>>

\* It has not, and the thread goes on from there.
PassOver(t, k) ==
  /\ Containing(reg[k], ptr[t]) = {}
  /\ Open(mutex[reg[k]])
  /\ Goto(t, "next")
  /\ visit' = [visit EXCEPT ![t] = k]
  /\ UNCHANGED <<ptr, it, used, data, hist, locks>>

\* Mutant: the second search starts where the first one ended.
SearchOwn_NoReset(t) ==
  /\ pc[t] = "search"
  /\ Return(t, visit[t]) \/ PassOver(t, visit[t])

SearchOwn(t) ==
  /\ pc[t] = "search"
  /\ \/ Return(t, visit[t])
     \/ /\ Containing(t, ptr[t]) = {}
        /\ Open(mutex[t])
        /\ Goto(t, "next")
        /\ visit' = [visit EXCEPT ![t] = 0]
        /\ mapMutex' = Unshared(mapMutex, t)
        /\ UNCHANGED <<ptr, it, used, data, hist, mutex>>

\* iterate() takes the map's mutex anew ...
EnterMap(t) ==
  /\ pc[t] = "next" /\ t \notin mapMutex.shared
  /\ Open(mapMutex) /\ mapMutex' = Shared(mapMutex, t)
  /\ UNCHANGED <<calls, data, hist, mutex>>

\* ... and goes through the buckets in order, without the caller's.
Ahead(t) == {k \in DOMAIN reg : k > visit[t] /\ reg[k] # t}

Nearest(t) == {k \in Ahead(t) : \A j \in Ahead(t) : k <= j}

SearchNext(t) ==
  /\ pc[t] = "next" /\ t \in mapMutex.shared
  /\ \E k \in Nearest(t) : Return(t, k) \/ PassOver(t, k)

\* The call is over; a caller without a bucket gets one.
Leave(t) ==
  /\ visit' = [visit EXCEPT ![t] = 0]
  /\ mapMutex' = Unshared(mapMutex, t)
  /\ Goto(t, IF Registered(t) THEN "idle" ELSE "join")

\* Nobody has it.
SearchEnd(t) ==
  /\ pc[t] = "next" /\ t \in mapMutex.shared
  /\ Ahead(t) = {}
  /\ live' = live \ {ptr[t]}
  /\ missed' = missed \cup {ptr[t]}
  /\ ptr' = [ptr EXCEPT ![t] = None]
  /\ Leave(t)
  /\ UNCHANGED <<it, used, data, outdated, stale, broken, mutex>>

-----------------------------------------------------------------------------
\* emptyAndSize()
Look(t) ==
  /\ pc[t] = "look"
  /\ used' = [used EXCEPT ![t] = Used(slabs[On(t)][it[t]])]
  /\ Goto(t, "decide")
  /\ UNCHANGED <<ptr, visit, it, data, hist, locks>>

\* Mutant: the active slab is moved, too.
EmptyEnough_Active(t) == used[t] <= Threshold /\ it[t] >= active[On(t)]

EmptyEnough(t) == used[t] <= Threshold /\ it[t] > active[On(t)]

Capacity(o) == Count * Len(slabs[o])

Spare(t) == /\ used[t] = 0
            /\ Len(slabs[On(t)]) > MinSlabs
            /\ mySize[On(t)] > Capacity(On(t)) - Count

\* The mutex is given back to take it exclusively; if no slab is to be moved,
\* it is held until the call is over.
Decide(t) ==
  /\ pc[t] = "decide"
  /\ Goto(t, IF EmptyEnough(t) THEN "splice"
             ELSE IF Spare(t) THEN "release" ELSE "uncount")
  /\ IF EmptyEnough(t) \/ Spare(t)
       THEN /\ mutex' = [mutex EXCEPT ![On(t)] = Unshared(@, t)]
            /\ UNCHANGED <<it, outdated>>
       ELSE /\ it' = [it EXCEPT ![t] = 0]
            /\ outdated' = outdated \ {t}
            /\ UNCHANGED mutex
  /\ used' = [used EXCEPT ![t] = 0]
  /\ UNCHANGED <<ptr, visit, data, live, missed, stale, broken, mapMutex>>

\* The slabs have been moved by thread t; others have positions of before.
Moved(t) ==
  /\ stale' = (stale \/ t \in outdated)
  /\ outdated' = (outdated \cup Judging(On(t))) \ {t}
  /\ it' = [it EXCEPT ![t] = 0]
  /\ Goto(t, "uncount")
  /\ mutex' = [mutex EXCEPT ![On(t)] = Unlocked(@)]
  /\ UNCHANGED <<reg, mySize, owner, ptr, visit, used, live, missed, broken, mapMutex>>

\* The iterator is used although it does not point into the vector any more.
MoveAstray(t) ==
  /\ broken' = "iterator"
  /\ stale' = (stale \/ t \in outdated)
  /\ UNCHANGED <<calls, data, live, missed, outdated, locks>>

\* spliceBoth(), exclusively.  By now the slab at that position may be the
\* active one: then the iterator to it just moves on.
MoveSplice(t) ==
  LET o == On(t)
  IN /\ pc[t] = "splice" /\ Exclusive(mutex[o], t)
     /\ \/ /\ it[t] \in active[o] .. Len(slabs[o]) /\ active[o] < Len(slabs[o])
           /\ slabs' = [slabs EXCEPT ![o] = Splice(@, active[o], it[t])]
           /\ active' = [active EXCEPT ![o] = @ + 1]
           /\ Moved(t)
        \/ /\ it[t] \notin active[o] .. Len(slabs[o]) \/ active[o] = Len(slabs[o])
           /\ MoveAstray(t)

\* memToDispatch(), exclusively.
MoveRelease(t) ==
  LET o == On(t)
  IN /\ pc[t] = "release" /\ Exclusive(mutex[o], t)
     /\ \/ /\ it[t] \in DOMAIN slabs[o] /\ Len(slabs[o]) > 1
           /\ slabs' = [slabs EXCEPT ![o] = IF it[t] < active[o] THEN Erase(@, it[t])
                                            ELSE SwapPop(@, it[t])]
           /\ active' = [active EXCEPT ![o] =
                           CASE it[t] > @ -> @
                             [] it[t] < @ -> @ - 1
                             [] it[t] = @ -> Len(slabs[o]) - 1]
           /\ Moved(t)
        \/ /\ it[t] \notin DOMAIN slabs[o] \/ Len(slabs[o]) = 1
           /\ MoveAstray(t)

\* Mutant: the caller's own size is lowered.
CountDown_Own(t) ==
  /\ pc[t] = "uncount"
  /\ mySize' = [mySize EXCEPT ![t] = @ - 1]
  /\ Leave(t)
  /\ mutex' = [mutex EXCEPT ![On(t)] = Unshared(@, t)]
  /\ UNCHANGED <<reg, slabs, active, owner, ptr, it, used, hist>>

\* The size is lowered last.
CountDown(t) ==
  /\ pc[t] = "uncount"
  /\ mySize' = [mySize EXCEPT ![On(t)] = @ - 1]
  /\ Leave(t)
  /\ mutex' = [mutex EXCEPT ![On(t)] = Unshared(@, t)]
  /\ UNCHANGED <<reg, slabs, active, owner, ptr, it, used, hist>>

-----------------------------------------------------------------------------
AllocateStep(t) ==
  \/ \E i \in Indices : Take(t, i)
  \/ TakeFromNone(t) \/ TakeRacing(t)
  \/ FullMerge(t) \/ FullStepBack(t) \/ FullAddCache(t) \/ CountUp(t)

DeallocateStep(t) ==
  \/ SearchOwn(t) \/ SearchNext(t) \/ SearchEnd(t)
  \/ Look(t) \/ Decide(t) \/ MoveSplice(t) \/ MoveRelease(t) \/ CountDown(t)

\* Steps that only take a mutex.
LockStep(t) == ClaimMap(t) \/ ClaimCache(t) \/ EnterMap(t)

MapStep(t) == FindOwn(t) \/ FindNone(t) \/ Build(t) \/ Emplace(t)

Call(t) == CallAllocate(t) \/ \E p \in live : CallDeallocate(t, p)

Next == /\ broken = "no"
        /\ \E t \in Threads :
             \/ Call(t) \/ MapStep(t) \/ AllocateStep(t) \/ DeallocateStep(t)
             \/ LockStep(t)

Spec == Init /\ [][Next]_vars

-----------------------------------------------------------------------------
(* Properties.                                                              *)

Slab == [mem : Mems, availible : SUBSET Indices, foreigns : SUBSET Indices]

Mutex == [spLock : Threads \cup {Nobody}, shared : SUBSET Threads]

Labels == {"idle", "find", "build", "emplace", "take", "full", "count", "search",
           "next", "look", "decide", "splice", "release", "uncount", "join", "insert"}

\* Every variable keeps its type; the active slab of a cache is one of its
\* slabs, and what threads are at is in the map.
TypeOK ==
  /\ reg \in Seq(Threads)
  /\ slabs \in [Threads -> Seq(Slab)]
  /\ active \in [Threads -> Nat]
  /\ \A t \in Threads : slabs[t] # <<>> => active[t] \in DOMAIN slabs[t]
  /\ mySize \in [Threads -> Int]
  /\ owner \in [Mems -> Threads \cup {Nobody}]
  /\ mapMutex \in Mutex /\ mutex \in [Threads -> Mutex]
  /\ pc \in [Threads -> Labels]
  /\ ptr \in [Threads -> Pointers \cup {None}]
  /\ visit \in [Threads -> {0} \cup DOMAIN reg]
  /\ it \in [Threads -> Nat]
  /\ used \in [Threads -> 0 .. Count]
  /\ live \subseteq Pointers /\ missed \subseteq Pointers
  /\ outdated \subseteq Threads /\ stale \in BOOLEAN
  /\ broken \in {"no", "empty", "race", "iterator"}

MemsOf(o) == {s.mem : s \in Range(slabs[o])}

HeldIn(m) == {i \in Indices : [mem |-> m, idx |-> i] \in live \cup missed}

\* However calls overlap, each block of a slab is free once, or given back
\* once by another thread, or held by a caller, and never two of these; and
\* a slab is in one cache, its owner's.
SlabsManageTheirMemory ==
  \A o \in Threads :
    /\ \A s \in Range(slabs[o]) :
         /\ s.availible \cap s.foreigns = {}
         /\ s.availible \cup s.foreigns = Indices \ HeldIn(s.mem)
         /\ owner[s.mem] = o
    /\ Cardinality(MemsOf(o)) = Len(slabs[o])

\* A cache that gives up a slab with blocks in use, or an iterator that is used
\* outside its vector, means that a thread moved slabs by a position or a size
\* that was out of date.
LiveMemoryIsKept ==
  ~ stale => /\ \A p \in live : p.mem \in MemsOf(owner[p.mem])
             /\ broken # "iterator"

\* deallocate() finds the owner of its block, in one of two searches under
\* two locks, while other threads register.
EveryBlockIsFound == missed # {} => stale

\* Calls that have taken a block of o's cache and not counted it yet, and calls
\* that have given one back.
ToCount(o)   == {t \in {o} : pc[t] \in {"full", "count"}}
ToUncount(o) ==
  {t \in Threads : /\ pc[t] \in {"look", "decide", "splice", "release", "uncount"}
                   /\ On(t) = o}

Counted(o) == mySize[o] + Cardinality(ToCount(o)) - Cardinality(ToUncount(o))

\* The size of a cache is the number of its blocks that are in use, give or
\* take the calls that have not counted theirs yet.
SizesCount ==
  \A o \in Threads :
    Counted(o) = Cardinality({p \in live \cup missed : owner[p.mem] = o})

\* Whom lock() of mutex l waits for.
Awaited(l, t) == IF l.spLock = t THEN l.shared ELSE {l.spLock}

\* Whom thread t waits for; Nobody, or nobody, if it can go on.
Blockers(t) ==
  CASE pc[t] = "find" \/ (pc[t] = "next" /\ t \notin mapMutex.shared) ->
         {mapMutex.spLock}
    [] pc[t] \in {"emplace", "insert"} -> Awaited(mapMutex, t)
    [] pc[t] = "search" -> {mutex[t].spLock}
    [] pc[t] = "next" /\ t \in mapMutex.shared ->
         {mutex[reg[k]].spLock : k \in Nearest(t)}
    [] pc[t] \in {"full", "splice", "release"} -> Awaited(mutex[On(t)], t)
    [] OTHER -> {}

\* No threads wait for each other in a circle, and none for itself: to register,
\* to read the map, to search a cache or to move its slabs, although caches are
\* locked inside the map's shared lock and readers wait for waiting writers.
NoDeadlock ==
  \A W \in SUBSET Threads : W # {} => \E t \in W : Blockers(t) \cap W = {}

\* A cache never gives up a slab with blocks in use.
NothingLiveReleased == \A p \in live : p.mem \in MemsOf(owner[p.mem])

-----------------------------------------------------------------------------
\* Blocks of o's cache that nobody took back.
MissedOf(o) == {p \in missed : owner[p.mem] = o}

\* Blocks that callers hold, and what the caches count of them.
H == INSTANCE Heaps
       WITH Owners <- Threads,
            lent   <- {<<owner[p.mem], p>> : p \in live},
            size   <- [o \in Threads |-> Counted(o) - Cardinality(MissedOf(o))]

\* Whatever overlaps, no block is handed out while it is in use, by its cache
\* or any other, and callers may take what allocate() and deallocate() do for
\* one step each.
ImplementsHeaps == H!Spec
=============================================================================
