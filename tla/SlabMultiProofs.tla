--------------------------- MODULE SlabMultiProofs ---------------------------
(***************************************************************************)
(* Proofs about SlabMulti, for any threads, slabs of any size and any      *)
(* supply of memory.                                                       *)
(***************************************************************************)
EXTENDS SlabMulti, VectorsProofs, FiniteSetTheorems, SequenceTheorems, TLAPS

\* A slab has a natural number of blocks, at least two.
LEMMA CountType == Count \in Nat /\ Count >= 2
BY IndicesAssumption, FS_CardinalityType DEF Count

-----------------------------------------------------------------------------
(* The inductive invariant.                                                 *)

\* What threads do that are at a bucket of the map.
Inside == {"take", "full", "count", "search", "look", "decide", "splice", "release",
           "uncount"}

\* A thread is at a bucket of the map while it is inside one, at its own while
\* it allocates or searches that, and nowhere before and after.
Place(t) ==
  /\ pc[t] \in {"idle", "find", "build", "emplace", "join", "insert"} => visit[t] = 0
  /\ pc[t] \in {"take", "full", "count", "search", "look", "decide", "splice",
                "release", "uncount"} => visit[t] \in DOMAIN reg
  /\ pc[t] \in {"take", "full", "count", "search"} => On(t) = t

Places == \A t \in Threads : Place(t)

\* A call's block is in use, and no other call's.
Blocks ==
  /\ \A t \in Threads :
       /\ pc[t] \in {"full", "count", "search", "next"} => ptr[t] # None
       /\ ptr[t] # None => /\ ptr[t] \in live
                           /\ pc[t] \in {"find", "full", "count", "search", "next"}
  /\ \A t, u \in Threads : ptr[t] = ptr[u] /\ ptr[t] # None => t = u

\* A thread has one bucket; it has slabs from Build on.
Buckets ==
  /\ \A j, k \in DOMAIN reg : reg[j] = reg[k] => j = k
  /\ \A t \in Threads :
       /\ pc[t] \in {"build", "emplace", "join", "insert"} => ~ Registered(t)
       /\ slabs[t] # <<>> <=> Registered(t) \/ pc[t] \in {"emplace", "insert"}

\* Slab s accounts for every block of its memory, given those that are held.
Fits(s, held) ==
  /\ s.availible \cap s.foreigns = {}
  /\ s.availible \cup s.foreigns = {i \in Indices : [mem |-> s.mem, idx |-> i] \notin held}

\* SlabsManageTheirMemory, slab by slab; blocks come from registered owners.
Memory ==
  /\ \A o \in Threads : \A k \in DOMAIN slabs[o] :
       /\ Fits(slabs[o][k], live \cup missed) /\ owner[slabs[o][k].mem] = o
       /\ \A j \in DOMAIN slabs[o] : slabs[o][j].mem = slabs[o][k].mem => j = k
  /\ \A p \in live \cup missed : Registered(owner[p.mem])
  /\ live \cap missed = {}

\* What a thread knows of the slab at its position, unless it is outdated.
Knows(t, o) ==
  /\ it[t] \in DOMAIN slabs[o]
  /\ pc[t] = "decide" /\ used[t] = 0 => HeldIn(slabs[o][it[t]].mem) = {}
  /\ pc[t] = "splice" => it[t] > active[o]
  /\ pc[t] = "release" => HeldIn(slabs[o][it[t]].mem) = {} /\ Len(slabs[o]) > 1

Sure(t) == \/ pc[t] = "look"
           \/ pc[t] \in {"decide", "splice", "release"} /\ t \notin outdated

Positions == \A t \in Threads : Sure(t) => Knows(t, On(t))

\* A search has the owner of its block still ahead.
Searches ==
  ~ stale => \A t \in Threads : pc[t] = "next" =>
               /\ owner[ptr[t].mem] # t
               /\ \A k \in DOMAIN reg : reg[k] = owner[ptr[t].mem] => k > visit[t]

\* SizesCount, and what makes the numbers in it natural ones.
Sizes ==
  /\ SizesCount
  /\ IsFiniteSet(live \cup missed)
  /\ \A o \in Threads : IsFiniteSet(ToUncount(o))

\* Readers of the map, and who locks it.
MapLocks ==
  /\ \A t \in mapMutex.shared : pc[t] \in Inside \cup {"next"}
  /\ \A t \in Threads : mapMutex.spLock = t => pc[t] \in {"emplace", "insert"}

\* Readers of o's cache, and who locks it; who has a position in it but for that.
CacheLocks ==
  /\ \A o \in Threads :
       /\ \A t \in mutex[o].shared : pc[t] \in {"look", "decide", "uncount"} /\ On(t) = o
       /\ \A t \in Threads :
            mutex[o].spLock = t => pc[t] \in {"full", "splice", "release"} /\ On(t) = o
  /\ \A t \in Threads : pc[t] \in {"look", "decide"} => t \in mutex[On(t)].shared

Inv == /\ TypeOK
       /\ Places
       /\ Blocks
       /\ Buckets
       /\ Memory
       /\ Positions
       /\ Searches
       /\ LiveMemoryIsKept
       /\ EveryBlockIsFound
       /\ Sizes
       /\ MapLocks
       /\ CacheLocks

-----------------------------------------------------------------------------
(* What the invariant says of the state, in the form the steps use.         *)

\* The vectors of a cache.
LEMMA CacheFacts ==
  ASSUME TypeOK, NEW o \in Threads
  PROVE  /\ slabs[o] \in Seq(Slab) /\ Len(slabs[o]) \in Nat
         /\ DOMAIN slabs[o] = 1 .. Len(slabs[o])
         /\ \A k \in 1 .. Len(slabs[o]) : slabs[o][k] \in Slab /\ slabs[o][k].mem \in Mems
         /\ slabs[o] # <<>> => active[o] \in 1 .. Len(slabs[o])
         /\ slabs[o] = <<>> => Len(slabs[o]) = 0
<1>1. slabs[o] \in Seq(Slab)
  BY DEF TypeOK
<1>2. /\ Len(slabs[o]) \in Nat /\ DOMAIN slabs[o] = 1 .. Len(slabs[o])
      /\ slabs[o] \in [1 .. Len(slabs[o]) -> Slab]
  BY <1>1, LenProperties
<1>3. \A k \in 1 .. Len(slabs[o]) : slabs[o][k] \in Slab /\ slabs[o][k].mem \in Mems
  BY <1>2 DEF Slab
<1>4. slabs[o] # <<>> => active[o] \in 1 .. Len(slabs[o])
  BY <1>2 DEF TypeOK
<1>5. slabs[o] = <<>> => Len(slabs[o]) = 0
  BY <1>1, EmptySeq
<1> QED BY <1>1, <1>2, <1>3, <1>4, <1>5

\* The map.
LEMMA MapFacts ==
  ASSUME TypeOK
  PROVE  /\ reg \in Seq(Threads) /\ Len(reg) \in Nat /\ DOMAIN reg = 1 .. Len(reg)
         /\ \A k \in DOMAIN reg : reg[k] \in Threads /\ Registered(reg[k])
<1>1. reg \in Seq(Threads)
  BY DEF TypeOK
<1>2. /\ Len(reg) \in Nat /\ DOMAIN reg = 1 .. Len(reg)
      /\ reg \in [1 .. Len(reg) -> Threads]
  BY <1>1, LenProperties
<1>3. \A k \in DOMAIN reg : Registered(reg[k])
  BY DEF Registered, Range
<1> QED BY <1>1, <1>2, <1>3

\* A thread at a bucket is at that of a registered thread, which has slabs.
LEMMA AtBucket ==
  ASSUME Inv, NEW k \in DOMAIN reg
  PROVE  /\ reg[k] \in Threads /\ Registered(reg[k])
         /\ slabs[reg[k]] # <<>> /\ Len(slabs[reg[k]]) >= 1
         /\ active[reg[k]] \in 1 .. Len(slabs[reg[k]])
<1>1. TypeOK /\ Buckets
  BY DEF Inv
<1>2. reg[k] \in Threads /\ Registered(reg[k])
  BY <1>1, MapFacts
<1>3. slabs[reg[k]] # <<>>
  BY <1>1, <1>2 DEF Buckets
<1> QED BY <1>1, <1>2, <1>3, CacheFacts

LEMMA OnFacts ==
  ASSUME Inv, NEW t \in Threads, pc[t] \in Inside
  PROVE  /\ visit[t] \in DOMAIN reg /\ On(t) = reg[visit[t]]
         /\ On(t) \in Threads /\ Registered(On(t))
         /\ slabs[On(t)] # <<>> /\ Len(slabs[On(t)]) >= 1
         /\ active[On(t)] \in 1 .. Len(slabs[On(t)])
<1>1. visit[t] \in DOMAIN reg
  BY DEF Inv, Places, Place, Inside
<1>2. On(t) = reg[visit[t]]
  BY DEF On
<1> QED BY <1>1, <1>2, AtBucket

\* The owner in allocate() is at its own.
LEMMA OwnFacts ==
  ASSUME Inv, NEW t \in Threads, pc[t] \in {"take", "full", "count", "search"}
  PROVE  /\ On(t) = t /\ Registered(t)
         /\ slabs[t] # <<>> /\ Len(slabs[t]) >= 1
         /\ active[t] \in 1 .. Len(slabs[t])
<1>1. On(t) = t
  BY DEF Inv, Places, Place
<1> QED BY <1>1, OnFacts DEF Inside

\* Memory that was not given to anyone is in no slab and holds no block.
LEMMA FreshMemory ==
  ASSUME Inv, NEW m \in Mems, owner[m] = Nobody
  PROVE  /\ \A o \in Threads : \A k \in DOMAIN slabs[o] : slabs[o][k].mem # m
         /\ \A p \in live \cup missed : p.mem # m
<1>1. Memory /\ TypeOK
  BY DEF Inv
<1>2. \A o \in Threads : \A k \in DOMAIN slabs[o] : slabs[o][k].mem # m
  BY <1>1, ThreadsAssumption DEF Memory
<1>3. ~ Registered(Nobody)
  BY <1>1, MapFacts, ThreadsAssumption DEF Registered, Range
<1>4. \A p \in live \cup missed : p.mem # m
  BY <1>1, <1>3 DEF Memory
<1> QED BY <1>2, <1>4

-----------------------------------------------------------------------------
(* What threads do and where they are.                                      *)

\* A thread registers at the end of the map.
LEMMA EmplaceFacts ==
  ASSUME TypeOK, NEW t \in Threads, Emplace(t)
  PROVE  /\ reg' \in Seq(Threads) /\ DOMAIN reg' = 1 .. Len(reg) + 1
         /\ DOMAIN reg \subseteq DOMAIN reg'
         /\ reg'[Len(reg) + 1] = t
         /\ \A k \in DOMAIN reg : reg'[k] = reg[k]
         /\ \A u : Registered(u)' <=> Registered(u) \/ u = t
<1>1. reg' = Append(reg, t)
  BY DEF Emplace
<1>2. /\ reg' \in Seq(Threads) /\ Len(reg') = Len(reg) + 1
      /\ reg'[Len(reg) + 1] = t
      /\ \A k \in 1 .. Len(reg) : reg'[k] = reg[k]
  BY <1>1, MapFacts, AppendProperties
<1>3. DOMAIN reg' = 1 .. Len(reg) + 1 /\ DOMAIN reg = 1 .. Len(reg) /\ Len(reg) \in Nat
  BY <1>2, MapFacts, LenProperties
<1>4. \A u : Registered(u)' <=> Registered(u) \/ u = t
  BY <1>2, <1>3 DEF Registered, Range
<1> QED BY <1>2, <1>3, <1>4

\* Apart from registration the map stays as it is.
LEMMA MapStays ==
  ASSUME NEW t \in Threads,
         Call(t) \/ FindOwn(t) \/ FindNone(t) \/ Build(t) \/ AllocateStep(t)
           \/ DeallocateStep(t)
  PROVE  reg' = reg
BY DEF Call, CallAllocate, CallDeallocate, FindOwn, FindNone, Build, AllocateStep,
       Take, TakeFromNone, TakeRacing, InFull, FullMerge, FullStepBack, FullAddCache, CountUp,
       DeallocateStep, SearchOwn, SearchNext, Nearest, SearchEnd, Return, PassOver, Look, Decide,
       MoveSplice, MoveRelease, Moved, MoveAstray, CountDown, data

\* A thread is at a bucket while it is inside one, and only then.
LEMMA PlacesStep ==
  ASSUME Inv, NEW t \in Threads,
         Call(t) \/ MapStep(t) \/ AllocateStep(t) \/ DeallocateStep(t)
  PROVE  Places'
<1> SUFFICES ASSUME NEW u \in Threads PROVE Place(u)'
  BY DEF Places
<1> USE DEF Place, On, Goto
<1>0. /\ Place(t) /\ Place(u)
      /\ pc \in [Threads -> Labels] /\ visit \in [Threads -> {0} \cup DOMAIN reg]
  BY DEF Inv, Places, TypeOK
<1>1. CASE Call(t)
  BY <1>0, <1>1 DEF Call, CallAllocate, CallDeallocate, data
<1>2. CASE FindOwn(t)
  <2>1. \E k \in DOMAIN reg : reg[k] = t
    BY <1>2 DEF FindOwn, Registered, Range
  <2> QED BY <1>0, <1>2, <2>1 DEF FindOwn, data
<1>3. CASE FindNone(t) \/ Build(t)
  BY <1>0, <1>3 DEF FindNone, Build, data
<1>4. CASE Emplace(t)
  BY <1>0, <1>4, EmplaceFacts DEF Emplace, Inv
<1>5. CASE AllocateStep(t)
  BY <1>0, <1>5 DEF AllocateStep, Take, TakeFromNone, TakeRacing, InFull, FullMerge, FullStepBack,
     FullAddCache, CountUp, data, calls
<1>6. CASE SearchOwn(t)
  BY <1>0, <1>6 DEF SearchOwn, Return, data
<1>7. CASE SearchNext(t)
  BY <1>0, <1>7 DEF SearchNext, Nearest, Ahead, Return, PassOver, data
<1>8. CASE SearchEnd(t)
  BY <1>0, <1>8 DEF SearchEnd, Leave, data
<1>9. CASE Look(t) \/ Decide(t)
  BY <1>0, <1>9 DEF Look, Decide, data
<1>10. CASE MoveSplice(t) \/ MoveRelease(t)
  BY <1>0, <1>10 DEF MoveSplice, MoveRelease, Moved, MoveAstray, data, calls
<1>11. CASE CountDown(t)
  BY <1>0, <1>11 DEF CountDown, Leave, data
<1> QED BY <1>1, <1>2, <1>3, <1>4, <1>5, <1>6, <1>7, <1>8, <1>9, <1>10, <1>11
        DEF MapStep, DeallocateStep

-----------------------------------------------------------------------------
(* What the steps do to the slabs.                                          *)

\* One cache gets another vector.
LEMMA CacheChanges ==
  ASSUME TypeOK, NEW o \in Threads, NEW v \in Seq(Slab), slabs' = [slabs EXCEPT ![o] = v]
  PROVE  /\ slabs' \in [Threads -> Seq(Slab)] /\ slabs'[o] = v
         /\ \A u \in Threads : u # o => slabs'[u] = slabs[u]
         /\ Len(v) \in Nat /\ DOMAIN v = 1 .. Len(v)
BY LenProperties DEF TypeOK

\* One slab of a cache changes.
LEMMA SlabChanges ==
  ASSUME TypeOK, NEW o \in Threads, NEW j \in 1 .. Len(slabs[o]), NEW e \in Slab,
         slabs' = [slabs EXCEPT ![o] = [slabs[o] EXCEPT ![j] = e]]
  PROVE  /\ slabs' \in [Threads -> Seq(Slab)]
         /\ slabs'[o] \in Seq(Slab) /\ Len(slabs'[o]) = Len(slabs[o])
         /\ DOMAIN slabs'[o] = DOMAIN slabs[o]
         /\ \A k \in 1 .. Len(slabs[o]) : slabs'[o][k] = IF k = j THEN e ELSE slabs[o][k]
         /\ \A u \in Threads : u # o => slabs'[u] = slabs[u]
<1> DEFINE v == [slabs[o] EXCEPT ![j] = e]
<1>1. /\ v \in Seq(Slab) /\ Len(v) = Len(slabs[o])
      /\ \A k \in 1 .. Len(slabs[o]) : v[k] = IF k = j THEN e ELSE slabs[o][k]
  BY CacheFacts, ExceptSeq
<1> HIDE DEF v
<1>2. slabs' = [slabs EXCEPT ![o] = v]
  BY DEF v
<1> QED BY <1>1, <1>2, CacheChanges, CacheFacts, ZenonT(40)

\* allocate() takes a block that nobody holds.
LEMMA TakeFacts ==
  ASSUME Inv, NEW t \in Threads, NEW i \in Indices, Take(t, i)
  PROVE  LET a == active[t]
             p == [mem |-> slabs[t][a].mem, idx |-> i]
             e == [slabs[t][a] EXCEPT !.availible = @ \ {i}]
         IN /\ p \in Pointers /\ p \notin live \cup missed
            /\ live' = live \cup {p} /\ ptr' = [ptr EXCEPT ![t] = p]
            /\ a \in 1 .. Len(slabs[t]) /\ e \in Slab
            /\ slabs' = [slabs EXCEPT ![t] = [slabs[t] EXCEPT ![a] = e]]
<1> DEFINE a == active[t]
           p == [mem |-> slabs[t][a].mem, idx |-> i]
           e == [slabs[t][a] EXCEPT !.availible = @ \ {i}]
<1>1. pc[t] = "take" /\ i \in slabs[t][a].availible
  BY DEF Take, Active
<1>2. a \in 1 .. Len(slabs[t]) /\ slabs[t][a] \in Slab /\ slabs[t][a].mem \in Mems
  BY <1>1, OwnFacts, CacheFacts DEF Inv
<1>3. p \in Pointers
  BY <1>2 DEF Pointers
<1>4. i \notin HeldIn(slabs[t][a].mem)
  BY <1>1, <1>2, CacheFacts DEF Inv, Memory, Fits, HeldIn
<1>5. p \notin live \cup missed
  BY <1>4 DEF HeldIn
<1>6. e \in Slab
  BY <1>2 DEF Slab
<1>7. ptr' = [ptr EXCEPT ![t] = p] /\ ptr \in [Threads -> Pointers \cup {None}]
  BY DEF Take, Active, Inv, TypeOK
<1>8. live' = live \cup {p}
  BY <1>7 DEF Take
<1>9. slabs' = [slabs EXCEPT ![t] = [slabs[t] EXCEPT ![a] = e]]
  BY DEF Take
<1> QED BY <1>2, <1>3, <1>5, <1>6, <1>7, <1>8, <1>9

\* mergeForeigns() moves blocks within the active slab.
LEMMA MergeFacts ==
  ASSUME Inv, NEW t \in Threads, FullMerge(t)
  PROVE  LET a == active[t]
             e == [slabs[t][a] EXCEPT !.availible = @ \cup slabs[t][a].foreigns,
                                      !.foreigns  = {}]
         IN /\ a \in 1 .. Len(slabs[t]) /\ e \in Slab
            /\ slabs' = [slabs EXCEPT ![t] = [slabs[t] EXCEPT ![a] = e]]
<1> DEFINE a == active[t]
           e == [slabs[t][a] EXCEPT !.availible = @ \cup slabs[t][a].foreigns,
                                    !.foreigns  = {}]
<1>1. pc[t] = "full"
  BY DEF InFull, FullMerge
<1>2. a \in 1 .. Len(slabs[t]) /\ slabs[t][a] \in Slab
  BY <1>1, OwnFacts, CacheFacts DEF Inv
<1>3. e \in Slab
  BY <1>2 DEF Slab
<1>4. slabs' = [slabs EXCEPT ![t][a].availible = @ \cup slabs[t][a].foreigns,
                             ![t][a].foreigns  = {}]
  BY DEF InFull, FullMerge, Active
<1>5. slabs \in [Threads -> Seq(Slab)] /\ DOMAIN slabs[t] = 1 .. Len(slabs[t])
  BY CacheFacts DEF Inv, TypeOK
<1>6. slabs' = [slabs EXCEPT ![t] = [slabs[t] EXCEPT ![a] = e]]
  BY <1>2, <1>4, <1>5 DEF Slab
<1> QED BY <1>2, <1>3, <1>6

\* addCache() puts a slab of fresh memory in front.
LEMMA AddFacts ==
  ASSUME Inv, NEW t \in Threads, FullAddCache(t)
  PROVE  \E m \in Mems :
           /\ GetBlock(m, t) /\ NewSlab(m) \in Slab
           /\ slabs' = [slabs EXCEPT ![t] = SwapIn(slabs[t], 1, NewSlab(m))]
           /\ SwapIn(slabs[t], 1, NewSlab(m)) \in Seq(Slab)
           /\ Len(SwapIn(slabs[t], 1, NewSlab(m))) = Len(slabs[t]) + 1
           /\ SwapIn(slabs[t], 1, NewSlab(m))[1] = NewSlab(m)
           /\ SwapIn(slabs[t], 1, NewSlab(m))[Len(slabs[t]) + 1] = slabs[t][1]
           /\ \A k \in 1 .. Len(slabs[t]) :
                k # 1 => SwapIn(slabs[t], 1, NewSlab(m))[k] = slabs[t][k]
<1>1. PICK m \in Mems : /\ GetBlock(m, t)
                        /\ slabs' = [slabs EXCEPT ![t] = SwapIn(@, 1, NewSlab(m))]
  BY DEF InFull, FullAddCache
<1>2. NewSlab(m) \in Slab
  BY DEF NewSlab, Slab
<1>3. slabs[t] \in Seq(Slab) /\ 1 \in 1 .. Len(slabs[t])
  BY OwnFacts, CacheFacts DEF Inv, InFull, FullAddCache
<1>4. /\ SwapIn(slabs[t], 1, NewSlab(m)) \in Seq(Slab)
      /\ Len(SwapIn(slabs[t], 1, NewSlab(m))) = Len(slabs[t]) + 1
      /\ SwapIn(slabs[t], 1, NewSlab(m))[1] = NewSlab(m)
      /\ SwapIn(slabs[t], 1, NewSlab(m))[Len(slabs[t]) + 1] = slabs[t][1]
      /\ \A k \in 1 .. Len(slabs[t]) :
           k # 1 => SwapIn(slabs[t], 1, NewSlab(m))[k] = slabs[t][k]
  BY <1>2, <1>3, SwapInFirst
<1>5. slabs' = [slabs EXCEPT ![t] = SwapIn(slabs[t], 1, NewSlab(m))]
  BY <1>1
<1> QED BY <1>1, <1>2, <1>4, <1>5

\* Slab j of o's cache becomes e, with block p given back.
GivesBack(o, p, j, e) ==
  /\ slabs[o][j].mem = p.mem /\ e.mem = p.mem
  /\ \/ /\ e.availible = slabs[o][j].availible \cup {p.idx}
        /\ e.foreigns = slabs[o][j].foreigns
     \/ /\ e.availible = slabs[o][j].availible
        /\ e.foreigns = slabs[o][j].foreigns \cup {p.idx}
  /\ slabs' = [slabs EXCEPT ![o] = [slabs[o] EXCEPT ![j] = e]]

\* deallocate() gives a block back to the slab it came from.
LEMMA ReturnFacts ==
  ASSUME Inv, NEW t \in Threads, NEW k \in DOMAIN reg, Return(t, k),
         pc[t] \in {"search", "next"}, NEW o, o = reg[k], NEW p, p = ptr[t]
  PROVE  /\ o \in Threads /\ p \in Pointers /\ p \in live /\ p # None
         /\ p.mem \in Mems /\ p.idx \in Indices /\ p = [mem |-> p.mem, idx |-> p.idx]
         /\ owner[p.mem] = o
         /\ \E j \in 1 .. Len(slabs[o]) : \E e \in Slab :
              GivesBack(o, p, j, e) /\ it' = [it EXCEPT ![t] = j]
<1>1. o \in Threads
  BY MapFacts DEF Inv
<1>2. p \in live /\ p \in Pointers /\ p # None
  BY DEF Inv, Blocks, TypeOK
<1>3. p.mem \in Mems /\ p.idx \in Indices /\ p = [mem |-> p.mem, idx |-> p.idx]
  BY <1>2 DEF Pointers
<1>4. PICK j \in Containing(o, p) :
        /\ slabs' = [slabs EXCEPT ![o][j] = GiveBack(@, p.idx, o = t)]
        /\ it' = [it EXCEPT ![t] = j]
  BY DEF Return
<1>5. j \in 1 .. Len(slabs[o]) /\ slabs[o][j].mem = p.mem
  BY <1>1, <1>4, CacheFacts DEF Containing, Inv
<1>6. owner[p.mem] = o
  BY <1>1, <1>5, CacheFacts DEF Inv, Memory
<1>7. slabs[o][j] \in Slab
  BY <1>1, <1>5, CacheFacts DEF Inv
<1>8. PICK e \in Slab :
        /\ slabs' = [slabs EXCEPT ![o][j] = e] /\ e.mem = p.mem
        /\ \/ /\ e.availible = slabs[o][j].availible \cup {p.idx}
              /\ e.foreigns = slabs[o][j].foreigns
           \/ /\ e.availible = slabs[o][j].availible
              /\ e.foreigns = slabs[o][j].foreigns \cup {p.idx}
  <2> DEFINE s == slabs[o][j]
             a == [s EXCEPT !.availible = @ \cup {p.idx}]
             f == [s EXCEPT !.foreigns = @ \cup {p.idx}]
  <2>1. /\ a \in Slab /\ a.mem = p.mem
        /\ a.availible = s.availible \cup {p.idx} /\ a.foreigns = s.foreigns
    BY <1>3, <1>5, <1>7 DEF Slab
  <2>2. /\ f \in Slab /\ f.mem = p.mem
        /\ f.availible = s.availible /\ f.foreigns = s.foreigns \cup {p.idx}
    BY <1>3, <1>5, <1>7 DEF Slab
  <2>3. slabs' = [slabs EXCEPT ![o][j] = a] \/ slabs' = [slabs EXCEPT ![o][j] = f]
    BY <1>4 DEF GiveBack
  <2> HIDE DEF a, f
  <2> QED BY <2>1, <2>2, <2>3
<1>9. slabs' = [slabs EXCEPT ![o] = [slabs[o] EXCEPT ![j] = e]]
  BY <1>8
<1>10. GivesBack(o, p, j, e)
  BY <1>5, <1>8, <1>9 DEF GivesBack
<1> QED BY <1>1, <1>2, <1>3, <1>4, <1>5, <1>6, <1>8, <1>10

\* A thread gets its first slab, of fresh memory.
LEMMA BuildFacts ==
  ASSUME Inv, NEW t \in Threads, Build(t)
  PROVE  /\ ~ Registered(t) /\ slabs[t] = <<>>
         /\ \E m \in Mems :
              /\ GetBlock(m, t) /\ NewSlab(m) \in Slab
              /\ slabs' = [slabs EXCEPT ![t] = <<NewSlab(m)>>]
              /\ <<NewSlab(m)>> \in Seq(Slab) /\ Len(<<NewSlab(m)>>) = 1
              /\ <<NewSlab(m)>>[1] = NewSlab(m)
<1>1. pc[t] \in {"build", "join"}
  BY DEF Build
<1>2. ~ Registered(t) /\ slabs[t] = <<>>
  BY <1>1 DEF Inv, Buckets
<1>3. PICK m \in Mems : GetBlock(m, t) /\ slabs' = [slabs EXCEPT ![t] = <<NewSlab(m)>>]
  BY DEF Build
<1>4. NewSlab(m) \in Slab
  BY DEF NewSlab, Slab
<1>5. /\ <<NewSlab(m)>> \in Seq(Slab) /\ Len(<<NewSlab(m)>>) = 1
      /\ <<NewSlab(m)>>[1] = NewSlab(m)
  BY <1>4
<1> QED BY <1>2, <1>3, <1>4, <1>5

\* A vector whose elements come from places of another one, each from its own.
Rearranges(w, v) ==
  \E From \in [1 .. Len(w) -> 1 .. Len(v)] :
    /\ \A k \in 1 .. Len(w) : w[k] = v[From[k]]
    /\ \A j, k \in 1 .. Len(w) : From[j] = From[k] => j = k

\* spliceBoth() permutes the slabs of a cache.
LEMMA SpliceFacts ==
  ASSUME TypeOK, NEW o \in Threads, NEW i \in active[o] .. Len(slabs[o]),
         slabs[o] # <<>>
  PROVE  LET w == Splice(slabs[o], active[o], i)
         IN /\ w \in Seq(Slab) /\ Len(w) = Len(slabs[o]) /\ Rearranges(w, slabs[o])
            /\ \A k \in 1 .. Len(slabs[o]) : \E j \in 1 .. Len(w) : w[j] = slabs[o][k]
<1> DEFINE v   == slabs[o]
           pos == active[o]
           w   == Splice(v, pos, i)
<1>1. /\ v \in Seq(Slab) /\ Len(v) \in Nat /\ DOMAIN v = 1 .. Len(v)
      /\ pos \in 1 .. Len(v) /\ i \in 1 .. Len(v) /\ pos <= i
  BY CacheFacts
<1> HIDE DEF v, pos
<1>2. CASE pos < i
  <2>1. /\ w \in Seq(Slab) /\ Len(w) = Len(v)
        /\ \A k \in 1 .. Len(v) : /\ SpliceFrom(pos, i, k) \in 1 .. Len(v)
                                  /\ w[k] = v[SpliceFrom(pos, i, k)]
    BY <1>1, <1>2, SpliceIs
  <2> DEFINE From == [k \in 1 .. Len(w) |-> SpliceFrom(pos, i, k)]
  <2>2. From \in [1 .. Len(w) -> 1 .. Len(v)] /\ \A k \in 1 .. Len(w) : w[k] = v[From[k]]
    BY <2>1
  <2>3. \A j, k \in 1 .. Len(w) : From[j] = From[k] => j = k
    BY <1>1, <1>2, <2>1 DEF SpliceFrom
  <2> HIDE DEF From, w
  <2>4. Rearranges(w, v)
    BY <2>2, <2>3 DEF Rearranges
  <2>5. ASSUME NEW k \in 1 .. Len(v) PROVE \E j \in 1 .. Len(w) : w[j] = v[k]
    <3> DEFINE j == IF k = i THEN pos ELSE IF pos <= k /\ k < i THEN k + 1 ELSE k
    <3>1. j \in 1 .. Len(v) /\ SpliceFrom(pos, i, j) = k
      BY <1>1, <1>2 DEF SpliceFrom
    <3> QED BY <2>1, <3>1
  <2> QED BY <2>1, <2>4, <2>5 DEF v, pos, w
<1>3. CASE pos = i
  <2>1. w = [k \in DOMAIN v |-> v[k]]
    BY <1>1, <1>3 DEF Splice
  <2>2. w = v
    BY <1>1, <2>1
  <2> DEFINE From == [k \in 1 .. Len(v) |-> k]
  <2>3. Rearranges(v, v)
    <3>1. From \in [1 .. Len(v) -> 1 .. Len(v)] /\ \A k \in 1 .. Len(v) : From[k] = k
      OBVIOUS
    <3> QED BY <3>1 DEF Rearranges
  <2> HIDE DEF w
  <2>4. \A k \in 1 .. Len(v) : \E j \in 1 .. Len(w) : w[j] = v[k]
    BY <2>2
  <2> QED BY <1>1, <2>2, <2>3, <2>4 DEF v, pos, w
<1> QED BY <1>1, <1>2, <1>3

\* memToDispatch() takes one slab away.
LEMMA ReleaseFacts ==
  ASSUME TypeOK, NEW o \in Threads, NEW i \in DOMAIN slabs[o], Len(slabs[o]) > 1
  PROVE  LET w == IF i < active[o] THEN Erase(slabs[o], i) ELSE SwapPop(slabs[o], i)
         IN /\ w \in Seq(Slab) /\ Len(w) = Len(slabs[o]) - 1 /\ Rearranges(w, slabs[o])
            /\ \A k \in 1 .. Len(slabs[o]) :
                 k # i => \E j \in 1 .. Len(w) : w[j] = slabs[o][k]
<1> DEFINE v == slabs[o]
           w == IF i < active[o] THEN Erase(v, i) ELSE SwapPop(v, i)
           n == Len(v) - 1
<1>1. /\ v \in Seq(Slab) /\ Len(v) \in Nat /\ DOMAIN v = 1 .. Len(v)
      /\ i \in 1 .. Len(v) /\ n \in Nat
  BY CacheFacts
<1> HIDE DEF v
<1>2. CASE i < active[o]
  <2>1. /\ w \in Seq(Slab) /\ Len(w) = n
        /\ \A k \in 1 .. n : EraseFrom(i, k) \in 1 .. Len(v) /\ w[k] = v[EraseFrom(i, k)]
    BY <1>1, <1>2, EraseIs
  <2> HIDE DEF w
  <2> DEFINE From == [k \in 1 .. Len(w) |-> EraseFrom(i, k)]
  <2>2. From \in [1 .. Len(w) -> 1 .. Len(v)] /\ \A k \in 1 .. Len(w) : w[k] = v[From[k]]
    BY <2>1
  <2>3. \A j, k \in 1 .. Len(w) : From[j] = From[k] => j = k
    BY <1>1, <2>1 DEF EraseFrom
  <2>4. ASSUME NEW k \in 1 .. Len(v), k # i
        PROVE  \E j \in 1 .. Len(w) : w[j] = v[k]
    <3>1. CASE k < i
      BY <1>1, <2>1, <2>4, <3>1 DEF EraseFrom
    <3>2. CASE k > i
      <4>1. k - 1 \in 1 .. n /\ EraseFrom(i, k - 1) = k
        BY <1>1, <2>4, <3>2 DEF EraseFrom
      <4> QED BY <2>1, <4>1
    <3> QED BY <1>1, <2>4, <3>1, <3>2
  <2> HIDE DEF From
  <2>5. Rearranges(w, v)
    BY <2>2, <2>3 DEF Rearranges
  <2> QED BY <2>1, <2>4, <2>5 DEF v, w
<1>3. CASE ~ (i < active[o])
  <2>1. /\ w \in Seq(Slab) /\ Len(w) = n
        /\ \A k \in 1 .. n : /\ SwapPopFrom(Len(v), i, k) \in 1 .. Len(v)
                             /\ w[k] = v[SwapPopFrom(Len(v), i, k)]
    BY <1>1, <1>3, SwapPopIs
  <2> HIDE DEF w
  <2> DEFINE From == [k \in 1 .. Len(w) |-> SwapPopFrom(Len(v), i, k)]
  <2>2. From \in [1 .. Len(w) -> 1 .. Len(v)] /\ \A k \in 1 .. Len(w) : w[k] = v[From[k]]
    BY <2>1
  <2>3. \A j, k \in 1 .. Len(w) : From[j] = From[k] => j = k
    BY <1>1, <2>1 DEF SwapPopFrom
  <2>4. ASSUME NEW k \in 1 .. Len(v), k # i
        PROVE  \E j \in 1 .. Len(w) : w[j] = v[k]
    <3>0. k < Len(v) \/ k = Len(v)
      BY <1>1
    <3>1. CASE k < Len(v)
      BY <1>1, <2>1, <2>4, <3>1 DEF SwapPopFrom
    <3>2. CASE k = Len(v)
      <4>1. i \in 1 .. n /\ SwapPopFrom(Len(v), i, i) = k
        BY <1>1, <2>4, <3>2 DEF SwapPopFrom
      <4>2. w[i] = v[k] /\ i \in 1 .. Len(w)
        BY <2>1, <4>1
      <4> QED BY <4>2
    <3> QED BY <3>0, <3>1, <3>2
  <2> HIDE DEF From
  <2>5. Rearranges(w, v)
    BY <2>2, <2>3 DEF Rearranges
  <2> QED BY <2>1, <2>4, <2>5 DEF v, w
<1> QED BY <1>2, <1>3

-----------------------------------------------------------------------------
(* The parts of the invariant about threads and blocks.                     *)

\* Which block a call is about, and that it is the only one.
LEMMA BlocksStep ==
  ASSUME Inv, NEW t \in Threads,
         Call(t) \/ MapStep(t) \/ AllocateStep(t) \/ DeallocateStep(t)
  PROVE  Blocks'
<1>0. /\ Blocks /\ pc \in [Threads -> Labels] /\ ptr \in [Threads -> Pointers \cup {None}]
      /\ None \notin Pointers /\ live \subseteq Pointers
  BY NoneAssumption DEF Inv, TypeOK
<1> USE DEF Blocks, Goto
<1>1. CASE Call(t)
  BY <1>0, <1>1 DEF Call, CallAllocate, CallDeallocate, hist
<1>2. CASE MapStep(t)
  BY <1>0, <1>2 DEF MapStep, FindOwn, FindNone, Build, Emplace, hist
<1>3. CASE \E i \in Indices : Take(t, i)
  <2>1. PICK i \in Indices : Take(t, i)
    BY <1>3
  <2>2. PICK p \in Pointers : /\ p \notin live /\ live' = live \cup {p}
                              /\ ptr' = [ptr EXCEPT ![t] = p]
    BY <2>1, TakeFacts
  <2>3. pc' = [pc EXCEPT ![t] = "full"] \/ pc' = [pc EXCEPT ![t] = "count"]
    BY <2>1 DEF Take
  <2> QED BY <1>0, <2>2, <2>3
<1>4. CASE TakeFromNone(t) \/ TakeRacing(t)
  BY <1>0, <1>4 DEF TakeFromNone, TakeRacing, calls
<1>5. CASE FullMerge(t) \/ FullStepBack(t) \/ FullAddCache(t)
  BY <1>0, <1>5 DEF InFull, FullMerge, FullStepBack, FullAddCache, hist
<1>6. CASE CountUp(t)
  BY <1>0, <1>6 DEF CountUp, hist
<1>7. ASSUME NEW k \in DOMAIN reg, Return(t, k), pc[t] \in {"search", "next"} PROVE Blocks'
  BY <1>0, <1>7 DEF Return
<1>8. ASSUME NEW k \in DOMAIN reg, PassOver(t, k), pc[t] \in {"search", "next"}
      PROVE  Blocks'
  BY <1>0, <1>8 DEF PassOver, hist
<1>9. CASE SearchOwn(t)
  <2>1. pc[t] = "search" /\ visit[t] \in DOMAIN reg
    BY <1>9, OnFacts DEF SearchOwn, Inside
  <2>2. CASE Return(t, visit[t])
    BY <1>7, <2>1, <2>2
  <2>3. CASE ~ Return(t, visit[t])
    BY <1>0, <1>9, <2>3 DEF SearchOwn, hist
  <2> QED BY <2>2, <2>3
<1>10. CASE SearchNext(t)
  <2>1. PICK k \in Ahead(t) : Return(t, k) \/ PassOver(t, k)
    BY <1>10 DEF SearchNext, Nearest
  <2> QED BY <1>7, <1>8, <1>10, <2>1 DEF SearchNext, Nearest, Ahead
<1>11. CASE SearchEnd(t)
  BY <1>0, <1>11 DEF SearchEnd, Leave
<1>12. CASE Look(t) \/ Decide(t)
  BY <1>0, <1>12 DEF Look, Decide, hist
<1>13. CASE MoveSplice(t) \/ MoveRelease(t)
  BY <1>0, <1>13 DEF MoveSplice, MoveRelease, Moved, MoveAstray, calls
<1>14. CASE CountDown(t)
  BY <1>0, <1>14 DEF CountDown, Leave, hist
<1> QED BY <1>1, <1>2, <1>3, <1>4, <1>5, <1>6, <1>9, <1>10, <1>11, <1>12, <1>13, <1>14
        DEF AllocateStep, DeallocateStep

\* Vectors are never emptied, and the active slab is one of a cache's slabs.
VectorsOK == /\ slabs \in [Threads -> Seq(Slab)]
           /\ active \in [Threads -> Nat]
           /\ \A t \in Threads : slabs[t] # <<>> => active[t] \in DOMAIN slabs[t]

VectorsKept == VectorsOK' /\ \A u \in Threads : slabs'[u] = <<>> <=> slabs[u] = <<>>

LEMMA OneVector ==
  ASSUME TypeOK, NEW o \in Threads, slabs[o] # <<>>,
         NEW v \in Seq(Slab), slabs' = [slabs EXCEPT ![o] = v],
         NEW a \in 1 .. Len(v), active' = [active EXCEPT ![o] = a]
  PROVE  VectorsKept
<1>1. /\ slabs' \in [Threads -> Seq(Slab)] /\ slabs'[o] = v
      /\ \A u \in Threads : u # o => slabs'[u] = slabs[u]
      /\ Len(v) \in Nat /\ DOMAIN v = 1 .. Len(v)
  BY CacheChanges
<1>2. v # <<>>
  BY <1>1, EmptySeq
<1>3. active \in [Threads -> Nat] /\ a \in Nat
  BY <1>1 DEF TypeOK
<1> QED BY <1>1, <1>2, <1>3 DEF VectorsKept, VectorsOK, TypeOK

LEMMA VectorsStep ==
  ASSUME Inv, NEW t \in Threads, AllocateStep(t) \/ DeallocateStep(t)
  PROVE  VectorsKept
<1> USE DEF data
<1>0. TypeOK /\ active \in [Threads -> Nat]
  BY DEF Inv, TypeOK
<1>a. ASSUME UNCHANGED <<slabs, active>> PROVE VectorsKept
  BY <1>0, <1>a DEF VectorsKept, VectorsOK, TypeOK
<1>b. ASSUME NEW o \in Threads, slabs[o] # <<>>, NEW j \in 1 .. Len(slabs[o]),
             NEW e \in Slab, slabs' = [slabs EXCEPT ![o] = [slabs[o] EXCEPT ![j] = e]],
             active' = active
      PROVE  VectorsKept
  <2>1. [slabs[o] EXCEPT ![j] = e] \in Seq(Slab)
        /\ Len([slabs[o] EXCEPT ![j] = e]) = Len(slabs[o])
    BY <1>0, <1>b, CacheFacts, ExceptSeq
  <2>2. active[o] \in 1 .. Len(slabs[o]) /\ active' = [active EXCEPT ![o] = active[o]]
    BY <1>0, <1>b, CacheFacts
  <2> QED BY <1>0, <1>b, <2>1, <2>2, OneVector
<1>1. CASE \E i \in Indices : Take(t, i)
  <2>1. PICK i \in Indices : Take(t, i)
    BY <1>1
  <2>2. slabs[t] # <<>> /\ active' = active
    BY <2>1, OwnFacts DEF Take
  <2>3. PICK e \in Slab :
          /\ active[t] \in 1 .. Len(slabs[t])
          /\ slabs' = [slabs EXCEPT ![t] = [slabs[t] EXCEPT ![active[t]] = e]]
    BY <2>1, TakeFacts
  <2> QED BY <2>2, <2>3, <1>b
<1>2. CASE FullMerge(t)
  <2>1. slabs[t] # <<>> /\ active' = active
    BY <1>2, OwnFacts DEF InFull, FullMerge
  <2>2. PICK e \in Slab :
          /\ active[t] \in 1 .. Len(slabs[t])
          /\ slabs' = [slabs EXCEPT ![t] = [slabs[t] EXCEPT ![active[t]] = e]]
    BY <1>2, MergeFacts
  <2> QED BY <2>1, <2>2, <1>b
<1>3. CASE FullStepBack(t)
  <2>1. slabs[t] # <<>> /\ active[t] \in 1 .. Len(slabs[t]) /\ active[t] # 1
    BY <1>3, OwnFacts DEF InFull, FullStepBack
  <2>2. active[t] - 1 \in 1 .. Len(slabs[t]) /\ slabs[t] \in Seq(Slab)
    BY <1>0, <2>1, CacheFacts
  <2>3. /\ active' = [active EXCEPT ![t] = active[t] - 1]
        /\ slabs' = [slabs EXCEPT ![t] = slabs[t]]
    BY <1>0, <1>3 DEF InFull, FullStepBack, TypeOK
  <2> QED BY <1>0, <2>1, <2>2, <2>3, OneVector
<1>4. CASE FullAddCache(t)
  <2>1. slabs[t] # <<>> /\ active[t] \in 1 .. Len(slabs[t])
    BY <1>4, OwnFacts DEF InFull, FullAddCache
  <2>2. PICK v \in Seq(Slab) : /\ slabs' = [slabs EXCEPT ![t] = v]
                               /\ Len(v) = Len(slabs[t]) + 1
    BY <1>4, AddFacts
  <2>3. active[t] \in 1 .. Len(v)
    BY <1>0, <2>1, <2>2, CacheFacts
  <2>4. active' = [active EXCEPT ![t] = active[t]]
    BY <1>0, <1>4 DEF InFull, FullAddCache
  <2> QED BY <1>0, <2>1, <2>2, <2>3, <2>4, OneVector
<1>5. CASE TakeFromNone(t) \/ TakeRacing(t) \/ CountUp(t)
  BY <1>5, <1>a DEF TakeFromNone, TakeRacing, CountUp
<1>6. ASSUME NEW k \in DOMAIN reg, Return(t, k), pc[t] \in {"search", "next"} PROVE VectorsKept
  <2>1. PICK o : o = reg[k]
    OBVIOUS
  <2>2. slabs[o] # <<>> /\ active' = active /\ o \in Threads
    BY <1>6, <2>1, AtBucket DEF Return
  <2>3. \E j \in 1 .. Len(slabs[o]) : \E e \in Slab :
          slabs' = [slabs EXCEPT ![o] = [slabs[o] EXCEPT ![j] = e]]
    BY <1>6, <2>1, ReturnFacts DEF GivesBack
  <2> QED BY <1>b, <2>2, <2>3
<1>7. CASE SearchOwn(t)
  <2>1. pc[t] = "search" /\ visit[t] \in DOMAIN reg
    BY <1>7, OnFacts DEF SearchOwn, Inside
  <2> QED BY <1>6, <1>7, <1>a, <2>1 DEF SearchOwn
<1>8. CASE SearchNext(t)
  <2>1. PICK k \in Ahead(t) : Return(t, k) \/ PassOver(t, k)
    BY <1>8 DEF SearchNext, Nearest
  <2>2. k \in DOMAIN reg /\ pc[t] = "next"
    BY <1>8, <2>1 DEF Ahead, SearchNext, Nearest
  <2> QED BY <1>6, <1>a, <2>1, <2>2 DEF PassOver
<1>9. CASE SearchEnd(t) \/ Look(t) \/ Decide(t) \/ CountDown(t)
  BY <1>9, <1>a DEF SearchEnd, Look, Decide, CountDown
<1>10. CASE MoveSplice(t)
  <2> DEFINE o == On(t)
  <2>1. o \in Threads /\ slabs[o] # <<>> /\ active[o] \in 1 .. Len(slabs[o])
    BY <1>10, OnFacts DEF MoveSplice, Inside
  <2> HIDE DEF o
  <2>2. CASE UNCHANGED data
    BY <1>a, <2>2
  <2>3. CASE /\ it[t] \in active[o] .. Len(slabs[o]) /\ active[o] < Len(slabs[o])
             /\ slabs' = [slabs EXCEPT ![o] = Splice(slabs[o], active[o], it[t])]
             /\ active' = [active EXCEPT ![o] = active[o] + 1]
    <3>1. /\ Splice(slabs[o], active[o], it[t]) \in Seq(Slab)
          /\ Len(Splice(slabs[o], active[o], it[t])) = Len(slabs[o])
      BY <1>0, <2>1, <2>3, SpliceFacts
    <3>2. active[o] + 1 \in 1 .. Len(slabs[o])
      BY <1>0, <2>1, <2>3, CacheFacts
    <3> QED BY <1>0, <2>1, <2>3, <3>1, <3>2, OneVector
  <2> QED BY <1>10, <2>2, <2>3 DEF MoveSplice, MoveAstray, o
<1>11. CASE MoveRelease(t)
  <2> DEFINE o == On(t)
             v == IF it[t] < active[o] THEN Erase(slabs[o], it[t])
                                       ELSE SwapPop(slabs[o], it[t])
             a == CASE it[t] > active[o] -> active[o]
                    [] it[t] < active[o] -> active[o] - 1
                    [] it[t] = active[o] -> Len(slabs[o]) - 1
  <2>1. o \in Threads /\ slabs[o] # <<>> /\ active[o] \in 1 .. Len(slabs[o])
    BY <1>11, OnFacts DEF MoveRelease, Inside
  <2>2. CASE UNCHANGED data
    BY <1>a, <2>2
  <2>3. CASE /\ it[t] \in DOMAIN slabs[o] /\ Len(slabs[o]) > 1
             /\ slabs' = [slabs EXCEPT ![o] = v] /\ active' = [active EXCEPT ![o] = a]
    <3>1. v \in Seq(Slab) /\ Len(v) = Len(slabs[o]) - 1
      BY <1>0, <2>1, <2>3, ReleaseFacts
    <3>2. it[t] \in 1 .. Len(slabs[o]) /\ Len(slabs[o]) \in Nat
      BY <1>0, <2>1, <2>3, CacheFacts
    <3>3. a \in 1 .. Len(slabs[o]) - 1
      BY <2>1, <2>3, <3>2
    <3> HIDE DEF v, a, o
    <3> QED BY <1>0, <2>1, <2>3, <3>1, <3>3, OneVector
  <2>4. \/ /\ it[t] \in DOMAIN slabs[o] /\ Len(slabs[o]) > 1
           /\ slabs' = [slabs EXCEPT ![o] = v] /\ active' = [active EXCEPT ![o] = a]
        \/ UNCHANGED data
    BY <1>11 DEF MoveRelease, MoveAstray
  <2> QED BY <2>2, <2>3, <2>4
<1> QED BY <1>1, <1>2, <1>3, <1>4, <1>5, <1>7, <1>8, <1>9, <1>10, <1>11
        DEF AllocateStep, DeallocateStep

\* A bucket has slabs, and a thread has one bucket.
LEMMA BucketsStep ==
  ASSUME Inv, NEW t \in Threads,
         Call(t) \/ MapStep(t) \/ AllocateStep(t) \/ DeallocateStep(t)
  PROVE  Buckets'
<1>0. Buckets /\ pc \in [Threads -> Labels]
  BY DEF Inv, TypeOK
<1>a. ASSUME reg' = reg,
             \A u \in Threads :
               /\ slabs'[u] # <<>> <=> slabs[u] # <<>>
               /\ pc'[u] \in {"build", "emplace", "join", "insert"} => ~ Registered(u)
               /\ pc'[u] \in {"emplace", "insert"} <=> pc[u] \in {"emplace", "insert"}
      PROVE  Buckets'
  BY <1>0, <1>a DEF Buckets, Registered
<1> USE DEF Goto
<1>1. CASE Call(t)
  BY <1>0, <1>1, <1>a DEF Call, CallAllocate, CallDeallocate, data, Buckets
<1>2. CASE FindOwn(t) \/ FindNone(t)
  BY <1>0, <1>2, <1>a DEF FindOwn, FindNone, data, Buckets
<1>3. CASE Build(t)
  <2>1. ~ Registered(t) /\ reg' = reg
    BY <1>3, BuildFacts DEF Build
  <2>2. PICK v \in Seq(Slab) : slabs' = [slabs EXCEPT ![t] = v] /\ Len(v) = 1
    BY <1>3, BuildFacts
  <2>3. /\ v # <<>> /\ slabs'[t] = v
        /\ \A u \in Threads : u # t => slabs'[u] = slabs[u]
    <3>1. Len(v) # Len(<<>>)
      BY <2>2, EmptySeq
    <3>2. v # <<>>
      BY <3>1
    <3> QED BY <2>2, <3>2, CacheChanges DEF Inv
  <2>4. pc' = [pc EXCEPT ![t] = "emplace"] \/ pc' = [pc EXCEPT ![t] = "insert"]
    BY <1>3 DEF Build
  <2> QED BY <1>0, <2>1, <2>3, <2>4 DEF Buckets, Registered
<1>4. CASE Emplace(t)
  <2>1. /\ slabs' = slabs /\ pc[t] \in {"emplace", "insert"}
        /\ pc' = [pc EXCEPT ![t] = "find"] \/ pc' = [pc EXCEPT ![t] = "idle"]
    BY <1>4 DEF Emplace
  <2>2. \A u \in Threads : Registered(u)' <=> Registered(u) \/ u = t
    BY <1>4, EmplaceFacts DEF Inv
  <2>3. \A j, k \in DOMAIN reg' : reg'[j] = reg'[k] => j = k
    <3>1. \A k \in DOMAIN reg : reg[k] # t
      BY <1>0, <2>1 DEF Buckets, Registered, Range
    <3>2. DOMAIN reg = 1 .. Len(reg) /\ Len(reg) \in Nat
      BY MapFacts DEF Inv
    <3> QED BY <1>0, <1>4, <3>1, <3>2, EmplaceFacts DEF Inv, Buckets
  <2> QED BY <1>0, <2>1, <2>2, <2>3 DEF Buckets
<1>5. CASE AllocateStep(t)
  <2>1. /\ reg' = reg /\ pc[t] \notin {"build", "emplace", "join", "insert"}
        /\ \E l \in {"take", "full", "count", "idle"} : pc' = [pc EXCEPT ![t] = l]
    BY <1>0, <1>5 DEF AllocateStep, Take, TakeFromNone, TakeRacing, InFull, FullMerge,
       FullStepBack, FullAddCache, CountUp, data, calls
  <2>2. \A u \in Threads : slabs'[u] # <<>> <=> slabs[u] # <<>>
    BY <1>5, VectorsStep DEF VectorsKept
  <2> QED BY <1>0, <1>a, <2>1, <2>2 DEF Buckets
<1>6. CASE DeallocateStep(t)
  <2>1. reg' = reg /\ pc[t] \notin {"build", "emplace", "join", "insert"}
    BY <1>6 DEF DeallocateStep, SearchOwn, SearchNext, Nearest, SearchEnd, Return, PassOver, Look,
       Decide, MoveSplice, MoveRelease, Moved, MoveAstray, CountDown, data
  <2>2. \A u \in Threads : slabs'[u] # <<>> <=> slabs[u] # <<>>
    BY <1>6, VectorsStep DEF VectorsKept
  <2>3. \E l \in {"look", "next", "idle", "decide", "splice", "release", "uncount", "join"} :
          /\ pc' = [pc EXCEPT ![t] = l]
          /\ l = "join" => ~ Registered(t)
    <3>1. CASE SearchOwn(t) \/ SearchNext(t)
      BY <3>1 DEF SearchOwn, SearchNext, Nearest, Return, PassOver
    <3>2. CASE SearchEnd(t) \/ CountDown(t)
      BY <3>2 DEF SearchEnd, CountDown, Leave
    <3>3. CASE Look(t) \/ Decide(t)
      BY <3>3 DEF Look, Decide
    <3>4. CASE MoveSplice(t) \/ MoveRelease(t)
      BY <1>0, <3>4 DEF MoveSplice, MoveRelease, Moved, MoveAstray, calls
    <3> QED BY <1>6, <3>1, <3>2, <3>3, <3>4 DEF DeallocateStep
  <2> QED BY <1>0, <1>a, <2>1, <2>2, <2>3 DEF Buckets
<1> QED BY <1>1, <1>2, <1>3, <1>4, <1>5, <1>6 DEF MapStep

\* size() counts the blocks of a slab that are in use.
LEMMA UsedFacts ==
  ASSUME NEW s \in Slab, Fits(s, live \cup missed)
  PROVE  Used(s) \in 0 .. Count /\ (Used(s) = 0 => HeldIn(s.mem) = {})
<1> DEFINE A == s.availible
           F == s.foreigns
<1>1. A \in SUBSET Indices /\ F \in SUBSET Indices /\ A \cap F = {}
  BY DEF Fits, Slab
<1>2. IsFiniteSet(Indices) /\ IsFiniteSet(A) /\ IsFiniteSet(F)
  BY <1>1, IndicesAssumption, FS_Subset
<1>3. Cardinality(A) \in Nat /\ Cardinality(F) \in Nat /\ Cardinality(A \cap F) = 0
  BY <1>1, <1>2, FS_EmptySet, FS_CardinalityType
<1>4. Cardinality(A \cup F) = Cardinality(A) + Cardinality(F)
  <2>1. Cardinality(A \cup F) = Cardinality(A) + Cardinality(F) - Cardinality(A \cap F)
    BY <1>2, FS_Union
  <2> HIDE DEF A, F
  <2> QED BY <1>3, <2>1
<1>5. /\ Cardinality(A \cup F) <= Cardinality(Indices)
      /\ Cardinality(Indices) = Cardinality(A \cup F) => A \cup F = Indices
  <2>1. A \cup F \in SUBSET Indices
    BY <1>1
  <2> QED BY <1>2, <2>1, FS_Subset
<1>6. Used(s) = Count - Cardinality(A \cup F)
  BY <1>4 DEF Used
<1>7. Used(s) = 0 => HeldIn(s.mem) = {}
  <2>1. ASSUME Used(s) = 0 PROVE A \cup F = Indices
    BY <1>3, <1>4, <1>5, <1>6, <2>1, CountType DEF Count
  <2> QED BY <2>1 DEF Fits, HeldIn
<1>8. Used(s) \in 0 .. Count
  <2> HIDE DEF A, F
  <2> QED BY <1>3, <1>4, <1>5, <1>6, CountType DEF Count
<1> QED BY <1>7, <1>8

-----------------------------------------------------------------------------
(* The locks.                                                               *)

\* What the operations on a mutex make of it.
LEMMA MutexFacts ==
  ASSUME NEW l \in Mutex, NEW t \in Threads
  PROVE  /\ Shared(l, t) \in Mutex /\ Shared(l, t).spLock = l.spLock
         /\ Shared(l, t).shared = l.shared \cup {t}
         /\ Unshared(l, t) \in Mutex /\ Unshared(l, t).spLock = l.spLock
         /\ Unshared(l, t).shared = l.shared \ {t}
         /\ Claimed(l, t) \in Mutex /\ Claimed(l, t).spLock = t
         /\ Claimed(l, t).shared = l.shared
         /\ Unlocked(l) \in Mutex /\ Unlocked(l).spLock = Nobody
         /\ Unlocked(l).shared = l.shared
BY DEF Mutex, Shared, Unshared, Claimed, Unlocked

\* The map's mutex is one of these after a step.
LEMMA MapLocksTyping ==
  ASSUME Inv, NEW t \in Threads,
         Call(t) \/ MapStep(t) \/ AllocateStep(t) \/ DeallocateStep(t) \/ LockStep(t)
  PROVE  mapMutex' \in Mutex
<1>1. mapMutex \in Mutex
  BY DEF Inv, TypeOK
<1>2. mapMutex' \in {mapMutex, Shared(mapMutex, t), Unshared(mapMutex, t),
                    Claimed(mapMutex, t), Unlocked(mapMutex)}
  <2> USE DEF locks
  <2>1. CASE Call(t) \/ MapStep(t) \/ LockStep(t)
    BY <2>1 DEF Call, CallAllocate, CallDeallocate, MapStep, FindOwn, FindNone, Build,
       Emplace, LockStep, ClaimMap, ClaimCache, EnterMap
  <2>2. CASE AllocateStep(t)
    BY <2>2 DEF AllocateStep, Take, TakeFromNone, TakeRacing, InFull, FullMerge,
       FullStepBack, FullAddCache, CountUp
  <2>3. CASE DeallocateStep(t)
    BY <2>3 DEF DeallocateStep, SearchOwn, SearchNext, Return, PassOver, SearchEnd, Leave,
       Look, Decide, MoveSplice, MoveRelease, Moved, MoveAstray, CountDown
  <2> QED BY <2>1, <2>2, <2>3
<1> QED BY <1>1, <1>2, MutexFacts

\* The mutex of at most one cache changes, that of the bucket the thread is at.
LEMMA CacheLocksTyping ==
  ASSUME Inv, NEW t \in Threads,
         Call(t) \/ MapStep(t) \/ AllocateStep(t) \/ DeallocateStep(t) \/ LockStep(t)
  PROVE  mutex' \in [Threads -> Mutex]
<1>1. mutex \in [Threads -> Mutex]
  BY DEF Inv, TypeOK
<1>2. CASE mutex' = mutex
  BY <1>1, <1>2
<1>3. ASSUME NEW o \in Threads,
             \/ mutex' = [mutex EXCEPT ![o] = Shared(@, t)]
             \/ mutex' = [mutex EXCEPT ![o] = Unshared(@, t)]
             \/ mutex' = [mutex EXCEPT ![o] = Claimed(@, t)]
             \/ mutex' = [mutex EXCEPT ![o] = Unlocked(@)]
      PROVE  mutex' \in [Threads -> Mutex]
  <2>1. mutex[o] \in Mutex
    BY <1>1
  <2> QED BY <1>1, <1>3, <2>1, MutexFacts
<1> USE DEF locks
<1>4. CASE Call(t) \/ MapStep(t) \/ EnterMap(t) \/ ClaimMap(t)
  BY <1>2, <1>4 DEF Call, CallAllocate, CallDeallocate, MapStep, FindOwn, FindNone, Build,
     Emplace, ClaimMap, EnterMap
<1>5. CASE ClaimCache(t)
  <2>1. On(t) \in Threads
    BY <1>5, OnFacts DEF ClaimCache, Inside
  <2> QED BY <1>3, <1>5, <2>1 DEF ClaimCache
<1>6. CASE AllocateStep(t)
  BY <1>2, <1>3, <1>6 DEF AllocateStep, Take, TakeFromNone, TakeRacing, InFull, FullMerge,
     FullStepBack, FullAddCache, CountUp
<1>7. ASSUME NEW k \in DOMAIN reg, Return(t, k) PROVE mutex' \in [Threads -> Mutex]
  <2>1. reg[k] \in Threads
    BY MapFacts DEF Inv
  <2> QED BY <1>3, <1>7, <2>1 DEF Return
<1>8. CASE SearchOwn(t)
  <2>1. visit[t] \in DOMAIN reg
    BY <1>8, OnFacts DEF SearchOwn, Inside
  <2> QED BY <1>2, <1>7, <1>8, <2>1 DEF SearchOwn
<1>9. CASE SearchNext(t)
  BY <1>2, <1>7, <1>9 DEF SearchNext, Nearest, Ahead, PassOver
<1>10. CASE SearchEnd(t) \/ Look(t)
  BY <1>2, <1>10 DEF SearchEnd, Look
<1>11. CASE Decide(t) \/ MoveSplice(t) \/ MoveRelease(t) \/ CountDown(t)
  <2>1. On(t) \in Threads
    BY <1>11, OnFacts DEF Decide, MoveSplice, MoveRelease, CountDown, Inside
  <2> QED BY <1>2, <1>3, <1>11, <2>1
          DEF Decide, MoveSplice, MoveRelease, Moved, MoveAstray, CountDown
<1> QED BY <1>4, <1>5, <1>6, <1>8, <1>9, <1>10, <1>11 DEF LockStep, DeallocateStep

-----------------------------------------------------------------------------
\* Every variable keeps its type.
LEMMA TypingStep ==
  ASSUME Inv, NEW t \in Threads,
         Call(t) \/ MapStep(t) \/ AllocateStep(t) \/ DeallocateStep(t)
  PROVE  TypeOK'
<1>0. TypeOK
  BY DEF Inv
<1>1. reg' \in Seq(Threads) /\ DOMAIN reg \subseteq DOMAIN reg'
  <2>1. CASE Emplace(t)
    BY <1>0, <2>1, EmplaceFacts
  <2>2. CASE ~ Emplace(t)
    BY <1>0, <2>2, MapStays DEF MapStep, TypeOK
  <2> QED BY <2>1, <2>2
<1>2. VectorsOK'
  <2>1. CASE AllocateStep(t) \/ DeallocateStep(t)
    BY <2>1, VectorsStep DEF VectorsKept
  <2>2. CASE UNCHANGED <<slabs, active>>
    BY <1>0, <2>2 DEF VectorsOK, TypeOK
  <2>3. CASE Build(t)
    <3>1. PICK v \in Seq(Slab) : slabs' = [slabs EXCEPT ![t] = v] /\ Len(v) = 1
      BY <2>3, BuildFacts
    <3>2. active' = [active EXCEPT ![t] = 1]
      BY <2>3 DEF Build
    <3> QED BY <1>0, <3>1, <3>2, CacheChanges DEF VectorsOK, TypeOK
  <2> QED BY <2>1, <2>2, <2>3 DEF Call, CallAllocate, CallDeallocate, MapStep, FindOwn,
          FindNone, Emplace, data
<1>3. /\ mySize' \in [Threads -> Int]
      /\ owner' \in [Mems -> Threads \cup {Nobody}]
      /\ outdated' \subseteq Threads /\ stale' \in BOOLEAN
      /\ broken' \in {"no", "empty", "race", "iterator"}
  <2> USE <1>0 DEF TypeOK, data, hist
  <2>0. \A o : Judging(o) \subseteq Threads
    BY DEF Judging
  <2>1. CASE Call(t) \/ FindOwn(t) \/ FindNone(t) \/ Emplace(t)
    BY <2>1 DEF Call, CallAllocate, CallDeallocate, FindOwn, FindNone, Emplace
  <2>2. CASE Build(t) \/ FullAddCache(t)
    <3>1. PICK m \in Mems : GetBlock(m, t)
      BY <2>2 DEF Build, InFull, FullAddCache
    <3>2. owner' \in [Mems -> Threads \cup {Nobody}]
      BY <3>1 DEF GetBlock
    <3>3. CASE Build(t)
      BY <3>2, <3>3 DEF Build
    <3>4. CASE FullAddCache(t)
      BY <2>0, <3>2, <3>4 DEF InFull, FullAddCache
    <3> QED BY <2>2, <3>3, <3>4
  <2>6. CASE AllocateStep(t) /\ ~ FullAddCache(t)
    <3>1. CASE (\E i \in Indices : Take(t, i)) \/ FullMerge(t) \/ FullStepBack(t)
      BY <2>0, <3>1 DEF Take, InFull, FullMerge, FullStepBack
    <3>2. CASE TakeFromNone(t) \/ TakeRacing(t)
      BY <3>2 DEF TakeFromNone, TakeRacing
    <3>3. CASE CountUp(t)
      BY <3>3 DEF CountUp
    <3> QED BY <2>6, <3>1, <3>2, <3>3 DEF AllocateStep
  <2>3. CASE SearchOwn(t) \/ SearchNext(t) \/ SearchEnd(t) \/ Look(t) \/ Decide(t)
    BY <2>3 DEF SearchOwn, SearchNext, Nearest, SearchEnd, Return, PassOver, Look, Decide
  <2>4. CASE MoveSplice(t) \/ MoveRelease(t)
    BY <2>0, <2>4 DEF MoveSplice, MoveRelease, Moved, MoveAstray
  <2>5. CASE CountDown(t)
    <3>1. On(t) \in Threads
      BY <2>5, OnFacts DEF CountDown, Inside
    <3> QED BY <2>5, <3>1 DEF CountDown
  <2> QED BY <2>1, <2>2, <2>3, <2>4, <2>5, <2>6 DEF MapStep, DeallocateStep
<1>4. pc' \in [Threads -> Labels]
  <2> USE <1>0 DEF TypeOK, Goto, Labels
  <2>1. CASE Call(t) \/ MapStep(t)
    BY <2>1 DEF Call, CallAllocate, CallDeallocate, MapStep, FindOwn, FindNone, Build,
       Emplace
  <2>2. CASE AllocateStep(t)
    BY <2>2 DEF AllocateStep, Take, TakeFromNone, TakeRacing, InFull, FullMerge, FullStepBack,
       FullAddCache, CountUp, calls
  <2>3. CASE DeallocateStep(t)
    BY <2>3 DEF DeallocateStep, SearchOwn, SearchNext, Nearest, SearchEnd, Return, PassOver, Leave,
       Look, Decide, MoveSplice, MoveRelease, Moved, MoveAstray, CountDown, calls
  <2> QED BY <2>1, <2>2, <2>3
<1>5. visit' \in [Threads -> {0} \cup DOMAIN reg']
  <2> USE <1>0, <1>1 DEF TypeOK
  <2>1. visit \in [Threads -> {0} \cup DOMAIN reg']
    OBVIOUS
  <2>2. CASE Call(t) \/ FindNone(t) \/ Build(t) \/ Emplace(t) \/ AllocateStep(t)
    BY <2>1, <2>2 DEF Call, CallAllocate, CallDeallocate, FindNone, Build, Emplace,
       AllocateStep, Take, TakeFromNone, TakeRacing, InFull, FullMerge, FullStepBack, FullAddCache,
       CountUp, calls
  <2>3. CASE FindOwn(t)
    <3>1. \E k \in DOMAIN reg : reg[k] = t
      BY <2>3 DEF FindOwn, Registered, Range
    <3> QED BY <2>1, <2>3, <3>1 DEF FindOwn
  <2>4. CASE SearchOwn(t)
    <3>1. visit[t] \in DOMAIN reg
      BY <2>4, OnFacts DEF SearchOwn, Inside
    <3> QED BY <2>1, <2>4, <3>1 DEF SearchOwn, Return
  <2>5. CASE SearchNext(t)
    BY <2>1, <2>5 DEF SearchNext, Nearest, Ahead, Return, PassOver
  <2>6. CASE SearchEnd(t) \/ Look(t) \/ Decide(t) \/ MoveSplice(t) \/ MoveRelease(t)
               \/ CountDown(t)
    BY <2>1, <2>6 DEF SearchEnd, Leave, Look, Decide, MoveSplice, MoveRelease, Moved,
       MoveAstray, CountDown, calls
  <2> QED BY <2>2, <2>3, <2>4, <2>5, <2>6 DEF MapStep, DeallocateStep
<1>6. /\ ptr' \in [Threads -> Pointers \cup {None}]
      /\ live' \subseteq Pointers /\ missed' \subseteq Pointers
  <2> USE <1>0 DEF TypeOK, hist
  <2>1. CASE Call(t) \/ MapStep(t)
    BY <2>1, ZenonT(40) DEF Call, CallAllocate, CallDeallocate, MapStep, FindOwn, FindNone, Build,
       Emplace
  <2>2. CASE \E i \in Indices : Take(t, i)
    <3>1. PICK i \in Indices : Take(t, i)
      BY <2>2
    <3>2. PICK p \in Pointers : live' = live \cup {p} /\ ptr' = [ptr EXCEPT ![t] = p]
      BY <3>1, TakeFacts
    <3> QED BY <3>1, <3>2 DEF Take
  <2>3. CASE AllocateStep(t) /\ ~ \E i \in Indices : Take(t, i)
    BY <2>3 DEF AllocateStep, TakeFromNone, TakeRacing, InFull, FullMerge, FullStepBack,
       FullAddCache, CountUp, calls
  <2>4. CASE SearchOwn(t) \/ SearchNext(t)
    BY <2>4 DEF SearchOwn, SearchNext, Nearest, Return, PassOver
  <2>5. CASE SearchEnd(t)
    <3>1. ptr[t] \in Pointers
      BY <2>5 DEF SearchEnd, Inv, Blocks
    <3> QED BY <2>5, <3>1 DEF SearchEnd
  <2>6. CASE Look(t) \/ Decide(t) \/ MoveSplice(t) \/ MoveRelease(t) \/ CountDown(t)
    BY <2>6 DEF Look, Decide, MoveSplice, MoveRelease, Moved, MoveAstray, CountDown, calls
  <2> QED BY <2>1, <2>2, <2>3, <2>4, <2>5, <2>6 DEF DeallocateStep
<1>7. it' \in [Threads -> Nat] /\ used' \in [Threads -> 0 .. Count]
  <2>0. it \in [Threads -> Nat] /\ used \in [Threads -> 0 .. Count] /\ 0 \in 0 .. Count
    BY <1>0, CountType DEF TypeOK
  <2>1. CASE Call(t) \/ MapStep(t)
    BY <2>0, <2>1 DEF Call, CallAllocate, CallDeallocate, MapStep, FindOwn, FindNone, Build,
       Emplace
  <2>2. CASE AllocateStep(t) /\ ~ FullAddCache(t)
    BY <2>0, <2>2 DEF AllocateStep, Take, TakeFromNone, TakeRacing, InFull, FullMerge, FullStepBack,
       CountUp, calls
  <2>8. CASE FullAddCache(t)
    <3>1. used' = used
      BY <2>8 DEF InFull, FullAddCache
    <3>2. PICK moved \in BOOLEAN :
            it' = [u \in Threads |-> IF moved /\ u \in Judging(t) THEN 0 ELSE it[u]]
      BY <2>8 DEF InFull, FullAddCache
    <3> QED BY <2>0, <3>1, <3>2
  <2>3. ASSUME NEW k \in DOMAIN reg, Return(t, k)
        PROVE  it' \in [Threads -> Nat] /\ used' \in [Threads -> 0 .. Count]
    <3>1. reg[k] \in Threads
      BY <1>0, <2>3, MapFacts
    <3>2. Containing(reg[k], ptr[t]) \subseteq Nat
      BY <1>0, <3>1, CacheFacts DEF Containing
    <3> QED BY <2>0, <2>3, <3>2 DEF Return
  <2>4. CASE SearchOwn(t)
    <3>1. visit[t] \in DOMAIN reg
      BY <2>4, OnFacts DEF SearchOwn, Inside
    <3> QED BY <2>0, <2>3, <2>4, <3>1 DEF SearchOwn
  <2>5. CASE SearchNext(t)
    BY <2>0, <2>3, <2>5 DEF SearchNext, Nearest, Ahead, PassOver
  <2>6. CASE Look(t)
    <3>1. On(t) \in Threads /\ it[t] \in DOMAIN slabs[On(t)]
      BY <2>6, OnFacts DEF Look, Inside, Inv, Positions, Sure, Knows
    <3>2. slabs[On(t)][it[t]] \in Slab /\ Fits(slabs[On(t)][it[t]], live \cup missed)
      BY <1>0, <3>1, CacheFacts, ZenonT(40) DEF Inv, Memory
    <3>3. Used(slabs[On(t)][it[t]]) \in 0 .. Count
      BY <3>2, UsedFacts
    <3> QED BY <2>0, <2>6, <3>3 DEF Look
  <2>7. CASE SearchEnd(t) \/ CountDown(t)
    BY <2>0, <2>7 DEF SearchEnd, CountDown
  <2>9. CASE Decide(t)
    BY <2>0, <2>9, CountType DEF Decide
  <2>10. CASE MoveSplice(t) \/ MoveRelease(t)
    <3>1. Moved(t) \/ MoveAstray(t)
      BY <2>10 DEF MoveSplice, MoveRelease
    <3>2. /\ it' \in {it, [it EXCEPT ![t] = 0]}
          /\ used' = used
      BY <3>1 DEF Moved, MoveAstray, calls
    <3> QED BY <2>0, <3>2
  <2> QED BY <2>1, <2>2, <2>4, <2>5, <2>6, <2>7, <2>8, <2>9, <2>10 DEF DeallocateStep
<1>8. mapMutex' \in Mutex /\ mutex' \in [Threads -> Mutex]
  BY MapLocksTyping, CacheLocksTyping
<1> QED BY <1>1, <1>2, <1>3, <1>4, <1>5, <1>6, <1>7, <1>8 DEF TypeOK, VectorsOK

-----------------------------------------------------------------------------
(* Slabs and the blocks they account for.                                   *)

LEMMA MemoryFacts ==
  ASSUME Inv, NEW o \in Threads, NEW k \in 1 .. Len(slabs[o])
  PROVE  /\ slabs[o][k] \in Slab /\ slabs[o][k].mem \in Mems
         /\ Fits(slabs[o][k], live \cup missed) /\ owner[slabs[o][k].mem] = o
         /\ \A j \in 1 .. Len(slabs[o]) : slabs[o][j].mem = slabs[o][k].mem => j = k
<1>1. Memory /\ TypeOK
  BY DEF Inv
<1>2. /\ DOMAIN slabs[o] = 1 .. Len(slabs[o])
      /\ slabs[o][k] \in Slab /\ slabs[o][k].mem \in Mems
  BY <1>1, CacheFacts
<1>3. /\ Fits(slabs[o][k], live \cup missed) /\ owner[slabs[o][k].mem] = o
      /\ \A j \in 1 .. Len(slabs[o]) : slabs[o][j].mem = slabs[o][k].mem => j = k
  BY <1>1, <1>2 DEF Memory
<1> QED BY <1>2, <1>3

\* What the blocks say does not concern the slabs.
Held ==
  /\ \A p \in live \cup missed : Registered(owner[p.mem])
  /\ live \cap missed = {}

LEMMA HeldStays ==
  ASSUME Inv, NEW t \in Threads, UNCHANGED <<live, missed, owner>>,
         reg' = reg \/ Emplace(t)
  PROVE  Held'
<1>1. \A u : Registered(u) => Registered(u)'
  BY EmplaceFacts DEF Registered, Inv
<1> QED BY <1>1 DEF Held, Inv, Memory

\* A step that neither moves a block nor a slab.
LEMMA MemoryStays ==
  ASSUME Inv, NEW t \in Threads, UNCHANGED <<slabs, live, missed, owner>>,
         reg' = reg \/ Emplace(t)
  PROVE  Memory'
<1>1. Held'
  BY HeldStays
<1> QED BY <1>1 DEF Held, Inv, Memory

\* One slab of o's cache changes; what is held changes at most in its memory.
LEMMA OneSlab ==
  ASSUME Inv, NEW o \in Threads, NEW j \in 1 .. Len(slabs[o]), NEW e \in Slab,
         e.mem = slabs[o][j].mem,
         slabs' = [slabs EXCEPT ![o] = [slabs[o] EXCEPT ![j] = e]],
         owner' = owner, Fits(e, live' \cup missed'), Held',
         \A q \in Pointers : q.mem # e.mem =>
           (q \in live \cup missed <=> q \in live' \cup missed')
  PROVE  Memory'
<1>1. /\ DOMAIN slabs'[o] = 1 .. Len(slabs[o])
      /\ \A k \in 1 .. Len(slabs[o]) : slabs'[o][k] = IF k = j THEN e ELSE slabs[o][k]
      /\ \A u \in Threads : u # o => slabs'[u] = slabs[u]
  BY SlabChanges, CacheFacts DEF Inv
<1>2. ASSUME NEW u \in Threads, NEW k \in DOMAIN slabs'[u]
      PROVE  /\ Fits(slabs'[u][k], live' \cup missed') /\ owner'[slabs'[u][k].mem] = u
             /\ \A i \in DOMAIN slabs'[u] : slabs'[u][i].mem = slabs'[u][k].mem => i = k
  <2>1. k \in 1 .. Len(slabs[u]) /\ DOMAIN slabs'[u] = 1 .. Len(slabs[u])
    BY <1>1, CacheFacts DEF Inv
  <2>2. \A i \in 1 .. Len(slabs[u]) : slabs'[u][i].mem = slabs[u][i].mem
    BY <1>1
  <2>3. Fits(slabs'[u][k], live' \cup missed')
    <3>1. CASE u = o /\ k = j
      BY <1>1, <3>1
    <3>2. CASE ~ (u = o /\ k = j)
      <4>1. slabs'[u][k] = slabs[u][k]
        BY <1>1, <2>1, <3>2
      <4>2. slabs[u][k].mem \in Mems /\ slabs[u][k].mem # e.mem
        BY <2>1, <3>2, MemoryFacts
      <4>3. \A i \in Indices : /\ [mem |-> slabs[u][k].mem, idx |-> i] \in Pointers
                               /\ [mem |-> slabs[u][k].mem, idx |-> i].mem # e.mem
        BY <4>2 DEF Pointers
      <4> QED BY <2>1, <4>1, <4>3, MemoryFacts DEF Fits
    <3> QED BY <3>1, <3>2
  <2> QED BY <2>1, <2>2, <2>3, MemoryFacts
<1> QED BY <1>2 DEF Memory, Held

\* The slabs of o's cache are moved, or one of them is taken away.
LEMMA SlabsMoved ==
  ASSUME Inv, NEW o \in Threads, NEW w \in Seq(Slab), Rearranges(w, slabs[o]),
         slabs' = [slabs EXCEPT ![o] = w], UNCHANGED <<owner, live, missed, reg>>
  PROVE  Memory'
<1>1. PICK From \in [1 .. Len(w) -> 1 .. Len(slabs[o])] :
        /\ \A k \in 1 .. Len(w) : w[k] = slabs[o][From[k]]
        /\ \A j, k \in 1 .. Len(w) : From[j] = From[k] => j = k
  BY DEF Rearranges
<1>2. /\ slabs'[o] = w /\ DOMAIN w = 1 .. Len(w)
      /\ \A u \in Threads : u # o => slabs'[u] = slabs[u]
  BY CacheChanges DEF Inv
<1>4. ASSUME NEW u \in Threads, NEW k \in DOMAIN slabs'[u]
      PROVE  /\ Fits(slabs'[u][k], live' \cup missed') /\ owner'[slabs'[u][k].mem] = u
             /\ \A i \in DOMAIN slabs'[u] : slabs'[u][i].mem = slabs'[u][k].mem => i = k
  <2>1. CASE u # o
    <3>1. slabs'[u] = slabs[u] /\ DOMAIN slabs[u] = 1 .. Len(slabs[u])
      BY <1>2, <2>1, CacheFacts DEF Inv
    <3>2. k \in 1 .. Len(slabs[u])
      BY <1>4, <3>1
    <3>3. /\ Fits(slabs[u][k], live \cup missed) /\ owner[slabs[u][k].mem] = u
          /\ \A i \in 1 .. Len(slabs[u]) : slabs[u][i].mem = slabs[u][k].mem => i = k
      BY <3>2, MemoryFacts
    <3> QED BY <3>1, <3>3
  <2>2. CASE u = o
    <3>1. k \in 1 .. Len(w) /\ From[k] \in 1 .. Len(slabs[o]) /\ w[k] = slabs[o][From[k]]
      BY <1>1, <1>2, <2>2
    <3>2. Fits(w[k], live' \cup missed') /\ owner'[w[k].mem] = o
      BY <3>1, MemoryFacts
    <3>3. ASSUME NEW i \in 1 .. Len(w), w[i].mem = w[k].mem PROVE i = k
      <4>1. From[i] \in 1 .. Len(slabs[o]) /\ slabs[o][From[i]].mem = slabs[o][From[k]].mem
        BY <1>1, <3>1, <3>3
      <4>2. From[i] = From[k]
        BY <3>1, <4>1, MemoryFacts
      <4> QED BY <1>1, <3>1, <4>2
    <3> QED BY <1>2, <2>2, <3>2, <3>3
  <2> QED BY <2>1, <2>2
<1>5. Held'
  BY DEF Held, Inv, Memory, Registered
<1> QED BY <1>4, <1>5 DEF Memory, Held

\* A slab of fresh memory comes in front of t's others.
LEMMA SlabAdded ==
  ASSUME Inv, NEW t \in Threads, NEW m \in Mems, GetBlock(m, t), NEW w \in Seq(Slab),
         slabs' = [slabs EXCEPT ![t] = w], UNCHANGED <<live, missed, reg>>,
         Len(w) >= 1, w[1] = NewSlab(m),
         NEW From \in [2 .. Len(w) -> 1 .. Len(slabs[t])],
         \A k \in 2 .. Len(w) : w[k] = slabs[t][From[k]],
         \A j, k \in 2 .. Len(w) : From[j] = From[k] => j = k
  PROVE  Memory'
<1>1. /\ owner[m] = Nobody /\ owner'[m] = t
      /\ \A x \in Mems : x # m => owner'[x] = owner[x]
  BY DEF GetBlock, Inv, TypeOK
<1>2. /\ slabs'[t] = w /\ DOMAIN w = 1 .. Len(w) /\ Len(w) \in Nat
      /\ \A u \in Threads : u # t => slabs'[u] = slabs[u]
  BY CacheChanges DEF Inv
<1>4. \A i : [mem |-> m, idx |-> i] \notin live \cup missed
  BY <1>1, FreshMemory
<1>5. ASSUME NEW u \in Threads, NEW k \in 1 .. Len(slabs[u])
      PROVE  /\ Fits(slabs[u][k], live' \cup missed') /\ owner'[slabs[u][k].mem] = u /\ slabs[u][k].mem # m
  <2>1. slabs[u][k].mem # m
    BY <1>1, FreshMemory, CacheFacts DEF Inv
  <2> QED BY <1>1, <2>1, MemoryFacts
<1>6. NewSlab(m).mem = m /\ Fits(NewSlab(m), live' \cup missed')
  BY <1>4 DEF NewSlab, Fits
<1>7. ASSUME NEW u \in Threads, NEW k \in DOMAIN slabs'[u]
      PROVE  /\ Fits(slabs'[u][k], live' \cup missed') /\ owner'[slabs'[u][k].mem] = u
             /\ \A i \in DOMAIN slabs'[u] : slabs'[u][i].mem = slabs'[u][k].mem => i = k
  <2>1. CASE u # t
    <3>1. slabs'[u] = slabs[u] /\ DOMAIN slabs[u] = 1 .. Len(slabs[u])
      BY <1>2, <2>1, CacheFacts DEF Inv
    <3>2. k \in 1 .. Len(slabs[u])
      BY <1>7, <3>1
    <3>3. \A i \in 1 .. Len(slabs[u]) : slabs[u][i].mem = slabs[u][k].mem => i = k
      BY <3>2, MemoryFacts
    <3>4. Fits(slabs[u][k], live' \cup missed') /\ owner'[slabs[u][k].mem] = u
      BY <1>5, <3>2
    <3> QED BY <3>1, <3>3, <3>4
  <2>2. CASE u = t
    <3>0. DOMAIN slabs'[u] = 1 .. Len(w) /\ slabs'[u] = w /\ k \in 1 .. Len(w)
      BY <1>2, <2>2
    <3>1. CASE k = 1
      <4>1. ASSUME NEW i \in 2 .. Len(w) PROVE w[i].mem # m
        <5>1. From[i] \in 1 .. Len(slabs[t]) /\ w[i] = slabs[t][From[i]]
          OBVIOUS
        <5> QED BY <1>5, <5>1
      <4> QED BY <1>1, <1>2, <1>6, <2>2, <3>0, <3>1, <4>1
    <3>2. CASE k # 1
      <4>1. k \in 2 .. Len(w) /\ From[k] \in 1 .. Len(slabs[t]) /\ w[k] = slabs[t][From[k]]
        BY <1>2, <3>0, <3>2
      <4>2. Fits(w[k], live' \cup missed') /\ owner'[w[k].mem] = t /\ w[k].mem # m
        <5>1. PICK f \in 1 .. Len(slabs[t]) : f = From[k]
          BY <4>1
        <5>2. /\ Fits(slabs[t][f], live' \cup missed') /\ owner'[slabs[t][f].mem] = t
              /\ slabs[t][f].mem # m
          BY <1>5
        <5> QED BY <4>1, <5>1, <5>2
      <4>3. ASSUME NEW i \in 1 .. Len(w), w[i].mem = w[k].mem PROVE i = k
        <5>1. i \in 2 .. Len(w)
          BY <1>2, <1>6, <4>2, <4>3
        <5>2. From[i] \in 1 .. Len(slabs[t]) /\ slabs[t][From[i]].mem = slabs[t][From[k]].mem
          BY <4>1, <4>3, <5>1
        <5>3. From[i] = From[k]
          BY <4>1, <5>2, MemoryFacts
        <5> QED BY <4>1, <5>1, <5>3
      <4> QED BY <2>2, <3>0, <4>2, <4>3
    <3> QED BY <3>1, <3>2
  <2> QED BY <2>1, <2>2
<1>8. Held'
  <2>1. \A p \in live \cup missed : p.mem \in Mems /\ p.mem # m
    BY <1>1, FreshMemory DEF Inv, TypeOK, Pointers
  <2> QED BY <1>1, <2>1 DEF Held, Inv, Memory, Registered
<1> QED BY <1>7, <1>8 DEF Memory, Held

\* allocate() takes the block off the slab that is then without it.
LEMMA TakeMemory ==
  ASSUME Inv, NEW t \in Threads, NEW i \in Indices, Take(t, i)
  PROVE  Memory'
<1>1. PICK a : a = active[t]
  OBVIOUS
<1>2. PICK p : p = [mem |-> slabs[t][a].mem, idx |-> i]
  OBVIOUS
<1>3. PICK e : e = [slabs[t][a] EXCEPT !.availible = @ \ {i}]
  OBVIOUS
<1>4. /\ p \in Pointers /\ p \notin live \cup missed /\ live' = live \cup {p}
      /\ a \in 1 .. Len(slabs[t]) /\ e \in Slab
      /\ slabs' = [slabs EXCEPT ![t] = [slabs[t] EXCEPT ![a] = e]]
  BY <1>1, <1>2, <1>3, TakeFacts
<1>5. owner' = owner /\ missed' = missed /\ reg' = reg /\ pc[t] = "take"
  BY DEF Take
<1>6. /\ slabs[t][a] \in Slab /\ Fits(slabs[t][a], live \cup missed)
      /\ owner[slabs[t][a].mem] = t
  BY <1>4, MemoryFacts
<1>7. /\ e.mem = slabs[t][a].mem /\ e.foreigns = slabs[t][a].foreigns
      /\ e.availible = slabs[t][a].availible \ {i} /\ i \in slabs[t][a].availible
      /\ p.mem = e.mem
  BY <1>1, <1>2, <1>3, <1>6 DEF Slab, Take, Active
<1>8. Fits(e, live' \cup missed')
  <2>1. \A j \in Indices : [mem |-> e.mem, idx |-> j] = p <=> j = i
    BY <1>2, <1>7
  <2> QED BY <1>4, <1>5, <1>6, <1>7, <2>1 DEF Fits, Slab
<1>9. Held'
  <2>1. Registered(t)
    BY <1>5, OwnFacts
  <2> QED BY <1>4, <1>5, <1>6, <1>7, <2>1 DEF Held, Inv, Memory, Registered
<1>10. \A q \in Pointers : q.mem # e.mem =>
         (q \in live \cup missed <=> q \in live' \cup missed')
  BY <1>4, <1>5, <1>7
<1> QED BY <1>4, <1>5, <1>7, <1>8, <1>9, <1>10, OneSlab

\* mergeForeigns() loses none and gains none.
LEMMA MergeMemory ==
  ASSUME Inv, NEW t \in Threads, FullMerge(t)
  PROVE  Memory'
<1>1. PICK a : a = active[t]
  OBVIOUS
<1>2. PICK e : e = [slabs[t][a] EXCEPT !.availible = @ \cup slabs[t][a].foreigns,
                                       !.foreigns  = {}]
  OBVIOUS
<1>3. /\ a \in 1 .. Len(slabs[t]) /\ e \in Slab
      /\ slabs' = [slabs EXCEPT ![t] = [slabs[t] EXCEPT ![a] = e]]
  BY <1>1, <1>2, MergeFacts
<1>4. UNCHANGED <<owner, live, missed, reg>>
  BY DEF InFull, FullMerge, hist
<1>5. slabs[t][a] \in Slab /\ Fits(slabs[t][a], live \cup missed)
  BY <1>3, MemoryFacts
<1>6. /\ e.mem = slabs[t][a].mem /\ e.foreigns = {}
      /\ e.availible = slabs[t][a].availible \cup slabs[t][a].foreigns
  BY <1>2, <1>5 DEF Slab
<1>7. Fits(e, live' \cup missed')
  BY <1>4, <1>5, <1>6 DEF Fits
<1>8. Held'
  BY <1>4, HeldStays
<1>9. \A q \in Pointers : q.mem # e.mem =>
        (q \in live \cup missed <=> q \in live' \cup missed')
  BY <1>4
<1> QED BY <1>3, <1>4, <1>6, <1>7, <1>8, <1>9, OneSlab

\* deallocate() gives the block to the slab that is without it.
LEMMA ReturnMemory ==
  ASSUME Inv, NEW t \in Threads, NEW k \in DOMAIN reg, Return(t, k),
         pc[t] \in {"search", "next"}
  PROVE  Memory'
<1>1. PICK o : o = reg[k]
  OBVIOUS
<1>2. PICK p : p = ptr[t]
  OBVIOUS
<1>3. /\ o \in Threads /\ p \in Pointers /\ p \in live
      /\ p.mem \in Mems /\ p.idx \in Indices /\ p = [mem |-> p.mem, idx |-> p.idx]
  BY <1>1, <1>2, ReturnFacts
<1>4. PICK j \in 1 .. Len(slabs[o]) : \E e \in Slab : GivesBack(o, p, j, e)
  BY <1>1, <1>2, ReturnFacts
<1>10. PICK e \in Slab :
        /\ slabs[o][j].mem = p.mem /\ e.mem = p.mem
        /\ \/ /\ e.availible = slabs[o][j].availible \cup {p.idx}
              /\ e.foreigns = slabs[o][j].foreigns
           \/ /\ e.availible = slabs[o][j].availible
              /\ e.foreigns = slabs[o][j].foreigns \cup {p.idx}
        /\ slabs' = [slabs EXCEPT ![o] = [slabs[o] EXCEPT ![j] = e]]
  BY <1>4 DEF GivesBack
<1>5. /\ live' = live \ {p} /\ owner' = owner /\ missed' = missed /\ reg' = reg
      /\ p \notin missed
  BY <1>2, <1>3 DEF Return, Inv, Memory
<1>6. slabs[o][j] \in Slab /\ Fits(slabs[o][j], live \cup missed)
  BY <1>3, <1>10, MemoryFacts
<1>7. Fits(e, live' \cup missed')
  <2>1. \A x \in Indices : [mem |-> e.mem, idx |-> x] = p <=> x = p.idx
    BY <1>3, <1>10
  <2>2. p.idx \notin slabs[o][j].availible \cup slabs[o][j].foreigns
    BY <1>3, <1>10, <1>6 DEF Fits
  <2>3. \A x \in Indices : [mem |-> e.mem, idx |-> x] \in live' \cup missed'
          <=> x # p.idx /\ [mem |-> e.mem, idx |-> x] \in live \cup missed
    BY <1>5, <2>1
  <2>4. e.availible \cup e.foreigns
          = slabs[o][j].availible \cup slabs[o][j].foreigns \cup {p.idx}
    BY <1>10
  <2>5. e.availible \cap e.foreigns = {}
    BY <1>10, <1>6, <2>2 DEF Fits
  <2> QED BY <1>3, <1>10, <1>6, <2>3, <2>4, <2>5 DEF Fits, Slab
<1>8. Held'
  BY <1>5 DEF Held, Inv, Memory, Registered
<1>9. \A q \in Pointers : q.mem # e.mem =>
        (q \in live \cup missed <=> q \in live' \cup missed')
  BY <1>10, <1>5
<1>11. e.mem = slabs[o][j].mem /\ owner' = owner
       /\ slabs' = [slabs EXCEPT ![o] = [slabs[o] EXCEPT ![j] = e]]
  BY <1>5, <1>10
<1> QED BY <1>3, <1>7, <1>8, <1>9, <1>11, OneSlab

\* Each block of a slab is free once, or given back once, or held once.
LEMMA MemoryStep ==
  ASSUME Inv, NEW t \in Threads,
         Call(t) \/ MapStep(t) \/ AllocateStep(t) \/ DeallocateStep(t)
  PROVE  Memory'
<1> USE DEF data, hist
<1>1. CASE Call(t) \/ FindOwn(t) \/ FindNone(t) \/ Emplace(t)
  BY <1>1, MemoryStays DEF Call, CallAllocate, CallDeallocate, FindOwn, FindNone, Emplace
<1>2. CASE Build(t)
  <2>1. PICK m \in Mems : /\ GetBlock(m, t)
                          /\ slabs' = [slabs EXCEPT ![t] = <<NewSlab(m)>>]
                          /\ <<NewSlab(m)>> \in Seq(Slab) /\ Len(<<NewSlab(m)>>) = 1
                          /\ <<NewSlab(m)>>[1] = NewSlab(m)
    BY <1>2, BuildFacts
  <2>2. PICK w \in Seq(Slab) : w = <<NewSlab(m)>>
    BY <2>1
  <2>3. UNCHANGED <<live, missed, reg>>
    BY <1>2 DEF Build
  <2>4. PICK From \in [2 .. Len(w) -> 1 .. Len(slabs[t])] : TRUE
    <3>1. 2 .. Len(w) = {}
      BY <2>1, <2>2
    <3>2. [x \in 2 .. Len(w) |-> 1] \in [2 .. Len(w) -> 1 .. Len(slabs[t])]
      BY <3>1
    <3> QED BY <3>2
  <2>5. /\ Len(w) >= 1 /\ w[1] = NewSlab(m) /\ GetBlock(m, t)
        /\ slabs' = [slabs EXCEPT ![t] = w]
    BY <2>1, <2>2
  <2>6. /\ \A k \in 2 .. Len(w) : w[k] = slabs[t][From[k]]
        /\ \A j, k \in 2 .. Len(w) : From[j] = From[k] => j = k
    <3>1. Len(w) = 1
      BY <2>1, <2>2
    <3>2. \A k : k \notin 2 .. Len(w)
      BY <3>1
    <3> QED BY <3>2
  <2> QED BY <2>3, <2>5, <2>6, SlabAdded
<1>3. CASE \E i \in Indices : Take(t, i)
  BY <1>3, TakeMemory
<1>4. CASE FullMerge(t)
  BY <1>4, MergeMemory
<1>5. CASE FullAddCache(t)
  <2>1. PICK m \in Mems :
           /\ GetBlock(m, t) /\ NewSlab(m) \in Slab
           /\ slabs' = [slabs EXCEPT ![t] = SwapIn(slabs[t], 1, NewSlab(m))]
           /\ SwapIn(slabs[t], 1, NewSlab(m)) \in Seq(Slab)
           /\ Len(SwapIn(slabs[t], 1, NewSlab(m))) = Len(slabs[t]) + 1
           /\ SwapIn(slabs[t], 1, NewSlab(m))[1] = NewSlab(m)
           /\ SwapIn(slabs[t], 1, NewSlab(m))[Len(slabs[t]) + 1] = slabs[t][1]
           /\ \A k \in 1 .. Len(slabs[t]) :
                k # 1 => SwapIn(slabs[t], 1, NewSlab(m))[k] = slabs[t][k]
    BY <1>5, AddFacts
  <2>2. PICK w \in Seq(Slab) : w = SwapIn(slabs[t], 1, NewSlab(m))
    BY <2>1
  <2>3. UNCHANGED <<live, missed, reg>>
    BY <1>5 DEF InFull, FullAddCache
  <2>4. Len(slabs[t]) \in Nat /\ Len(slabs[t]) >= 1
    BY <1>5, OwnFacts, CacheFacts DEF InFull, FullAddCache, Inv
  <2> DEFINE From == [k \in 2 .. Len(w) |-> IF k = Len(slabs[t]) + 1 THEN 1 ELSE k]
  <2>5. /\ From \in [2 .. Len(w) -> 1 .. Len(slabs[t])]
        /\ \A k \in 2 .. Len(w) : w[k] = slabs[t][From[k]]
        /\ \A j, k \in 2 .. Len(w) : From[j] = From[k] => j = k
    BY <2>1, <2>2, <2>4
  <2>6. /\ Len(w) >= 1 /\ w[1] = NewSlab(m) /\ GetBlock(m, t)
        /\ slabs' = [slabs EXCEPT ![t] = w]
    BY <2>1, <2>2, <2>4
  <2> HIDE DEF From
  <2> QED BY <2>3, <2>5, <2>6, SlabAdded
<1>6. CASE TakeFromNone(t) \/ TakeRacing(t) \/ FullStepBack(t) \/ CountUp(t)
  BY <1>6, MemoryStays DEF TakeFromNone, TakeRacing, InFull, FullStepBack, CountUp
<1>7. CASE SearchOwn(t)
  <2>1. pc[t] = "search" /\ visit[t] \in DOMAIN reg
    BY <1>7, OnFacts DEF SearchOwn, Inside
  <2>2. CASE Return(t, visit[t])
    BY <2>1, <2>2, ReturnMemory
  <2>3. CASE ~ Return(t, visit[t])
    BY <1>7, <2>3, MemoryStays DEF SearchOwn
  <2> QED BY <2>2, <2>3
<1>8. CASE SearchNext(t)
  <2>1. PICK k \in Ahead(t) : Return(t, k) \/ PassOver(t, k)
    BY <1>8 DEF SearchNext, Nearest
  <2>2. k \in DOMAIN reg /\ pc[t] = "next"
    BY <1>8, <2>1 DEF Ahead, SearchNext, Nearest
  <2>3. CASE PassOver(t, k)
    BY <2>3, MemoryStays DEF PassOver
  <2> QED BY <2>1, <2>2, <2>3, ReturnMemory
<1>9. CASE SearchEnd(t)
  <2>1. ptr[t] \in live
    BY <1>9 DEF SearchEnd, Inv, Blocks
  <2>2. UNCHANGED <<slabs, owner, reg>> /\ live' \cup missed' = live \cup missed
    BY <1>9, <2>1 DEF SearchEnd
  <2>3. live' \cap missed' = {}
    BY <1>9 DEF SearchEnd, Inv, Memory
  <2> QED BY <2>2, <2>3 DEF Inv, Memory, Registered
<1>10. CASE Look(t) \/ Decide(t) \/ CountDown(t)
  BY <1>10, MemoryStays DEF Look, Decide, CountDown
<1>11. CASE MoveSplice(t)
  <2>1. PICK o : o = On(t)
    OBVIOUS
  <2>2. o \in Threads /\ slabs[o] # <<>>
    BY <1>11, <2>1, OnFacts DEF MoveSplice, Inside
  <2>3. UNCHANGED <<owner, live, missed, reg>>
    BY <1>11 DEF MoveSplice, Moved, MoveAstray
  <2>4. CASE slabs' = slabs
    BY <2>3, <2>4, MemoryStays
  <2>5. CASE slabs' # slabs
    <3>1. /\ it[t] \in active[o] .. Len(slabs[o])
          /\ slabs' = [slabs EXCEPT ![o] = Splice(slabs[o], active[o], it[t])]
      BY <1>11, <2>1, <2>5 DEF MoveSplice, MoveAstray
    <3>2. PICK w \in Seq(Slab) : /\ w = Splice(slabs[o], active[o], it[t])
                                 /\ Rearranges(w, slabs[o])
      BY <2>2, <3>1, SpliceFacts DEF Inv
    <3> QED BY <2>2, <2>3, <3>1, <3>2, SlabsMoved
  <2> QED BY <2>4, <2>5
<1>12. CASE MoveRelease(t)
  <2>1. PICK o : o = On(t)
    OBVIOUS
  <2>2. o \in Threads /\ slabs[o] # <<>>
    BY <1>12, <2>1, OnFacts DEF MoveRelease, Inside
  <2>3. UNCHANGED <<owner, live, missed, reg>>
    BY <1>12 DEF MoveRelease, Moved, MoveAstray
  <2>4. CASE slabs' = slabs
    BY <2>3, <2>4, MemoryStays
  <2>5. CASE slabs' # slabs
    <3>1. /\ it[t] \in DOMAIN slabs[o] /\ Len(slabs[o]) > 1
          /\ slabs' = [slabs EXCEPT ![o] =
                         IF it[t] < active[o] THEN Erase(slabs[o], it[t])
                                              ELSE SwapPop(slabs[o], it[t])]
      BY <1>12, <2>1, <2>5 DEF MoveRelease, MoveAstray
    <3>2. PICK w \in Seq(Slab) :
            /\ w = IF it[t] < active[o] THEN Erase(slabs[o], it[t])
                                        ELSE SwapPop(slabs[o], it[t])
            /\ Rearranges(w, slabs[o])
      BY <2>2, <3>1, ReleaseFacts DEF Inv
    <3> QED BY <2>2, <2>3, <3>1, <3>2, SlabsMoved
  <2> QED BY <2>4, <2>5
<1> QED BY <1>1, <1>2, <1>3, <1>4, <1>5, <1>6, <1>7, <1>8, <1>9, <1>10, <1>11, <1>12
        DEF MapStep, AllocateStep, DeallocateStep

-----------------------------------------------------------------------------
(* What threads know of the slabs they have looked at.                      *)

\* A step leaves other calls alone, but for the positions that it makes dangle.
LEMMA OthersStay ==
  ASSUME Inv, NEW t \in Threads, NEW u \in Threads, u # t,
         Call(t) \/ MapStep(t) \/ AllocateStep(t) \/ DeallocateStep(t)
  PROVE  /\ pc'[u] = pc[u] /\ visit'[u] = visit[u] /\ used'[u] = used[u]
         /\ ptr'[u] = ptr[u]
         /\ ~ FullAddCache(t) => it'[u] = it[u]
         /\ u \in outdated => u \in outdated'
<1>0. TypeOK
  BY DEF Inv
<1> USE <1>0 DEF TypeOK, calls, hist, Goto
<1>1. CASE Call(t)
  BY <1>1 DEF Call, CallAllocate, CallDeallocate
<1>2. CASE MapStep(t)
  BY <1>2 DEF MapStep, FindOwn, FindNone, Build, Emplace
<1>3. CASE AllocateStep(t) /\ ~ FullAddCache(t)
  BY <1>3 DEF AllocateStep, Take, TakeFromNone, TakeRacing, InFull, FullMerge, FullStepBack, CountUp
<1>4. CASE FullAddCache(t)
  BY <1>4 DEF InFull, FullAddCache
<1>5. CASE SearchOwn(t) \/ SearchNext(t) \/ SearchEnd(t) \/ Look(t) \/ Decide(t)
  BY <1>5, ZenonT(40) DEF SearchOwn, SearchNext, Nearest, Return, PassOver, SearchEnd, Leave, Look, Decide
<1>6. CASE MoveSplice(t) \/ MoveRelease(t) \/ CountDown(t)
  BY <1>6 DEF MoveSplice, MoveRelease, Moved, MoveAstray, CountDown, Leave
<1> QED BY <1>1, <1>2, <1>3, <1>4, <1>5, <1>6 DEF DeallocateStep

\* A thread that stays at a bucket stays in the same cache.
LEMMA OnStays ==
  ASSUME Inv, NEW t \in Threads, NEW u \in Threads, pc[u] \in Inside,
         visit'[u] = visit[u], reg' = reg \/ Emplace(t)
  PROVE  On(u)' = On(u)
<1>1. visit[u] \in DOMAIN reg
  BY OnFacts
<1>2. reg'[visit[u]] = reg[visit[u]]
  BY <1>1, EmplaceFacts DEF Inv
<1> QED BY <1>2 DEF On

\* What thread u knows of o's cache stays true when no slab of it moves and no
\* block of the slab that u looked at is taken.
LEMMA KnowledgeStays ==
  ASSUME NEW u \in Threads, NEW o \in Threads, Knows(u, o),
         pc'[u] = pc[u], it'[u] = it[u], used'[u] = used[u], active'[o] = active[o],
         Len(slabs'[o]) = Len(slabs[o]), DOMAIN slabs'[o] = DOMAIN slabs[o],
         \A k \in DOMAIN slabs[o] : slabs'[o][k].mem = slabs[o][k].mem,
         \A i \in Indices :
           [mem |-> slabs[o][it[u]].mem, idx |-> i] \in live' \cup missed'
             => [mem |-> slabs[o][it[u]].mem, idx |-> i] \in live \cup missed
  PROVE  Knows(u, o)'
<1>1. it[u] \in DOMAIN slabs[o] /\ slabs'[o][it'[u]].mem = slabs[o][it[u]].mem
  BY DEF Knows
<1>2. HeldIn(slabs[o][it[u]].mem) = {} => HeldIn(slabs[o][it[u]].mem)' = {}
  <2>1. HeldIn(slabs[o][it[u]].mem)'
          = {i \in Indices : [mem |-> slabs[o][it[u]].mem, idx |-> i] \in live' \cup missed'}
    BY <1>1 DEF HeldIn
  <2> QED BY <2>1 DEF HeldIn
<1> QED BY <1>1, <1>2 DEF Knows

\* A thread that is sure after another's step was so before, at the same place.
LEMMA SureBefore ==
  ASSUME Inv, NEW t \in Threads, NEW u \in Threads, u # t, Sure(u)',
         Call(t) \/ MapStep(t) \/ AllocateStep(t) \/ DeallocateStep(t)
  PROVE  /\ Sure(u) /\ pc[u] \in Inside /\ On(u) \in Threads /\ Registered(On(u))
         /\ Knows(u, On(u)) /\ On(u)' = On(u)
         /\ pc'[u] = pc[u] /\ used'[u] = used[u]
<1>1. pc'[u] = pc[u] /\ used'[u] = used[u] /\ visit'[u] = visit[u]
  BY OthersStay
<1>2. Sure(u) /\ pc[u] \in Inside
  BY <1>1, OthersStay DEF Sure, Inside
<1>3. reg' = reg \/ Emplace(t)
  BY MapStays DEF MapStep
<1> QED BY <1>1, <1>2, <1>3, OnFacts, OnStays DEF Inv, Positions

\* It knows what it knew when nothing of that cache moves.
LEMMA StillKnows ==
  ASSUME Inv, NEW t \in Threads, NEW u \in Threads, u # t, Sure(u)',
         Call(t) \/ MapStep(t) \/ AllocateStep(t) \/ DeallocateStep(t),
         NEW o, o = On(u), it'[u] = it[u], active'[o] = active[o],
         Len(slabs'[o]) = Len(slabs[o]), DOMAIN slabs'[o] = DOMAIN slabs[o],
         \A k \in DOMAIN slabs[o] : slabs'[o][k].mem = slabs[o][k].mem,
         \A k \in DOMAIN slabs[o] : \A i \in Indices :
           [mem |-> slabs[o][k].mem, idx |-> i] \in live' \cup missed'
             => [mem |-> slabs[o][k].mem, idx |-> i] \in live \cup missed
  PROVE  Knows(u, On(u))'
<1>1. /\ o \in Threads /\ Knows(u, o) /\ On(u)' = o
      /\ pc'[u] = pc[u] /\ used'[u] = used[u]
  BY SureBefore
<1>2. it[u] \in DOMAIN slabs[o]
  BY <1>1 DEF Knows
<1>3. Knows(u, o)'
  BY <1>1, <1>2, KnowledgeStays
<1> QED BY <1>1, <1>3 DEF Knows

\* The special case of a cache that another thread's step does not touch.
LEMMA UntouchedKnows ==
  ASSUME Inv, NEW t \in Threads, NEW u \in Threads, u # t, Sure(u)',
         Call(t) \/ MapStep(t) \/ AllocateStep(t) \/ DeallocateStep(t),
         NEW o, o = On(u), it'[u] = it[u], active'[o] = active[o],
         slabs'[o] = slabs[o], live' \cup missed' \subseteq live \cup missed
  PROVE  Knows(u, On(u))'
BY StillKnows

\* In a bucket there is no thread that looks while the mutex is held exclusively.
LEMMA NoneLooks ==
  ASSUME Inv, NEW t \in Threads, NEW o, Exclusive(mutex[o], t), NEW u \in Threads, On(u) = o
  PROVE  pc[u] # "look"
BY DEF Exclusive, Inv, CacheLocks

\* A judgement about a cache.
LEMMA Judges ==
  ASSUME Inv, NEW u \in Threads, Sure(u), pc[u] # "look"
  PROVE  u \in Judging(On(u))
<1>1. pc[u] \in {"decide", "splice", "release"}
  BY DEF Sure
<1> QED BY <1>1, OnFacts DEF Judging, Inside

\* Other threads know after a step what they say they know.
LEMMA OthersKnow ==
  ASSUME Inv, NEW t \in Threads, NEW u \in Threads, u # t, Sure(u)',
         Call(t) \/ MapStep(t) \/ AllocateStep(t) \/ DeallocateStep(t)
  PROVE  Knows(u, On(u))'
<1> USE DEF data, hist, calls
<1>a. PICK o : o = On(u)
  OBVIOUS
<1>0. /\ TypeOK /\ o \in Threads /\ Registered(o) /\ Knows(u, o) /\ On(u)' = o
      /\ Sure(u) /\ pc'[u] = pc[u]
  BY <1>a, SureBefore DEF Inv
<1>b. ~ FullAddCache(t) => it'[u] = it[u]
  BY OthersStay
<1>1. CASE Call(t) \/ FindOwn(t) \/ FindNone(t) \/ Emplace(t)
  <2>1. slabs' = slabs /\ active' = active /\ live' = live /\ missed' = missed /\ it' = it
    BY <1>1 DEF Call, CallAllocate, CallDeallocate, FindOwn, FindNone, Emplace
  <2> QED BY <1>a, <2>1, UntouchedKnows
<1>2. CASE Build(t)
  <2>1. o # t
    BY <1>0, <1>2, BuildFacts
  <2>2. slabs'[o] = slabs[o] /\ active'[o] = active[o]
    <3>1. PICK m \in Mems : slabs' = [slabs EXCEPT ![t] = <<NewSlab(m)>>]
      BY <1>2 DEF Build
    <3> QED BY <1>0, <1>2, <2>1, <3>1 DEF Build, TypeOK
  <2>3. live' = live /\ missed' = missed /\ it' = it
    BY <1>2 DEF Build
  <2> QED BY <1>a, <2>2, <2>3, UntouchedKnows
<1>3. CASE \E i \in Indices : Take(t, i)
  <2>1. PICK i \in Indices : Take(t, i)
    BY <1>3
  <2>2. active' = active /\ missed' = missed /\ it' = it /\ outdated' = outdated \cup Judging(t)
    BY <2>1 DEF Take
  <2>3. CASE o = t
    <3>1. pc[u] = "look" /\ pc'[u] = "look"
      BY <1>a, <1>0, <2>2, <2>3, Judges DEF Sure
    <3>2. PICK e \in Slab : /\ active[t] \in 1 .. Len(slabs[t])
                            /\ slabs' = [slabs EXCEPT ![t] = [slabs[t] EXCEPT ![active[t]] = e]]
      BY <2>1, TakeFacts
    <3>3. DOMAIN slabs'[t] = DOMAIN slabs[t]
      BY <1>0, <3>2, SlabChanges
    <3> QED BY <1>0, <2>2, <2>3, <3>1, <3>3 DEF Knows
  <2>4. CASE o # t
    <3>1. slabs'[o] = slabs[o]
      BY <1>0, <2>1, <2>4 DEF Take, TypeOK
    <3>2. PICK p \in Pointers : live' = live \cup {p} /\ owner[p.mem] = t
      <4>1. PICK a : a = active[t]
        OBVIOUS
      <4>2. PICK p : p = [mem |-> slabs[t][a].mem, idx |-> i]
        OBVIOUS
      <4>3. p \in Pointers /\ live' = live \cup {p} /\ a \in 1 .. Len(slabs[t])
        BY <2>1, <4>1, <4>2, TakeFacts
      <4> QED BY <4>2, <4>3, MemoryFacts
    <3>3. \A k \in DOMAIN slabs[o] : owner[slabs[o][k].mem] = o
      BY <1>0 DEF Inv, Memory
    <3>4. \A k \in DOMAIN slabs[o] : \A x \in Indices : [mem |-> slabs[o][k].mem, idx |-> x] # p
      BY <2>4, <3>2, <3>3
    <3> QED BY <1>a, <2>2, <3>1, <3>2, <3>4, StillKnows
  <2> QED BY <2>3, <2>4
<1>4. CASE TakeFromNone(t) \/ TakeRacing(t) \/ CountUp(t)
  <2>1. slabs' = slabs /\ active' = active /\ live' = live /\ missed' = missed /\ it' = it
    BY <1>4 DEF TakeFromNone, TakeRacing, CountUp
  <2> QED BY <1>a, <2>1, UntouchedKnows
<1>5. ASSUME NEW v \in Threads, NEW j \in 1 .. Len(slabs[v]), NEW e \in Slab,
             slabs' = [slabs EXCEPT ![v] = [slabs[v] EXCEPT ![j] = e]],
             e.mem = slabs[v][j].mem, active' = active, it'[u] = it[u],
             live' \cup missed' \subseteq live \cup missed
      PROVE  Knows(u, On(u))'
  <2>1. CASE o # v
    <3>1. slabs'[o] = slabs[o]
      BY <1>0, <1>5, <2>1, SlabChanges
    <3> QED BY <1>a, <1>5, <3>1, UntouchedKnows
  <2>2. CASE o = v
    <3>1. Len(slabs'[v]) = Len(slabs[v]) /\ DOMAIN slabs'[v] = DOMAIN slabs[v]
      BY <1>0, <1>5, SlabChanges
    <3>2. slabs'[v] = [slabs[v] EXCEPT ![j] = e]
      BY <1>0, <1>5 DEF TypeOK
    <3>3. \A k \in DOMAIN slabs[v] : slabs'[v][k].mem = slabs[v][k].mem
      BY <1>5, <3>2
    <3> QED BY <1>a, <1>5, <2>2, <3>1, <3>3, StillKnows
  <2> QED BY <2>1, <2>2
<1>6. CASE FullMerge(t)
  <2>1. PICK a : a = active[t]
    OBVIOUS
  <2>2. PICK e : e = [slabs[t][a] EXCEPT !.availible = @ \cup slabs[t][a].foreigns,
                                         !.foreigns  = {}]
    OBVIOUS
  <2>3. /\ a \in 1 .. Len(slabs[t]) /\ e \in Slab
        /\ slabs' = [slabs EXCEPT ![t] = [slabs[t] EXCEPT ![a] = e]]
    BY <1>6, <2>1, <2>2, MergeFacts
  <2>4. e.mem = slabs[t][a].mem
    BY <2>2, <2>3, MemoryFacts DEF Slab
  <2>5. active' = active /\ it' = it /\ live' = live /\ missed' = missed
    BY <1>6 DEF InFull, FullMerge
  <2> QED BY <1>5, <2>3, <2>4, <2>5
<1>7. ASSUME NEW v \in Threads, v = On(t), Exclusive(mutex[v], t),
             Judging(v) \ {t} \subseteq outdated', \A x \in Threads : x # v => slabs'[x] = slabs[x],
             \A x \in Threads : x # v => active'[x] = active[x],
             u \notin Judging(v) => it'[u] = it[u], live' = live, missed' = missed
      PROVE  Knows(u, On(u))'
  <2>1. CASE o = v
    <3>1. pc[u] # "look"
      BY <1>a, <1>7, <2>1, NoneLooks
    <3>2. u \in Judging(v)
      BY <1>a, <1>0, <2>1, <3>1, Judges
    <3> QED BY <1>0, <1>7, <3>1, <3>2 DEF Sure
  <2>2. CASE o # v
    <3>1. u \notin Judging(v)
      BY <1>a, <2>2 DEF Judging
    <3> QED BY <1>a, <1>0, <1>7, <2>2, <3>1, UntouchedKnows
  <2> QED BY <2>1, <2>2
<1>8. CASE FullStepBack(t)
  <2>1. Exclusive(mutex[t], t) /\ t = On(t)
    BY <1>8, OwnFacts DEF FullStepBack, InFull
  <2>2. /\ slabs' = slabs /\ it' = it /\ live' = live /\ missed' = missed
        /\ outdated' = outdated \cup Judging(t)
        /\ \A x \in Threads : x # t => active'[x] = active[x]
    BY <1>0, <1>8 DEF InFull, FullStepBack, TypeOK
  <2> QED BY <1>7, <2>1, <2>2
<1>9. CASE FullAddCache(t)
  <2>1. Exclusive(mutex[t], t) /\ t = On(t)
    BY <1>9, OwnFacts DEF FullAddCache, InFull
  <2>2. /\ active' = active /\ live' = live /\ missed' = missed
        /\ outdated' = outdated \cup Judging(t)
    BY <1>9 DEF InFull, FullAddCache
  <2>3. \A x \in Threads : x # t => slabs'[x] = slabs[x]
    <3>1. \E w \in Seq(Slab) : slabs' = [slabs EXCEPT ![t] = w]
      BY <1>9, AddFacts
    <3> QED BY <1>0, <3>1, CacheChanges
  <2>4. u \notin Judging(t) => it'[u] = it[u]
    BY <1>9 DEF InFull, FullAddCache
  <2> QED BY <1>7, <2>1, <2>2, <2>3, <2>4
<1>10. ASSUME NEW k \in DOMAIN reg, Return(t, k), pc[t] \in {"search", "next"}
       PROVE  Knows(u, On(u))'
  <2>1. PICK v : v = reg[k]
    OBVIOUS
  <2>2. PICK p : p = ptr[t]
    OBVIOUS
  <2>3. v \in Threads
    BY <1>10, <2>1, <2>2, ReturnFacts
  <2>4. PICK j \in 1 .. Len(slabs[v]) : \E e \in Slab : GivesBack(v, p, j, e)
    BY <1>10, <2>1, <2>2, ReturnFacts
  <2>5. PICK e \in Slab : /\ slabs' = [slabs EXCEPT ![v] = [slabs[v] EXCEPT ![j] = e]]
                          /\ e.mem = slabs[v][j].mem
    BY <2>4 DEF GivesBack
  <2>6. /\ active' = active /\ live' \cup missed' \subseteq live \cup missed
        /\ it'[u] = it[u]
    BY <1>10, <1>0 DEF Return, TypeOK
  <2> QED BY <1>5, <2>3, <2>5, <2>6
<1>11. CASE SearchOwn(t)
  <2>1. pc[t] = "search" /\ visit[t] \in DOMAIN reg
    BY <1>11, OnFacts DEF SearchOwn, Inside
  <2>2. CASE Return(t, visit[t])
    BY <2>1, <2>2, <1>10
  <2>3. CASE ~ Return(t, visit[t])
    <3>1. slabs' = slabs /\ active' = active /\ live' = live /\ missed' = missed /\ it' = it
      BY <1>11, <2>3 DEF SearchOwn
    <3> QED BY <1>a, <3>1, UntouchedKnows
  <2> QED BY <2>2, <2>3
<1>12. CASE SearchNext(t)
  <2>1. PICK k \in Ahead(t) : Return(t, k) \/ PassOver(t, k)
    BY <1>12 DEF SearchNext, Nearest
  <2>2. k \in DOMAIN reg /\ pc[t] = "next"
    BY <1>12, <2>1 DEF Ahead, SearchNext, Nearest
  <2>3. CASE PassOver(t, k)
    <3>1. slabs' = slabs /\ active' = active /\ live' = live /\ missed' = missed /\ it' = it
      BY <2>3 DEF PassOver
    <3> QED BY <1>a, <3>1, UntouchedKnows
  <2> QED BY <2>1, <2>2, <2>3, <1>10
<1>13. CASE SearchEnd(t)
  <2>1. /\ slabs' = slabs /\ active' = active /\ it' = it
        /\ live' \cup missed' \subseteq live \cup missed
    BY <1>13 DEF SearchEnd, Inv, Blocks
  <2> QED BY <1>a, <2>1, UntouchedKnows
<1>14. CASE Look(t) \/ Decide(t) \/ CountDown(t)
  <2>1. slabs' = slabs /\ active' = active /\ live' = live /\ missed' = missed
    BY <1>14 DEF Look, Decide, CountDown
  <2>2. it'[u] = it[u]
    BY <1>b, <1>14, <1>0 DEF Look, Decide, CountDown, TypeOK
  <2> QED BY <1>a, <2>1, <2>2, UntouchedKnows
<1>15. CASE MoveSplice(t) \/ MoveRelease(t)
  <2>0. PICK v : v = On(t)
    OBVIOUS
  <2>1. /\ Exclusive(mutex[v], t) /\ v \in Threads
        /\ live' = live /\ missed' = missed
    BY <1>15, <2>0, OnFacts DEF MoveSplice, MoveRelease, Moved, MoveAstray, Inside
  <2>2. it'[u] = it[u]
    BY <1>15, <1>0 DEF MoveSplice, MoveRelease, Moved, MoveAstray, TypeOK
  <2>3. CASE slabs' = slabs /\ active' = active
    BY <1>a, <2>1, <2>2, <2>3, UntouchedKnows
  <2>4. CASE ~ (slabs' = slabs /\ active' = active)
    <3>1. outdated' = (outdated \cup Judging(v)) \ {t}
      BY <1>15, <2>0, <2>4 DEF MoveSplice, MoveRelease, Moved, MoveAstray
    <3>2. \A x \in Threads : x # v => slabs'[x] = slabs[x] /\ active'[x] = active[x]
      BY <1>15, <1>0, <2>0 DEF MoveSplice, MoveRelease, MoveAstray, TypeOK
    <3>3. Judging(v) \ {t} \subseteq outdated'
      BY <3>1
    <3> QED BY <1>7, <2>0, <2>1, <2>2, <3>2, <3>3
  <2> QED BY <2>3, <2>4
<1> QED BY <1>1, <1>2, <1>3, <1>4, <1>6, <1>8, <1>9, <1>11, <1>12, <1>13, <1>14, <1>15
        DEF MapStep, AllocateStep, DeallocateStep

\* What t knows itself after a step.
LEMMA OwnKnowledge ==
  ASSUME Inv, NEW t \in Threads, Sure(t)',
         Call(t) \/ MapStep(t) \/ AllocateStep(t) \/ DeallocateStep(t)
  PROVE  Knows(t, On(t))'
<1> USE DEF data, hist, calls, Goto
<1>0. TypeOK /\ pc \in [Threads -> Labels] /\ it \in [Threads -> Nat]
  BY DEF Inv, TypeOK
<1>1. CASE Call(t) \/ MapStep(t) \/ FullMerge(t) \/ FullStepBack(t) \/ FullAddCache(t)
             \/ CountUp(t) \/ SearchEnd(t) \/ CountDown(t)
  <2>1. pc'[t] \notin {"look", "decide", "splice", "release"}
    BY <1>0, <1>1 DEF Call, CallAllocate, CallDeallocate, MapStep, FindOwn, FindNone, Build,
       Emplace, InFull, FullMerge, FullStepBack, FullAddCache, CountUp, SearchEnd, CountDown, Leave
  <2> QED BY <2>1 DEF Sure
<1>2. CASE (\E i \in Indices : Take(t, i)) \/ TakeFromNone(t) \/ TakeRacing(t)
  <2>1. pc'[t] \notin {"look", "decide", "splice", "release"}
    BY <1>0, <1>2 DEF Take, TakeFromNone, TakeRacing
  <2> QED BY <2>1 DEF Sure
<1>3. ASSUME NEW k \in DOMAIN reg, Return(t, k), pc[t] \in {"search", "next"}
      PROVE  Knows(t, On(t))'
  <2>1. PICK o : o = reg[k]
    OBVIOUS
  <2>2. PICK p : p = ptr[t]
    OBVIOUS
  <2>3. o \in Threads
    BY <1>3, <2>1, <2>2, ReturnFacts
  <2>4. PICK j \in 1 .. Len(slabs[o]) :
          \E e \in Slab : GivesBack(o, p, j, e) /\ it' = [it EXCEPT ![t] = j]
    BY <1>3, <2>1, <2>2, ReturnFacts
  <2>5. PICK e \in Slab : slabs' = [slabs EXCEPT ![o] = [slabs[o] EXCEPT ![j] = e]]
    BY <2>4 DEF GivesBack
  <2>6. j \in DOMAIN slabs'[o]
    BY <1>0, <2>3, <2>5, SlabChanges, CacheFacts
  <2>7. pc'[t] = "look" /\ visit' = [visit EXCEPT ![t] = k] /\ reg' = reg
    BY <1>0, <1>3 DEF Return
  <2>8. On(t)' = o
    BY <2>1, <2>7 DEF On, Inv, TypeOK
  <2> QED BY <1>0, <2>4, <2>6, <2>7, <2>8 DEF Knows
<1>4. CASE SearchOwn(t)
  <2>1. pc[t] = "search" /\ visit[t] \in DOMAIN reg
    BY <1>4, OnFacts DEF SearchOwn, Inside
  <2>2. CASE Return(t, visit[t])
    BY <2>1, <2>2, <1>3
  <2>3. CASE ~ Return(t, visit[t])
    <3>1. pc'[t] = "next"
      BY <1>0, <1>4, <2>3 DEF SearchOwn
    <3> QED BY <3>1 DEF Sure
  <2> QED BY <2>2, <2>3
<1>5. CASE SearchNext(t)
  <2>1. PICK k \in Ahead(t) : Return(t, k) \/ PassOver(t, k)
    BY <1>5 DEF SearchNext, Nearest
  <2>2. k \in DOMAIN reg /\ pc[t] = "next"
    BY <1>5, <2>1 DEF Ahead, SearchNext, Nearest
  <2>3. CASE PassOver(t, k)
    <3>1. pc'[t] = "next"
      BY <1>0, <2>3 DEF PassOver
    <3> QED BY <3>1 DEF Sure
  <2> QED BY <2>1, <2>2, <2>3, <1>3
<1>6. CASE Look(t)
  <2>0. PICK o : o = On(t)
    OBVIOUS
  <2>1. pc[t] = "look" /\ o \in Threads /\ it[t] \in DOMAIN slabs[o]
    BY <1>6, <2>0, OnFacts DEF Look, Inside, Inv, Positions, Sure, Knows
  <2>2. /\ pc'[t] = "decide" /\ used'[t] = Used(slabs[o][it[t]])
        /\ slabs' = slabs /\ active' = active /\ it' = it
        /\ live' = live /\ missed' = missed /\ On(t)' = o
    BY <1>0, <1>6, <2>0 DEF Look, On, TypeOK
  <2>3. slabs[o][it[t]] \in Slab /\ Fits(slabs[o][it[t]], live \cup missed)
    <3>1. it[t] \in 1 .. Len(slabs[o])
      BY <1>0, <2>1, CacheFacts
    <3> QED BY <2>1, <3>1, MemoryFacts
  <2>4. Used(slabs[o][it[t]]) = 0 => HeldIn(slabs[o][it[t]].mem) = {}
    BY <2>3, UsedFacts
  <2>5. HeldIn(slabs[o][it[t]].mem)' = HeldIn(slabs[o][it[t]].mem)
    BY <2>2 DEF HeldIn
  <2> QED BY <2>1, <2>2, <2>4, <2>5 DEF Knows
<1>7. CASE Decide(t)
  <2>0. PICK o : o = On(t)
    OBVIOUS
  <2>1. /\ pc[t] = "decide" /\ slabs' = slabs /\ active' = active
        /\ live' = live /\ missed' = missed /\ On(t)' = o
    BY <1>7, <2>0 DEF Decide, On
  <2>2. pc'[t] = IF EmptyEnough(t) THEN "splice" ELSE IF Spare(t) THEN "release" ELSE "uncount"
    BY <1>0, <1>7 DEF Decide
  <2>3. it' = it /\ outdated' = outdated /\ pc'[t] \in {"splice", "release"}
    BY <1>7, <2>2 DEF Decide, Sure
  <2>4. Knows(t, o)
    BY <2>0, <2>1, <2>3 DEF Inv, Positions, Sure
  <2>5. HeldIn(slabs[o][it[t]].mem)' = HeldIn(slabs[o][it[t]].mem)
    BY <2>1, <2>3 DEF HeldIn
  <2>6. pc'[t] = "splice" => it[t] > active[o]
    BY <2>0, <2>2 DEF EmptyEnough
  <2>7. pc'[t] = "release" => used[t] = 0 /\ Len(slabs[o]) > 1
    BY <2>0, <2>2 DEF Spare, MinSlabs
  <2> QED BY <2>1, <2>3, <2>4, <2>5, <2>6, <2>7 DEF Knows
<1>8. CASE MoveSplice(t) \/ MoveRelease(t)
  <2>1. CASE MoveAstray(t)
    <3>1. /\ pc' = pc /\ it' = it /\ used' = used /\ visit' = visit /\ reg' = reg
          /\ slabs' = slabs /\ active' = active
          /\ outdated' = outdated /\ live' = live /\ missed' = missed
      BY <2>1 DEF MoveAstray
    <3>2. Sure(t) /\ Knows(t, On(t))
      BY <3>1 DEF Sure, Inv, Positions
    <3> QED BY <3>1, <3>2 DEF Knows, On, HeldIn
  <2>2. CASE ~ MoveAstray(t)
    <3>1. pc'[t] = "uncount"
      BY <1>0, <1>8, <2>2 DEF MoveSplice, MoveRelease, Moved
    <3> QED BY <3>1 DEF Sure
  <2> QED BY <2>1, <2>2
<1> QED BY <1>1, <1>2, <1>4, <1>5, <1>6, <1>7, <1>8 DEF AllocateStep, DeallocateStep

\* Whoever is not outdated is right about the slab it looked at.
LEMMA PositionsStep ==
  ASSUME Inv, NEW t \in Threads,
         Call(t) \/ MapStep(t) \/ AllocateStep(t) \/ DeallocateStep(t)
  PROVE  Positions'
<1> SUFFICES ASSUME NEW u \in Threads, Sure(u)' PROVE Knows(u, On(u))'
  BY DEF Positions
<1> QED BY OwnKnowledge, OthersKnow

-----------------------------------------------------------------------------
(* Searches and what they find.                                             *)

\* The memory of a cache.
LEMMA MemsAre ==
  ASSUME TypeOK, NEW o \in Threads, NEW m
  PROVE  m \in MemsOf(o) <=> \E k \in 1 .. Len(slabs[o]) : slabs[o][k].mem = m
BY CacheFacts DEF MemsOf, Range

\* Memory is given to one thread, once.
LEMMA OwnerStays ==
  ASSUME Inv, NEW t \in Threads,
         Call(t) \/ MapStep(t) \/ AllocateStep(t) \/ DeallocateStep(t)
  PROVE  /\ \A m \in Mems : owner[m] # Nobody => owner'[m] = owner[m]
         /\ \A p \in live \cup missed : /\ owner'[p.mem] = owner[p.mem]
                                        /\ owner[p.mem] \in Threads
<1>1. \A m \in Mems : owner[m] # Nobody => owner'[m] = owner[m]
  <2>1. CASE Build(t) \/ FullAddCache(t)
    <3>1. PICK m \in Mems : GetBlock(m, t)
      BY <2>1 DEF Build, InFull, FullAddCache
    <3> QED BY <3>1 DEF GetBlock, Inv, TypeOK
  <2>2. CASE ~ (Build(t) \/ FullAddCache(t))
    <3>1. CASE Call(t) \/ MapStep(t) \/ AllocateStep(t)
      BY <2>2, <3>1 DEF Call, CallAllocate, CallDeallocate, MapStep, FindOwn, FindNone,
         Emplace, AllocateStep, Take, TakeFromNone, TakeRacing, InFull, FullMerge, FullStepBack,
         CountUp, data
    <3>2. CASE DeallocateStep(t)
      BY <3>2 DEF DeallocateStep, SearchOwn, SearchNext, Nearest, Return, PassOver, SearchEnd, Look,
         Decide, MoveSplice, MoveRelease, Moved, MoveAstray, CountDown, data
    <3> QED BY <3>1, <3>2
  <2> QED BY <2>1, <2>2
<1>2. \A p \in live \cup missed : p.mem \in Mems /\ owner[p.mem] \in Threads
  <2>1. \A p \in live \cup missed : p.mem \in Mems
    BY DEF Inv, TypeOK, Pointers
  <2>2. \A u : Registered(u) => u \in Threads
    BY MapFacts DEF Registered, Range, Inv
  <2> QED BY <2>1, <2>2 DEF Inv, Memory
<1> QED BY <1>1, <1>2, ThreadsAssumption

\* The history of moves by threads that were out of date does not go back.
LEMMA StaleStays ==
  ASSUME Inv, NEW t \in Threads,
         Call(t) \/ MapStep(t) \/ AllocateStep(t) \/ DeallocateStep(t)
  PROVE  stale => stale'
<1> USE DEF hist
<1>1. CASE Call(t) \/ MapStep(t) \/ AllocateStep(t)
  BY <1>1 DEF Call, CallAllocate, CallDeallocate, MapStep, FindOwn, FindNone, Build,
     Emplace, AllocateStep, Take, TakeFromNone, TakeRacing, InFull, FullMerge, FullStepBack,
     FullAddCache, CountUp
<1>2. CASE DeallocateStep(t)
  BY <1>2 DEF DeallocateStep, SearchOwn, SearchNext, Nearest, Return, PassOver, SearchEnd, Look,
     Decide, MoveSplice, MoveRelease, Moved, MoveAstray, CountDown
<1> QED BY <1>1, <1>2

\* A cache that does not contain a block does not own it.
LEMMA NotTheOwner ==
  ASSUME Inv, ~ stale, NEW o \in Threads, NEW p \in live, Containing(o, p) = {}
  PROVE  owner[p.mem] # o
<1>1. SUFFICES ASSUME owner[p.mem] = o PROVE FALSE
  OBVIOUS
<1>2. p.mem \in MemsOf(o)
  BY <1>1 DEF Inv, LiveMemoryIsKept
<1>3. PICK k \in 1 .. Len(slabs[o]) : slabs[o][k].mem = p.mem
  BY <1>2, MemsAre DEF Inv
<1> QED BY <1>3, CacheFacts DEF Inv, Containing

\* The owner stays ahead, wherever threads register.
LEMMA SearchesStep ==
  ASSUME Inv, NEW t \in Threads,
         Call(t) \/ MapStep(t) \/ AllocateStep(t) \/ DeallocateStep(t)
  PROVE  Searches'
<1> USE DEF data, hist, calls, Goto
<1> SUFFICES ASSUME ~ stale', NEW u \in Threads, pc'[u] = "next"
             PROVE  /\ owner'[ptr'[u].mem] # u
                    /\ \A k \in DOMAIN reg' : reg'[k] = owner'[ptr'[u].mem] => k > visit'[u]
  BY DEF Searches
<1>0. /\ TypeOK /\ ~ stale /\ pc \in [Threads -> Labels] /\ DOMAIN reg = 1 .. Len(reg)
      /\ Len(reg) \in Nat
  BY StaleStays, MapFacts DEF Inv, TypeOK
<1>1. CASE u # t
  <2>1. pc[u] = "next" /\ ptr'[u] = ptr[u] /\ visit'[u] = visit[u]
    BY <1>1, OthersStay
  <2>2. ptr[u] \in live
    BY <2>1 DEF Inv, Blocks
  <2>3. owner'[ptr[u].mem] = owner[ptr[u].mem]
    BY <2>2, OwnerStays
  <2>4. /\ owner[ptr[u].mem] # u
        /\ \A k \in DOMAIN reg : reg[k] = owner[ptr[u].mem] => k > visit[u]
    BY <1>0, <2>1 DEF Inv, Searches
  <2>5. CASE Emplace(t)
    <3>1. \A k \in DOMAIN reg' : (k \in DOMAIN reg /\ reg'[k] = reg[k]) \/ k = Len(reg) + 1
      BY <1>0, <2>5, EmplaceFacts
    <3>2. visit[u] \in {0} \cup DOMAIN reg
      BY <1>0 DEF TypeOK
    <3>3. Len(reg) + 1 > visit[u]
      BY <1>0, <3>2
    <3> QED BY <2>1, <2>3, <2>4, <3>1, <3>3
  <2>6. CASE ~ Emplace(t)
    <3>1. reg' = reg
      BY <2>6, MapStays DEF MapStep
    <3> QED BY <2>1, <2>3, <2>4, <3>1
  <2> QED BY <2>5, <2>6
<1>2. CASE u = t
  <2>1. CASE FindNone(t)
    <3>1. /\ ptr' = ptr /\ owner' = owner /\ visit' = visit /\ reg' = reg
          /\ pc[t] = "find" /\ ~ Registered(t)
      BY <2>1 DEF FindNone
    <3>2. visit[t] = 0 /\ ptr[t] # None
      BY <1>0, <1>2, <2>1, <3>1 DEF FindNone, Inv, Places, Place
    <3>3. ptr[t] \in live
      BY <3>2 DEF Inv, Blocks
    <3>4. Registered(owner[ptr[t].mem])
      BY <3>3 DEF Inv, Memory
    <3> QED BY <1>0, <1>2, <3>1, <3>2, <3>4
  <2>2. CASE SearchOwn(t)
    <3>1. /\ visit'[t] = 0 /\ Containing(t, ptr[t]) = {} /\ ptr' = ptr /\ owner' = owner
          /\ reg' = reg /\ pc[t] = "search"
      BY <1>0, <1>2, <2>2 DEF SearchOwn, Return, TypeOK
    <3>2. ptr[t] \in live
      BY <3>1 DEF Inv, Blocks
    <3>3. owner[ptr[t].mem] # t
      BY <1>0, <3>1, <3>2, NotTheOwner
    <3> QED BY <1>0, <1>2, <3>1, <3>3
  <2>3. CASE SearchNext(t)
    <3>1. PICK k \in Ahead(t) : /\ \A j \in Ahead(t) : k <= j
                                /\ Return(t, k) \/ PassOver(t, k)
      BY <2>3 DEF SearchNext, Nearest
    <3>2. PassOver(t, k)
      BY <1>0, <1>2, <3>1 DEF Return
    <3>3. /\ ptr' = ptr /\ owner' = owner /\ reg' = reg /\ visit'[t] = k
          /\ Containing(reg[k], ptr[t]) = {} /\ pc[t] = "next"
      BY <1>0, <2>3, <3>2 DEF PassOver, SearchNext, Nearest, TypeOK
    <3>4. ptr[t] \in live
      BY <3>3 DEF Inv, Blocks
    <3>5. k \in DOMAIN reg /\ reg[k] \in Threads
      BY <1>0, MapFacts DEF Ahead
    <3>6. owner[ptr[t].mem] # reg[k]
      BY <1>0, <3>3, <3>4, <3>5, NotTheOwner
    <3>7. /\ owner[ptr[t].mem] # t
          /\ \A j \in DOMAIN reg : reg[j] = owner[ptr[t].mem] => j > visit[t]
      BY <1>0, <3>3 DEF Inv, Searches
    <3>8. ASSUME NEW j \in DOMAIN reg, reg[j] = owner[ptr[t].mem]
          PROVE  j > k
      <4>1. j \in Ahead(t)
        BY <3>7, <3>8 DEF Ahead
      <4>2. k <= j /\ j # k
        BY <3>1, <3>6, <3>8, <4>1
      <4> QED BY <1>0, <3>5, <4>2
    <3> QED BY <1>2, <3>3, <3>7, <3>8
  <2>4. CASE ~ (FindNone(t) \/ SearchOwn(t) \/ SearchNext(t))
    <3>1. CASE Call(t) \/ MapStep(t)
      BY <1>0, <1>2, <2>4, <3>1 DEF Call, CallAllocate, CallDeallocate, MapStep, FindOwn,
         Build, Emplace
    <3>2. CASE AllocateStep(t)
      BY <1>0, <1>2, <2>4, <3>2 DEF AllocateStep, Take, TakeFromNone, TakeRacing, InFull, FullMerge,
         FullStepBack, FullAddCache, CountUp
    <3>3. CASE DeallocateStep(t)
      BY <1>0, <1>2, <2>4, <3>3 DEF DeallocateStep, SearchEnd, Leave, Look, Decide,
         MoveSplice, MoveRelease, Moved, MoveAstray, CountDown
    <3> QED BY <3>1, <3>2, <3>3
  <2> QED BY <2>1, <2>2, <2>3, <2>4
<1> QED BY <1>1, <1>2

\* A search that ends has passed the owner, so something was moved wrongly.
LEMMA FoundStep ==
  ASSUME Inv, NEW t \in Threads,
         Call(t) \/ MapStep(t) \/ AllocateStep(t) \/ DeallocateStep(t)
  PROVE  EveryBlockIsFound'
<1> USE DEF hist
<1>0. EveryBlockIsFound /\ (stale => stale')
  BY StaleStays DEF Inv
<1>1. CASE SearchEnd(t)
  <2>1. SUFFICES ASSUME ~ stale PROVE FALSE
    BY <1>0 DEF EveryBlockIsFound
  <2>2. pc[t] = "next" /\ Ahead(t) = {}
    BY <1>1 DEF SearchEnd
  <2>3. ptr[t] \in live
    BY <2>2 DEF Inv, Blocks
  <2>4. PICK k \in DOMAIN reg : reg[k] = owner[ptr[t].mem]
    BY <2>3 DEF Inv, Memory, Registered, Range
  <2>5. reg[k] # t /\ k > visit[t]
    BY <2>1, <2>2, <2>4 DEF Inv, Searches
  <2> QED BY <2>2, <2>5 DEF Ahead
<1>2. CASE ~ SearchEnd(t)
  <2>1. missed' = missed
    <3>1. CASE Call(t) \/ MapStep(t) \/ AllocateStep(t)
      BY <3>1 DEF Call, CallAllocate, CallDeallocate, MapStep, FindOwn, FindNone, Build,
         Emplace, AllocateStep, Take, TakeFromNone, TakeRacing, InFull, FullMerge, FullStepBack,
         FullAddCache, CountUp
    <3>2. CASE DeallocateStep(t)
      BY <1>2, <3>2 DEF DeallocateStep, SearchOwn, SearchNext, Nearest, Return, PassOver, Look,
         Decide, MoveSplice, MoveRelease, Moved, MoveAstray, CountDown
    <3> QED BY <3>1, <3>2
  <2> QED BY <1>0, <2>1 DEF EveryBlockIsFound
<1> QED BY <1>1, <1>2

-----------------------------------------------------------------------------
(* Memory that is in use.                                                   *)

LEMMA MemsAfter ==
  ASSUME NEW o \in Threads, NEW k \in DOMAIN slabs'[o]
  PROVE  slabs'[o][k].mem \in MemsOf(o)'
BY DEF MemsOf, Range

\* One slab changes, but not its memory.
LEMMA MemsOfOneSlab ==
  ASSUME TypeOK, NEW v \in Threads, NEW j \in 1 .. Len(slabs[v]), NEW e \in Slab,
         e.mem = slabs[v][j].mem, slabs' = [slabs EXCEPT ![v] = [slabs[v] EXCEPT ![j] = e]],
         NEW o \in Threads, NEW m \in MemsOf(o)
  PROVE  m \in MemsOf(o)'
<1>1. PICK k \in 1 .. Len(slabs[o]) : slabs[o][k].mem = m
  BY MemsAre
<1>2. DOMAIN slabs'[v] = DOMAIN slabs[v] /\ \A u \in Threads : u # v => slabs'[u] = slabs[u]
  BY SlabChanges
<1>3. slabs'[v] = [slabs[v] EXCEPT ![j] = e]
  BY DEF TypeOK
<1>4. DOMAIN slabs[v] = 1 .. Len(slabs[v]) /\ DOMAIN slabs[o] = 1 .. Len(slabs[o])
  BY CacheFacts
<1>5. k \in DOMAIN slabs'[o] /\ slabs'[o][k].mem = m
  <2>1. CASE o # v
    BY <1>1, <1>2, <1>4, <2>1
  <2>2. CASE o = v
    BY <1>1, <1>2, <1>3, <1>4, <2>2
  <2> QED BY <2>1, <2>2
<1> QED BY <1>5, MemsAfter

\* A cache gets another vector, with all of its slabs in it but perhaps one.
LEMMA MemsOfOneVector ==
  ASSUME TypeOK, NEW v \in Threads, NEW w \in Seq(Slab), slabs' = [slabs EXCEPT ![v] = w],
         NEW o \in Threads, NEW m \in MemsOf(o),
         o = v => \A k \in 1 .. Len(slabs[v]) :
                    slabs[v][k].mem = m => \E j \in 1 .. Len(w) : w[j] = slabs[v][k]
  PROVE  m \in MemsOf(o)'
<1>1. PICK k \in 1 .. Len(slabs[o]) : slabs[o][k].mem = m
  BY MemsAre
<1>2. /\ slabs'[v] = w /\ DOMAIN w = 1 .. Len(w)
      /\ \A u \in Threads : u # v => slabs'[u] = slabs[u]
  BY CacheChanges
<1>3. \E j \in DOMAIN slabs'[o] : slabs'[o][j].mem = m
  <2>1. CASE o # v
    BY <1>1, <1>2, <2>1, CacheFacts
  <2>2. CASE o = v
    BY <1>1, <1>2, <2>2
  <2> QED BY <2>1, <2>2
<1> QED BY <1>3, MemsAfter

\* No step but a release takes memory out of a cache.
LEMMA MemsStay ==
  ASSUME Inv, NEW t \in Threads,
         Call(t) \/ MapStep(t) \/ AllocateStep(t) \/ DeallocateStep(t),
         ~ MoveRelease(t), NEW o \in Threads, NEW m \in MemsOf(o)
  PROVE  m \in MemsOf(o)'
<1> USE DEF data
<1>0. TypeOK
  BY DEF Inv
<1>a. ASSUME slabs' = slabs PROVE m \in MemsOf(o)'
  BY <1>a DEF MemsOf, Range
<1>1. CASE Call(t) \/ FindOwn(t) \/ FindNone(t) \/ Emplace(t)
  BY <1>1, <1>a DEF Call, CallAllocate, CallDeallocate, FindOwn, FindNone, Emplace
<1>2. CASE Build(t)
  <2>1. PICK w \in Seq(Slab) : slabs' = [slabs EXCEPT ![t] = w]
    BY <1>2, BuildFacts
  <2>2. \A k \in 1 .. Len(slabs[t]) :
          slabs[t][k].mem = m => \E j \in 1 .. Len(w) : w[j] = slabs[t][k]
    <3>1. Len(slabs[t]) = 0
      BY <1>0, <1>2, BuildFacts, CacheFacts
    <3> QED BY <3>1
  <2> QED BY <1>0, <2>1, <2>2, MemsOfOneVector
<1>3. CASE \E i \in Indices : Take(t, i)
  <2>1. PICK i \in Indices : Take(t, i)
    BY <1>3
  <2>2. PICK a : a = active[t]
    OBVIOUS
  <2>3. PICK e : e = [slabs[t][a] EXCEPT !.availible = @ \ {i}]
    OBVIOUS
  <2>4. /\ a \in 1 .. Len(slabs[t]) /\ e \in Slab
        /\ slabs' = [slabs EXCEPT ![t] = [slabs[t] EXCEPT ![a] = e]]
    BY <2>1, <2>2, <2>3, TakeFacts
  <2>5. e.mem = slabs[t][a].mem
    BY <2>3, <2>4, MemoryFacts DEF Slab
  <2> QED BY <1>0, <2>4, <2>5, MemsOfOneSlab
<1>4. CASE FullMerge(t)
  <2>1. PICK a : a = active[t]
    OBVIOUS
  <2>2. PICK e : e = [slabs[t][a] EXCEPT !.availible = @ \cup slabs[t][a].foreigns,
                                         !.foreigns  = {}]
    OBVIOUS
  <2>3. /\ a \in 1 .. Len(slabs[t]) /\ e \in Slab
        /\ slabs' = [slabs EXCEPT ![t] = [slabs[t] EXCEPT ![a] = e]]
    BY <1>4, <2>1, <2>2, MergeFacts
  <2>4. e.mem = slabs[t][a].mem
    BY <2>2, <2>3, MemoryFacts DEF Slab
  <2> QED BY <1>0, <2>3, <2>4, MemsOfOneSlab
<1>5. CASE FullAddCache(t)
  <2>1. PICK w \in Seq(Slab) :
          /\ slabs' = [slabs EXCEPT ![t] = w] /\ Len(w) = Len(slabs[t]) + 1
          /\ w[Len(slabs[t]) + 1] = slabs[t][1]
          /\ \A k \in 1 .. Len(slabs[t]) : k # 1 => w[k] = slabs[t][k]
    BY <1>5, AddFacts
  <2>2. Len(slabs[t]) \in Nat
    BY <1>0, CacheFacts
  <2>3. \A k \in 1 .. Len(slabs[t]) :
          slabs[t][k].mem = m => \E j \in 1 .. Len(w) : w[j] = slabs[t][k]
    <3>1. ASSUME NEW k \in 1 .. Len(slabs[t]) PROVE \E j \in 1 .. Len(w) : w[j] = slabs[t][k]
      <4>1. CASE k = 1
        BY <2>1, <2>2, <4>1
      <4>2. CASE k # 1
        BY <2>1, <2>2, <4>2
      <4> QED BY <4>1, <4>2
    <3> QED BY <3>1
  <2> QED BY <1>0, <2>1, <2>3, MemsOfOneVector
<1>6. CASE TakeFromNone(t) \/ TakeRacing(t) \/ FullStepBack(t) \/ CountUp(t)
  BY <1>6, <1>a DEF TakeFromNone, TakeRacing, InFull, FullStepBack, CountUp
<1>7. ASSUME NEW k \in DOMAIN reg, Return(t, k), pc[t] \in {"search", "next"}
      PROVE  m \in MemsOf(o)'
  <2>1. PICK v : v = reg[k]
    OBVIOUS
  <2>2. PICK p : p = ptr[t]
    OBVIOUS
  <2>3. v \in Threads
    BY <1>7, <2>1, <2>2, ReturnFacts
  <2>4. PICK j \in 1 .. Len(slabs[v]) : \E e \in Slab : GivesBack(v, p, j, e)
    BY <1>7, <2>1, <2>2, ReturnFacts
  <2>5. PICK e \in Slab : /\ slabs' = [slabs EXCEPT ![v] = [slabs[v] EXCEPT ![j] = e]]
                          /\ e.mem = slabs[v][j].mem
    BY <2>4 DEF GivesBack
  <2> QED BY <1>0, <2>3, <2>5, MemsOfOneSlab
<1>8. CASE SearchOwn(t)
  <2>1. pc[t] = "search" /\ visit[t] \in DOMAIN reg
    BY <1>8, OnFacts DEF SearchOwn, Inside
  <2> QED BY <1>8, <2>1, <1>7, <1>a DEF SearchOwn
<1>9. CASE SearchNext(t)
  <2>1. PICK k \in Ahead(t) : Return(t, k) \/ PassOver(t, k)
    BY <1>9 DEF SearchNext, Nearest
  <2>2. k \in DOMAIN reg /\ pc[t] = "next"
    BY <1>9, <2>1 DEF Ahead, SearchNext, Nearest
  <2> QED BY <2>1, <2>2, <1>7, <1>a DEF PassOver
<1>10. CASE SearchEnd(t) \/ Look(t) \/ Decide(t) \/ CountDown(t)
  BY <1>10, <1>a DEF SearchEnd, Look, Decide, CountDown
<1>11. CASE MoveSplice(t)
  <2>1. PICK v : v = On(t)
    OBVIOUS
  <2>2. v \in Threads /\ slabs[v] # <<>>
    BY <1>11, <2>1, OnFacts DEF MoveSplice, Inside
  <2>3. CASE slabs' # slabs
    <3>1. /\ it[t] \in active[v] .. Len(slabs[v])
          /\ slabs' = [slabs EXCEPT ![v] = Splice(slabs[v], active[v], it[t])]
      BY <1>11, <2>1, <2>3 DEF MoveSplice, MoveAstray
    <3>2. PICK w \in Seq(Slab) :
            /\ w = Splice(slabs[v], active[v], it[t])
            /\ \A k \in 1 .. Len(slabs[v]) : \E j \in 1 .. Len(w) : w[j] = slabs[v][k]
      BY <1>0, <2>2, <3>1, SpliceFacts
    <3>3. \A k \in 1 .. Len(slabs[v]) :
            slabs[v][k].mem = m => \E j \in 1 .. Len(w) : w[j] = slabs[v][k]
      BY <3>2
    <3>4. slabs' = [slabs EXCEPT ![v] = w]
      BY <3>1, <3>2
    <3> QED BY <1>0, <2>2, <3>3, <3>4, MemsOfOneVector, ZenonT(40)
  <2> QED BY <2>3, <1>a
<1> QED BY <1>1, <1>2, <1>3, <1>4, <1>5, <1>6, <1>8, <1>9, <1>10, <1>11
        DEF MapStep, AllocateStep, DeallocateStep

\* A release takes the memory of one slab, in which the releasing thread, if it
\* is not outdated, knows that no block is held.
LEMMA ReleasedMems ==
  ASSUME Inv, NEW t \in Threads, MoveRelease(t), t \notin outdated,
         NEW o \in Threads, NEW p \in live, p.mem \in MemsOf(o)
  PROVE  p.mem \in MemsOf(o)'
<1>0. TypeOK
  BY DEF Inv
<1>1. PICK v : v = On(t)
  OBVIOUS
<1>2. v \in Threads /\ pc[t] = "release"
  BY <1>1, OnFacts DEF MoveRelease, Inside
<1>3. /\ it[t] \in DOMAIN slabs[v] /\ Len(slabs[v]) > 1
      /\ HeldIn(slabs[v][it[t]].mem) = {}
  BY <1>1, <1>2 DEF Inv, Positions, Sure, Knows
<1>4. slabs' = [slabs EXCEPT ![v] = IF it[t] < active[v] THEN Erase(slabs[v], it[t])
                                                         ELSE SwapPop(slabs[v], it[t])]
  <2>1. Len(slabs[v]) # 1
    BY <1>0, <1>2, <1>3, CacheFacts
  <2> QED BY <1>1, <1>3, <2>1 DEF MoveRelease
<1>5. PICK w \in Seq(Slab) :
        /\ w = IF it[t] < active[v] THEN Erase(slabs[v], it[t])
                                    ELSE SwapPop(slabs[v], it[t])
        /\ \A k \in 1 .. Len(slabs[v]) :
             k # it[t] => \E j \in 1 .. Len(w) : w[j] = slabs[v][k]
  BY <1>0, <1>2, <1>3, ReleaseFacts
<1>6. slabs[v][it[t]].mem # p.mem
  <2>1. p \in Pointers
    BY <1>0 DEF TypeOK
  <2>2. p.idx \in Indices /\ p = [mem |-> p.mem, idx |-> p.idx]
    BY <2>1 DEF Pointers
  <2>3. p.idx \in HeldIn(p.mem)
    BY <2>2 DEF HeldIn
  <2> QED BY <1>3, <2>3
<1>7. \A k \in 1 .. Len(slabs[v]) :
        slabs[v][k].mem = p.mem => \E j \in 1 .. Len(w) : w[j] = slabs[v][k]
  BY <1>5, <1>6
<1>8. slabs' = [slabs EXCEPT ![v] = w]
  BY <1>4, <1>5
<1> QED BY <1>0, <1>2, <1>7, <1>8, MemsOfOneVector

\* Caches keep slabs with blocks in use, and iterators point into their vectors,
\* until an outdated thread moves slabs.
LEMMA KeptStep ==
  ASSUME Inv, NEW t \in Threads,
         Call(t) \/ MapStep(t) \/ AllocateStep(t) \/ DeallocateStep(t)
  PROVE  LiveMemoryIsKept'
<1> USE DEF data, hist, calls
<1> SUFFICES ASSUME ~ stale'
             PROVE  /\ \A p \in live' : p.mem \in MemsOf(owner[p.mem])'
                    /\ broken' # "iterator"
  BY DEF LiveMemoryIsKept
<1>0. /\ ~ stale /\ broken # "iterator"
      /\ \A p \in live : p.mem \in MemsOf(owner[p.mem])
  BY StaleStays DEF Inv, LiveMemoryIsKept
<1>1. MoveSplice(t) \/ MoveRelease(t) => t \notin outdated
  BY DEF MoveSplice, MoveRelease, Moved, MoveAstray
<1>2. broken' # "iterator"
  <2>1. CASE MoveSplice(t)
    <3>1. PICK o : o = On(t)
      OBVIOUS
    <3>2. o \in Threads /\ it[t] \in DOMAIN slabs[o] /\ it[t] > active[o]
      BY <1>1, <2>1, <3>1, OnFacts DEF MoveSplice, Inside, Inv, Positions, Sure, Knows
    <3>3. /\ DOMAIN slabs[o] = 1 .. Len(slabs[o]) /\ Len(slabs[o]) \in Nat
          /\ active[o] \in Nat
      BY <3>2, CacheFacts DEF Inv, TypeOK
    <3>4. it[t] \in active[o] .. Len(slabs[o]) /\ active[o] < Len(slabs[o])
      BY <3>2, <3>3
    <3> QED BY <1>0, <2>1, <3>1, <3>3, <3>4 DEF MoveSplice, Moved
  <2>2. CASE MoveRelease(t)
    <3>1. PICK o : o = On(t)
      OBVIOUS
    <3>2. o \in Threads /\ it[t] \in DOMAIN slabs[o] /\ Len(slabs[o]) > 1
      BY <1>1, <2>2, <3>1, OnFacts DEF MoveRelease, Inside, Inv, Positions, Sure, Knows
    <3>3. Len(slabs[o]) # 1
      BY <3>2, CacheFacts DEF Inv
    <3> QED BY <1>0, <2>2, <3>1, <3>2, <3>3 DEF MoveRelease, Moved
  <2>3. CASE Call(t) \/ MapStep(t) \/ AllocateStep(t)
    BY <1>0, <2>3 DEF Call, CallAllocate, CallDeallocate, MapStep, FindOwn, FindNone, Build,
       Emplace, AllocateStep, Take, TakeFromNone, TakeRacing, InFull, FullMerge, FullStepBack,
       FullAddCache, CountUp
  <2>4. CASE SearchOwn(t) \/ SearchNext(t) \/ SearchEnd(t) \/ Look(t) \/ Decide(t)
               \/ CountDown(t)
    BY <1>0, <2>4 DEF SearchOwn, SearchNext, Nearest, Return, PassOver, SearchEnd, Look, Decide,
       CountDown
  <2> QED BY <2>1, <2>2, <2>3, <2>4 DEF DeallocateStep
<1>3. ASSUME NEW p \in live PROVE p.mem \in MemsOf(owner[p.mem])'
  <2>1. PICK o : o = owner[p.mem]
    OBVIOUS
  <2>2. o \in Threads /\ owner'[p.mem] = o
    BY <2>1, OwnerStays
  <2>3. p.mem \in MemsOf(o)'
    <3>1. p.mem \in MemsOf(o)
      BY <1>0, <2>1
    <3> QED BY <1>1, <2>2, <3>1, MemsStay, ReleasedMems
  <2> QED BY <2>2, <2>3 DEF MemsOf
<1>4. CASE \E i \in Indices : Take(t, i)
  <2>1. PICK i \in Indices : Take(t, i)
    BY <1>4
  <2>2. PICK a : a = active[t]
    OBVIOUS
  <2>3. PICK p : p = [mem |-> slabs[t][a].mem, idx |-> i]
    OBVIOUS
  <2>4. live' = live \cup {p} /\ a \in 1 .. Len(slabs[t])
    BY <2>1, <2>2, <2>3, TakeFacts
  <2>5. owner[p.mem] = t /\ owner' = owner
    BY <2>1, <2>3, <2>4, MemoryFacts DEF Take
  <2>6. p.mem \in MemsOf(t)
    BY <2>3, <2>4, MemsAre DEF Inv
  <2>7. ~ MoveRelease(t)
    BY <2>1 DEF Take, MoveRelease
  <2>8. p.mem \in MemsOf(t)'
    BY <2>6, <2>7, MemsStay
  <2>9. p.mem \in MemsOf(owner[p.mem])'
    BY <2>5, <2>8 DEF MemsOf
  <2> QED BY <1>2, <1>3, <2>4, <2>9
<1>5. CASE ~ \E i \in Indices : Take(t, i)
  <2>1. live' \subseteq live
    <3>1. CASE Call(t) \/ MapStep(t) \/ AllocateStep(t)
      BY <1>5, <3>1 DEF Call, CallAllocate, CallDeallocate, MapStep, FindOwn, FindNone,
         Build, Emplace, AllocateStep, TakeFromNone, TakeRacing, InFull, FullMerge, FullStepBack,
         FullAddCache, CountUp
    <3>2. CASE DeallocateStep(t)
      BY <3>2 DEF DeallocateStep, SearchOwn, SearchNext, Nearest, Return, PassOver, SearchEnd, Look,
         Decide, MoveSplice, MoveRelease, Moved, MoveAstray, CountDown
    <3> QED BY <3>1, <3>2
  <2> QED BY <1>2, <1>3, <2>1
<1> QED BY <1>4, <1>5

-----------------------------------------------------------------------------
(* The sizes of the caches.                                                 *)

\* The blocks of o's cache that callers hold or lost.
Lent(o) == {p \in live \cup missed : owner[p.mem] = o}

Uncounts == {"look", "decide", "splice", "release", "uncount"}

Balanced(o) == Counted(o) = Cardinality(Lent(o)) /\ IsFiniteSet(ToUncount(o))

\* The size of o's cache is right, in natural numbers.
LEMMA BalancedNow ==
  ASSUME Inv, NEW o \in Threads
  PROVE  /\ Counted(o) = Cardinality(Lent(o)) /\ Cardinality(Lent(o)) \in Nat
         /\ IsFiniteSet(Lent(o)) /\ IsFiniteSet(ToUncount(o))
         /\ Cardinality(ToUncount(o)) \in Nat /\ mySize[o] \in Int
<1>1. /\ IsFiniteSet(live \cup missed) /\ IsFiniteSet(ToUncount(o))
      /\ Counted(o) = Cardinality(Lent(o)) /\ mySize[o] \in Int
  BY DEF Inv, Sizes, SizesCount, Lent, TypeOK
<1>2. Lent(o) \subseteq live \cup missed
  BY DEF Lent
<1>3. IsFiniteSet(Lent(o))
  BY <1>1, <1>2, FS_Subset
<1> QED BY <1>1, <1>3, FS_CardinalityType

\* One caller counts for one.
LEMMA OneCaller ==
  ASSUME NEW o, NEW f, NEW L
  PROVE  Cardinality({t \in {o} : f[t] \in L}) = IF f[o] \in L THEN 1 ELSE 0
<1>1. CASE f[o] \in L
  <2>1. {t \in {o} : f[t] \in L} = {o}
    BY <1>1
  <2> QED BY <1>1, <2>1, FS_Singleton
<1>2. CASE f[o] \notin L
  <2>1. {t \in {o} : f[t] \in L} = {}
    BY <1>2
  <2> QED BY <1>2, <2>1, FS_EmptySet
<1> QED BY <1>1, <1>2

LEMMA CountedIs ==
  ASSUME NEW o
  PROVE  /\ Counted(o) = mySize[o] + (IF pc[o] \in {"full", "count"} THEN 1 ELSE 0)
                           - Cardinality(ToUncount(o))
         /\ Counted(o)' = mySize'[o] + (IF pc'[o] \in {"full", "count"} THEN 1 ELSE 0)
                           - Cardinality(ToUncount(o)')
BY OneCaller DEF Counted, ToCount

\* Who has to count down in o's cache.
LEMMA Uncounting ==
  ASSUME Inv, NEW o
  PROVE  /\ ToUncount(o) = {u \in Threads : pc[u] \in Uncounts /\ On(u) = o}
         /\ ToUncount(o)' = {u \in Threads : pc'[u] \in Uncounts /\ On(u)' = o}
BY DEF ToUncount, Uncounts

LEMMA OthersUncount ==
  ASSUME Inv, NEW t \in Threads, NEW o,
         Call(t) \/ MapStep(t) \/ AllocateStep(t) \/ DeallocateStep(t)
  PROVE  /\ ToUncount(o)' \ {t} = ToUncount(o) \ {t}
         /\ t \in ToUncount(o) <=> pc[t] \in Uncounts /\ On(t) = o
         /\ t \in ToUncount(o)' <=> pc'[t] \in Uncounts /\ On(t)' = o
<1>1. ASSUME NEW u \in Threads, u # t
      PROVE  pc'[u] \in Uncounts /\ On(u)' = o <=> pc[u] \in Uncounts /\ On(u) = o
  <2>1. pc'[u] = pc[u] /\ visit'[u] = visit[u]
    BY <1>1, OthersStay
  <2>2. reg' = reg \/ Emplace(t)
    BY MapStays DEF MapStep
  <2>3. pc[u] \in Uncounts => On(u)' = On(u)
    BY <2>1, <2>2, OnStays DEF Uncounts, Inside
  <2> QED BY <2>1, <2>3
<1> QED BY <1>1, Uncounting

\* Blocks keep their owners.
LEMMA LentAfter ==
  ASSUME Inv, NEW t \in Threads, NEW o,
         Call(t) \/ MapStep(t) \/ AllocateStep(t) \/ DeallocateStep(t),
         live' \cup missed' \subseteq live \cup missed
  PROVE  Lent(o)' = {p \in live' \cup missed' : owner[p.mem] = o}
BY OwnerStays DEF Lent

\* A step that counts nothing and gives nothing out.
LEMMA BalanceStays ==
  ASSUME Inv, NEW o \in Threads, mySize'[o] = mySize[o],
         pc'[o] \in {"full", "count"} <=> pc[o] \in {"full", "count"},
         ToUncount(o)' = ToUncount(o), Lent(o)' = Lent(o)
  PROVE  Balanced(o)'
<1>1. Counted(o)' = Counted(o)
  BY CountedIs
<1> QED BY <1>1, BalancedNow DEF Balanced

LEMMA BalanceKept ==
  ASSUME Inv, NEW t \in Threads, NEW o \in Threads,
         Call(t) \/ MapStep(t) \/ AllocateStep(t) \/ DeallocateStep(t),
         mySize'[o] = mySize[o], live' \cup missed' = live \cup missed,
         pc'[t] \in {"full", "count"} <=> pc[t] \in {"full", "count"},
         \/ pc[t] \notin Uncounts /\ pc'[t] \notin Uncounts
         \/ /\ pc[t] \in Uncounts /\ pc'[t] \in Uncounts
            /\ visit' = visit /\ reg' = reg
  PROVE  Balanced(o)'
<1>1. pc'[o] \in {"full", "count"} <=> pc[o] \in {"full", "count"}
  BY OthersStay
<1>2. t \in ToUncount(o)' <=> t \in ToUncount(o)
  BY OthersUncount DEF On
<1>3. ToUncount(o)' = ToUncount(o)
  BY <1>2, OthersUncount
<1>4. Lent(o)' = Lent(o)
  BY LentAfter DEF Lent
<1> QED BY <1>1, <1>3, <1>4, BalanceStays

\* allocate() has taken a block, and will count it.
LEMMA TakeBalance ==
  ASSUME Inv, NEW t \in Threads, NEW i \in Indices, Take(t, i), NEW o \in Threads
  PROVE  Balanced(o)' /\ IsFiniteSet(live' \cup missed')
<1>0. AllocateStep(t)
  BY DEF AllocateStep
<1>1. PICK a : a = active[t]
  OBVIOUS
<1>2. PICK p : p = [mem |-> slabs[t][a].mem, idx |-> i]
  OBVIOUS
<1>3. /\ p \in Pointers /\ p \notin live \cup missed /\ live' = live \cup {p}
      /\ a \in 1 .. Len(slabs[t])
  BY <1>1, <1>2, TakeFacts
<1>4. /\ missed' = missed /\ mySize' = mySize /\ owner' = owner /\ pc[t] = "take"
      /\ pc'[t] \in {"full", "count"}
  BY DEF Take, Goto, Inv, TypeOK
<1>5. owner[p.mem] = t
  BY <1>2, <1>3, MemoryFacts
<1>6. IsFiniteSet(live' \cup missed')
  <2>1. IsFiniteSet(live \cup missed) /\ live' \cup missed' = (live \cup missed) \cup {p}
    BY <1>3, <1>4 DEF Inv, Sizes
  <2> QED BY <2>1, FS_AddElement
<1>7. ToUncount(o)' = ToUncount(o)
  <2>1. t \notin ToUncount(o) /\ t \notin ToUncount(o)'
    BY <1>0, <1>4, OthersUncount DEF Uncounts
  <2> QED BY <1>0, <2>1, OthersUncount
<1>8. CASE o # t
  <2>1. pc'[o] = pc[o]
    BY <1>0, <1>8, OthersStay
  <2>2. Lent(o)' = Lent(o)
    BY <1>3, <1>4, <1>5, <1>8 DEF Lent
  <2> QED BY <1>4, <1>6, <1>7, <2>1, <2>2, BalanceStays
<1>9. CASE o = t
  <2>1. Lent(o)' = Lent(o) \cup {p} /\ p \notin Lent(o)
    BY <1>3, <1>4, <1>5, <1>9 DEF Lent
  <2>2. Cardinality(Lent(o)') = Cardinality(Lent(o)) + 1
    BY <2>1, BalancedNow, FS_AddElement
  <2>3. Counted(o)' = Counted(o) + 1
    BY <1>4, <1>7, <1>9, CountedIs, BalancedNow
  <2> QED BY <1>6, <1>7, <2>2, <2>3, BalancedNow DEF Balanced
<1> QED BY <1>8, <1>9

\* deallocate() has given a block back, and will count it.
LEMMA ReturnBalance ==
  ASSUME Inv, NEW t \in Threads, NEW k \in DOMAIN reg, Return(t, k),
         pc[t] \in {"search", "next"}, DeallocateStep(t), NEW o \in Threads
  PROVE  Balanced(o)' /\ IsFiniteSet(live' \cup missed')
<1>1. PICK v : v = reg[k]
  OBVIOUS
<1>2. PICK p : p = ptr[t]
  OBVIOUS
<1>3. v \in Threads /\ p \in Pointers /\ p \in live /\ owner[p.mem] = v
  BY <1>1, <1>2, ReturnFacts
<1>4. /\ live' = live \ {p} /\ missed' = missed /\ mySize' = mySize /\ owner' = owner
      /\ pc'[t] = "look" /\ visit' = [visit EXCEPT ![t] = k] /\ reg' = reg
  BY <1>2 DEF Return, Goto, Inv, TypeOK
<1>5. p \notin missed
  BY <1>3 DEF Inv, Memory
<1>6. IsFiniteSet(live' \cup missed')
  <2>1. IsFiniteSet(live \cup missed) /\ live' \cup missed' \subseteq live \cup missed
    BY <1>4 DEF Inv, Sizes
  <2> QED BY <2>1, FS_Subset
<1>7. pc'[o] \in {"full", "count"} <=> pc[o] \in {"full", "count"}
  BY <1>4, OthersStay
<1>8. On(t)' = v
  BY <1>1, <1>4 DEF On, Inv, TypeOK
<1>9. t \notin ToUncount(o) /\ (t \in ToUncount(o)' <=> o = v)
  BY <1>4, <1>8, OthersUncount DEF Uncounts
<1>10. CASE o # v
  <2>1. ToUncount(o)' = ToUncount(o)
    BY <1>9, <1>10, OthersUncount
  <2>2. Lent(o)' = Lent(o)
    BY <1>3, <1>4, <1>10 DEF Lent
  <2> QED BY <1>4, <1>6, <1>7, <2>1, <2>2, BalanceStays
<1>11. CASE o = v
  <2>1. ToUncount(o)' = ToUncount(o) \cup {t}
    BY <1>9, <1>11, OthersUncount
  <2>2. /\ IsFiniteSet(ToUncount(o)')
        /\ Cardinality(ToUncount(o)') = Cardinality(ToUncount(o)) + 1
    BY <1>9, <2>1, BalancedNow, FS_AddElement
  <2>3. Lent(o)' = Lent(o) \ {p} /\ p \in Lent(o)
    BY <1>3, <1>4, <1>5, <1>11 DEF Lent
  <2>4. Cardinality(Lent(o)') = Cardinality(Lent(o)) - 1
    BY <2>3, BalancedNow, FS_RemoveElement
  <2>5. Counted(o)' = Counted(o) - 1
    BY <1>4, <1>7, <2>2, CountedIs, BalancedNow
  <2> QED BY <1>6, <2>2, <2>4, <2>5, BalancedNow DEF Balanced
<1> QED BY <1>10, <1>11

\* allocate() counts the block it has taken.
LEMMA CountUpBalance ==
  ASSUME Inv, NEW t \in Threads, CountUp(t), NEW o \in Threads
  PROVE  Balanced(o)'
<1>0. AllocateStep(t)
  BY DEF AllocateStep
<1>1. /\ live' = live /\ missed' = missed /\ owner' = owner /\ pc[t] = "count"
      /\ mySize' = [mySize EXCEPT ![t] = @ + 1] /\ pc'[t] = "idle"
      /\ mySize \in [Threads -> Int]
  BY DEF CountUp, Goto, Inv, TypeOK, hist
<1>2. ToUncount(o)' = ToUncount(o)
  <2>1. t \notin ToUncount(o) /\ t \notin ToUncount(o)'
    BY <1>0, <1>1, OthersUncount DEF Uncounts
  <2> QED BY <1>0, <2>1, OthersUncount
<1>3. Lent(o)' = Lent(o)
  BY <1>1 DEF Lent
<1>4. CASE o # t
  <2>1. mySize'[o] = mySize[o] /\ pc'[o] = pc[o]
    BY <1>0, <1>1, <1>4, OthersStay
  <2> QED BY <1>2, <1>3, <2>1, BalanceStays
<1>5. CASE o = t
  <2>1. Counted(o)' = Counted(o)
    BY <1>1, <1>2, <1>5, CountedIs, BalancedNow
  <2> QED BY <1>2, <1>3, <2>1, BalancedNow DEF Balanced
<1> QED BY <1>4, <1>5

\* deallocate() counts the block it has given back, in the owner's cache.
LEMMA CountDownBalance ==
  ASSUME Inv, NEW t \in Threads, CountDown(t), NEW o \in Threads
  PROVE  Balanced(o)'
<1>0. DeallocateStep(t)
  BY DEF DeallocateStep
<1>1. PICK v : v = On(t)
  OBVIOUS
<1>2. /\ live' = live /\ missed' = missed /\ owner' = owner /\ pc[t] = "uncount"
      /\ mySize' = [mySize EXCEPT ![v] = @ - 1] /\ pc'[t] \in {"idle", "join"}
      /\ mySize \in [Threads -> Int]
  BY <1>1 DEF CountDown, Leave, Goto, Inv, TypeOK, hist
<1>3. v \in Threads
  BY <1>1, <1>2, OnFacts DEF Inside
<1>4. t \notin ToUncount(o)' /\ (t \in ToUncount(o) <=> o = v)
  BY <1>0, <1>1, <1>2, OthersUncount DEF Uncounts
<1>5. pc'[o] \in {"full", "count"} <=> pc[o] \in {"full", "count"}
  BY <1>0, <1>2, OthersStay
<1>6. Lent(o)' = Lent(o)
  BY <1>2 DEF Lent
<1>7. CASE o # v
  <2>1. ToUncount(o)' = ToUncount(o)
    BY <1>0, <1>4, <1>7, OthersUncount
  <2>2. mySize'[o] = mySize[o]
    BY <1>2, <1>7
  <2> QED BY <1>5, <1>6, <2>1, <2>2, BalanceStays
<1>8. CASE o = v
  <2>1. ToUncount(o)' = ToUncount(o) \ {t} /\ t \in ToUncount(o)
    BY <1>0, <1>4, <1>8, OthersUncount
  <2>2. /\ IsFiniteSet(ToUncount(o)')
        /\ Cardinality(ToUncount(o)') = Cardinality(ToUncount(o)) - 1
    BY <2>1, BalancedNow, FS_RemoveElement
  <2>3. mySize'[o] = mySize[o] - 1
    BY <1>2, <1>8
  <2>4. Counted(o)' = Counted(o)
    BY <1>5, <2>2, <2>3, CountedIs, BalancedNow
  <2> QED BY <1>6, <2>2, <2>4, BalancedNow DEF Balanced
<1> QED BY <1>7, <1>8

\* The size of a cache is right, but for the calls that will count.
LEMMA SizesStep ==
  ASSUME Inv, NEW t \in Threads,
         Call(t) \/ MapStep(t) \/ AllocateStep(t) \/ DeallocateStep(t)
  PROVE  Sizes'
<1> USE DEF data, hist, calls, Goto
<1> SUFFICES ASSUME NEW o \in Threads PROVE Balanced(o)' /\ IsFiniteSet(live' \cup missed')
  <2>1. CASE Threads # {}
    BY <2>1 DEF Sizes, SizesCount, Balanced, Lent
  <2> QED BY <2>1
<1>0. /\ pc \in [Threads -> Labels] /\ IsFiniteSet(live \cup missed)
      /\ pc'[t] \in Labels
  BY TypingStep DEF Inv, Sizes, TypeOK
<1>a. ASSUME mySize' = mySize, live' \cup missed' = live \cup missed,
             pc'[t] \in {"full", "count"} <=> pc[t] \in {"full", "count"},
             \/ pc[t] \notin Uncounts /\ pc'[t] \notin Uncounts
             \/ pc[t] \in Uncounts /\ pc'[t] \in Uncounts /\ visit' = visit /\ reg' = reg
      PROVE  Balanced(o)' /\ IsFiniteSet(live' \cup missed')
  BY <1>0, <1>a, BalanceKept
<1>1. CASE Call(t) \/ MapStep(t)
  <2>1. mySize' = mySize /\ live' = live /\ missed' = missed
    BY <1>1 DEF Call, CallAllocate, CallDeallocate, MapStep, FindOwn, FindNone, Build, Emplace
  <2>2. pc[t] \notin Uncounts \cup {"full", "count"} /\ pc'[t] \notin Uncounts \cup {"full", "count"}
    BY <1>0, <1>1 DEF Call, CallAllocate, CallDeallocate, MapStep, FindOwn, FindNone, Build,
       Emplace, Uncounts
  <2> QED BY <1>a, <2>1, <2>2
<1>2. CASE \E i \in Indices : Take(t, i)
  BY <1>2, TakeBalance
<1>3. CASE TakeFromNone(t) \/ TakeRacing(t)
  BY <1>3, <1>a DEF TakeFromNone, TakeRacing, Uncounts
<1>4. CASE FullMerge(t) \/ FullStepBack(t) \/ FullAddCache(t)
  <2>1. /\ mySize' = mySize /\ live' = live /\ missed' = missed
        /\ pc[t] = "full" /\ pc'[t] = "count"
    BY <1>0, <1>4 DEF InFull, FullMerge, FullStepBack, FullAddCache
  <2> QED BY <1>a, <2>1 DEF Uncounts
<1>5. CASE CountUp(t)
  <2>1. live' = live /\ missed' = missed
    BY <1>5 DEF CountUp
  <2> QED BY <1>0, <1>5, <2>1, CountUpBalance
<1>6. CASE SearchOwn(t)
  <2>1. pc[t] = "search" /\ visit[t] \in DOMAIN reg /\ DeallocateStep(t)
    BY <1>6, OnFacts DEF SearchOwn, Inside, DeallocateStep
  <2>2. CASE Return(t, visit[t])
    BY <2>1, <2>2, ReturnBalance
  <2>3. CASE ~ Return(t, visit[t])
    <3>1. mySize' = mySize /\ live' = live /\ missed' = missed /\ pc'[t] = "next"
      BY <1>0, <1>6, <2>3 DEF SearchOwn
    <3> QED BY <1>a, <2>1, <3>1 DEF Uncounts
  <2> QED BY <2>2, <2>3
<1>7. CASE SearchNext(t)
  <2>1. PICK k \in Ahead(t) : Return(t, k) \/ PassOver(t, k)
    BY <1>7 DEF SearchNext, Nearest
  <2>2. k \in DOMAIN reg /\ pc[t] = "next" /\ DeallocateStep(t)
    BY <1>7, <2>1 DEF Ahead, SearchNext, Nearest, DeallocateStep
  <2>3. CASE PassOver(t, k)
    <3>1. mySize' = mySize /\ live' = live /\ missed' = missed /\ pc'[t] = "next"
      BY <1>0, <2>3 DEF PassOver
    <3> QED BY <1>a, <2>2, <3>1 DEF Uncounts
  <2> QED BY <2>1, <2>2, <2>3, ReturnBalance
<1>8. CASE SearchEnd(t)
  <2>1. mySize' = mySize /\ pc[t] = "next" /\ pc'[t] \in {"idle", "join"}
    BY <1>0, <1>8 DEF SearchEnd, Leave
  <2>2. live' \cup missed' = live \cup missed
    BY <1>8, <2>1 DEF SearchEnd, Inv, Blocks
  <2> QED BY <1>a, <2>1, <2>2 DEF Uncounts
<1>9. CASE Look(t) \/ Decide(t)
  <2>1. /\ mySize' = mySize /\ live' = live /\ missed' = missed /\ visit' = visit
        /\ reg' = reg /\ pc[t] \in Uncounts /\ pc'[t] \in Uncounts
    BY <1>0, <1>9 DEF Look, Decide, Uncounts
  <2> QED BY <1>a, <2>1 DEF Uncounts
<1>10. CASE MoveSplice(t) \/ MoveRelease(t)
  <2>1. /\ mySize' = mySize /\ live' = live /\ missed' = missed /\ visit' = visit
        /\ reg' = reg /\ pc[t] \in Uncounts /\ pc'[t] \in Uncounts
    BY <1>0, <1>10 DEF MoveSplice, MoveRelease, Moved, MoveAstray, Uncounts
  <2> QED BY <1>a, <2>1 DEF Uncounts
<1>11. CASE CountDown(t)
  <2>1. live' = live /\ missed' = missed
    BY <1>11 DEF CountDown
  <2> QED BY <1>0, <1>11, <2>1, CountDownBalance
<1> QED BY <1>1, <1>2, <1>3, <1>4, <1>5, <1>6, <1>7, <1>8, <1>9, <1>10, <1>11
        DEF AllocateStep, DeallocateStep

-----------------------------------------------------------------------------
(* Who holds which lock.                                                    *)

\* Who is in the map, or registers, by its lock.
LEMMA MapLocksStep ==
  ASSUME Inv, NEW t \in Threads,
         Call(t) \/ MapStep(t) \/ AllocateStep(t) \/ DeallocateStep(t) \/ LockStep(t)
  PROVE  MapLocks'
<1>1. /\ mapMutex \in Mutex /\ pc \in [Threads -> Labels] /\ MapLocks
      /\ \A u \in mapMutex.shared : u \in Threads
  BY DEF Inv, TypeOK, Mutex
<1> USE <1>1, ThreadsAssumption DEF MapLocks, Goto
<1>2. CASE /\ mapMutex' = mapMutex /\ \A u \in Threads : u # t => pc'[u] = pc[u]
           /\ pc[t] \in Inside => pc'[t] \in Inside \cup {"next"}
           /\ pc[t] = "next" => pc'[t] \in Inside \cup {"next"}
           /\ pc[t] \in {"emplace", "insert"} => pc'[t] = pc[t]
  BY <1>2
<1>3. CASE /\ mapMutex' = Unshared(mapMutex, t) /\ pc[t] \notin {"emplace", "insert"}
           /\ \A u \in Threads : u # t => pc'[u] = pc[u]
  BY <1>3, MutexFacts
<1> USE DEF locks
<1>4. CASE Call(t)
  BY <1>2, <1>4 DEF Call, CallAllocate, CallDeallocate, Inside
<1>5. CASE FindOwn(t) \/ EnterMap(t)
  <2>1. /\ mapMutex'.shared = mapMutex.shared \cup {t} /\ mapMutex'.spLock = mapMutex.spLock
        /\ pc[t] \notin {"emplace", "insert"}
    BY <1>5, MutexFacts DEF FindOwn, EnterMap
  <2>2. pc'[t] \in Inside \cup {"next"} /\ \A u \in Threads : u # t => pc'[u] = pc[u]
    BY <1>5 DEF FindOwn, EnterMap, Inside, calls
  <2> QED BY <2>1, <2>2
<1>6. CASE FindNone(t) \/ Build(t)
  BY <1>2, <1>6 DEF FindNone, Build, Inside
<1>7. CASE Emplace(t)
  <2>1. mapMutex'.spLock = Nobody /\ mapMutex'.shared = {}
    BY <1>7, MutexFacts DEF Emplace, Exclusive
  <2> QED BY <2>1
<1>8. CASE ClaimMap(t)
  <2>1. mapMutex'.spLock = t /\ mapMutex'.shared = mapMutex.shared /\ pc' = pc
    BY <1>8, MutexFacts DEF ClaimMap, calls
  <2> QED BY <1>8, <2>1 DEF ClaimMap
<1>9. CASE ClaimCache(t)
  BY <1>9 DEF ClaimCache, calls
<1>10. CASE AllocateStep(t) /\ ~ CountUp(t)
  <2>1. CASE (\E i \in Indices : Take(t, i)) \/ TakeFromNone(t) \/ TakeRacing(t)
    BY <1>2, <2>1 DEF Take, TakeFromNone, TakeRacing, Inside, calls
  <2>2. CASE FullMerge(t) \/ FullStepBack(t) \/ FullAddCache(t)
    BY <1>2, <2>2 DEF InFull, FullMerge, FullStepBack, FullAddCache, Inside
  <2> QED BY <1>10, <2>1, <2>2 DEF AllocateStep
<1>11. CASE CountUp(t) \/ SearchEnd(t) \/ CountDown(t)
  BY <1>3, <1>11 DEF CountUp, SearchEnd, CountDown, Leave
<1>12. CASE SearchOwn(t)
  BY <1>2, <1>3, <1>12 DEF SearchOwn, Return, Inside
<1>13. CASE SearchNext(t)
  BY <1>2, <1>13 DEF SearchNext, Return, PassOver, Inside
<1>14. CASE Look(t) \/ Decide(t) \/ MoveSplice(t) \/ MoveRelease(t)
  BY <1>2, <1>14 DEF Look, Decide, MoveSplice, MoveRelease, Moved, MoveAstray, Inside, calls
<1> QED BY <1>4, <1>5, <1>6, <1>7, <1>8, <1>9, <1>10, <1>11, <1>12, <1>13, <1>14
        DEF MapStep, LockStep, DeallocateStep

\* A cache's lock, seen by the others: they keep what they have of it.
LEMMA CacheLocksKept ==
  ASSUME Inv, NEW t \in Threads,
         Call(t) \/ MapStep(t) \/ AllocateStep(t) \/ DeallocateStep(t) \/ LockStep(t),
         \A o \in Threads :
           /\ mutex'[o].shared \cup {t} = mutex[o].shared \cup {t}
           /\ mutex'[o].spLock \in {mutex[o].spLock, t, Nobody}
           /\ t \in mutex'[o].shared => pc'[t] \in {"look", "decide", "uncount"} /\ On(t)' = o
           /\ mutex'[o].spLock = t => pc'[t] \in {"full", "splice", "release"} /\ On(t)' = o,
         pc'[t] \in {"look", "decide"} => t \in mutex'[On(t)'].shared
  PROVE  CacheLocks'
<1>1. \A u \in Threads : u # t =>
        pc'[u] = pc[u] /\ (pc[u] \in Inside => On(u)' = On(u) /\ On(u) \in Threads)
  <2> SUFFICES ASSUME NEW u \in Threads, u # t
               PROVE  pc'[u] = pc[u] /\ (pc[u] \in Inside => On(u)' = On(u) /\ On(u) \in Threads)
    OBVIOUS
  <2>1. CASE LockStep(t)
    <3>1. pc' = pc /\ visit' = visit /\ reg' = reg
      BY <2>1 DEF LockStep, ClaimMap, ClaimCache, EnterMap, calls, data
    <3> QED BY <3>1, OnFacts DEF On
  <2>2. CASE ~ LockStep(t)
    <3>1. pc'[u] = pc[u] /\ visit'[u] = visit[u]
      BY <2>2, OthersStay
    <3>2. reg' = reg \/ Emplace(t)
      BY <2>2, MapStays DEF MapStep
    <3>3. pc[u] \in Inside => On(u)' = On(u)
      BY <3>1, <3>2, OnStays
    <3> QED BY <3>1, <3>3, OnFacts
  <2> QED BY <2>1, <2>2
<1>2. /\ CacheLocks /\ \A o \in Threads : mutex[o].shared \subseteq Threads
  BY DEF Inv, TypeOK, Mutex
<1>3. ASSUME NEW o \in Threads, NEW u \in Threads, u # t
      PROVE  /\ u \in mutex'[o].shared => pc'[u] \in {"look", "decide", "uncount"} /\ On(u)' = o
             /\ mutex'[o].spLock = u => pc'[u] \in {"full", "splice", "release"} /\ On(u)' = o
  <2>1. /\ u \in mutex'[o].shared => u \in mutex[o].shared
        /\ mutex'[o].spLock = u => mutex[o].spLock = u
    BY <1>3, ThreadsAssumption
  <2>2. /\ u \in mutex[o].shared => pc[u] \in {"look", "decide", "uncount"} /\ On(u) = o
        /\ mutex[o].spLock = u => pc[u] \in {"full", "splice", "release"} /\ On(u) = o
    BY <1>2 DEF CacheLocks
  <2> QED BY <1>1, <1>3, <2>1, <2>2 DEF Inside
<1>4. ASSUME NEW u \in Threads, u # t, pc'[u] \in {"look", "decide"}
      PROVE  u \in mutex'[On(u)'].shared
  <2>1. pc[u] \in {"look", "decide"} /\ On(u)' = On(u) /\ On(u) \in Threads
    BY <1>1, <1>4 DEF Inside
  <2>2. u \in mutex[On(u)].shared
    BY <1>2, <2>1 DEF CacheLocks
  <2> QED BY <1>4, <2>1, <2>2
<1>5. \A o \in Threads : mutex'[o].shared \subseteq Threads
  BY <1>2
<1> QED BY <1>3, <1>4, <1>5 DEF CacheLocks

\* The lock of one cache changes, that of o, or none.
LEMMA OneCacheLock ==
  ASSUME Inv, NEW o \in Threads, NEW l \in Mutex, mutex' = [mutex EXCEPT ![o] = l]
  PROVE  mutex'[o] = l /\ \A x \in Threads : x # o => mutex'[x] = mutex[x]
BY DEF Inv, TypeOK

\* Who reads a cache or has its lock.
LEMMA CacheLocksStep ==
  ASSUME Inv, NEW t \in Threads,
         Call(t) \/ MapStep(t) \/ AllocateStep(t) \/ DeallocateStep(t) \/ LockStep(t)
  PROVE  CacheLocks'
<1>1. /\ CacheLocks /\ pc \in [Threads -> Labels] /\ visit \in [Threads -> {0} \cup DOMAIN reg]
      /\ \A o \in Threads : mutex[o] \in Mutex
  BY DEF Inv, TypeOK
<1>2. \A o \in Threads :
        /\ t \in mutex[o].shared => pc[t] \in {"look", "decide", "uncount"} /\ On(t) = o
        /\ mutex[o].spLock = t => pc[t] \in {"full", "splice", "release"} /\ On(t) = o
  BY <1>1 DEF CacheLocks
<1>3. pc[t] \in {"look", "decide"} => t \in mutex[On(t)].shared
  BY <1>1 DEF CacheLocks
<1>4. pc[t] \in Inside => On(t) \in Threads
  BY OnFacts
<1> USE DEF locks, Goto
\* Steps that change no lock, of a thread that has none and gets none.
<1>5. CASE /\ mutex' = mutex /\ pc'[t] \notin {"look", "decide"}
           /\ pc[t] \notin {"look", "decide", "uncount", "full", "splice", "release"}
  BY <1>2, <1>5, CacheLocksKept
\* Steps that change no lock, of a thread that stays where it is.
<1>6. CASE /\ mutex' = mutex /\ reg' = reg /\ visit' = visit
           /\ pc'[t] \in {"look", "decide"} => pc[t] \in {"look", "decide"}
           /\ pc[t] \in {"look", "decide", "uncount"} => pc'[t] \in {"look", "decide", "uncount"}
           /\ pc[t] \in {"full", "splice", "release"} => pc'[t] = pc[t]
  <2>1. On(t)' = On(t)
    BY <1>6 DEF On
  <2> QED BY <1>2, <1>3, <1>6, <2>1, CacheLocksKept
\* Steps that give back the lock that the thread has.
<1>7. ASSUME NEW o, o = On(t), o \in Threads,
             \/ mutex' = [mutex EXCEPT ![o] = Unshared(@, t)]
             \/ mutex' = [mutex EXCEPT ![o] = Unlocked(@)] /\ pc[t] \in {"full", "splice", "release"},
             mutex[o].spLock # t \/ mutex' = [mutex EXCEPT ![o] = Unlocked(@)],
             pc'[t] \notin {"look", "decide"}
      PROVE  CacheLocks'
  <2>1. PICK l \in {Unshared(mutex[o], t), Unlocked(mutex[o])} : mutex' = [mutex EXCEPT ![o] = l]
    BY <1>7
  <2>2. l \in Mutex
    BY <1>1, <1>7, <2>1, MutexFacts
  <2>3. mutex'[o] = l /\ \A x \in Threads : x # o => mutex'[x] = mutex[x]
    BY <1>7, <2>1, <2>2, OneCacheLock
  <2>6. /\ Unshared(mutex[o], t).shared = mutex[o].shared \ {t}
        /\ Unshared(mutex[o], t).spLock = mutex[o].spLock
        /\ Unlocked(mutex[o]).spLock = Nobody
    <3>1. mutex[o] \in Mutex
      BY <1>1, <1>7
    <3> QED BY ONLY <3>1, t \in Threads, MutexFacts, ZenonT(40)
  <2>4. /\ t \notin mutex'[o].shared /\ mutex'[o].spLock # t
        /\ mutex'[o].shared \cup {t} = mutex[o].shared \cup {t}
        /\ mutex'[o].spLock \in {mutex[o].spLock, Nobody}
    <3>1. CASE mutex' = [mutex EXCEPT ![o] = Unlocked(@)] /\ pc[t] \in {"full", "splice", "release"}
      <4>1. mutex'[o] = Unlocked(mutex[o])
        BY <1>7, <3>1 DEF Inv, TypeOK
      <4> QED BY <1>1, <1>2, <1>7, <3>1, <4>1, MutexFacts, ThreadsAssumption
    <3>2. CASE mutex' = [mutex EXCEPT ![o] = Unshared(@, t)] /\ mutex[o].spLock # t
      <4>1. mutex'[o] = Unshared(mutex[o], t)
        BY <1>7, <3>2 DEF Inv, TypeOK
      <4>2. /\ mutex'[o].shared = mutex[o].shared \ {t}
            /\ mutex'[o].spLock = mutex[o].spLock
        BY <2>6, <4>1
      <4> QED BY ONLY <3>2, <4>2
    <3>3. CASE /\ mutex' = [mutex EXCEPT ![o] = Unshared(@, t)]
               /\ mutex' = [mutex EXCEPT ![o] = Unlocked(@)]
      <4>1. mutex'[o] = Unshared(mutex[o], t) /\ mutex'[o] = Unlocked(mutex[o])
        BY <1>7, <3>3 DEF Inv, TypeOK
      <4>2. /\ mutex'[o].shared = mutex[o].shared \ {t}
            /\ mutex'[o].spLock = Nobody
        BY <2>6, <4>1
      <4> QED BY ONLY <4>2, ThreadsAssumption, t \in Threads
    <3> QED BY <1>7, <3>1, <3>2, <3>3
  <2>5. \A x \in Threads : x # o => t \notin mutex'[x].shared /\ mutex'[x].spLock # t
    BY <1>2, <1>7, <2>3
  <2> QED BY <1>7, <2>3, <2>4, <2>5, CacheLocksKept
<1>8. CASE Call(t) \/ FindOwn(t) \/ FindNone(t) \/ Build(t) \/ Emplace(t)
  BY <1>1, <1>5, <1>8 DEF Call, CallAllocate, CallDeallocate, FindOwn, FindNone, Build, Emplace
<1>9. CASE ClaimMap(t) \/ EnterMap(t)
  BY <1>5, <1>9 DEF ClaimMap, EnterMap, calls
<1>10. CASE ClaimCache(t)
  <2>1. PICK o \in Threads : o = On(t)
    BY <1>4, <1>10 DEF ClaimCache, Inside
  <2>2. PICK l \in Mutex : l = Claimed(mutex[o], t)
    BY <1>1, <2>1, MutexFacts
  <2>3. mutex'[o] = l /\ \A x \in Threads : x # o => mutex'[x] = mutex[x]
    BY <1>10, <2>1, <2>2, OneCacheLock DEF ClaimCache
  <2>4. l.spLock = t /\ l.shared = mutex[o].shared
    <3>1. mutex[o] \in Mutex
      BY <1>1, ZenonT(40)
    <3>2. Claimed(mutex[o], t).spLock = t /\ Claimed(mutex[o], t).shared = mutex[o].shared
      BY ONLY <3>1, t \in Threads, MutexFacts, ZenonT(40)
    <3> QED BY ONLY <2>2, <3>2
  <2>5. pc' = pc /\ On(t)' = On(t) /\ pc[t] \in {"full", "splice", "release"}
    BY <1>10 DEF ClaimCache, calls, data, On
  <2> QED BY <1>2, <1>10, <2>1, <2>3, <2>4, <2>5, CacheLocksKept DEF LockStep
<1>11. CASE (\E i \in Indices : Take(t, i)) \/ TakeFromNone(t) \/ TakeRacing(t) \/ CountUp(t)
  BY <1>1, <1>5, <1>11 DEF Take, TakeFromNone, TakeRacing, CountUp, calls
<1>12. CASE FullMerge(t) \/ FullStepBack(t) \/ FullAddCache(t)
  <2>1. /\ pc[t] = "full" /\ mutex' = [mutex EXCEPT ![t] = Unlocked(@)] /\ pc'[t] = "count"
    BY <1>1, <1>12 DEF InFull, FullMerge, FullStepBack, FullAddCache
  <2>2. On(t) = t
    BY <2>1, OwnFacts
  <2> QED BY <1>7, <2>1, <2>2
<1>13. ASSUME NEW k \in DOMAIN reg, Return(t, k), pc[t] \in {"search", "next"} PROVE CacheLocks'
  <2>1. PICK o \in Threads : o = reg[k]
    BY MapFacts DEF Inv
  <2>2. PICK l \in Mutex : l = Shared(mutex[o], t)
    BY <1>1, <2>1, MutexFacts
  <2>3. mutex'[o] = l /\ \A x \in Threads : x # o => mutex'[x] = mutex[x]
    <3>1. mutex' = [mutex EXCEPT ![o] = l]
      BY <1>13, <2>1, <2>2 DEF Return
    <3> QED BY <3>1, OneCacheLock
  <2>4. l.spLock = mutex[o].spLock /\ l.shared = mutex[o].shared \cup {t}
    <3>1. mutex[o] \in Mutex
      BY <1>1, ZenonT(40)
    <3>2. /\ Shared(mutex[o], t).spLock = mutex[o].spLock
          /\ Shared(mutex[o], t).shared = mutex[o].shared \cup {t}
      BY ONLY <3>1, t \in Threads, MutexFacts, ZenonT(40)
    <3> QED BY ONLY <2>2, <3>2
  <2>5. pc'[t] = "look" /\ On(t)' = o
    BY <1>1, <1>13, <2>1 DEF Return, On
  <2> QED BY <1>2, <1>13, <2>3, <2>4, <2>5, CacheLocksKept
<1>14. CASE SearchOwn(t)
  <2>1. visit[t] \in DOMAIN reg /\ pc[t] = "search"
    BY <1>14, OnFacts DEF SearchOwn, Inside
  <2>2. CASE Return(t, visit[t])
    BY <1>13, <2>1, <2>2
  <2>3. CASE ~ Return(t, visit[t])
    BY <1>1, <1>5, <1>14, <2>1, <2>3 DEF SearchOwn
  <2> QED BY <2>2, <2>3
<1>15. CASE SearchNext(t)
  <2>1. PICK k \in DOMAIN reg : Return(t, k) \/ PassOver(t, k)
    BY <1>15 DEF SearchNext, Nearest, Ahead
  <2>2. pc[t] = "next"
    BY <1>15 DEF SearchNext
  <2>3. CASE PassOver(t, k)
    BY <1>1, <1>5, <2>2, <2>3 DEF PassOver
  <2> QED BY <1>13, <2>1, <2>2, <2>3
<1>16. CASE SearchEnd(t)
  BY <1>1, <1>5, <1>16 DEF SearchEnd, Leave
<1>17. CASE Look(t) \/ (Decide(t) /\ mutex' = mutex)
  <2>1. CASE Look(t)
    <3>1. mutex' = mutex /\ reg' = reg /\ visit' = visit
      BY <2>1 DEF Look, data
    <3>2. pc[t] = "look" /\ pc'[t] = "decide"
      BY <1>1, <2>1 DEF Look
    <3> QED BY <1>6, <3>1, <3>2
  <2>2. CASE Decide(t) /\ mutex' = mutex
    <3>1. mutex' = mutex /\ reg' = reg /\ visit' = visit
      BY <2>2 DEF Decide, data
    <3>2. pc[t] = "decide" /\ pc'[t] \in {"splice", "release", "uncount"}
      BY <1>1, <2>2 DEF Decide
    <3>3. pc'[t] = "uncount" \/ t \notin mutex[On(t)].shared
      <4>1. CASE EmptyEnough(t) \/ Spare(t)
        <5>1. PICK o \in Threads : o = On(t)
          BY <1>4, <3>2 DEF Inside
        <5>2. mutex[o] \in Mutex /\ mutex \in [Threads -> Mutex]
          BY ZenonT(40) DEF Inv, TypeOK
        <5>3. mutex' = [mutex EXCEPT ![o] = Unshared(@, t)]
          BY <2>2, <4>1, <5>1 DEF Decide
        <5>4. mutex[o] = Unshared(mutex[o], t)
          BY <2>2, <5>2, <5>3
        <5>5. Unshared(mutex[o], t).shared = mutex[o].shared \ {t}
          BY ONLY <5>2, t \in Threads, MutexFacts, ZenonT(40)
        <5> QED BY ONLY <5>1, <5>4, <5>5
      <4>2. CASE ~ (EmptyEnough(t) \/ Spare(t))
        BY <1>1, <2>2, <4>2 DEF Decide
      <4> QED BY <4>1, <4>2
    <3> QED BY <1>3, <1>6, <3>1, <3>2, <3>3
  <2> QED BY <1>17, <2>1, <2>2
<1>18. CASE Decide(t) /\ mutex' # mutex
  <2>1. /\ pc[t] = "decide" /\ pc'[t] \notin {"look", "decide"}
        /\ mutex' = [mutex EXCEPT ![On(t)] = Unshared(@, t)]
    BY <1>1, <1>18 DEF Decide
  <2> QED BY <1>2, <1>4, <1>7, <2>1 DEF Inside
<1>19. CASE MoveSplice(t) \/ MoveRelease(t)
  <2>1. pc[t] \in {"splice", "release"}
    BY <1>19 DEF MoveSplice, MoveRelease
  <2>2. CASE MoveAstray(t)
    BY <1>6, <2>2 DEF MoveAstray, calls, data
  <2>3. CASE Moved(t)
    BY <1>1, <1>4, <1>7, <2>1, <2>3 DEF Moved, Inside
  <2> QED BY <1>19, <2>2, <2>3 DEF MoveSplice, MoveRelease
<1>20. CASE CountDown(t)
  <2>1. /\ pc[t] = "uncount" /\ pc'[t] \notin {"look", "decide"}
        /\ mutex' = [mutex EXCEPT ![On(t)] = Unshared(@, t)]
    BY <1>1, <1>20 DEF CountDown, Leave
  <2> QED BY <1>2, <1>4, <1>7, <2>1 DEF Inside
<1> QED BY <1>8, <1>9, <1>10, <1>11, <1>12, <1>14, <1>15, <1>16, <1>17, <1>18, <1>19, <1>20
        DEF MapStep, AllocateStep, DeallocateStep, LockStep

-----------------------------------------------------------------------------
(* The invariant.                                                           *)

LEMMA InvInit == Init => Inv
<1> SUFFICES ASSUME Init PROVE Inv
  OBVIOUS
<1> USE DEF Init
<1>1. DOMAIN reg = {} /\ reg \in Seq(Threads) /\ \A t : ~ Registered(t)
  BY EmptySeq DEF Registered, Range
<1>2. TypeOK
  <2>1. slabs \in [Threads -> Seq(Slab)]
    BY EmptySeq
  <2>2. active \in [Threads -> Nat] /\ mySize \in [Threads -> Int]
    OBVIOUS
  <2>3. owner \in [Mems -> Threads \cup {Nobody}] /\ pc \in [Threads -> Labels]
    BY DEF Labels
  <2>4. /\ ptr \in [Threads -> Pointers \cup {None}] /\ visit \in [Threads -> {0} \cup DOMAIN reg]
        /\ it \in [Threads -> Nat]
    OBVIOUS
  <2>5. used \in [Threads -> 0 .. Count]
    BY CountType
  <2>6. \A t \in Threads : slabs[t] = <<>>
    OBVIOUS
  <2>7. mapMutex \in Mutex /\ mutex \in [Threads -> Mutex]
    BY DEF Mutex
  <2> QED BY <1>1, <2>1, <2>2, <2>3, <2>4, <2>5, <2>6, <2>7 DEF TypeOK
<1>3. Places /\ Blocks /\ Searches /\ EveryBlockIsFound /\ Positions
  BY DEF Places, Place, Blocks, Searches, EveryBlockIsFound, Positions, Sure
<1>4. Buckets
  BY <1>1 DEF Buckets
<1>5. Memory /\ LiveMemoryIsKept
  <2>1. \A o \in Threads : DOMAIN slabs[o] = {}
    BY EmptySeq
  <2> QED BY <2>1 DEF Memory, LiveMemoryIsKept
<1>6. Sizes
  <2>1. IsFiniteSet({}) /\ Cardinality({}) = 0
    BY FS_EmptySet
  <2>2. ASSUME NEW o \in Threads
        PROVE  /\ Counted(o) = Cardinality({p \in live \cup missed : owner[p.mem] = o})
               /\ IsFiniteSet(ToUncount(o))
    <3>1. ToUncount(o) = {} /\ {p \in live \cup missed : owner[p.mem] = o} = {}
      BY DEF ToUncount
    <3>2. mySize[o] = 0 /\ pc[o] = "idle"
      OBVIOUS
    <3>3. Counted(o) = mySize[o] + (IF pc[o] \in {"full", "count"} THEN 1 ELSE 0)
                         - Cardinality(ToUncount(o))
      BY CountedIs
    <3>4. Counted(o) = 0
      BY <2>1, <3>1, <3>2, <3>3
    <3> QED BY <2>1, <3>1, <3>4
  <2> QED BY <2>1, <2>2 DEF Sizes, SizesCount
<1>7. MapLocks /\ CacheLocks
  BY ThreadsAssumption DEF MapLocks, CacheLocks
<1> QED BY <1>2, <1>3, <1>4, <1>5, <1>6, <1>7 DEF Inv

\* What is not about locks stays as it is when nothing but a lock changes.
LEMMA LocksOnly ==
  ASSUME Inv, UNCHANGED <<calls, data, hist>>,
         mapMutex' \in Mutex, mutex' \in [Threads -> Mutex], MapLocks', CacheLocks'
  PROVE  Inv'
<1> USE DEF calls, data, hist
<1>1. TypeOK'
  BY DEF Inv, TypeOK
<1>2. Places' /\ Blocks'
  BY DEF Inv, Places, Place, On, Blocks
<1>3. Buckets' /\ Memory'
  BY DEF Inv, Buckets, Memory, Registered
<1>4. Positions'
  BY DEF Inv, Positions, Sure, Knows, On, HeldIn
<1>5. Searches' /\ LiveMemoryIsKept' /\ EveryBlockIsFound'
  BY DEF Inv, Searches, LiveMemoryIsKept, EveryBlockIsFound, MemsOf
<1>6. Sizes'
  <2>1. \A o \in Threads : ToUncount(o)' = ToUncount(o) /\ ToCount(o)' = ToCount(o)
    BY DEF ToUncount, ToCount, On
  <2>2. \A o \in Threads : Counted(o)' = Counted(o)
    BY <2>1 DEF Counted
  <2> QED BY <2>1, <2>2 DEF Inv, Sizes, SizesCount
<1> QED BY <1>1, <1>2, <1>3, <1>4, <1>5, <1>6 DEF Inv

LEMMA InvNext == Inv /\ [Next]_vars => Inv'
<1> SUFFICES ASSUME Inv, [Next]_vars PROVE Inv'
  OBVIOUS
<1>1. CASE Next
  <2>1. PICK t \in Threads :
          Call(t) \/ MapStep(t) \/ AllocateStep(t) \/ DeallocateStep(t) \/ LockStep(t)
    BY <1>1 DEF Next
  <2>2. CASE LockStep(t)
    <3>1. MapLocks' /\ CacheLocks' /\ mapMutex' \in Mutex /\ mutex' \in [Threads -> Mutex]
      BY <2>2, MapLocksTyping, CacheLocksTyping, MapLocksStep, CacheLocksStep
    <3> QED BY <2>2, <3>1, LocksOnly DEF LockStep, ClaimMap, ClaimCache, EnterMap
  <2>3. CASE Call(t) \/ MapStep(t) \/ AllocateStep(t) \/ DeallocateStep(t)
    BY <2>3, TypingStep, PlacesStep, BlocksStep, BucketsStep, MemoryStep, PositionsStep,
       SearchesStep, KeptStep, FoundStep, SizesStep, MapLocksStep, CacheLocksStep DEF Inv
  <2> QED BY <2>1, <2>2, <2>3
<1>2. CASE UNCHANGED vars
  <2>1. /\ UNCHANGED <<calls, data, hist>> /\ mapMutex' = mapMutex /\ mutex' = mutex
        /\ pc' = pc /\ reg' = reg /\ visit' = visit
    BY <1>2 DEF vars, locks, calls, data
  <2>2. /\ mapMutex' \in Mutex /\ mutex' \in [Threads -> Mutex]
        /\ MapLocks' /\ CacheLocks'
    BY <2>1 DEF Inv, TypeOK, MapLocks, CacheLocks, On
  <2> QED BY <2>1, <2>2, LocksOnly
<1> QED BY <1>1, <1>2

\* Inv holds in every reachable state.
THEOREM MultiInvariant == Spec => []Inv
BY InvInit, InvNext, PTL DEF Spec

\* Every variable keeps its type, and the active slab of a cache is one of its
\* slabs, whatever overlaps: actBlock points into the vector in allocate().
THEOREM Typing == Spec => []TypeOK
BY MultiInvariant, PTL DEF Inv

\* A cache has as many pieces of memory as slabs.
LEMMA MemsAreDistinct ==
  ASSUME Inv, NEW o \in Threads
  PROVE  Cardinality(MemsOf(o)) = Len(slabs[o])
<1>1. /\ Len(slabs[o]) \in Nat
      /\ \A m : m \in MemsOf(o) <=> \E k \in 1 .. Len(slabs[o]) : slabs[o][k].mem = m
  BY CacheFacts, MemsAre DEF Inv
<1> DEFINE n == Len(slabs[o])
           f == [k \in 1 .. n |-> slabs[o][k].mem]
<1>2. f \in [1 .. n -> MemsOf(o)]
  BY <1>1
<1>3. \A j, k \in 1 .. n : f[j] = f[k] => j = k
  BY MemoryFacts
<1>4. \A m \in MemsOf(o) : \E k \in 1 .. n : f[k] = m
  BY <1>1
<1>5. f \in Bijection(1 .. n, MemsOf(o))
  <2> HIDE DEF f, n
  <2> QED BY <1>2, <1>3, <1>4 DEF Bijection, Injection, Surjection, IsInjective
<1>6. ExistsBijection(1 .. n, MemsOf(o))
  BY <1>5 DEF ExistsBijection
<1>7. IsFiniteSet(1 .. n) /\ Cardinality(1 .. n) = n
  BY <1>1, FS_Interval, SMTT(20)
<1> QED BY <1>6, <1>7, FS_Bijection

\* However calls overlap, a slab accounts for each of its blocks once, and it is
\* in one cache, that of the thread getBlock() gave its memory to.
THEOREM MemoryIsManaged == Spec => []SlabsManageTheirMemory
<1>1. Inv => SlabsManageTheirMemory
  <2> SUFFICES ASSUME Inv, NEW o \in Threads
               PROVE  /\ \A s \in Range(slabs[o]) :
                           /\ s.availible \cap s.foreigns = {}
                           /\ s.availible \cup s.foreigns = Indices \ HeldIn(s.mem)
                           /\ owner[s.mem] = o
                      /\ Cardinality(MemsOf(o)) = Len(slabs[o])
    BY DEF SlabsManageTheirMemory
  <2>1. ASSUME NEW k \in DOMAIN slabs[o]
        PROVE  /\ slabs[o][k].availible \cap slabs[o][k].foreigns = {}
               /\ slabs[o][k].availible \cup slabs[o][k].foreigns
                    = Indices \ HeldIn(slabs[o][k].mem)
               /\ owner[slabs[o][k].mem] = o
    BY DEF Inv, Memory, Fits, HeldIn
  <2> QED BY <2>1, MemsAreDistinct DEF Range
<1> QED BY <1>1, MultiInvariant, PTL

\* Until a thread moves slabs by a position or a size that is out of date, no
\* cache gives up a slab with blocks in use and no iterator is used outside its
\* vector: spliceBoth() and memToDispatch() are safe when nothing came between
\* the shared section that found the slab and the exclusive one that moves it.
THEOREM KeepsLiveMemory == Spec => []LiveMemoryIsKept
BY MultiInvariant, PTL DEF Inv

\* deallocate() finds the cache that its block is from, in two searches under two
\* locks while other threads register, unless slabs were moved wrongly.
THEOREM FindsEveryBlock == Spec => []EveryBlockIsFound
BY MultiInvariant, PTL DEF Inv

\* mySize is the number of blocks in use, give or take the calls under way.
THEOREM CountsSizes == Spec => []SizesCount
BY MultiInvariant, PTL DEF Inv, Sizes

\* No thread waits for itself, directly or through others, to register, to read
\* the map, to search a cache or to move its slabs.  Who has the mutex of a cache
\* exclusively, or its spLock, waits at most for threads that look at a slab, and
\* those wait for nobody; threads in the map wait at most for the former; who
\* registers waits for threads in the map; and the rest for who registers.
THEOREM NeverAllWait == Spec => []NoDeadlock
<1>1. Inv => NoDeadlock
  <2> SUFFICES ASSUME Inv, NEW W \in SUBSET Threads, \A t \in W : Blockers(t) \cap W # {}
               PROVE  W = {}
    BY DEF NoDeadlock
  <2> USE ThreadsAssumption
  <2>0. MapLocks /\ CacheLocks
    BY DEF Inv
  <2>1. \A t \in W : pc[t] \notin {"look", "decide", "uncount", "take", "count"}
    BY DEF Blockers
  <2>2. \A o \in Threads : mutex[o].spLock \notin W
    <3> SUFFICES ASSUME NEW o \in Threads, NEW t \in W, mutex[o].spLock = t PROVE FALSE
      OBVIOUS
    <3>1. pc[t] \in {"full", "splice", "release"} /\ On(t) = o
      BY <2>0 DEF CacheLocks
    <3>2. Blockers(t) = mutex[o].shared
      BY <3>1 DEF Blockers, Awaited
    <3>3. mutex[o].shared \cap W = {}
      BY <2>0, <2>1 DEF CacheLocks
    <3> QED BY <3>2, <3>3
  <2>3. \A t \in W : pc[t] \notin Inside
    <3> SUFFICES ASSUME NEW t \in W, pc[t] \in Inside PROVE FALSE
      OBVIOUS
    <3>1. On(t) \in Threads
      BY OnFacts
    <3>2. CASE pc[t] = "search"
      BY <2>2, <3>2 DEF Blockers
    <3>3. CASE pc[t] \in {"full", "splice", "release"}
      <4>1. mutex[On(t)].spLock # t
        BY <2>2, <3>1
      <4>2. Blockers(t) = {mutex[On(t)].spLock}
        BY <3>3, <4>1 DEF Blockers, Awaited
      <4> QED BY <2>2, <3>1, <4>2
    <3> QED BY <2>1, <3>2, <3>3 DEF Inside
  <2>4. \A t \in W : pc[t] = "next" => t \notin mapMutex.shared
    <3> SUFFICES ASSUME NEW t \in W, pc[t] = "next", t \in mapMutex.shared PROVE FALSE
      OBVIOUS
    <3>1. Blockers(t) = {mutex[reg[k]].spLock : k \in Nearest(t)}
      BY DEF Blockers
    <3>2. \A k \in Nearest(t) : reg[k] \in Threads
      BY MapFacts DEF Inv, Nearest, Ahead
    <3> QED BY <2>2, <3>1, <3>2
  <2>5. mapMutex.spLock \notin W
    <3> SUFFICES ASSUME NEW t \in W, mapMutex.spLock = t PROVE FALSE
      OBVIOUS
    <3>1. pc[t] \in {"emplace", "insert"}
      BY <2>0 DEF MapLocks
    <3>2. Blockers(t) = mapMutex.shared
      BY <3>1 DEF Blockers, Awaited
    <3>3. mapMutex.shared \cap W = {}
      BY <2>0, <2>3, <2>4 DEF MapLocks
    <3> QED BY <3>2, <3>3
  <2>6. ASSUME NEW t \in W PROVE FALSE
    <3>1. pc[t] \in Labels \ Inside
      BY <2>3 DEF Inv, TypeOK
    <3>2. Blockers(t) \subseteq {mapMutex.spLock}
      BY <2>4, <2>5, <2>6, <3>1 DEF Blockers, Awaited, Labels, Inside
    <3> QED BY <2>5, <2>6, <3>2
  <2> QED BY <2>6
<1> QED BY <1>1, MultiInvariant, PTL

-----------------------------------------------------------------------------
(* The refinement: what callers may rely on.                                *)

\* The blocks of o's cache that callers hold.
LiveOf(o) == {p \in live : owner[p.mem] = o}

Sized == \A o \in Threads : /\ Counted(o) - Cardinality(MissedOf(o)) = Cardinality(LiveOf(o))
                            /\ IsFiniteSet(LiveOf(o))

LEMMA InvSized == Inv => Sized
<1> SUFFICES ASSUME Inv, NEW o \in Threads
             PROVE  /\ Counted(o) - Cardinality(MissedOf(o)) = Cardinality(LiveOf(o))
                    /\ IsFiniteSet(LiveOf(o))
  BY DEF Sized
<1>1. /\ Counted(o) = Cardinality(Lent(o)) /\ IsFiniteSet(Lent(o))
  BY BalancedNow
<1>2. /\ Lent(o) = LiveOf(o) \cup MissedOf(o) /\ LiveOf(o) \cap MissedOf(o) = {}
  BY DEF Lent, LiveOf, MissedOf, Inv, Memory
<1>3. IsFiniteSet(LiveOf(o)) /\ IsFiniteSet(MissedOf(o))
  BY <1>1, <1>2, FS_Subset
<1>4. /\ Cardinality(LiveOf(o)) \in Nat /\ Cardinality(MissedOf(o)) \in Nat
      /\ Cardinality(LiveOf(o) \cap MissedOf(o)) = 0
  BY <1>2, <1>3, FS_CardinalityType, FS_EmptySet
<1>5. Cardinality(LiveOf(o) \cup MissedOf(o))
        = Cardinality(LiveOf(o)) + Cardinality(MissedOf(o)) - Cardinality(LiveOf(o) \cap MissedOf(o))
  BY <1>3, FS_Union
<1> QED BY <1>1, <1>2, <1>3, <1>4, <1>5

\* A step hands out one block, or takes one back, or does neither.
LEMMA LiveSteps ==
  ASSUME Inv, NEW t \in Threads,
         Call(t) \/ MapStep(t) \/ AllocateStep(t) \/ DeallocateStep(t)
  PROVE  \/ live' = live
         \/ \E p \in Pointers : /\ p \notin live /\ live' = live \cup {p}
                                /\ owner' = owner /\ owner[p.mem] \in Threads
         \/ \E p \in live : live' = live \ {p} /\ owner' = owner
<1> USE DEF hist, data
<1>1. CASE Call(t) \/ MapStep(t)
  BY <1>1 DEF Call, CallAllocate, CallDeallocate, MapStep, FindOwn, FindNone, Build, Emplace
<1>2. CASE \E i \in Indices : Take(t, i)
  <2>1. PICK i \in Indices : Take(t, i)
    BY <1>2
  <2>2. PICK a : a = active[t]
    OBVIOUS
  <2>3. PICK p : p = [mem |-> slabs[t][a].mem, idx |-> i]
    OBVIOUS
  <2>4. /\ p \in Pointers /\ p \notin live \cup missed /\ live' = live \cup {p}
        /\ a \in 1 .. Len(slabs[t])
    BY <2>1, <2>2, <2>3, TakeFacts
  <2>5. owner' = owner /\ owner[p.mem] = t
    BY <2>1, <2>3, <2>4, MemoryFacts DEF Take
  <2> QED BY <2>4, <2>5
<1>3. CASE AllocateStep(t) /\ ~ \E i \in Indices : Take(t, i)
  BY <1>3 DEF AllocateStep, TakeFromNone, TakeRacing, InFull, FullMerge, FullStepBack,
     FullAddCache, CountUp
<1>4. CASE SearchOwn(t) \/ SearchNext(t) \/ SearchEnd(t)
  <2>1. ptr[t] \in live
    BY <1>4 DEF SearchOwn, SearchNext, Nearest, SearchEnd, Inv, Blocks
  <2> QED BY <1>4, <2>1 DEF SearchOwn, SearchNext, Nearest, SearchEnd, Return, PassOver
<1>5. CASE Look(t) \/ Decide(t) \/ MoveSplice(t) \/ MoveRelease(t) \/ CountDown(t)
  BY <1>5 DEF Look, Decide, MoveSplice, MoveRelease, Moved, MoveAstray, CountDown
<1> QED BY <1>1, <1>2, <1>3, <1>4, <1>5 DEF DeallocateStep

\* ... and to the heaps, this is one step of theirs, or none.
LEMMA HeapsInit == Init => H!Init
<1> SUFFICES ASSUME Init PROVE H!Init
  OBVIOUS
<1>1. live = {} /\ missed = {}
  BY DEF Init
<1>2. \A o \in Threads : Counted(o) - Cardinality(MissedOf(o)) = 0
  <2>1. \A o \in Threads : LiveOf(o) = {}
    BY <1>1 DEF LiveOf
  <2> QED BY <2>1, InvInit, InvSized, FS_EmptySet DEF Sized
<1> QED BY <1>1, <1>2 DEF H!Init

\* The heaps' view of a step, given what it does to the blocks in use.
LEMMA HeapsAllocate ==
  ASSUME Inv, Sized, Sized', NEW p \in Pointers, p \notin live, live' = live \cup {p},
         owner' = owner, owner[p.mem] \in Threads
  PROVE  H!Allocate(owner[p.mem], p)
<1>1. PICK o \in Threads : o = owner[p.mem]
  OBVIOUS
<1>2. LiveOf(o)' = LiveOf(o) \cup {p} /\ p \notin LiveOf(o)
  BY <1>1 DEF LiveOf
<1>3. \A u \in Threads : u # o => LiveOf(u)' = LiveOf(u)
  BY <1>1 DEF LiveOf
<1>4. Cardinality(LiveOf(o)') = Cardinality(LiveOf(o)) + 1
  BY <1>2, FS_AddElement DEF Sized
<1>5. [u \in Threads |-> Counted(u) - Cardinality(MissedOf(u))]'
        = [[u \in Threads |-> Counted(u) - Cardinality(MissedOf(u))] EXCEPT ![o] = @ + 1]
  BY <1>3, <1>4 DEF Sized
<1>6. {<<owner[q.mem], q>> : q \in live}'
        = {<<owner[q.mem], q>> : q \in live} \cup {<<o, p>>}
  BY <1>1
<1>7. \A u \in Threads : <<u, p>> \notin {<<owner[q.mem], q>> : q \in live}
  OBVIOUS
<1> QED BY <1>1, <1>5, <1>6, <1>7 DEF H!Allocate

LEMMA HeapsDeallocate ==
  ASSUME Inv, Sized, Sized', NEW p \in live, live' = live \ {p}, owner' = owner,
         owner[p.mem] \in Threads
  PROVE  H!Deallocate(owner[p.mem], p)
<1>1. PICK o \in Threads : o = owner[p.mem]
  OBVIOUS
<1>2. LiveOf(o)' = LiveOf(o) \ {p} /\ p \in LiveOf(o)
  BY <1>1 DEF LiveOf
<1>3. \A u \in Threads : u # o => LiveOf(u)' = LiveOf(u)
  BY <1>1 DEF LiveOf
<1>4. Cardinality(LiveOf(o)') = Cardinality(LiveOf(o)) - 1
  BY <1>2, FS_RemoveElement DEF Sized
<1>5. [u \in Threads |-> Counted(u) - Cardinality(MissedOf(u))]'
        = [[u \in Threads |-> Counted(u) - Cardinality(MissedOf(u))] EXCEPT ![o] = @ - 1]
  BY <1>3, <1>4 DEF Sized
<1>6. {<<owner[q.mem], q>> : q \in live}'
        = {<<owner[q.mem], q>> : q \in live} \ {<<o, p>>}
  BY <1>1
<1>7. <<o, p>> \in {<<owner[q.mem], q>> : q \in live}
  BY <1>1
<1> QED BY <1>1, <1>5, <1>6, <1>7 DEF H!Deallocate

LEMMA HeapsStutter ==
  ASSUME Sized, Sized', live' = live, \A p \in live : owner'[p.mem] = owner[p.mem]
  PROVE  UNCHANGED H!vars
<1>1. \A o \in Threads : LiveOf(o)' = LiveOf(o)
  BY DEF LiveOf
<1>2. [u \in Threads |-> Counted(u) - Cardinality(MissedOf(u))]'
        = [u \in Threads |-> Counted(u) - Cardinality(MissedOf(u))]
  BY <1>1 DEF Sized
<1>3. {<<owner[q.mem], q>> : q \in live}' = {<<owner[q.mem], q>> : q \in live}
  OBVIOUS
<1> QED BY <1>2, <1>3 DEF H!vars

LEMMA HeapsNext == Inv /\ Sized /\ Sized' /\ [Next]_vars => [H!Next]_(H!vars)
<1> SUFFICES ASSUME Inv, Sized, Sized', [Next]_vars PROVE H!Next \/ UNCHANGED H!vars
  OBVIOUS
<1>1. CASE Next
  <2>0. PICK t \in Threads :
          Call(t) \/ MapStep(t) \/ AllocateStep(t) \/ DeallocateStep(t) \/ LockStep(t)
    BY <1>1 DEF Next
  <2>a. CASE LockStep(t)
    <3>1. UNCHANGED <<live, owner>>
      BY <2>a DEF LockStep, ClaimMap, ClaimCache, EnterMap, data, hist
    <3> QED BY <3>1, HeapsStutter
  <2> SUFFICES ASSUME ~ LockStep(t) PROVE H!Next \/ UNCHANGED H!vars
    BY <2>a
  <2>1. Call(t) \/ MapStep(t) \/ AllocateStep(t) \/ DeallocateStep(t)
    BY <2>0
  <2>2. \A p \in live : owner'[p.mem] = owner[p.mem] /\ owner[p.mem] \in Threads
    BY <2>1, OwnerStays
  <2>3. CASE live' = live
    BY <2>2, <2>3, HeapsStutter
  <2>4. ASSUME NEW p \in Pointers, p \notin live, live' = live \cup {p}, owner' = owner,
               owner[p.mem] \in Threads
        PROVE  H!Next
    BY <2>4, HeapsAllocate DEF H!Next
  <2>5. ASSUME NEW p \in live, live' = live \ {p}, owner' = owner
        PROVE  H!Next
    <3>1. H!Deallocate(owner[p.mem], p) /\ owner[p.mem] \in Threads
      BY <2>2, <2>5, HeapsDeallocate
    <3>2. p \in Pointers
      BY DEF Inv, TypeOK
    <3> QED BY <3>1, <3>2 DEF H!Next
  <2> QED BY <2>1, <2>3, <2>4, <2>5, LiveSteps
<1>2. CASE UNCHANGED vars
  BY <1>2, HeapsStutter DEF vars, data, hist
<1> QED BY <1>1, <1>2

\* Callers of allocate() and deallocate() may take each for one step: no block is
\* handed out while any cache has it out, it goes back to the cache it came from,
\* and every cache counts its own.
THEOREM HeapsAreImplemented == Spec => ImplementsHeaps
<1>1. [](Inv /\ Sized) /\ [][Next]_vars => [][H!Next]_(H!vars)
  <2>1. (Inv /\ Sized) /\ (Inv /\ Sized)' /\ [Next]_vars => [H!Next]_(H!vars)
    BY HeapsNext
  <2> QED BY <2>1, PTL
<1>2. Spec => [](Inv /\ Sized)
  BY MultiInvariant, InvSized, PTL
<1> QED BY <1>1, <1>2, HeapsInit, PTL DEF Spec, ImplementsHeaps, H!Spec

=============================================================================
