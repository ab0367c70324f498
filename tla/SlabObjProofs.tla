--------------------------- MODULE SlabObjProofs ---------------------------
(***************************************************************************)
(* Proofs about SlabObj, SlabMem and the caches that they are made of, for *)
(* any row of caches, any pool and any supply of memory.                   *)
(***************************************************************************)
EXTENDS SlabObj, VectorsProofs, FiniteSetTheorems, FunctionTheorems, TLAPS

-----------------------------------------------------------------------------
(* The inductive invariant.                                                 *)

\* A slab of n blocks.
SlabOf(n) == [mem : Mems, availible : SUBSET (0 .. n - 1)]

MemsIn(v) == {s.mem : s \in Range(v)}

\* No two slabs of a list have the same memory.
One(v) == \A j, k \in DOMAIN v : v[j].mem = v[k].mem => j = k

\* The free, part and full slabs of a cache with n blocks per slab.  Slabs of
\* one block never become full ones: the model stops before.
Tidy(f, p, l, n) ==
  /\ f \in Seq(SlabOf(n)) /\ p \in Seq(SlabOf(n)) /\ l \in Seq(SlabOf(n))
  /\ One(f) /\ One(p) /\ One(l)
  /\ MemsIn(f) \cap MemsIn(p) = {} /\ MemsIn(p) \cap MemsIn(l) = {}
  /\ MemsIn(f) \cap MemsIn(l) = {}
  /\ \A s \in Range(f) : s.availible = 0 .. n - 1
  /\ \A s \in Range(p) : s.availible # {} /\ s.availible # 0 .. n - 1
  /\ \A s \in Range(l) : s.availible = {}
  /\ l # <<>> => n # 1

Lists ==
  /\ \A list \in {slabsFree, slabsPart, slabsFull} : DOMAIN list = Stores
  /\ \A c \in Stores : Tidy(slabsFree[c], slabsPart[c], slabsFull[c], count[c])

\* The callers' blocks.
Busy(m, i) == \/ Object(m, i) \in out
              \/ \E p \in Held : p.mem = m /\ p.idx = i

Blocks ==
  /\ BlocksAccounted
  /\ live \cap leaked = {}
  /\ \A p \in LargeBlocks : p.idx = 0
  /\ \A c \in Caches, p \in Held : p.mem \in MemsOf(c) => p.idx \in Indices(c)

\* Memory in use is in one place.
Places ==
  /\ heap = (UNION {MemsOf(c) : c \in Stores}) \cup {p.mem : p \in LargeBlocks}
  /\ \A c, d \in Stores : c # d => MemsOf(c) \cap MemsOf(d) = {}
  /\ \A c \in Stores, p \in LargeBlocks : p.mem \notin MemsOf(c)

Objects ==
  /\ objects = {Object(m, i) : m \in MemsOf(Pool), i \in Indices(Pool)}
  /\ out \subseteq objects

\* A cache that has all the memory there is can still count its blocks.
Space == \A c \in Stores : Cardinality(Mems) * count[c] < Modulus

\* All but the counters, whose values follow from where the blocks are ...
Core == /\ TypeOK
        /\ Lists
        /\ Blocks
        /\ Places
        /\ Objects
        /\ Space
        /\ OnlySingleBlocksOverrun

\* ... and from what they were.
Inv == Core /\ CountersRight

-----------------------------------------------------------------------------
(* Lists of slabs, no two with the same memory.                             *)

LEMMA RangeIs ==
  ASSUME NEW S, NEW v \in Seq(S)
  PROVE  /\ Len(v) \in Nat /\ DOMAIN v = 1 .. Len(v)
         /\ Range(v) = {v[k] : k \in 1 .. Len(v)} /\ Range(v) \subseteq S
<1>1. Len(v) \in Nat /\ DOMAIN v = 1 .. Len(v) /\ v \in [1 .. Len(v) -> S]
  BY LenProperties
<1> QED BY <1>1 DEF Range

LEMMA EmptyIs ==
  /\ \A S : <<>> \in Seq(S)
  /\ Len(<<>>) = 0 /\ Range(<<>>) = {} /\ MemsIn(<<>>) = {} /\ One(<<>>)
<1>1. DOMAIN <<>> = {}
  OBVIOUS
<1> QED BY <1>1, EmptySeq DEF Range, MemsIn, One

LEMMA SingleIs ==
  ASSUME NEW S, NEW e \in S
  PROVE  /\ <<e>> \in Seq(S) /\ Len(<<e>>) = 1
         /\ Range(<<e>>) = {e} /\ MemsIn(<<e>>) = {e.mem} /\ One(<<e>>)
<1>1. <<e>> \in Seq(S) /\ Len(<<e>>) = 1 /\ DOMAIN <<e>> = {1} /\ <<e>>[1] = e
  OBVIOUS
<1>2. Range(<<e>>) = {e}
  BY <1>1 DEF Range
<1> QED BY <1>1, <1>2 DEF MemsIn, One

\* A slab is taken off the list.
LEMMA PopIs ==
  ASSUME NEW S, NEW v \in Seq(S), One(v), NEW k \in 1 .. Len(v)
  PROVE  /\ SwapPop(v, k) \in Seq(S) /\ Len(SwapPop(v, k)) = Len(v) - 1
         /\ One(SwapPop(v, k))
         /\ v[k] \in Range(v)
         /\ Range(SwapPop(v, k)) = Range(v) \ {v[k]}
         /\ MemsIn(SwapPop(v, k)) = MemsIn(v) \ {v[k].mem}
<1>1. PICK n, w : n = Len(v) /\ w = SwapPop(v, k)
  OBVIOUS
<1>2. /\ n \in Nat /\ k \in 1 .. n /\ DOMAIN v = 1 .. n
      /\ Range(v) = {v[j] : j \in 1 .. n}
  BY <1>1, RangeIs
<1>3. /\ w \in Seq(S) /\ Len(w) = n - 1
      /\ \A j \in 1 .. n - 1 : w[j] = v[SwapPopFrom(n, k, j)]
  BY <1>1, SwapPopIs
<1>4. /\ DOMAIN w = 1 .. n - 1 /\ Range(w) = {w[j] : j \in 1 .. n - 1}
  BY <1>3, RangeIs
<1>5. \A j \in 1 .. n - 1 : SwapPopFrom(n, k, j) \in 1 .. n /\ SwapPopFrom(n, k, j) # k
  BY <1>2 DEF SwapPopFrom
<1>6. \A j \in 1 .. n : j # k => \E h \in 1 .. n - 1 : SwapPopFrom(n, k, h) = j
  <2>1. ASSUME NEW j \in 1 .. n, j # k
        PROVE  \E h \in 1 .. n - 1 : SwapPopFrom(n, k, h) = j
    <3>1. CASE j = n
      BY <1>2, <2>1, <3>1 DEF SwapPopFrom
    <3>2. CASE j # n
      BY <1>2, <2>1, <3>2 DEF SwapPopFrom
    <3> QED BY <3>1, <3>2
  <2> QED BY <2>1
<1>7. \A i, j \in 1 .. n - 1 : SwapPopFrom(n, k, i) = SwapPopFrom(n, k, j) => i = j
  BY <1>2 DEF SwapPopFrom
<1>8. \A i, j \in 1 .. n : v[i].mem = v[j].mem => i = j
  BY <1>2 DEF One
<1>9. One(w)
  <2>1. ASSUME NEW i \in 1 .. n - 1, NEW j \in 1 .. n - 1, w[i].mem = w[j].mem
        PROVE  i = j
    BY <1>3, <1>5, <1>7, <1>8, <2>1
  <2> QED BY <1>4, <2>1 DEF One
<1>10. Range(w) = Range(v) \ {v[k]}
  <2>1. \A e \in Range(w) : e \in Range(v) /\ e # v[k]
    BY <1>2, <1>3, <1>4, <1>5, <1>8
  <2>2. ASSUME NEW e \in Range(v), e # v[k] PROVE e \in Range(w)
    <3>1. PICK j \in 1 .. n : e = v[j] /\ j # k
      BY <1>2, <2>2
    <3>2. PICK h \in 1 .. n - 1 : SwapPopFrom(n, k, h) = j
      BY <1>6, <3>1
    <3> QED BY <1>3, <1>4, <3>1, <3>2
  <2> QED BY <2>1, <2>2
<1>11. MemsIn(w) = MemsIn(v) \ {v[k].mem}
  <2>1. \A e \in Range(v) : e.mem = v[k].mem => e = v[k]
    BY <1>2, <1>8
  <2>2. v[k] \in Range(v)
    BY <1>2
  <2> QED BY <1>10, <2>1, <2>2 DEF MemsIn
<1> QED BY <1>1, <1>2, <1>3, <1>9, <1>10, <1>11

\* A slab with other memory comes to it.
LEMMA AppendIs ==
  ASSUME NEW S, NEW v \in Seq(S), One(v), NEW e \in S, e.mem \notin MemsIn(v)
  PROVE  /\ Append(v, e) \in Seq(S) /\ Len(Append(v, e)) = Len(v) + 1
         /\ One(Append(v, e))
         /\ Range(Append(v, e)) = Range(v) \cup {e}
         /\ MemsIn(Append(v, e)) = MemsIn(v) \cup {e.mem}
<1>1. PICK n, w : n = Len(v) /\ w = Append(v, e)
  OBVIOUS
<1>2. /\ n \in Nat /\ DOMAIN v = 1 .. n /\ Range(v) = {v[j] : j \in 1 .. n}
  BY <1>1, RangeIs
<1>3. /\ w \in Seq(S) /\ Len(w) = n + 1
      /\ \A j \in 1 .. n : w[j] = v[j]
      /\ w[n + 1] = e
  BY <1>1, AppendProperties
<1>4. /\ DOMAIN w = 1 .. n + 1 /\ Range(w) = {w[j] : j \in 1 .. n + 1}
  BY <1>3, RangeIs
<1>5. \A j \in 1 .. n : v[j].mem # e.mem
  BY <1>2 DEF MemsIn
<1>6. \A i, j \in 1 .. n : v[i].mem = v[j].mem => i = j
  BY <1>2 DEF One
<1>7. 1 .. n + 1 = (1 .. n) \cup {n + 1}
  BY <1>2
<1>8. One(w)
  <2>1. ASSUME NEW i \in 1 .. n + 1, NEW j \in 1 .. n + 1, w[i].mem = w[j].mem
        PROVE  i = j
    BY <1>3, <1>5, <1>6, <1>7, <2>1
  <2> QED BY <1>4, <2>1 DEF One
<1>9. Range(w) = Range(v) \cup {e}
  BY <1>2, <1>3, <1>4, <1>7
<1> QED BY <1>1, <1>3, <1>8, <1>9 DEF MemsIn

\* A slab changes, and keeps its memory.
LEMMA ReplaceIs ==
  ASSUME NEW S, NEW v \in Seq(S), One(v), NEW k \in 1 .. Len(v), NEW e \in S,
         e.mem = v[k].mem, NEW w \in Seq(S), Len(w) = Len(v),
         \A j \in 1 .. Len(v) : w[j] = IF j = k THEN e ELSE v[j]
  PROVE  /\ One(w)
         /\ v[k] \in Range(v)
         /\ Range(w) = (Range(v) \ {v[k]}) \cup {e}
         /\ MemsIn(w) = MemsIn(v)
<1>1. PICK n : n = Len(v)
  OBVIOUS
<1>2. /\ n \in Nat /\ k \in 1 .. n /\ DOMAIN v = 1 .. n
      /\ Range(v) = {v[j] : j \in 1 .. n}
  BY <1>1, RangeIs
<1>3. Len(w) = n /\ \A j \in 1 .. n : w[j] = IF j = k THEN e ELSE v[j]
  BY <1>1
<1>4. /\ DOMAIN w = 1 .. n /\ Range(w) = {w[j] : j \in 1 .. n}
  BY <1>3, RangeIs
<1>5. \A i, j \in 1 .. n : v[i].mem = v[j].mem => i = j
  BY <1>2 DEF One
<1>6. \A j \in 1 .. n : w[j].mem = v[j].mem
  BY <1>3
<1>7. One(w)
  BY <1>4, <1>5, <1>6 DEF One
<1>8. Range(w) = (Range(v) \ {v[k]}) \cup {e}
  <2>1. \A j \in 1 .. n : j # k => v[j] # v[k]
    BY <1>2, <1>5
  <2> QED BY <1>2, <1>3, <1>4, <2>1
<1>9. MemsIn(w) = MemsIn(v)
  <2>1. \A m : m \in MemsIn(w) <=> \E j \in 1 .. n : w[j].mem = m
    BY <1>4 DEF MemsIn
  <2>2. \A m : m \in MemsIn(v) <=> \E j \in 1 .. n : v[j].mem = m
    BY <1>2 DEF MemsIn
  <2> QED BY <1>6, <2>1, <2>2
<1>10. v[k] \in Range(v)
  BY <1>2
<1> QED BY <1>1, <1>3, <1>7, <1>8, <1>9, <1>10

\* As many slabs as pieces of memory.
LEMMA CountIs ==
  ASSUME NEW S, NEW v \in Seq(S), One(v)
  PROVE  IsFiniteSet(MemsIn(v)) /\ Cardinality(MemsIn(v)) = Len(v)
<1>1. PICK n : n = Len(v)
  OBVIOUS
<1>2. /\ n \in Nat /\ DOMAIN v = 1 .. n /\ Range(v) = {v[j] : j \in 1 .. n}
  BY <1>1, RangeIs
<1> DEFINE F == [k \in 1 .. n |-> v[k].mem]
<1>3. F \in [1 .. n -> MemsIn(v)]
  BY <1>2 DEF MemsIn
<1>4. \A i, j \in 1 .. n : F[i] = F[j] => i = j
  BY <1>2 DEF One
<1>5. \A m \in MemsIn(v) : \E j \in 1 .. n : F[j] = m
  BY <1>2 DEF MemsIn
<1> HIDE DEF F
<1>6. F \in Bijection(1 .. n, MemsIn(v))
  BY <1>3, <1>4, <1>5 DEF Bijection, Injection, Surjection, IsInjective
<1>7. IsFiniteSet(1 .. n) /\ Cardinality(1 .. n) = n
  BY <1>2, FS_Interval
<1>8. ExistsBijection(1 .. n, MemsIn(v))
  BY <1>6 DEF ExistsBijection
<1> QED BY <1>1, <1>7, <1>8, FS_Bijection

-----------------------------------------------------------------------------
(* How slabs move between the lists of a cache.                             *)

All(f, p, l) == Range(f) \cup Range(p) \cup Range(l)

\* Tidy again, with slab t instead of slab s.
Turns(f, p, l, n, s, t, g, q, r) ==
  /\ Tidy(g, q, r, n)
  /\ s \in All(f, p, l) /\ t.mem = s.mem
  /\ All(g, q, r) = (All(f, p, l) \ {s}) \cup {t}
  /\ Len(g) + Len(q) + Len(r) = Len(f) + Len(p) + Len(l)

LEMMA TidyFacts ==
  ASSUME NEW n, NEW f, NEW p, NEW l, Tidy(f, p, l, n)
  PROVE  /\ Len(f) \in Nat /\ Len(p) \in Nat /\ Len(l) \in Nat
         /\ \A s \in All(f, p, l) : s \in SlabOf(n)
         /\ \A s \in Range(f) : s.mem \in MemsIn(f)
         /\ \A s \in Range(p) : s.mem \in MemsIn(p)
         /\ \A s \in Range(l) : s.mem \in MemsIn(l)
         /\ \A s, t \in All(f, p, l) : s.mem = t.mem => s = t
<1>1. /\ f \in Seq(SlabOf(n)) /\ p \in Seq(SlabOf(n)) /\ l \in Seq(SlabOf(n))
      /\ One(f) /\ One(p) /\ One(l)
      /\ MemsIn(f) \cap MemsIn(p) = {} /\ MemsIn(p) \cap MemsIn(l) = {}
      /\ MemsIn(f) \cap MemsIn(l) = {}
  BY DEF Tidy
<1>2. /\ Len(f) \in Nat /\ Len(p) \in Nat /\ Len(l) \in Nat
      /\ Range(f) \subseteq SlabOf(n) /\ Range(p) \subseteq SlabOf(n)
      /\ Range(l) \subseteq SlabOf(n)
  BY <1>1, RangeIs
<1>3. /\ \A s \in Range(f) : s.mem \in MemsIn(f)
      /\ \A s \in Range(p) : s.mem \in MemsIn(p)
      /\ \A s \in Range(l) : s.mem \in MemsIn(l)
  BY DEF MemsIn
<1>4. /\ \A s, t \in Range(f) : s.mem = t.mem => s = t
      /\ \A s, t \in Range(p) : s.mem = t.mem => s = t
      /\ \A s, t \in Range(l) : s.mem = t.mem => s = t
  BY <1>1 DEF One, Range
<1>5. \A s, t \in All(f, p, l) : s.mem = t.mem => s = t
  BY <1>1, <1>3, <1>4 DEF All
<1> QED BY <1>2, <1>3, <1>5 DEF All

LEMMA SlabFacts ==
  ASSUME NEW n, NEW s \in SlabOf(n), NEW i \in 0 .. n - 1
  PROVE  /\ Take(s, i) \in SlabOf(n) /\ Take(s, i).mem = s.mem
         /\ Take(s, i).availible = s.availible \ {i}
         /\ GiveBack(s, i) \in SlabOf(n) /\ GiveBack(s, i).mem = s.mem
         /\ GiveBack(s, i).availible = s.availible \cup {i}
BY DEF SlabOf, Take, GiveBack

LEMMA NewFacts ==
  ASSUME NEW n, NEW m \in Mems
  PROVE  /\ NewSlab(m, n) \in SlabOf(n) /\ NewSlab(m, n).mem = m
         /\ NewSlab(m, n).availible = 0 .. n - 1
BY DEF SlabOf, NewSlab

\* allocate() from a slab with more.
LEMMA TakeFromPart ==
  ASSUME NEW n, NEW f, NEW p, NEW l, Tidy(f, p, l, n), p # <<>>,
         NEW i \in p[1].availible, p[1].availible # {i}
  PROVE  /\ i \in 0 .. n - 1
         /\ Turns(f, p, l, n, p[1], Take(p[1], i), f, [p EXCEPT ![1] = Take(p[1], i)], l)
<1>1. PICK s : s = p[1]
  OBVIOUS
<1>2. p \in Seq(SlabOf(n)) /\ One(p) /\ 1 \in 1 .. Len(p)
  BY EmptySeq DEF Tidy
<1>3. s \in Range(p) /\ s \in SlabOf(n)
  BY <1>1, <1>2, RangeIs
<1>4. i \in 0 .. n - 1 /\ i \in s.availible /\ s.availible # {i}
  BY <1>1, <1>3 DEF SlabOf
<1>5. PICK t : t = Take(s, i)
  OBVIOUS
<1>6. t \in SlabOf(n) /\ t.mem = s.mem /\ t.availible = s.availible \ {i}
  BY <1>3, <1>4, <1>5, SlabFacts
<1>7. PICK q : q = [p EXCEPT ![1] = t]
  OBVIOUS
<1>8. /\ q \in Seq(SlabOf(n)) /\ Len(q) = Len(p) /\ One(q)
      /\ Range(q) = (Range(p) \ {s}) \cup {t} /\ MemsIn(q) = MemsIn(p)
  <2>1. t \in SlabOf(n) /\ t.mem = p[1].mem
    BY <1>1, <1>6
  <2>2. /\ q \in Seq(SlabOf(n)) /\ Len(q) = Len(p)
        /\ \A j \in 1 .. Len(p) : q[j] = IF j = 1 THEN t ELSE p[j]
    BY <1>2, <1>6, <1>7, ExceptSeq
  <2>3. /\ One(q) /\ Range(q) = (Range(p) \ {p[1]}) \cup {t} /\ MemsIn(q) = MemsIn(p)
    BY ONLY <1>2, <2>1, <2>2, ReplaceIs
  <2> QED BY <1>1, <2>2, <2>3
<1>9. t.availible # {} /\ t.availible # 0 .. n - 1
  BY <1>4, <1>6
<1>10. Tidy(f, q, l, n)
  <2>1. \A e \in Range(q) : e.availible # {} /\ e.availible # 0 .. n - 1
    BY <1>8, <1>9 DEF Tidy
  <2> QED BY <1>8, <2>1 DEF Tidy
<1>11. s \notin Range(f) /\ s \notin Range(l)
  BY <1>3, TidyFacts DEF Tidy
<1>12. All(f, q, l) = (All(f, p, l) \ {s}) \cup {t} /\ s \in All(f, p, l)
  BY <1>3, <1>8, <1>11 DEF All
<1>13. Turns(f, p, l, n, s, t, f, q, l)
  BY <1>6, <1>8, <1>10, <1>12 DEF Turns
<1> QED BY <1>1, <1>4, <1>5, <1>7, <1>13

\* ... and from one that becomes full.
LEMMA TakeLastOfPart ==
  ASSUME NEW n \in Nat, NEW f, NEW p, NEW l, Tidy(f, p, l, n), p # <<>>,
         NEW i, p[1].availible = {i}
  PROVE  /\ i \in 0 .. n - 1
         /\ Turns(f, p, l, n, p[1], Take(p[1], i),
                  f, SwapPop(p, 1), Append(l, Take(p[1], i)))
<1>1. PICK s : s = p[1]
  OBVIOUS
<1>2. /\ p \in Seq(SlabOf(n)) /\ One(p) /\ 1 \in 1 .. Len(p)
      /\ l \in Seq(SlabOf(n)) /\ One(l)
  BY EmptySeq DEF Tidy
<1>3. s \in Range(p) /\ s \in SlabOf(n)
  BY <1>1, <1>2, RangeIs
<1>4. i \in 0 .. n - 1 /\ s.availible = {i}
  BY <1>1, <1>3 DEF SlabOf
<1>5. PICK t : t = Take(s, i)
  OBVIOUS
<1>6. t \in SlabOf(n) /\ t.mem = s.mem /\ t.availible = {}
  BY <1>3, <1>4, <1>5, SlabFacts
<1>7. PICK q, r : q = SwapPop(p, 1) /\ r = Append(l, t)
  OBVIOUS
<1>8. /\ q \in Seq(SlabOf(n)) /\ Len(q) = Len(p) - 1 /\ One(q)
      /\ Range(q) = Range(p) \ {s} /\ MemsIn(q) = MemsIn(p) \ {s.mem}
  BY <1>1, <1>2, <1>7, PopIs
<1>9. s.mem \in MemsIn(p) /\ s.mem \notin MemsIn(l) /\ s.mem \notin MemsIn(f)
  <2>1. s.mem \in MemsIn(p)
    BY <1>3 DEF MemsIn
  <2> QED BY <2>1 DEF Tidy
<1>10. /\ r \in Seq(SlabOf(n)) /\ Len(r) = Len(l) + 1 /\ One(r)
       /\ Range(r) = Range(l) \cup {t} /\ MemsIn(r) = MemsIn(l) \cup {s.mem}
  BY <1>2, <1>6, <1>7, <1>9, AppendIs
<1>11. n # 1
  <2>1. s.availible # 0 .. n - 1
    BY <1>3 DEF Tidy
  <2>2. n = 1 => 0 .. n - 1 = {0}
    OBVIOUS
  <2> QED BY <1>4, <2>1, <2>2
<1>12. Tidy(f, q, r, n)
  <2>1. \A e \in Range(q) : e.availible # {} /\ e.availible # 0 .. n - 1
    BY <1>8 DEF Tidy
  <2>2. \A e \in Range(r) : e.availible = {}
    BY <1>6, <1>10 DEF Tidy
  <2>3. /\ MemsIn(f) \cap MemsIn(q) = {} /\ MemsIn(q) \cap MemsIn(r) = {}
        /\ MemsIn(f) \cap MemsIn(r) = {}
    BY <1>8, <1>9, <1>10 DEF Tidy
  <2> QED BY <1>8, <1>10, <1>11, <2>1, <2>2, <2>3 DEF Tidy
<1>13. s \notin Range(f) /\ s \notin Range(l)
  BY <1>9, TidyFacts
<1>14. All(f, q, r) = (All(f, p, l) \ {s}) \cup {t} /\ s \in All(f, p, l)
  BY <1>3, <1>8, <1>10, <1>13 DEF All
<1>15. Len(f) + Len(q) + Len(r) = Len(f) + Len(p) + Len(l)
  BY <1>8, <1>10, TidyFacts
<1>16. Turns(f, p, l, n, s, t, f, q, r)
  BY <1>6, <1>12, <1>14, <1>15 DEF Turns
<1> QED BY <1>1, <1>4, <1>5, <1>7, <1>16

\* ... and from a free one, which is opened.
LEMMA TakeFromFree ==
  ASSUME NEW n, NEW f, NEW l, Tidy(f, <<>>, l, n), f # <<>>,
         NEW i \in f[1].availible, f[1].availible # {i}
  PROVE  /\ i \in 0 .. n - 1
         /\ Turns(f, <<>>, l, n, f[1], Take(f[1], i),
                  SwapPop(f, 1), Append(<<>>, Take(f[1], i)), l)
<1>1. PICK s, p : s = f[1] /\ p = <<>>
  OBVIOUS
<1>2. /\ f \in Seq(SlabOf(n)) /\ One(f) /\ 1 \in 1 .. Len(f)
      /\ p \in Seq(SlabOf(n)) /\ One(p) /\ Tidy(f, p, l, n)
  BY <1>1, EmptySeq DEF Tidy
<1>3. s \in Range(f) /\ s \in SlabOf(n)
  BY <1>1, <1>2, RangeIs
<1>4. i \in 0 .. n - 1
  BY <1>1, <1>3 DEF SlabOf
<1>a. /\ i \in s.availible /\ s.availible # {i} /\ s.availible = 0 .. n - 1
  BY <1>1, <1>3 DEF Tidy
<1>5. PICK t : t = Take(s, i)
  OBVIOUS
<1>6. t \in SlabOf(n) /\ t.mem = s.mem /\ t.availible = s.availible \ {i}
  BY <1>3, <1>4, <1>5, SlabFacts
<1>7. PICK g, q : g = SwapPop(f, 1) /\ q = Append(p, t)
  OBVIOUS
<1>8. /\ g \in Seq(SlabOf(n)) /\ Len(g) = Len(f) - 1 /\ One(g)
      /\ Range(g) = Range(f) \ {s} /\ MemsIn(g) = MemsIn(f) \ {s.mem}
  BY <1>1, <1>2, <1>7, PopIs
<1>9. s.mem \in MemsIn(f) /\ s.mem \notin MemsIn(l) /\ s.mem \notin MemsIn(p)
  BY <1>2, <1>3, TidyFacts DEF Tidy
<1>10. /\ q \in Seq(SlabOf(n)) /\ Len(q) = Len(p) + 1 /\ One(q)
       /\ Range(q) = Range(p) \cup {t} /\ MemsIn(q) = MemsIn(p) \cup {s.mem}
  BY <1>2, <1>6, <1>7, <1>9, AppendIs
<1>11. t.availible # {} /\ t.availible # 0 .. n - 1
  BY <1>a, <1>6
<1>12. Tidy(g, q, l, n)
  <2>1. \A e \in Range(q) : e.availible # {} /\ e.availible # 0 .. n - 1
    BY <1>2, <1>10, <1>11 DEF Tidy
  <2>2. \A e \in Range(g) : e.availible = 0 .. n - 1
    BY <1>2, <1>8 DEF Tidy
  <2>3. /\ MemsIn(g) \cap MemsIn(q) = {} /\ MemsIn(q) \cap MemsIn(l) = {}
        /\ MemsIn(g) \cap MemsIn(l) = {}
    BY <1>2, <1>8, <1>9, <1>10 DEF Tidy
  <2> QED BY <1>2, <1>8, <1>10, <2>1, <2>2, <2>3 DEF Tidy
<1>13. s \notin Range(p) /\ s \notin Range(l)
  BY <1>2, <1>9, TidyFacts
<1>14. All(g, q, l) = (All(f, p, l) \ {s}) \cup {t} /\ s \in All(f, p, l)
  BY <1>3, <1>8, <1>10, <1>13 DEF All
<1>15. Len(g) + Len(q) + Len(l) = Len(f) + Len(p) + Len(l)
  BY <1>2, <1>8, <1>10, TidyFacts
<1>16. Turns(f, p, l, n, s, t, g, q, l)
  BY <1>6, <1>12, <1>14, <1>15 DEF Turns
<1> QED BY <1>1, <1>4, <1>5, <1>7, <1>16

\* ... and from a new one.
LEMMA TakeFromNew ==
  ASSUME NEW n, NEW l, Tidy(<<>>, <<>>, l, n), NEW m \in Mems, m \notin MemsIn(l),
         NEW i \in 0 .. n - 1, 0 .. n - 1 # {i}
  PROVE  /\ Tidy(<<>>, <<Take(NewSlab(m, n), i)>>, l, n)
         /\ All(<<>>, <<Take(NewSlab(m, n), i)>>, l)
              = All(<<>>, <<>>, l) \cup {Take(NewSlab(m, n), i)}
         /\ Len(<<Take(NewSlab(m, n), i)>>) = 1
         /\ Take(NewSlab(m, n), i).mem = m
         /\ Take(NewSlab(m, n), i).availible = (0 .. n - 1) \ {i}
<1>1. PICK s, t : s = NewSlab(m, n) /\ t = Take(s, i)
  OBVIOUS
<1>2. s \in SlabOf(n) /\ s.mem = m /\ s.availible = 0 .. n - 1
  BY <1>1, NewFacts
<1>3. t \in SlabOf(n) /\ t.mem = m /\ t.availible = (0 .. n - 1) \ {i}
  <2>1. s \in SlabOf(n)
    BY <1>2
  <2>2. /\ Take(s, i) \in SlabOf(n) /\ Take(s, i).mem = s.mem
        /\ Take(s, i).availible = s.availible \ {i}
    BY ONLY <2>1, i \in 0 .. n - 1, SlabFacts
  <2> QED BY <1>1, <1>2, <2>2
<1>4. PICK q, e : q = <<t>> /\ e = <<>>
  OBVIOUS
<1>5. /\ q \in Seq(SlabOf(n)) /\ Len(q) = 1
      /\ Range(q) = {t} /\ MemsIn(q) = {t.mem} /\ One(q)
  BY <1>3, <1>4, SingleIs
<1>6. /\ e \in Seq(SlabOf(n)) /\ Range(e) = {} /\ MemsIn(e) = {} /\ One(e)
  BY <1>4, EmptyIs
<1>7. t.availible # {} /\ t.availible # 0 .. n - 1
  BY <1>3
<1>8. Tidy(e, q, l, n)
  <2>1. Tidy(e, e, l, n)
    BY <1>4
  <2>2. /\ MemsIn(e) \cap MemsIn(q) = {} /\ MemsIn(q) \cap MemsIn(l) = {}
        /\ MemsIn(e) \cap MemsIn(l) = {}
    BY <1>3, <1>5, <1>6
  <2>3. \A x \in Range(q) : x.availible # {} /\ x.availible # 0 .. n - 1
    BY <1>5, <1>7
  <2> QED BY <1>5, <1>6, <2>1, <2>2, <2>3 DEF Tidy
<1>9. All(e, q, l) = All(e, e, l) \cup {t}
  BY <1>5, <1>6 DEF All
<1> QED BY <1>1, <1>3, <1>4, <1>5, <1>8, <1>9

\* deallocate() to a full slab.
LEMMA GiveToFull ==
  ASSUME NEW n \in Nat, NEW f, NEW p, NEW l, Tidy(f, p, l, n), NEW k \in 1 .. Len(l),
         NEW i \in 0 .. n - 1
  PROVE  Turns(f, p, l, n, l[k], GiveBack(l[k], i),
               f, Append(p, GiveBack(l[k], i)), SwapPop(l, k))
<1>1. PICK s : s = l[k]
  OBVIOUS
<1>2. /\ p \in Seq(SlabOf(n)) /\ One(p) /\ l \in Seq(SlabOf(n)) /\ One(l)
  BY DEF Tidy
<1>3. s \in Range(l) /\ s \in SlabOf(n)
  BY <1>1, <1>2, RangeIs
<1>4. s.availible = {} /\ n # 1
  <2>1. l # <<>>
    BY <1>3, EmptyIs
  <2> QED BY <1>3, <2>1 DEF Tidy
<1>5. PICK t : t = GiveBack(s, i)
  OBVIOUS
<1>6. t \in SlabOf(n) /\ t.mem = s.mem /\ t.availible = s.availible \cup {i}
  BY <1>3, <1>5, SlabFacts
<1>7. PICK q, r : q = Append(p, t) /\ r = SwapPop(l, k)
  OBVIOUS
<1>8. /\ r \in Seq(SlabOf(n)) /\ Len(r) = Len(l) - 1 /\ One(r)
      /\ Range(r) = Range(l) \ {s} /\ MemsIn(r) = MemsIn(l) \ {s.mem}
  BY <1>1, <1>2, <1>7, PopIs
<1>9. s.mem \in MemsIn(l) /\ s.mem \notin MemsIn(p) /\ s.mem \notin MemsIn(f)
  <2>1. s.mem \in MemsIn(l)
    BY <1>3 DEF MemsIn
  <2> QED BY <2>1 DEF Tidy
<1>10. /\ q \in Seq(SlabOf(n)) /\ Len(q) = Len(p) + 1 /\ One(q)
       /\ Range(q) = Range(p) \cup {t} /\ MemsIn(q) = MemsIn(p) \cup {s.mem}
  BY <1>2, <1>6, <1>7, <1>9, AppendIs
<1>11. t.availible # {} /\ t.availible # 0 .. n - 1
  <2>1. CASE n = 0
    BY <2>1
  <2>2. CASE n # 0
    <3>1. 0 \in 0 .. n - 1 /\ 1 \in 0 .. n - 1
      BY <1>4, <2>2
    <3>2. t.availible = {i}
      BY <1>4, <1>6
    <3>3. 0 # 1 /\ ~ (0 = i /\ 1 = i)
      OBVIOUS
    <3>4. t.availible # 0 .. n - 1
      BY <3>1, <3>2, <3>3
    <3> QED BY <3>2, <3>4
  <2> QED BY <2>1, <2>2
<1>12. Tidy(f, q, r, n)
  <2>1. \A e \in Range(q) : e.availible # {} /\ e.availible # 0 .. n - 1
    BY <1>10, <1>11 DEF Tidy
  <2>2. \A e \in Range(r) : e.availible = {}
    BY <1>8 DEF Tidy
  <2>3. /\ MemsIn(f) \cap MemsIn(q) = {} /\ MemsIn(q) \cap MemsIn(r) = {}
        /\ MemsIn(f) \cap MemsIn(r) = {}
    BY <1>8, <1>9, <1>10 DEF Tidy
  <2> QED BY <1>4, <1>8, <1>10, <2>1, <2>2, <2>3 DEF Tidy
<1>13. s \notin Range(f) /\ s \notin Range(p)
  BY <1>9, TidyFacts
<1>14. All(f, q, r) = (All(f, p, l) \ {s}) \cup {t} /\ s \in All(f, p, l)
  BY <1>3, <1>8, <1>10, <1>13 DEF All
<1>15. Len(f) + Len(q) + Len(r) = Len(f) + Len(p) + Len(l)
  BY <1>8, <1>10, TidyFacts
<1>16. Turns(f, p, l, n, s, t, f, q, r)
  BY <1>6, <1>12, <1>14, <1>15 DEF Turns
<1> QED BY <1>1, <1>5, <1>7, <1>16

\* ... to one that stays where it is,
LEMMA GiveToPart ==
  ASSUME NEW n, NEW f, NEW p, NEW l, Tidy(f, p, l, n), NEW k \in 1 .. Len(p),
         NEW i \in 0 .. n - 1, GiveBack(p[k], i).availible # 0 .. n - 1
  PROVE  Turns(f, p, l, n, p[k], GiveBack(p[k], i),
               f, [p EXCEPT ![k] = GiveBack(p[k], i)], l)
<1>1. PICK s : s = p[k]
  OBVIOUS
<1>2. p \in Seq(SlabOf(n)) /\ One(p)
  BY DEF Tidy
<1>3. s \in Range(p) /\ s \in SlabOf(n)
  BY <1>1, <1>2, RangeIs
<1>4. PICK t : t = GiveBack(s, i)
  OBVIOUS
<1>5. t \in SlabOf(n) /\ t.mem = s.mem /\ t.availible = s.availible \cup {i}
  BY <1>3, <1>4, SlabFacts
<1>6. t.availible # {} /\ t.availible # 0 .. n - 1
  BY <1>1, <1>4, <1>5
<1>7. PICK q : q = [p EXCEPT ![k] = t]
  OBVIOUS
<1>8. /\ q \in Seq(SlabOf(n)) /\ Len(q) = Len(p) /\ One(q)
      /\ Range(q) = (Range(p) \ {s}) \cup {t} /\ MemsIn(q) = MemsIn(p)
  <2>1. t \in SlabOf(n) /\ t.mem = p[k].mem
    BY <1>1, <1>5
  <2>2. /\ q \in Seq(SlabOf(n)) /\ Len(q) = Len(p)
        /\ \A j \in 1 .. Len(p) : q[j] = IF j = k THEN t ELSE p[j]
    BY <1>2, <1>5, <1>7, ExceptSeq
  <2>3. /\ One(q) /\ Range(q) = (Range(p) \ {p[k]}) \cup {t} /\ MemsIn(q) = MemsIn(p)
    BY ONLY k \in 1 .. Len(p), <1>2, <2>1, <2>2, ReplaceIs
  <2> QED BY <1>1, <2>2, <2>3
<1>10. Tidy(f, q, l, n)
  <2>1. \A e \in Range(q) : e.availible # {} /\ e.availible # 0 .. n - 1
    BY <1>6, <1>8 DEF Tidy
  <2> QED BY <1>8, <2>1 DEF Tidy
<1>11. s \notin Range(f) /\ s \notin Range(l)
  <2>1. s.mem \in MemsIn(p)
    BY <1>3 DEF MemsIn
  <2>2. s.mem \notin MemsIn(f) /\ s.mem \notin MemsIn(l)
    BY <2>1 DEF Tidy
  <2> QED BY <2>2, TidyFacts
<1>12. All(f, q, l) = (All(f, p, l) \ {s}) \cup {t} /\ s \in All(f, p, l)
  BY <1>3, <1>8, <1>11 DEF All
<1>13. Turns(f, p, l, n, s, t, f, q, l)
  BY <1>5, <1>8, <1>10, <1>12 DEF Turns
<1> QED BY <1>1, <1>4, <1>7, <1>13

\* ... and to one that is free then.
LEMMA GiveLastToPart ==
  ASSUME NEW n, NEW f, NEW p, NEW l, Tidy(f, p, l, n), NEW k \in 1 .. Len(p),
         NEW i \in 0 .. n - 1, GiveBack(p[k], i).availible = 0 .. n - 1
  PROVE  Turns(f, p, l, n, p[k], GiveBack(p[k], i),
               Append(f, GiveBack(p[k], i)), SwapPop(p, k), l)
<1>1. PICK s : s = p[k]
  OBVIOUS
<1>2. p \in Seq(SlabOf(n)) /\ One(p) /\ f \in Seq(SlabOf(n)) /\ One(f)
  BY DEF Tidy
<1>3. s \in Range(p) /\ s \in SlabOf(n)
  BY <1>1, <1>2, RangeIs
<1>4. PICK t : t = GiveBack(s, i)
  OBVIOUS
<1>5. t \in SlabOf(n) /\ t.mem = s.mem
  BY <1>3, <1>4, SlabFacts
<1>6. t.availible = 0 .. n - 1
  BY <1>1, <1>4
<1>7. PICK g, q : g = Append(f, t) /\ q = SwapPop(p, k)
  OBVIOUS
<1>8. /\ q \in Seq(SlabOf(n)) /\ Len(q) = Len(p) - 1 /\ One(q)
      /\ Range(q) = Range(p) \ {s} /\ MemsIn(q) = MemsIn(p) \ {s.mem}
  <2>1. PICK w : w = SwapPop(p, k)
    OBVIOUS
  <2>2. PICK S : S = SlabOf(n)
    OBVIOUS
  <2>3. /\ SwapPop(p, k) \in Seq(S) /\ Len(SwapPop(p, k)) = Len(p) - 1
        /\ One(SwapPop(p, k)) /\ Range(SwapPop(p, k)) = Range(p) \ {p[k]}
        /\ MemsIn(SwapPop(p, k)) = MemsIn(p) \ {p[k].mem}
    <3>1. p \in Seq(S) /\ One(p)
      BY <1>2, <2>2
    <3> QED BY ONLY k \in 1 .. Len(p), <3>1, PopIs
  <2>4. /\ w \in Seq(S) /\ Len(w) = Len(p) - 1 /\ One(w)
        /\ Range(w) = Range(p) \ {p[k]} /\ MemsIn(w) = MemsIn(p) \ {p[k].mem}
    BY <2>1, <2>3
  <2> QED BY <1>1, <1>7, <2>1, <2>2, <2>4
<1>9. s.mem \in MemsIn(p) /\ s.mem \notin MemsIn(l) /\ s.mem \notin MemsIn(f)
  <2>1. s.mem \in MemsIn(p)
    BY <1>3 DEF MemsIn
  <2> QED BY <2>1 DEF Tidy
<1>10. /\ g \in Seq(SlabOf(n)) /\ Len(g) = Len(f) + 1 /\ One(g)
       /\ Range(g) = Range(f) \cup {t} /\ MemsIn(g) = MemsIn(f) \cup {s.mem}
  BY <1>2, <1>5, <1>7, <1>9, AppendIs
<1>12. Tidy(g, q, l, n)
  <2>1. \A e \in Range(q) : e.availible # {} /\ e.availible # 0 .. n - 1
    BY <1>8 DEF Tidy
  <2>2. \A e \in Range(g) : e.availible = 0 .. n - 1
    BY <1>6, <1>10 DEF Tidy
  <2>3. /\ MemsIn(g) \cap MemsIn(q) = {} /\ MemsIn(q) \cap MemsIn(l) = {}
        /\ MemsIn(g) \cap MemsIn(l) = {}
    BY <1>8, <1>9, <1>10 DEF Tidy
  <2> QED BY <1>8, <1>10, <2>1, <2>2, <2>3 DEF Tidy
<1>13. s \notin Range(f) /\ s \notin Range(l)
  BY <1>9, TidyFacts
<1>14. All(g, q, l) = (All(f, p, l) \ {s}) \cup {t} /\ s \in All(f, p, l)
  BY <1>3, <1>8, <1>10, <1>13 DEF All
<1>15. Len(g) + Len(q) + Len(l) = Len(f) + Len(p) + Len(l)
  BY <1>8, <1>10, TidyFacts
<1>16. Turns(f, p, l, n, s, t, g, q, l)
  BY <1>5, <1>12, <1>14, <1>15 DEF Turns
<1> QED BY <1>1, <1>4, <1>7, <1>16

\* Without its free slabs a cache is as tidy as before.
LEMMA WithoutFree ==
  ASSUME NEW n, NEW f, NEW p, NEW l, Tidy(f, p, l, n)
  PROVE  /\ Tidy(<<>>, p, l, n)
         /\ All(<<>>, p, l) = {s \in All(f, p, l) : s \notin Range(f)}
         /\ \A s \in All(<<>>, p, l) : s.mem \notin MemsIn(f)
<1>1. Tidy(<<>>, p, l, n)
  BY EmptyIs DEF Tidy
<1>2. All(<<>>, p, l) = Range(p) \cup Range(l)
  BY EmptyIs DEF All
<1>3. /\ \A s \in Range(p) : s.mem \in MemsIn(p)
      /\ \A s \in Range(l) : s.mem \in MemsIn(l)
      /\ \A s \in Range(f) : s.mem \in MemsIn(f)
  BY DEF MemsIn
<1>4. MemsIn(f) \cap MemsIn(p) = {} /\ MemsIn(f) \cap MemsIn(l) = {}
  BY DEF Tidy
<1>5. \A s \in All(<<>>, p, l) : s.mem \notin MemsIn(f)
  BY <1>2, <1>3, <1>4
<1>6. All(<<>>, p, l) = {s \in All(f, p, l) : s \notin Range(f)}
  BY <1>2, <1>3, <1>5 DEF All
<1> QED BY <1>1, <1>5, <1>6

\* No slabs, and one new one.
LEMMA FewSlabs ==
  ASSUME NEW n
  PROVE  /\ Tidy(<<>>, <<>>, <<>>, n) /\ All(<<>>, <<>>, <<>>) = {}
         /\ \A m \in Mems : /\ Tidy(<<NewSlab(m, n)>>, <<>>, <<>>, n)
                            /\ All(<<NewSlab(m, n)>>, <<>>, <<>>) = {NewSlab(m, n)}
                            /\ Len(<<NewSlab(m, n)>>) = 1
<1>1. Tidy(<<>>, <<>>, <<>>, n) /\ All(<<>>, <<>>, <<>>) = {}
  BY EmptyIs DEF Tidy, All
<1>2. ASSUME NEW m \in Mems
      PROVE  /\ Tidy(<<NewSlab(m, n)>>, <<>>, <<>>, n)
             /\ All(<<NewSlab(m, n)>>, <<>>, <<>>) = {NewSlab(m, n)}
             /\ Len(<<NewSlab(m, n)>>) = 1
  <2>1. PICK s, f, e : s = NewSlab(m, n) /\ f = <<s>> /\ e = <<>>
    OBVIOUS
  <2>2. s \in SlabOf(n) /\ s.availible = 0 .. n - 1
    BY <2>1, NewFacts
  <2>3. /\ f \in Seq(SlabOf(n)) /\ Len(f) = 1 /\ Range(f) = {s} /\ One(f)
    BY <2>1, <2>2, SingleIs
  <2>4. Tidy(e, e, e, n) /\ e = <<>> /\ MemsIn(e) = {} /\ Range(e) = {}
    BY <1>1, <2>1, EmptyIs
  <2>5. Tidy(f, e, e, n) /\ All(f, e, e) = {s}
    BY <2>2, <2>3, <2>4 DEF Tidy, All
  <2> QED BY <2>1, <2>3, <2>5
<1> QED BY <1>1, <1>2

\* A cache has as many slabs as pieces of memory.
LEMMA SlabsCount ==
  ASSUME NEW n, NEW f, NEW p, NEW l, Tidy(f, p, l, n)
  PROVE  LET M == {s.mem : s \in All(f, p, l)}
         IN IsFiniteSet(M) /\ Cardinality(M) = Len(f) + Len(p) + Len(l)
<1> DEFINE F == MemsIn(f)
           P == MemsIn(p)
           L == MemsIn(l)
<1>1. /\ IsFiniteSet(F) /\ Cardinality(F) = Len(f)
      /\ IsFiniteSet(P) /\ Cardinality(P) = Len(p)
      /\ IsFiniteSet(L) /\ Cardinality(L) = Len(l)
  BY CountIs DEF Tidy
<1>2. F \cap P = {} /\ P \cap L = {} /\ F \cap L = {}
  BY DEF Tidy
<1>3. {s.mem : s \in All(f, p, l)} = F \cup (P \cup L)
  BY DEF All, MemsIn
<1> HIDE DEF F, P, L
<1>4. Cardinality({}) = 0 /\ Len(f) \in Nat /\ Len(p) \in Nat /\ Len(l) \in Nat
  BY FS_EmptySet, TidyFacts
<1>5. IsFiniteSet(P \cup L) /\ Cardinality(P \cup L) = Len(p) + Len(l)
  <2>1. /\ IsFiniteSet(P \cup L)
        /\ Cardinality(P \cup L) = Cardinality(P) + Cardinality(L) - Cardinality(P \cap L)
    BY <1>1, FS_Union
  <2>2. Cardinality(P \cap L) = 0
    BY <1>2, <1>4
  <2> QED BY <1>1, <1>4, <2>1, <2>2
<1>6. IsFiniteSet(F \cup (P \cup L))
      /\ Cardinality(F \cup (P \cup L)) = Len(f) + (Len(p) + Len(l))
  <2>1. /\ IsFiniteSet(F \cup (P \cup L))
        /\ Cardinality(F \cup (P \cup L))
             = Cardinality(F) + Cardinality(P \cup L) - Cardinality(F \cap (P \cup L))
    BY <1>1, <1>5, FS_Union
  <2>2. F \cap (P \cup L) = {}
    BY <1>2
  <2>3. Cardinality(F \cap (P \cup L)) = 0
    BY <1>4, <2>2
  <2> QED BY <1>1, <1>4, <1>5, <2>1, <2>3
<1>7. Len(f) + (Len(p) + Len(l)) = Len(f) + Len(p) + Len(l)
  BY <1>4
<1> QED BY <1>3, <1>6, <1>7

-----------------------------------------------------------------------------
(* What the operations of a cache do to its slabs.                          *)

LEMMA HeadIs ==
  ASSUME NEW S, NEW v \in Seq(S), v # <<>>
  PROVE  Head(v) = v[1] /\ 1 \in 1 .. Len(v) /\ v[1] \in Range(v)
<1>1. Head(v) = v[1] /\ 1 \in 1 .. Len(v)
  BY EmptySeq
<1> QED BY <1>1, RangeIs

LEMMA ListFacts ==
  ASSUME Lists, NEW c \in Stores
  PROVE  /\ Tidy(slabsFree[c], slabsPart[c], slabsFull[c], count[c])
         /\ SlabsOf(c) = All(slabsFree[c], slabsPart[c], slabsFull[c])
         /\ \A s \in SlabsOf(c) : /\ s \in SlabOf(count[c]) /\ s.mem \in Mems
                                  /\ s.mem \in MemsOf(c)
         /\ \A s, t \in SlabsOf(c) : s.mem = t.mem => s = t
         /\ \A m \in MemsOf(c) : \E s \in SlabsOf(c) : s.mem = m
         /\ MemsOf(c) \subseteq Mems
         /\ IsFiniteSet(MemsOf(c)) /\ Cardinality(MemsOf(c)) = SlabCount(c)
<1>1. Tidy(slabsFree[c], slabsPart[c], slabsFull[c], count[c])
  BY DEF Lists
<1>2. SlabsOf(c) = All(slabsFree[c], slabsPart[c], slabsFull[c])
  BY DEF SlabsOf, All
<1>3. \A s \in SlabsOf(c) : s \in SlabOf(count[c])
  BY <1>1, <1>2, TidyFacts
<1>4. \A s, t \in SlabsOf(c) : s.mem = t.mem => s = t
  BY <1>1, <1>2, TidyFacts
<1>5. \A s \in SlabsOf(c) : s.mem \in Mems
  BY <1>3 DEF SlabOf
<1>6. /\ IsFiniteSet({s.mem : s \in All(slabsFree[c], slabsPart[c], slabsFull[c])})
      /\ Cardinality({s.mem : s \in All(slabsFree[c], slabsPart[c], slabsFull[c])})
           = Len(slabsFree[c]) + Len(slabsPart[c]) + Len(slabsFull[c])
  <2>1. PICK f, p, l, n : /\ f = slabsFree[c] /\ p = slabsPart[c] /\ l = slabsFull[c]
                          /\ n = count[c]
    OBVIOUS
  <2>2. Tidy(f, p, l, n)
    BY <1>1, <2>1
  <2>3. /\ IsFiniteSet({s.mem : s \in All(f, p, l)})
        /\ Cardinality({s.mem : s \in All(f, p, l)}) = Len(f) + Len(p) + Len(l)
    BY ONLY <2>2, SlabsCount
  <2> QED BY <2>1, <2>3
<1>7. IsFiniteSet(MemsOf(c)) /\ Cardinality(MemsOf(c)) = SlabCount(c)
  BY <1>2, <1>6 DEF MemsOf, SlabCount
<1> QED BY <1>1, <1>2, <1>3, <1>4, <1>5, <1>7 DEF MemsOf

\* Slabs that were moved have no memory left to give back.
LEMMA NothingDeleted ==
  /\ \A s : DeletedBy({MovedFrom(s)}) = {}
  /\ \A S : (\A s \in S : s.mem \in Mems) => DeletedBy(S) = {s.mem : s \in S}
BY MemsAssumption DEF DeletedBy, MovedFrom

\* Lists where only those of cache c change.
LEMMA ListsStep ==
  ASSUME Lists, NEW c \in Stores, NEW f, NEW p, NEW l,
         DOMAIN slabsFree' = Stores, DOMAIN slabsPart' = Stores,
         DOMAIN slabsFull' = Stores,
         slabsFree'[c] = f, slabsPart'[c] = p, slabsFull'[c] = l,
         \A d \in Stores \ {c} : /\ slabsFree'[d] = slabsFree[d]
                                 /\ slabsPart'[d] = slabsPart[d]
                                 /\ slabsFull'[d] = slabsFull[d]
                                 /\ count'[d] = count[d],
         Tidy(f, p, l, count'[c])
  PROVE  /\ Lists' /\ SlabsOf(c)' = All(f, p, l)
         /\ SlabCount(c)' = Len(f) + Len(p) + Len(l)
         /\ \A d \in Stores \ {c} : SlabsOf(d)' = SlabsOf(d) /\ SlabCount(d)' = SlabCount(d)
<1>1. SlabsOf(c)' = All(f, p, l) /\ SlabCount(c)' = Len(f) + Len(p) + Len(l)
  BY DEF SlabsOf, All, SlabCount
<1>2. \A d \in Stores \ {c} : SlabsOf(d)' = SlabsOf(d) /\ SlabCount(d)' = SlabCount(d)
  BY DEF SlabsOf, SlabCount
<1>3. \A d \in Stores : Tidy(slabsFree'[d], slabsPart'[d], slabsFull'[d], count'[d])
  BY DEF Lists
<1>4. Lists'
  BY <1>3 DEF Lists
<1> QED BY <1>1, <1>2, <1>4

\* Nothing but cache c changes.
Only(c) ==
  \A d \in Stores \ {c} :
    /\ SlabsOf(d)' = SlabsOf(d) /\ SlabCount(d)' = SlabCount(d)
    /\ count'[d] = count[d] /\ mySize'[d] = mySize[d]
    /\ myCapacity'[d] = myCapacity[d]
    /\ d \in emptied' <=> d \in emptied

\* Slab s of cache c becomes t.
Turned(c, s, t) ==
  /\ Lists' /\ Only(c)
  /\ s \in SlabsOf(c) /\ t.mem = s.mem
  /\ SlabsOf(c)' = (SlabsOf(c) \ {s}) \cup {t}
  /\ SlabCount(c)' = SlabCount(c)
  /\ UNCHANGED <<heap, count, emptied, overrun, myCapacity>>

\* Slab t is made of fresh memory m.
Added(c, m, t) ==
  /\ Lists' /\ Only(c)
  /\ m \in Mems \ heap /\ t.mem = m
  /\ SlabsOf(c)' = SlabsOf(c) \cup {t}
  /\ SlabCount(c)' = SlabCount(c) + 1
  /\ heap' = heap \cup {m}
  /\ myCapacity'[c] = (myCapacity[c] + count[c]) % Modulus
  /\ myCapacity' \in [Stores -> 0 .. Modulus - 1]
  /\ UNCHANGED <<count, emptied, overrun>>

\* The counters are functions.
LEMMA CounterFacts ==
  ASSUME TypeOK
  PROVE  /\ mySize \in [Stores -> 0 .. Modulus - 1] /\ DOMAIN mySize = Stores
         /\ myCapacity \in [Stores -> 0 .. Modulus - 1] /\ DOMAIN myCapacity = Stores
         /\ count \in [Stores -> Nat] /\ DOMAIN count = Stores
         /\ \A c \in Stores : /\ mySize[c] \in 0 .. Modulus - 1
                              /\ myCapacity[c] \in 0 .. Modulus - 1 /\ count[c] \in Nat
         /\ Modulus \in Nat \ {0}
BY SizesAssumption DEF TypeOK, HelperTypeOK

LEMMA CounterStep ==
  ASSUME NEW f \in [Stores -> 0 .. Modulus - 1], NEW g, NEW c \in Stores, NEW k \in Int,
         g = [f EXCEPT ![c] = k % Modulus]
  PROVE  /\ g \in [Stores -> 0 .. Modulus - 1] /\ g[c] = k % Modulus
         /\ \A d \in Stores \ {c} : g[d] = f[d]
<1>1. k % Modulus \in 0 .. Modulus - 1
  BY SizesAssumption
<1> QED BY <1>1

\* From Turns, of three lists, to Turned, of a cache.
LEMMA TurnsIsTurned ==
  ASSUME Lists, NEW c \in Stores, NEW s, NEW t, NEW f, NEW p, NEW l,
         DOMAIN slabsFree' = Stores, DOMAIN slabsPart' = Stores,
         DOMAIN slabsFull' = Stores,
         slabsFree'[c] = f, slabsPart'[c] = p, slabsFull'[c] = l,
         \A d \in Stores \ {c} : /\ slabsFree'[d] = slabsFree[d]
                                 /\ slabsPart'[d] = slabsPart[d]
                                 /\ slabsFull'[d] = slabsFull[d]
                                 /\ mySize'[d] = mySize[d],
         UNCHANGED <<heap, count, emptied, overrun, myCapacity>>,
         Turns(slabsFree[c], slabsPart[c], slabsFull[c], count[c], s, t, f, p, l)
  PROVE  Turned(c, s, t)
<1>1. count'[c] = count[c] /\ \A d \in Stores \ {c} : count'[d] = count[d]
  OBVIOUS
<1>2. Tidy(f, p, l, count'[c])
  BY <1>1 DEF Turns
<1>3. /\ Lists' /\ SlabsOf(c)' = All(f, p, l)
      /\ SlabCount(c)' = Len(f) + Len(p) + Len(l)
      /\ \A d \in Stores \ {c} : SlabsOf(d)' = SlabsOf(d) /\ SlabCount(d)' = SlabCount(d)
  BY <1>1, <1>2, ListsStep
<1>4. SlabsOf(c) = All(slabsFree[c], slabsPart[c], slabsFull[c])
  BY ListFacts
<1>5. SlabCount(c)' = SlabCount(c)
  BY <1>3 DEF Turns, SlabCount
<1>6. Only(c)
  BY <1>1, <1>3 DEF Only
<1>7. s \in SlabsOf(c) /\ t.mem = s.mem /\ SlabsOf(c)' = (SlabsOf(c) \ {s}) \cup {t}
  BY <1>3, <1>4 DEF Turns
<1> QED BY <1>3, <1>5, <1>6, <1>7 DEF Turned

\* How a call to allocate() ends, seen from the slab.
LEMMA AllocateIs ==
  ASSUME Core, NEW c \in Stores, NEW m \in Mems, NEW i, AllocateIn(c, m, i)
  PROVE  /\ i \in Indices(c)
         /\ mySize'[c] = (mySize[c] + 1) % Modulus /\ mySize' \in [Stores -> 0 .. Modulus - 1]
         /\ \E t : /\ t.mem = m
                   /\ \/ \E s \in SlabsOf(c) : /\ i \in s.availible
                                               /\ t.availible = s.availible \ {i}
                                               /\ Turned(c, s, t)
                      \/ t.availible = Indices(c) \ {i} /\ Added(c, m, t)
<1>1. PICK f, p, l, n : /\ f = slabsFree[c] /\ p = slabsPart[c] /\ l = slabsFull[c]
                        /\ n = count[c]
  OBVIOUS
<1>2. /\ Lists /\ Tidy(f, p, l, n) /\ SlabsOf(c) = All(f, p, l) /\ n \in Nat
      /\ DOMAIN slabsFree = Stores /\ DOMAIN slabsPart = Stores /\ DOMAIN slabsFull = Stores
      /\ DOMAIN mySize = Stores /\ DOMAIN myCapacity = Stores
      /\ Indices(c) = 0 .. n - 1
  BY <1>1, ListFacts, CounterFacts DEF Core, Lists, Indices
<1>3. /\ f \in Seq(SlabOf(n)) /\ p \in Seq(SlabOf(n))
  BY <1>2 DEF Tidy
<1>4. /\ mySize' = [mySize EXCEPT ![c] = (@ + 1) % Modulus]
      /\ UNCHANGED <<count, emptied, overrun>>
  BY DEF AllocateIn, AllocateFromPart, AllocateLast, AllocateFromFree, AllocateFromNew,
         HandOut
<1>5. /\ mySize'[c] = (mySize[c] + 1) % Modulus /\ mySize' \in [Stores -> 0 .. Modulus - 1]
      /\ \A d \in Stores \ {c} : mySize'[d] = mySize[d]
  <2>1. PICK k : k = mySize[c] + 1
    OBVIOUS
  <2>2. /\ mySize \in [Stores -> 0 .. Modulus - 1] /\ k \in Int
        /\ mySize' = [mySize EXCEPT ![c] = k % Modulus]
    BY <1>4, <2>1, CounterFacts DEF Core
  <2> QED BY <2>1, <2>2, CounterStep
<1>6. CASE AllocateFromPart(c, m, i)
  <2>1. /\ p # <<>> /\ Head(p).mem = m /\ i \in Head(p).availible
        /\ Head(p).availible # {i}
        /\ slabsPart' = [slabsPart EXCEPT ![c] = [p EXCEPT ![1] = Take(p[1], i)]]
        /\ UNCHANGED <<slabsFree, slabsFull, myCapacity, heap>>
    BY <1>1, <1>6 DEF AllocateFromPart
  <2>2. PICK s : s = p[1]
    OBVIOUS
  <2>3. Head(p) = s
    BY <1>3, <2>1, <2>2, HeadIs
  <2>4. PICK t : t = Take(s, i)
    OBVIOUS
  <2>5. i \in 0 .. n - 1 /\ Turns(f, p, l, n, s, t, f, [p EXCEPT ![1] = t], l)
    BY <1>2, <2>1, <2>2, <2>3, <2>4, TakeFromPart
  <2>6. Turned(c, s, t)
    <3>1. PICK q : q = [p EXCEPT ![1] = t]
      OBVIOUS
    <3>2. /\ slabsPart'[c] = q /\ DOMAIN slabsPart' = Stores
          /\ \A d \in Stores \ {c} : slabsPart'[d] = slabsPart[d]
      BY <1>2, <2>1, <2>2, <2>4, <3>1
    <3> QED BY <1>1, <1>2, <1>4, <1>5, <2>1, <2>5, <3>1, <3>2, TurnsIsTurned
  <2>7. t.availible = s.availible \ {i} /\ t.mem = s.mem
    <3>1. s \in SlabOf(n)
      BY <1>2, <2>5, TidyFacts DEF Turns
    <3> QED BY <2>4, <2>5, <3>1, SlabFacts
  <2> QED BY <1>2, <1>5, <2>1, <2>3, <2>5, <2>6, <2>7 DEF Turned
<1>7. CASE AllocateLast(c, m, i)
  <2>1. /\ p # <<>> /\ Head(p).mem = m /\ Head(p).availible = {i}
        /\ slabsFull' = [slabsFull EXCEPT ![c] = Append(l, Take(Head(p), i))]
        /\ slabsPart' = [slabsPart EXCEPT ![c] = SwapPop(p, 1)]
        /\ heap' = heap \ DeletedBy({MovedFrom(Head(p))})
        /\ UNCHANGED <<slabsFree, myCapacity>>
    BY <1>1, <1>7 DEF AllocateLast
  <2>2. PICK s : s = p[1]
    OBVIOUS
  <2>3. Head(p) = s
    BY <1>3, <2>1, <2>2, HeadIs
  <2>4. PICK t : t = Take(s, i)
    OBVIOUS
  <2>5. i \in 0 .. n - 1 /\ Turns(f, p, l, n, s, t, f, SwapPop(p, 1), Append(l, t))
    <3>1. p[1].availible = {i}
      BY <2>1, <2>2, <2>3
    <3>2. /\ i \in 0 .. n - 1
          /\ Turns(f, p, l, n, p[1], Take(p[1], i),
                   f, SwapPop(p, 1), Append(l, Take(p[1], i)))
      BY ONLY <1>2, <2>1, <3>1, TakeLastOfPart
    <3> QED BY <2>2, <2>4, <3>2
  <2>6. Turned(c, s, t)
    <3>1. PICK q, r : q = SwapPop(p, 1) /\ r = Append(l, t)
      OBVIOUS
    <3>2. /\ slabsPart'[c] = q /\ DOMAIN slabsPart' = Stores
          /\ slabsFull'[c] = r /\ DOMAIN slabsFull' = Stores
          /\ \A d \in Stores \ {c} : /\ slabsPart'[d] = slabsPart[d]
                                     /\ slabsFull'[d] = slabsFull[d]
      BY <1>2, <2>1, <2>3, <2>4, <3>1
    <3>3. heap' = heap
      BY <2>1, NothingDeleted
    <3>4. Turns(slabsFree[c], slabsPart[c], slabsFull[c], count[c], s, t, f, q, r)
      BY <1>1, <2>5, <3>1
    <3> QED BY <1>1, <1>2, <1>4, <1>5, <2>1, <3>2, <3>3, <3>4, TurnsIsTurned
  <2>7. t.availible = s.availible \ {i} /\ t.mem = s.mem
    <3>1. s \in SlabOf(n)
      BY <1>2, <2>5, TidyFacts DEF Turns
    <3> QED BY <2>4, <2>5, <3>1, SlabFacts
  <2> QED BY <1>2, <1>5, <2>1, <2>3, <2>5, <2>6, <2>7 DEF Turned
<1>8. CASE AllocateFromFree(c, m, i)
  <2>1. /\ p = <<>> /\ f # <<>> /\ Head(f).mem = m /\ i \in Head(f).availible
        /\ Head(f).availible # {i}
        /\ slabsPart' = [slabsPart EXCEPT ![c] = Append(p, Take(Head(f), i))]
        /\ slabsFree' = [slabsFree EXCEPT ![c] = SwapPop(f, 1)]
        /\ heap' = heap \ DeletedBy({MovedFrom(Head(f))})
        /\ UNCHANGED <<slabsFull, myCapacity>>
    BY <1>1, <1>8 DEF AllocateFromFree
  <2>2. PICK s : s = f[1]
    OBVIOUS
  <2>3. Head(f) = s
    BY <1>3, <2>1, <2>2, HeadIs
  <2>4. PICK t : t = Take(s, i)
    OBVIOUS
  <2>5. i \in 0 .. n - 1 /\ Turns(f, p, l, n, s, t, SwapPop(f, 1), Append(p, t), l)
    BY <1>2, <2>1, <2>2, <2>3, <2>4, TakeFromFree
  <2>6. Turned(c, s, t)
    <3>1. PICK g, q : g = SwapPop(f, 1) /\ q = Append(p, t)
      OBVIOUS
    <3>2. /\ slabsPart'[c] = q /\ DOMAIN slabsPart' = Stores
          /\ slabsFree'[c] = g /\ DOMAIN slabsFree' = Stores
          /\ \A d \in Stores \ {c} : /\ slabsPart'[d] = slabsPart[d]
                                     /\ slabsFree'[d] = slabsFree[d]
      BY <1>2, <2>1, <2>3, <2>4, <3>1
    <3>3. heap' = heap
      BY <2>1, NothingDeleted
    <3>4. Turns(slabsFree[c], slabsPart[c], slabsFull[c], count[c], s, t, g, q, l)
      BY <1>1, <2>5, <3>1
    <3> QED BY <1>1, <1>2, <1>4, <1>5, <2>1, <3>2, <3>3, <3>4, TurnsIsTurned
  <2>7. t.availible = s.availible \ {i} /\ t.mem = s.mem
    <3>1. s \in SlabOf(n)
      BY <1>2, <2>5, TidyFacts DEF Turns
    <3> QED BY <2>4, <2>5, <3>1, SlabFacts
  <2> QED BY <1>2, <1>5, <2>1, <2>3, <2>5, <2>6, <2>7 DEF Turned
<1>9. CASE AllocateFromNew(c, m, i)
  <2>1. PICK t, q : t = Take(NewSlab(m, n), i) /\ q = <<t>>
    OBVIOUS
  <2>2. /\ p = <<>> /\ f = <<>> /\ m \in Mems \ heap
        /\ i \in 0 .. n - 1 /\ 0 .. n - 1 # {i}
        /\ myCapacity' = [myCapacity EXCEPT ![c] = (@ + n) % Modulus]
        /\ slabsPart' = [slabsPart EXCEPT ![c] = q]
        /\ heap' = (heap \cup {m}) \ DeletedBy({MovedFrom(NewSlab(m, n))})
        /\ UNCHANGED <<slabsFree, slabsFull>>
    BY <1>1, <1>2, <1>9, <2>1 DEF AllocateFromNew, Unused
  <2>3. m \notin MemsIn(l)
    <3>1. m \notin MemsOf(c)
      BY <2>2 DEF Core, Places
    <3>2. MemsIn(l) \subseteq MemsOf(c)
      BY <1>1 DEF MemsIn, MemsOf, SlabsOf
    <3> QED BY <3>1, <3>2
  <2>4. /\ Tidy(f, q, l, n) /\ All(f, q, l) = All(f, p, l) \cup {t}
        /\ Len(q) = 1 /\ t.mem = m /\ t.availible = (0 .. n - 1) \ {i}
    <3>1. Tidy(<<>>, <<>>, l, n)
      BY <1>2, <2>2
    <3>2. i \in 0 .. n - 1 /\ 0 .. n - 1 # {i}
      BY <2>2
    <3>3. /\ Tidy(<<>>, <<Take(NewSlab(m, n), i)>>, l, n)
          /\ All(<<>>, <<Take(NewSlab(m, n), i)>>, l)
               = All(<<>>, <<>>, l) \cup {Take(NewSlab(m, n), i)}
          /\ Len(<<Take(NewSlab(m, n), i)>>) = 1
          /\ Take(NewSlab(m, n), i).mem = m
          /\ Take(NewSlab(m, n), i).availible = (0 .. n - 1) \ {i}
      BY ONLY <2>3, <3>1, <3>2, m \in Mems, TakeFromNew
    <3> QED BY <2>1, <2>2, <3>3
  <2>5. /\ DOMAIN slabsFree' = Stores /\ DOMAIN slabsPart' = Stores
        /\ DOMAIN slabsFull' = Stores
        /\ slabsFree'[c] = f /\ slabsPart'[c] = q /\ slabsFull'[c] = l
        /\ count'[c] = n
        /\ \A d \in Stores \ {c} : /\ slabsFree'[d] = slabsFree[d]
                                   /\ slabsPart'[d] = slabsPart[d]
                                   /\ slabsFull'[d] = slabsFull[d]
                                   /\ count'[d] = count[d]
    BY <1>1, <1>2, <1>4, <2>2
  <2>6. /\ Lists' /\ SlabsOf(c)' = All(f, q, l)
        /\ SlabCount(c)' = Len(f) + Len(q) + Len(l)
        /\ \A d \in Stores \ {c} : SlabsOf(d)' = SlabsOf(d) /\ SlabCount(d)' = SlabCount(d)
    <3>1. Tidy(f, q, l, count'[c])
      BY <2>4, <2>5
    <3> QED BY ONLY <1>2, <2>5, <3>1, c \in Stores, ListsStep
  <2>7. SlabCount(c)' = SlabCount(c) + 1
    <3>1. SlabCount(c) = Len(f) + Len(p) + Len(l)
      BY <1>1 DEF SlabCount
    <3>2. Len(f) = 0 /\ Len(p) = 0 /\ Len(l) \in Nat
      BY <1>2, <2>2, EmptyIs, TidyFacts
    <3> QED BY <2>4, <2>6, <3>1, <3>2
  <2>8. heap' = heap \cup {m}
    BY <2>2, NothingDeleted
  <2>9. /\ myCapacity'[c] = (myCapacity[c] + count[c]) % Modulus
        /\ myCapacity' \in [Stores -> 0 .. Modulus - 1]
        /\ \A d \in Stores \ {c} : myCapacity'[d] = myCapacity[d]
    <3>1. PICK k : k = myCapacity[c] + n
      OBVIOUS
    <3>2. /\ myCapacity \in [Stores -> 0 .. Modulus - 1]
          /\ myCapacity[c] \in 0 .. Modulus - 1
      BY CounterFacts DEF Core
    <3>3. k \in Int
      BY <1>2, <3>1, <3>2
    <3>4. myCapacity' = [myCapacity EXCEPT ![c] = k % Modulus]
      BY <2>2, <3>1
    <3> QED BY <1>1, <3>1, <3>2, <3>3, <3>4, CounterStep
  <2>10. Only(c)
    BY <1>4, <1>5, <2>5, <2>6, <2>9 DEF Only
  <2>11. Added(c, m, t)
    BY <1>2, <1>4, <2>2, <2>4, <2>6, <2>7, <2>8, <2>9, <2>10 DEF Added
  <2> QED BY <1>2, <1>5, <2>2, <2>4, <2>11
<1> QED BY <1>6, <1>7, <1>8, <1>9 DEF AllocateIn

\* How a call to deallocate() ends.
LEMMA DeallocateIs ==
  ASSUME Core, NEW c \in Stores, NEW m, NEW i \in Indices(c), DeallocateIn(c, m, i)
  PROVE  /\ mySize'[c] = (mySize[c] - 1) % Modulus /\ mySize' \in [Stores -> 0 .. Modulus - 1]
         /\ \E s \in SlabsOf(c) : \E t : /\ s.mem = m /\ t.availible = s.availible \cup {i}
                                         /\ Turned(c, s, t)
<1>1. PICK f, p, l, n : /\ f = slabsFree[c] /\ p = slabsPart[c] /\ l = slabsFull[c]
                        /\ n = count[c]
  OBVIOUS
<1>2. /\ Lists /\ Tidy(f, p, l, n) /\ SlabsOf(c) = All(f, p, l) /\ n \in Nat
      /\ DOMAIN slabsFree = Stores /\ DOMAIN slabsPart = Stores /\ DOMAIN slabsFull = Stores
      /\ DOMAIN mySize = Stores
      /\ i \in 0 .. n - 1 /\ Indices(c) = 0 .. n - 1
  BY <1>1, ListFacts, CounterFacts DEF Core, Lists, Indices
<1>3. /\ p \in Seq(SlabOf(n)) /\ l \in Seq(SlabOf(n))
  BY <1>2 DEF Tidy
<1>4. /\ DOMAIN p = 1 .. Len(p) /\ Range(p) = {p[k] : k \in 1 .. Len(p)}
      /\ DOMAIN l = 1 .. Len(l) /\ Range(l) = {l[k] : k \in 1 .. Len(l)}
      /\ Range(p) \subseteq SlabOf(n) /\ Range(l) \subseteq SlabOf(n)
  BY <1>3, RangeIs
<1>5. /\ mySize' = [mySize EXCEPT ![c] = (@ - 1) % Modulus]
      /\ UNCHANGED <<count, emptied, overrun, myCapacity>>
  BY DEF DeallocateIn, DeallocateToFull, DeallocateToPart, PutBack
<1>6. /\ mySize'[c] = (mySize[c] - 1) % Modulus /\ mySize' \in [Stores -> 0 .. Modulus - 1]
      /\ \A d \in Stores \ {c} : mySize'[d] = mySize[d]
  <2>1. PICK k : k = mySize[c] - 1
    OBVIOUS
  <2>2. /\ mySize \in [Stores -> 0 .. Modulus - 1] /\ k \in Int
        /\ mySize' = [mySize EXCEPT ![c] = k % Modulus]
    BY <1>5, <2>1, CounterFacts DEF Core
  <2> QED BY <2>1, <2>2, CounterStep
<1>7. ASSUME DeallocateToFull(c, m, i)
      PROVE  \E s \in SlabsOf(c) : \E t : /\ s.mem = m /\ t.availible = s.availible \cup {i}
                                          /\ Turned(c, s, t)
  <2>1. PICK k \in 1 .. Len(l) :
          /\ l[k].mem = m
          /\ slabsPart' = [slabsPart EXCEPT ![c] = Append(p, GiveBack(l[k], i))]
          /\ slabsFull' = [slabsFull EXCEPT ![c] = SwapPop(l, k)]
          /\ heap' = heap \ DeletedBy({MovedFrom(l[k])})
          /\ UNCHANGED slabsFree
    BY <1>1, <1>4, <1>7 DEF DeallocateToFull
  <2>2. PICK s, t, q, r : /\ s = l[k] /\ t = GiveBack(s, i)
                          /\ q = Append(p, t) /\ r = SwapPop(l, k)
    OBVIOUS
  <2>3. Turns(f, p, l, n, s, t, f, q, r)
    BY <1>2, <2>2, GiveToFull
  <2>4. /\ slabsPart'[c] = q /\ DOMAIN slabsPart' = Stores
        /\ slabsFull'[c] = r /\ DOMAIN slabsFull' = Stores
        /\ \A d \in Stores \ {c} : /\ slabsPart'[d] = slabsPart[d]
                                   /\ slabsFull'[d] = slabsFull[d]
    BY <1>2, <2>1, <2>2
  <2>5. heap' = heap
    BY <2>1, NothingDeleted
  <2>6. Turned(c, s, t)
    BY <1>1, <1>2, <1>5, <1>6, <2>1, <2>3, <2>4, <2>5, TurnsIsTurned
  <2>7. s \in SlabOf(n)
    BY <1>4, <2>2
  <2>8. t.availible = s.availible \cup {i}
    <3>1. i \in 0 .. n - 1 /\ t = GiveBack(s, i)
      BY <1>2, <2>2
    <3> QED BY ONLY <2>7, <3>1, SlabFacts
  <2> QED BY <2>1, <2>2, <2>6, <2>8 DEF Turned
<1>8. ASSUME DeallocateToPart(c, m, i)
      PROVE  \E s \in SlabsOf(c) : \E t : /\ s.mem = m /\ t.availible = s.availible \cup {i}
                                          /\ Turned(c, s, t)
  <2>1. PICK k \in 1 .. Len(p) :
          /\ GiveBack(p[k], i).mem = m
          /\ UNCHANGED slabsFull
          /\ \/ /\ GiveBack(p[k], i).availible # Indices(c)
                /\ slabsPart' = [slabsPart EXCEPT ![c][k] = GiveBack(p[k], i)]
                /\ UNCHANGED <<slabsFree, heap>>
             \/ /\ GiveBack(p[k], i).availible = Indices(c)
                /\ slabsFree' = [slabsFree EXCEPT ![c] = Append(f, GiveBack(p[k], i))]
                /\ slabsPart' = [slabsPart EXCEPT ![c] = SwapPop(p, k)]
                /\ heap' = heap \ DeletedBy({MovedFrom(GiveBack(p[k], i))})
    BY <1>1, <1>4, <1>8 DEF DeallocateToPart
  <2>2. PICK s, t : s = p[k] /\ t = GiveBack(s, i)
    OBVIOUS
  <2>3. s \in SlabOf(n)
    BY <1>4, <2>2
  <2>4. t.availible = s.availible \cup {i} /\ t.mem = s.mem /\ s.mem = m
    BY <1>2, <2>1, <2>2, <2>3, SlabFacts
  <2>5. CASE t.availible # 0 .. n - 1
    <3>1. PICK q : q = [p EXCEPT ![k] = t]
      OBVIOUS
    <3>2. slabsPart' = [slabsPart EXCEPT ![c] = q] /\ UNCHANGED <<slabsFree, heap>>
      BY <1>1, <1>2, <2>1, <2>2, <2>5, <3>1
    <3>3. Turns(f, p, l, n, s, t, f, q, l)
      BY <1>2, <2>2, <2>5, <3>1, GiveToPart
    <3>4. /\ slabsPart'[c] = q /\ DOMAIN slabsPart' = Stores
          /\ \A d \in Stores \ {c} : slabsPart'[d] = slabsPart[d]
      BY <1>2, <3>2
    <3>5. Turned(c, s, t)
      BY <1>1, <1>2, <1>5, <1>6, <2>1, <3>2, <3>3, <3>4, TurnsIsTurned
    <3> QED BY <2>4, <3>5 DEF Turned
  <2>6. CASE t.availible = 0 .. n - 1
    <3>1. PICK g, q : g = Append(f, t) /\ q = SwapPop(p, k)
      OBVIOUS
    <3>2. /\ slabsFree' = [slabsFree EXCEPT ![c] = g]
          /\ slabsPart' = [slabsPart EXCEPT ![c] = q]
          /\ heap' = heap \ DeletedBy({MovedFrom(t)})
      BY <1>2, <2>1, <2>2, <2>6, <3>1
    <3>3. Turns(f, p, l, n, s, t, g, q, l)
      BY <1>2, <2>2, <2>6, <3>1, GiveLastToPart
    <3>4. /\ slabsPart'[c] = q /\ DOMAIN slabsPart' = Stores
          /\ slabsFree'[c] = g /\ DOMAIN slabsFree' = Stores
          /\ \A d \in Stores \ {c} : /\ slabsPart'[d] = slabsPart[d]
                                     /\ slabsFree'[d] = slabsFree[d]
      BY <1>2, <3>2
    <3>5. heap' = heap
      BY <3>2, NothingDeleted
    <3>6. Turned(c, s, t)
      BY <1>1, <1>2, <1>5, <1>6, <2>1, <3>3, <3>4, <3>5, TurnsIsTurned
    <3> QED BY <2>4, <3>6 DEF Turned
  <2> QED BY <2>5, <2>6
<1> QED BY <1>6, <1>7, <1>8 DEF DeallocateIn

\* freeAll()
LEMMA FreeAllIs ==
  ASSUME Core, NEW c \in Stores, FreeAllIn(c)
  PROVE  /\ Lists' /\ Only(c) /\ UNCHANGED <<count, overrun>>
         /\ SlabsOf(c)' = {} /\ SlabCount(c)' = 0
         /\ heap' = heap \ MemsOf(c) /\ emptied' = emptied \ {c}
         /\ mySize'[c] = 0 /\ mySize' \in [Stores -> 0 .. Modulus - 1]
         /\ myCapacity'[c] = 0 /\ myCapacity' \in [Stores -> 0 .. Modulus - 1]
<1>1. PICK e : e = <<>>
  OBVIOUS
<1>2. /\ Lists /\ DOMAIN slabsFree = Stores /\ DOMAIN slabsPart = Stores
      /\ DOMAIN slabsFull = Stores /\ 0 \in 0 .. Modulus - 1
      /\ mySize \in [Stores -> 0 .. Modulus - 1]
      /\ myCapacity \in [Stores -> 0 .. Modulus - 1]
  BY CounterFacts DEF Core, Lists
<1>3. /\ slabsFree' = [slabsFree EXCEPT ![c] = e]
      /\ slabsPart' = [slabsPart EXCEPT ![c] = e]
      /\ slabsFull' = [slabsFull EXCEPT ![c] = e]
      /\ myCapacity' = [myCapacity EXCEPT ![c] = 0]
      /\ mySize' = [mySize EXCEPT ![c] = 0]
      /\ heap' = heap \ DeletedBy(SlabsOf(c))
      /\ emptied' = emptied \ {c}
      /\ UNCHANGED <<count, overrun>>
  BY <1>1 DEF FreeAllIn
<1>4. /\ Tidy(e, e, e, count'[c]) /\ All(e, e, e) = {}
      /\ Len(e) + Len(e) + Len(e) = 0
  <2>1. Tidy(<<>>, <<>>, <<>>, count'[c]) /\ All(<<>>, <<>>, <<>>) = {}
    BY FewSlabs
  <2> QED BY <1>1, <2>1, EmptyIs
<1>5. /\ DOMAIN slabsFree' = Stores /\ DOMAIN slabsPart' = Stores
      /\ DOMAIN slabsFull' = Stores
      /\ slabsFree'[c] = e /\ slabsPart'[c] = e /\ slabsFull'[c] = e
      /\ \A d \in Stores \ {c} : /\ slabsFree'[d] = slabsFree[d]
                                 /\ slabsPart'[d] = slabsPart[d]
                                 /\ slabsFull'[d] = slabsFull[d]
                                 /\ count'[d] = count[d]
  BY <1>2, <1>3
<1>6. /\ Lists' /\ SlabsOf(c)' = All(e, e, e)
      /\ SlabCount(c)' = Len(e) + Len(e) + Len(e)
      /\ \A d \in Stores \ {c} : SlabsOf(d)' = SlabsOf(d) /\ SlabCount(d)' = SlabCount(d)
  BY ONLY <1>2, <1>4, <1>5, c \in Stores, ListsStep
<1>7. Only(c)
  BY <1>2, <1>3, <1>6 DEF Only
<1>8. heap' = heap \ MemsOf(c)
  <2>1. \A s \in SlabsOf(c) : s.mem \in Mems
    BY <1>2, ListFacts
  <2> QED BY <1>3, <2>1, NothingDeleted DEF MemsOf
<1> QED BY <1>2, <1>3, <1>4, <1>6, <1>7, <1>8

\* freeEmpty()
LEMMA FreeEmptyIs ==
  ASSUME Core, NEW c \in Stores, FreeEmptyIn(c)
  PROVE  /\ Lists' /\ Only(c) /\ UNCHANGED <<count, overrun, mySize>>
         /\ SlabsOf(c)' \subseteq SlabsOf(c)
         /\ \A s \in SlabsOf(c) \ SlabsOf(c)' : s.availible = Indices(c)
         /\ heap' = heap \ {s.mem : s \in SlabsOf(c) \ SlabsOf(c)'}
         /\ emptied' = emptied \cup {c}
         /\ myCapacity' \in [Stores -> 0 .. Modulus - 1]
<1>1. PICK f, p, l, n, e : /\ f = slabsFree[c] /\ p = slabsPart[c] /\ l = slabsFull[c]
                           /\ n = count[c] /\ e = <<>>
  OBVIOUS
<1>2. /\ Lists /\ Tidy(f, p, l, n) /\ SlabsOf(c) = All(f, p, l) /\ n \in Nat
      /\ DOMAIN slabsFree = Stores /\ DOMAIN mySize = Stores /\ DOMAIN myCapacity = Stores
      /\ DOMAIN slabsPart = Stores /\ DOMAIN slabsFull = Stores
      /\ myCapacity[c] \in Nat /\ Indices(c) = 0 .. n - 1
  BY <1>1, ListFacts, CounterFacts DEF Core, Lists, Indices
<1>3. /\ slabsFree' = [slabsFree EXCEPT ![c] = e]
      /\ myCapacity' = [myCapacity EXCEPT ![c] = (@ - Len(f) * BlockSize[c]) % Modulus]
      /\ heap' = heap \ DeletedBy(Range(f))
      /\ emptied' = emptied \cup {c}
      /\ UNCHANGED <<count, slabsPart, slabsFull, mySize, overrun>>
  BY <1>1 DEF FreeEmptyIn
<1>4. /\ Tidy(e, p, l, n) /\ All(e, p, l) = {s \in All(f, p, l) : s \notin Range(f)}
  BY <1>1, <1>2, WithoutFree
<1>5. /\ DOMAIN slabsFree' = Stores /\ DOMAIN slabsPart' = Stores
      /\ DOMAIN slabsFull' = Stores
      /\ slabsFree'[c] = e /\ slabsPart'[c] = p /\ slabsFull'[c] = l
      /\ \A d \in Stores \ {c} : /\ slabsFree'[d] = slabsFree[d]
                                 /\ slabsPart'[d] = slabsPart[d]
                                 /\ slabsFull'[d] = slabsFull[d]
                                 /\ count'[d] = count[d]
  BY <1>1, <1>2, <1>3
<1>6. Tidy(e, p, l, count'[c])
  BY <1>1, <1>3, <1>4
<1>7. /\ Lists' /\ SlabsOf(c)' = All(e, p, l)
      /\ \A d \in Stores \ {c} : SlabsOf(d)' = SlabsOf(d) /\ SlabCount(d)' = SlabCount(d)
  BY ONLY <1>2, <1>5, <1>6, c \in Stores, ListsStep
<1>8. Only(c)
  BY <1>2, <1>3, <1>7 DEF Only
<1>9. SlabsOf(c) \ SlabsOf(c)' = Range(f) /\ SlabsOf(c)' \subseteq SlabsOf(c)
  BY <1>2, <1>4, <1>7 DEF All
<1>10. \A s \in Range(f) : s.availible = Indices(c)
  BY <1>2 DEF Tidy
<1>11. heap' = heap \ {s.mem : s \in Range(f)}
  <2>1. \A s \in Range(f) : s.mem \in Mems
    BY <1>2, <1>9, ListFacts
  <2> QED BY <1>3, <2>1, NothingDeleted
<1>12. /\ myCapacity' \in [Stores -> 0 .. Modulus - 1]
       /\ \A d \in Stores \ {c} : myCapacity'[d] = myCapacity[d]
  <2>1. Len(f) \in Nat /\ BlockSize[c] \in Nat
    BY <1>2, TidyFacts, SizesAssumption
  <2>2. PICK k : k = myCapacity[c] - Len(f) * BlockSize[c]
    OBVIOUS
  <2>3. k \in Int
    BY <1>2, <2>1, <2>2
  <2>4. myCapacity' = [myCapacity EXCEPT ![c] = k % Modulus]
    BY <1>3, <2>2
  <2>5. myCapacity \in [Stores -> 0 .. Modulus - 1]
    BY CounterFacts DEF Core
  <2> QED BY <2>3, <2>4, <2>5, CounterStep
<1> QED BY <1>3, <1>7, <1>8, <1>9, <1>10, <1>11, <1>12

\* A cache that takes the place of the one that was there.
LEMMA NewCacheIs ==
  ASSUME Core, NEW c \in Stores, NEW n \in 0 .. Modulus - 1, NEW m \in Mems,
         NewCacheIn(c, n, m)
  PROVE  /\ Lists' /\ Only(c) /\ UNCHANGED overrun /\ m \notin heap /\ overrun = {}
         /\ SlabsOf(c)' = {NewSlab(m, n)} /\ SlabCount(c)' = 1
         /\ heap' = (heap \cup {m}) \ MemsOf(c) /\ emptied' = emptied \ {c}
         /\ mySize'[c] = 0 /\ mySize' \in [Stores -> 0 .. Modulus - 1]
         /\ myCapacity'[c] = n /\ myCapacity' \in [Stores -> 0 .. Modulus - 1]
         /\ count'[c] = n /\ count' \in [Stores -> Nat]
<1>1. PICK e, f : e = <<>> /\ f = <<NewSlab(m, n)>>
  OBVIOUS
<1>2. /\ Lists /\ DOMAIN slabsFree = Stores /\ DOMAIN slabsPart = Stores
      /\ DOMAIN slabsFull = Stores /\ 0 \in 0 .. Modulus - 1
      /\ mySize \in [Stores -> 0 .. Modulus - 1]
      /\ myCapacity \in [Stores -> 0 .. Modulus - 1]
      /\ count \in [Stores -> Nat] /\ n \in Nat
  BY CounterFacts DEF Core, Lists
<1>3. /\ slabsFree' = [slabsFree EXCEPT ![c] = f]
      /\ slabsPart' = [slabsPart EXCEPT ![c] = e]
      /\ slabsFull' = [slabsFull EXCEPT ![c] = e]
      /\ count' = [count EXCEPT ![c] = n]
      /\ myCapacity' = [myCapacity EXCEPT ![c] = n]
      /\ mySize' = [mySize EXCEPT ![c] = 0]
      /\ heap' = (heap \cup {m}) \ DeletedBy(SlabsOf(c))
      /\ emptied' = emptied \ {c}
      /\ m \in Mems \ heap /\ overrun = {} /\ UNCHANGED overrun
  BY <1>1 DEF NewCacheIn, Unused
<1>4. /\ Tidy(f, e, e, n) /\ All(f, e, e) = {NewSlab(m, n)}
      /\ Len(f) + Len(e) + Len(e) = 1
  <2>1. /\ Tidy(<<NewSlab(m, n)>>, <<>>, <<>>, n)
        /\ All(<<NewSlab(m, n)>>, <<>>, <<>>) = {NewSlab(m, n)}
        /\ Len(<<NewSlab(m, n)>>) = 1
    BY FewSlabs
  <2> QED BY <1>1, <2>1, EmptyIs
<1>5. /\ DOMAIN slabsFree' = Stores /\ DOMAIN slabsPart' = Stores
      /\ DOMAIN slabsFull' = Stores
      /\ slabsFree'[c] = f /\ slabsPart'[c] = e /\ slabsFull'[c] = e
      /\ count'[c] = n
      /\ \A d \in Stores \ {c} : /\ slabsFree'[d] = slabsFree[d]
                                 /\ slabsPart'[d] = slabsPart[d]
                                 /\ slabsFull'[d] = slabsFull[d]
                                 /\ count'[d] = count[d]
  BY <1>2, <1>3
<1>6. Tidy(f, e, e, count'[c])
  BY <1>4, <1>5
<1>7. /\ Lists' /\ SlabsOf(c)' = All(f, e, e)
      /\ SlabCount(c)' = Len(f) + Len(e) + Len(e)
      /\ \A d \in Stores \ {c} : SlabsOf(d)' = SlabsOf(d) /\ SlabCount(d)' = SlabCount(d)
  <2>1. Lists
    BY <1>2
  <2> QED BY ONLY <1>5, <1>6, <2>1, c \in Stores, ListsStep
<1>8. Only(c)
  BY <1>2, <1>3, <1>7 DEF Only
<1>9. heap' = (heap \cup {m}) \ MemsOf(c)
  <2>1. \A s \in SlabsOf(c) : s.mem \in Mems
    BY <1>2, ListFacts
  <2> QED BY <1>3, <2>1, NothingDeleted DEF MemsOf
<1> QED BY <1>2, <1>3, <1>4, <1>7, <1>8, <1>9

-----------------------------------------------------------------------------
(* Whose a block is.                                                        *)

\* The blocks that callers hold in cache c of SlabMem.
HeldBy(c) == {p \in Held : Serves(c, p.bytes)}

LEMMA OneServes ==
  ASSUME NEW c \in Caches, NEW d \in Caches, NEW bytes, Serves(c, bytes), Serves(d, bytes)
  PROVE  c = d
<1>1. c \in Nat /\ d \in Nat
  BY BucketsAssumption DEF Caches
<1>2. c <= d /\ d <= c
  BY DEF Serves, Served
<1> QED BY <1>1, <1>2

LEMMA HeldFacts ==
  ASSUME Core
  PROVE  /\ \A c \in Stores, p \in Held :
              p.mem \in MemsOf(c) => c \in Caches /\ Serves(c, p.bytes)
         /\ \A c \in Caches, p \in Held :
              Serves(c, p.bytes) => /\ p.mem \in MemsOf(c) /\ p.idx \in Indices(c)
                                    /\ p \notin LargeBlocks
         /\ \A o \in out : /\ o.mem \in MemsOf(Pool) /\ o.idx \in Indices(Pool)
                           /\ o = Object(o.mem, o.idx)
         /\ \A p \in Held : /\ p \in [mem : Mems, idx : Nat, bytes : Requests]
                            /\ p.mem \in heap
         /\ \A c \in Stores : MemsOf(c) \subseteq heap
         /\ heap \subseteq Mems
         /\ \A c \in Caches : c \in Stores /\ c # Pool
         /\ Pool \in Stores
<1>1. /\ \A c \in Caches : c \in Stores /\ c # Pool
      /\ Pool \in Stores
  BY PoolAssumption
<1>2. /\ \A c, d \in Stores : c # d => MemsOf(c) \cap MemsOf(d) = {}
      /\ \A c \in Stores, p \in LargeBlocks : p.mem \notin MemsOf(c)
      /\ \A c \in Stores : MemsOf(c) \subseteq heap
      /\ \A p \in LargeBlocks : p.mem \in heap
  <2>1. Places
    BY DEF Core
  <2>2. heap = (UNION {MemsOf(c) : c \in Stores}) \cup {p.mem : p \in LargeBlocks}
    BY <2>1 DEF Places
  <2>3. \A c \in Stores : MemsOf(c) \subseteq heap
    BY <2>2
  <2>4. \A p \in LargeBlocks : p.mem \in heap
    BY <2>2
  <2> QED BY <2>1, <2>3, <2>4 DEF Places
<1>3. /\ \A p \in Held \ LargeBlocks : \E c \in Caches :
           Serves(c, p.bytes) /\ p.mem \in MemsOf(c)
      /\ \A c \in Caches, p \in Held : p.mem \in MemsOf(c) => p.idx \in Indices(c)
  BY DEF Core, Blocks, BlocksAccounted
<1>4. ASSUME NEW c \in Stores, NEW p \in Held, p.mem \in MemsOf(c)
      PROVE  c \in Caches /\ Serves(c, p.bytes)
  <2>1. p \notin LargeBlocks
    BY <1>2, <1>4
  <2>2. PICK d \in Caches : Serves(d, p.bytes) /\ p.mem \in MemsOf(d)
    BY <1>3, <2>1
  <2>3. c = d
    BY <1>1, <1>2, <1>4, <2>2
  <2> QED BY <2>2, <2>3
<1>5. ASSUME NEW c \in Caches, NEW p \in Held, Serves(c, p.bytes)
      PROVE  p.mem \in MemsOf(c) /\ p.idx \in Indices(c) /\ p \notin LargeBlocks
  <2>1. p \notin LargeBlocks
    BY <1>5 DEF Serves, LargeBlocks
  <2>2. PICK d \in Caches : Serves(d, p.bytes) /\ p.mem \in MemsOf(d)
    BY <1>3, <2>1
  <2>3. c = d
    BY <1>5, <2>2, OneServes
  <2> QED BY <1>3, <2>1, <2>2, <2>3
<1>6. \A o \in out : /\ o.mem \in MemsOf(Pool) /\ o.idx \in Indices(Pool)
                     /\ o = Object(o.mem, o.idx)
  BY DEF Core, Objects, Object
<1>7. ASSUME NEW p \in Held
      PROVE  /\ p \in [mem : Mems, idx : Nat, bytes : Requests] /\ p.mem \in heap
  <2>1. p \in [mem : Mems, idx : Nat, bytes : Requests]
    BY DEF Core, TypeOK, Held
  <2>2. p.mem \in heap
    BY <1>1, <1>2, <1>3
  <2> QED BY <2>1, <2>2
<1>8. heap \subseteq Mems
  BY DEF Core, TypeOK, HelperTypeOK
<1> QED BY <1>1, <1>2, <1>4, <1>5, <1>6, <1>7, <1>8

\* No caller has a block in memory that is not in use, and the blocks of the
\* pool are not for SlabMem's callers.
LEMMA BusyFacts ==
  ASSUME Core
  PROVE  /\ \A m, i : Busy(m, i) => m \in heap
         /\ \A m \in MemsOf(Pool) : \A i : Busy(m, i) <=> Object(m, i) \in out
         /\ \A c \in Caches : \A m \in MemsOf(c) : \A i :
              /\ Object(m, i) \notin out
              /\ Busy(m, i) <=> \E p \in Held : p.mem = m /\ p.idx = i
         /\ \A c \in Stores : \A s \in SlabsOf(c) :
              s.availible = {i \in Indices(c) : ~Busy(s.mem, i)}
<1>1. /\ Pool \notin Caches /\ Pool \in Stores /\ Caches \subseteq Stores
      /\ \A c \in Stores : MemsOf(c) \subseteq heap
      /\ \A o \in out : o.mem \in MemsOf(Pool)
      /\ \A c \in Stores, p \in Held : p.mem \in MemsOf(c) => c \in Caches
      /\ \A p \in Held : p.mem \in heap
  BY HeldFacts
<1>2. \A c \in Caches : MemsOf(c) \cap MemsOf(Pool) = {}
  BY <1>1 DEF Core, Places
<1>3. \A m, i : Object(m, i) \in out => m \in MemsOf(Pool)
  <2>1. \A m, i : Object(m, i).mem = m
    BY DEF Object
  <2> QED BY <1>1, <2>1
<1>4. \A c \in Stores : \A s \in SlabsOf(c) :
        s.availible = {i \in Indices(c) : ~Busy(s.mem, i)}
  BY DEF Core, Blocks, BlocksAccounted, Busy
<1> QED BY <1>1, <1>2, <1>3, <1>4 DEF Busy

-----------------------------------------------------------------------------
(* How many blocks there are.                                               *)

LEMMA Product ==
  ASSUME NEW a \in Nat, NEW b \in Nat, NEW c \in Nat, a <= b
  PROVE  a * c <= b * c
OBVIOUS

LEMMA Interval ==
  ASSUME NEW n \in Nat
  PROVE  IsFiniteSet(0 .. n - 1) /\ Cardinality(0 .. n - 1) = n
<1>1. 0 \in Int /\ n - 1 \in Int
  OBVIOUS
<1>2. /\ IsFiniteSet(0 .. n - 1)
      /\ Cardinality(0 .. n - 1) = IF 0 > n - 1 THEN 0 ELSE (n - 1) - 0 + 1
  BY <1>1, FS_Interval
<1> QED BY <1>2

\* Places in memory, no two the same.
LEMMA FewPlaces ==
  ASSUME NEW M, NEW I, NEW S, IsFiniteSet(M), IsFiniteSet(I),
         \A x \in S : x.mem \in M /\ x.idx \in I,
         \A x, y \in S : x.mem = y.mem /\ x.idx = y.idx => x = y
  PROVE  IsFiniteSet(S) /\ Cardinality(S) <= Cardinality(M) * Cardinality(I)
<1>1. PICK f, T : f = [x \in S |-> <<x.mem, x.idx>>] /\ T = M \X I
  OBVIOUS
<1>2. f \in Injection(S, T)
  BY <1>1 DEF Injection, IsInjective
<1>3. IsFiniteSet(T) /\ Cardinality(T) = Cardinality(M) * Cardinality(I)
  BY <1>1, FS_Product
<1>4. IsFiniteSet(S) /\ Cardinality(S) <= Cardinality(T)
  BY ONLY <1>2, <1>3, FS_Injection
<1> QED BY <1>3, <1>4

\* All the places there are.
LEMMA AllPlaces ==
  ASSUME NEW M, NEW I, IsFiniteSet(M), IsFiniteSet(I)
  PROVE  Cardinality({Object(m, i) : m \in M, i \in I}) = Cardinality(M) * Cardinality(I)
<1> DEFINE S == {Object(m, i) : m \in M, i \in I}
<1>1. \A x : x \in S <=> \E m \in M, i \in I : x = Object(m, i)
  OBVIOUS
<1> HIDE DEF S
<1>2. PICK f : f = [x \in S |-> <<x.mem, x.idx>>]
  OBVIOUS
<1>3. \A x \in S : x.mem \in M /\ x.idx \in I /\ x = Object(x.mem, x.idx)
  BY <1>1 DEF Object
<1>4. f \in Injection(S, M \X I)
  BY <1>2, <1>3 DEF Injection, IsInjective
<1>5. f \in Surjection(S, M \X I)
  <2>1. ASSUME NEW t \in M \X I
        PROVE  \E x \in S : f[x] = t
    <3>1. PICK m \in M, i \in I : t = <<m, i>>
      BY <2>1
    <3>2. Object(m, i) \in S /\ Object(m, i).mem = m /\ Object(m, i).idx = i
      BY <1>1 DEF Object
    <3> QED BY <1>2, <3>1, <3>2
  <2>2. f \in [S -> M \X I]
    BY <1>4 DEF Injection
  <2> QED BY <2>1, <2>2 DEF Surjection
<1>6. IsFiniteSet(M \X I) /\ Cardinality(M \X I) = Cardinality(M) * Cardinality(I)
  BY FS_Product
<1>7. Cardinality(S) = Cardinality(M \X I)
  <2>1. PICK T : T = M \X I
    OBVIOUS
  <2>2. f \in Injection(S, T) /\ f \in Surjection(S, T) /\ IsFiniteSet(T)
    BY <1>4, <1>5, <1>6, <2>1
  <2>3. Cardinality(S) = Cardinality(T)
    BY ONLY <2>2, FS_Injection
  <2> QED BY <2>1, <2>3
<1> QED BY <1>6, <1>7 DEF S

\* There are not too many to count.
Few ==
  /\ \A c \in Caches : IsFiniteSet(HeldBy(c)) /\ Cardinality(HeldBy(c)) \in 0 .. Modulus - 1
  /\ IsFiniteSet(out) /\ Cardinality(out) \in 0 .. Modulus - 1
  /\ \A c \in Stores : /\ Cardinality(MemsOf(c)) = SlabCount(c)
                       /\ count[c] * SlabCount(c) \in 0 .. Modulus - 1
                       /\ count[c] \in 0 .. Modulus - 1 \/ MemsOf(c) = {}
  /\ Cardinality(objects) = count[Pool] * SlabCount(Pool)

LEMMA CoreIsFew == Core => Few
<1> SUFFICES ASSUME Core PROVE Few
  OBVIOUS
<1>1. /\ Lists /\ Modulus \in Nat /\ IsFiniteSet(Mems) /\ Cardinality(Mems) \in Nat
      /\ \A c \in Stores : /\ MemsOf(c) \subseteq Mems /\ IsFiniteSet(MemsOf(c))
                           /\ Cardinality(MemsOf(c)) = SlabCount(c)
                           /\ count[c] \in Nat
      /\ \A c \in Stores : Cardinality(Mems) * count[c] < Modulus
  BY ListFacts, CounterFacts, SpaceAssumption, FS_CardinalityType DEF Core, Space
<1>2. \A c \in Stores : IsFiniteSet(Indices(c)) /\ Cardinality(Indices(c)) = count[c]
  BY <1>1, Interval DEF Indices
<1>3. ASSUME NEW c \in Stores
      PROVE  SlabCount(c) \in Nat /\ SlabCount(c) * count[c] < Modulus
  <2>1. SlabCount(c) \in Nat /\ SlabCount(c) <= Cardinality(Mems)
    BY <1>1, FS_Subset, FS_CardinalityType
  <2>2. SlabCount(c) * count[c] <= Cardinality(Mems) * count[c]
    BY <1>1, <2>1, Product
  <2>3. SlabCount(c) * count[c] \in Nat /\ Cardinality(Mems) * count[c] \in Nat
    BY <1>1, <2>1
  <2> QED BY <1>1, <2>1, <2>2, <2>3
<1>4. ASSUME NEW c \in Stores, NEW S,
             \A x \in S : x.mem \in MemsOf(c) /\ x.idx \in Indices(c),
             \A x, y \in S : x.mem = y.mem /\ x.idx = y.idx => x = y
      PROVE  IsFiniteSet(S) /\ Cardinality(S) \in 0 .. Modulus - 1
  <2>1. IsFiniteSet(S) /\ Cardinality(S) <= Cardinality(MemsOf(c)) * Cardinality(Indices(c))
    BY <1>1, <1>2, <1>4, FewPlaces
  <2>2. Cardinality(S) \in Nat
    BY <2>1, FS_CardinalityType
  <2>3. Cardinality(S) <= SlabCount(c) * count[c] /\ SlabCount(c) * count[c] \in Nat
    BY <1>1, <1>2, <1>3, <2>1
  <2> QED BY <1>1, <1>3, <2>1, <2>2, <2>3
<1>5. ASSUME NEW c \in Caches
      PROVE  IsFiniteSet(HeldBy(c)) /\ Cardinality(HeldBy(c)) \in 0 .. Modulus - 1
  <2>1. c \in Stores /\ \A p \in HeldBy(c) : p.mem \in MemsOf(c) /\ p.idx \in Indices(c)
    BY HeldFacts DEF HeldBy
  <2>2. \A p, q \in HeldBy(c) : p.mem = q.mem /\ p.idx = q.idx => p = q
    BY DEF HeldBy, Core, Blocks, BlocksAccounted
  <2> QED BY <1>4, <2>1, <2>2
<1>6. IsFiniteSet(out) /\ Cardinality(out) \in 0 .. Modulus - 1
  <2>1. /\ Pool \in Stores
        /\ \A o \in out : /\ o.mem \in MemsOf(Pool) /\ o.idx \in Indices(Pool)
                          /\ o = Object(o.mem, o.idx)
    BY HeldFacts
  <2> QED BY <1>4, <2>1
<1>7. Cardinality(objects) = count[Pool] * SlabCount(Pool)
  <2>1. Pool \in Stores
    BY HeldFacts
  <2>2. Cardinality({Object(m, i) : m \in MemsOf(Pool), i \in Indices(Pool)})
          = Cardinality(MemsOf(Pool)) * Cardinality(Indices(Pool))
    BY <1>1, <1>2, <2>1, AllPlaces
  <2>3. objects = {Object(m, i) : m \in MemsOf(Pool), i \in Indices(Pool)}
    BY DEF Core, Objects
  <2> QED BY <1>1, <1>2, <1>3, <2>1, <2>2, <2>3
<1>8. ASSUME NEW c \in Stores, MemsOf(c) # {}
      PROVE  count[c] \in 0 .. Modulus - 1
  <2>1. Cardinality(Mems) >= 1
    <3>1. Mems # {}
      BY <1>1, <1>8
    <3> QED BY <1>1, <3>1, FS_EmptySet
  <2>2. 1 * count[c] <= Cardinality(Mems) * count[c]
    BY <1>1, <2>1, Product
  <2>3. Cardinality(Mems) * count[c] \in Nat
    BY <1>1
  <2> QED BY <1>1, <2>2, <2>3
<1>9. \A c \in Stores : count[c] * SlabCount(c) \in 0 .. Modulus - 1
  BY <1>1, <1>3
<1> QED BY <1>1, <1>5, <1>6, <1>7, <1>8, <1>9 DEF Few

\* What else the invariant says.
LEMMA Follows == Inv => HeapIsManaged /\ ObjectsLive /\ InRightList
<1> SUFFICES ASSUME Inv PROVE HeapIsManaged /\ ObjectsLive /\ InRightList
  OBVIOUS
<1>1. Core /\ CountersRight /\ Few
  BY CoreIsFew DEF Inv
<1>2. HeapIsManaged
  <2>1. Places
    BY <1>1 DEF Core
  <2>3. \A c \in Stores : Cardinality(MemsOf(c)) = SlabCount(c)
    BY <1>1 DEF Few
  <2> QED BY <2>1, <2>3 DEF Places, HeapIsManaged
<1>3. ObjectsLive
  <2>1. Pool \in Stores
    BY PoolAssumption
  <2> QED BY <1>1, <2>1 DEF Core, Objects, Few, CountersRight, ObjectsLive
<1>4. InRightList
  <2>1. \A c \in Stores : Tidy(slabsFree[c], slabsPart[c], slabsFull[c], count[c])
    BY <1>1, ListFacts DEF Core
  <2> QED BY <2>1 DEF Tidy, InRightList, Indices
<1> QED BY <1>2, <1>3, <1>4

-----------------------------------------------------------------------------
(* What the operations of a cache do to its blocks.                         *)

LEMMA OnlyFacts ==
  ASSUME NEW c \in Stores, Only(c)
  PROVE  \A d \in Stores \ {c} : /\ SlabsOf(d)' = SlabsOf(d) /\ MemsOf(d)' = MemsOf(d)
                                 /\ count'[d] = count[d] /\ Indices(d)' = Indices(d)
                                 /\ SlabCount(d)' = SlabCount(d)
                                 /\ mySize'[d] = mySize[d] /\ myCapacity'[d] = myCapacity[d]
                                 /\ d \in emptied' <=> d \in emptied
<1>1. \A d \in Stores \ {c} : /\ SlabsOf(d)' = SlabsOf(d) /\ count'[d] = count[d]
                              /\ SlabCount(d)' = SlabCount(d)
                              /\ mySize'[d] = mySize[d] /\ myCapacity'[d] = myCapacity[d]
                              /\ d \in emptied' <=> d \in emptied
  BY DEF Only
<1> QED BY <1>1 DEF MemsOf, Indices

\* Block i of memory m of cache c is given out.
Gained(c, m, i) ==
  /\ Lists' /\ Only(c) /\ UNCHANGED <<count, emptied, overrun>>
  /\ i \in Indices(c) /\ ~Busy(m, i)
  /\ MemsOf(c)' = MemsOf(c) \cup {m} /\ heap' = heap \cup {m}
  /\ m \in MemsOf(c) \/ m \notin heap
  /\ \A s \in SlabsOf(c)' :
       s.availible = {j \in Indices(c) : ~(Busy(s.mem, j) \/ (s.mem = m /\ j = i))}
  /\ mySize'[c] = (mySize[c] + 1) % Modulus /\ mySize' \in [Stores -> 0 .. Modulus - 1]
  /\ myCapacity' \in [Stores -> 0 .. Modulus - 1]
  /\ \/ myCapacity'[c] = myCapacity[c] /\ SlabCount(c)' = SlabCount(c)
     \/ /\ myCapacity'[c] = (myCapacity[c] + count[c]) % Modulus
        /\ SlabCount(c)' = SlabCount(c) + 1

LEMMA AllocateGains ==
  ASSUME Core, NEW c \in Stores, NEW m \in Mems, NEW i, AllocateIn(c, m, i)
  PROVE  Gained(c, m, i)
<1>1. /\ i \in Indices(c)
      /\ mySize'[c] = (mySize[c] + 1) % Modulus /\ mySize' \in [Stores -> 0 .. Modulus - 1]
  BY AllocateIs
<1>2. PICK t : /\ t.mem = m
               /\ \/ \E s \in SlabsOf(c) : /\ i \in s.availible
                                           /\ t.availible = s.availible \ {i}
                                           /\ Turned(c, s, t)
                  \/ t.availible = Indices(c) \ {i} /\ Added(c, m, t)
  BY AllocateIs
<1>3. /\ Lists /\ myCapacity \in [Stores -> 0 .. Modulus - 1]
      /\ \A s \in SlabsOf(c) : s.mem \in MemsOf(c)
      /\ \A r, s \in SlabsOf(c) : r.mem = s.mem => r = s
  BY ListFacts, CounterFacts DEF Core
<1>4. /\ \A n, j : Busy(n, j) => n \in heap
      /\ \A s \in SlabsOf(c) : s.availible = {j \in Indices(c) : ~Busy(s.mem, j)}
  BY BusyFacts
<1>5. MemsOf(c) \subseteq heap
  BY HeldFacts
<1>6. ASSUME NEW s \in SlabsOf(c), i \in s.availible,
             t.availible = s.availible \ {i}, Turned(c, s, t)
      PROVE  Gained(c, m, i)
  <2>1. /\ Lists' /\ Only(c) /\ t.mem = s.mem
        /\ SlabsOf(c)' = (SlabsOf(c) \ {s}) \cup {t}
        /\ SlabCount(c)' = SlabCount(c)
        /\ UNCHANGED <<heap, count, emptied, overrun, myCapacity>>
    BY <1>6 DEF Turned
  <2>2. ~Busy(m, i) /\ m \in MemsOf(c)
    BY <1>2, <1>3, <1>4, <1>6, <2>1
  <2>3. MemsOf(c)' = MemsOf(c)
    BY <2>1 DEF MemsOf
  <2>4. ASSUME NEW r \in SlabsOf(c)'
        PROVE  r.availible = {j \in Indices(c) : ~(Busy(r.mem, j) \/ (r.mem = m /\ j = i))}
    <3>1. CASE r = t
      BY <1>2, <1>4, <1>6, <2>1, <3>1
    <3>2. CASE r # t
      <4>1. r \in SlabsOf(c) /\ r # s
        BY <2>1, <3>2
      <4>2. r.mem # m
        BY <1>2, <1>3, <2>1, <4>1
      <4> QED BY <1>4, <4>1, <4>2
    <3> QED BY <3>1, <3>2
  <2>5. heap' = heap \cup {m} /\ MemsOf(c)' = MemsOf(c) \cup {m}
    BY <1>5, <2>1, <2>2, <2>3
  <2> QED BY <1>1, <1>3, <2>1, <2>2, <2>4, <2>5 DEF Gained
<1>7. ASSUME t.availible = Indices(c) \ {i}, Added(c, m, t)
      PROVE  Gained(c, m, i)
  <2>1. /\ Lists' /\ Only(c) /\ m \in Mems \ heap
        /\ SlabsOf(c)' = SlabsOf(c) \cup {t}
        /\ SlabCount(c)' = SlabCount(c) + 1
        /\ heap' = heap \cup {m}
        /\ myCapacity'[c] = (myCapacity[c] + count[c]) % Modulus
        /\ myCapacity' \in [Stores -> 0 .. Modulus - 1]
        /\ UNCHANGED <<count, emptied, overrun>>
    BY <1>7 DEF Added
  <2>2. MemsOf(c)' = MemsOf(c) \cup {m}
    BY <1>2, <2>1 DEF MemsOf
  <2>3. \A j : ~Busy(m, j)
    BY <1>4, <2>1
  <2>4. ASSUME NEW r \in SlabsOf(c)'
        PROVE  r.availible = {j \in Indices(c) : ~(Busy(r.mem, j) \/ (r.mem = m /\ j = i))}
    <3>1. CASE r = t
      BY <1>2, <1>7, <2>3, <3>1
    <3>2. CASE r # t
      <4>1. r \in SlabsOf(c)
        BY <2>1, <3>2
      <4>2. r.mem # m
        BY <1>3, <1>5, <2>1, <4>1
      <4> QED BY <1>4, <4>1, <4>2
    <3> QED BY <3>1, <3>2
  <2> QED BY <1>1, <2>1, <2>2, <2>3, <2>4 DEF Gained
<1> QED BY <1>2, <1>6, <1>7

\* Block i of memory m of cache c is given back.
Returned(c, m, i) ==
  /\ Lists' /\ Only(c) /\ UNCHANGED <<heap, count, emptied, overrun, myCapacity>>
  /\ MemsOf(c)' = MemsOf(c) /\ m \in MemsOf(c) /\ SlabCount(c)' = SlabCount(c)
  /\ \A s \in SlabsOf(c)' :
       s.availible = {j \in Indices(c) : ~Busy(s.mem, j) \/ (s.mem = m /\ j = i)}
  /\ mySize'[c] = (mySize[c] - 1) % Modulus /\ mySize' \in [Stores -> 0 .. Modulus - 1]

LEMMA DeallocateReturns ==
  ASSUME Core, NEW c \in Stores, NEW m, NEW i \in Indices(c), DeallocateIn(c, m, i)
  PROVE  Returned(c, m, i)
<1>1. mySize'[c] = (mySize[c] - 1) % Modulus /\ mySize' \in [Stores -> 0 .. Modulus - 1]
  BY DeallocateIs
<1>2. PICK s, t : /\ s \in SlabsOf(c) /\ s.mem = m
                  /\ t.availible = s.availible \cup {i} /\ Turned(c, s, t)
  BY DeallocateIs
<1>3. /\ Lists /\ \A r \in SlabsOf(c) : r.mem \in MemsOf(c)
      /\ \A r, q \in SlabsOf(c) : r.mem = q.mem => r = q
  BY ListFacts DEF Core
<1>4. \A r \in SlabsOf(c) : r.availible = {j \in Indices(c) : ~Busy(r.mem, j)}
  BY BusyFacts
<1>5. /\ Lists' /\ Only(c) /\ t.mem = m
      /\ SlabsOf(c)' = (SlabsOf(c) \ {s}) \cup {t}
      /\ SlabCount(c)' = SlabCount(c)
      /\ UNCHANGED <<heap, count, emptied, overrun, myCapacity>>
  BY <1>2 DEF Turned
<1>6. MemsOf(c)' = MemsOf(c) /\ m \in MemsOf(c)
  BY <1>2, <1>3, <1>5 DEF MemsOf
<1>7. ASSUME NEW r \in SlabsOf(c)'
      PROVE  r.availible = {j \in Indices(c) : ~Busy(r.mem, j) \/ (r.mem = m /\ j = i)}
  <2>1. CASE r = t
    BY <1>2, <1>4, <1>5, <2>1
  <2>2. CASE r # t
    <3>1. r \in SlabsOf(c) /\ r # s
      BY <1>5, <2>2
    <3>2. r.mem # m
      BY <1>2, <1>3, <3>1
    <3> QED BY <1>4, <3>1, <3>2
  <2> QED BY <2>1, <2>2
<1> QED BY <1>1, <1>5, <1>6, <1>7 DEF Returned

\* TypeOK of the caches, after a step.
LEMMA HelperTypes ==
  ASSUME Lists', count' \in [Stores -> Nat], mySize' \in [Stores -> 0 .. Modulus - 1],
         myCapacity' \in [Stores -> 0 .. Modulus - 1], heap' \subseteq Mems,
         emptied' \subseteq Stores, overrun' \subseteq Stores
  PROVE  HelperTypeOK'
<1>1. ASSUME NEW c \in Stores
      PROVE  /\ slabsFree'[c] \in Seq(Slab(c)') /\ slabsPart'[c] \in Seq(Slab(c)')
             /\ slabsFull'[c] \in Seq(Slab(c)')
  <2>1. Tidy(slabsFree'[c], slabsPart'[c], slabsFull'[c], count'[c])
    BY DEF Lists
  <2>2. Slab(c)' = SlabOf(count'[c])
    BY DEF Slab, SlabOf, Indices
  <2> QED BY <2>1, <2>2 DEF Tidy
<1>2. /\ DOMAIN slabsFree' = Stores /\ DOMAIN slabsPart' = Stores
      /\ DOMAIN slabsFull' = Stores
  BY DEF Lists
<1> QED BY <1>1, <1>2 DEF HelperTypeOK

LEMMA CoreIsFewNext == Core' => Few'
BY CoreIsFew, PTL

-----------------------------------------------------------------------------
(* Where the blocks are, from step to step.                                 *)

\* Blocks, from its parts, after a step.
LEMMA BlocksStep ==
  ASSUME \A c \in Stores : \A s \in SlabsOf(c)' :
           s.availible = {j \in Indices(c)' : ~Busy(s.mem, j)'},
         \A p \in Held' \ LargeBlocks' : \E c \in Caches :
           Serves(c, p.bytes) /\ p.mem \in MemsOf(c)',
         \A p, q \in Held' : p.mem = q.mem /\ p.idx = q.idx => p = q,
         live' \cap leaked' = {},
         \A p \in LargeBlocks' : p.idx = 0,
         \A c \in Caches, p \in Held' : p.mem \in MemsOf(c)' => p.idx \in Indices(c)'
  PROVE  Blocks'
<1>1. \A c \in Stores : \A s \in SlabsOf(c)' :
        s.availible = {i \in Indices(c)' : /\ Object(s.mem, i) \notin out'
                                           /\ \A p \in Held' : p.mem # s.mem \/ p.idx # i}
  BY DEF Busy, Object
<1>2. BlocksAccounted'
  BY <1>1 DEF BlocksAccounted, Serves, Served, Caches, Object
<1> QED BY <1>2 DEF Blocks

\* The blocks of caches that do not change, when other callers' do.
LEMMA OthersAccounted ==
  ASSUME Core, NEW c \in Stores, Only(c),
         \A d \in Stores \ {c} : \A m \in MemsOf(d) : \A j : Busy(m, j)' <=> Busy(m, j)
  PROVE  \A d \in Stores \ {c} : \A s \in SlabsOf(d)' :
           s.availible = {j \in Indices(d)' : ~Busy(s.mem, j)'}
<1>1. TAKE d \in Stores \ {c}
<1>2. SlabsOf(d)' = SlabsOf(d) /\ Indices(d)' = Indices(d)
  BY OnlyFacts
<1>3. TAKE s \in SlabsOf(d)'
<1>4. s.availible = {j \in Indices(d) : ~Busy(s.mem, j)}
  BY <1>2, BusyFacts
<1>5. s.mem \in MemsOf(d)
  BY <1>2 DEF MemsOf
<1>6. \A j : Busy(s.mem, j)' <=> Busy(s.mem, j)
  BY <1>5
<1> QED BY <1>2, <1>4, <1>6

\* Memory that is given out, with what it means for the other caches.
LEMMA GainedPlaces ==
  ASSUME Core, NEW c \in Stores, NEW m \in Mems, NEW i, Gained(c, m, i)
  PROVE  /\ \A d \in Stores \ {c} : /\ MemsOf(d)' = MemsOf(d) /\ m \notin MemsOf(d)
                                    /\ Indices(d)' = Indices(d) /\ SlabsOf(d)' = SlabsOf(d)
         /\ MemsOf(c)' = MemsOf(c) \cup {m} /\ Indices(c)' = Indices(c)
         /\ \A d, e \in Stores : d # e => MemsOf(d)' \cap MemsOf(e)' = {}
         /\ \A d \in Stores, p \in LargeBlocks : p.mem \notin MemsOf(d)'
         /\ heap' = (UNION {MemsOf(d)' : d \in Stores}) \cup {p.mem : p \in LargeBlocks}
         /\ i \in Nat /\ count' \in [Stores -> Nat] /\ HelperTypeOK' /\ Space'
         /\ OnlySingleBlocksOverrun'
<1>1. /\ Lists' /\ Only(c) /\ UNCHANGED <<count, emptied, overrun>>
      /\ MemsOf(c)' = MemsOf(c) \cup {m} /\ heap' = heap \cup {m}
      /\ m \in MemsOf(c) \/ m \notin heap
      /\ i \in Indices(c)
      /\ mySize' \in [Stores -> 0 .. Modulus - 1]
      /\ myCapacity' \in [Stores -> 0 .. Modulus - 1]
  BY DEF Gained
<1>2. \A d \in Stores \ {c} : /\ MemsOf(d)' = MemsOf(d) /\ Indices(d)' = Indices(d)
                              /\ SlabsOf(d)' = SlabsOf(d)
  BY <1>1, OnlyFacts
<1>3. /\ \A d, e \in Stores : d # e => MemsOf(d) \cap MemsOf(e) = {}
      /\ \A d \in Stores, p \in LargeBlocks : p.mem \notin MemsOf(d)
      /\ heap = (UNION {MemsOf(d) : d \in Stores}) \cup {p.mem : p \in LargeBlocks}
  BY DEF Core, Places
<1>4. \A d \in Stores : MemsOf(d) \subseteq heap
  BY HeldFacts
<1>5. \A d \in Stores \ {c} : m \notin MemsOf(d)
  BY <1>1, <1>3, <1>4
<1>6. \A d, e \in Stores : d # e => MemsOf(d)' \cap MemsOf(e)' = {}
  BY <1>1, <1>2, <1>3, <1>5
<1>7. \A p \in LargeBlocks : p.mem \in heap
  BY <1>3
<1>8. \A d \in Stores, p \in LargeBlocks : p.mem \notin MemsOf(d)'
  BY <1>1, <1>2, <1>3, <1>7
<1>9. heap' = (UNION {MemsOf(d)' : d \in Stores}) \cup {p.mem : p \in LargeBlocks}
  <2>1. UNION {MemsOf(d)' : d \in Stores} = (UNION {MemsOf(d) : d \in Stores}) \cup {m}
    BY <1>1, <1>2
  <2> QED BY <1>1, <1>3, <2>1
<1>10. /\ Indices(c)' = Indices(c) /\ Indices(c) \subseteq Nat
  BY <1>1 DEF Indices
<1>11. /\ count' \in [Stores -> Nat] /\ heap' \subseteq Mems
       /\ emptied' \subseteq Stores /\ overrun' \subseteq Stores
  BY <1>1 DEF Core, TypeOK, HelperTypeOK
<1>12. HelperTypeOK'
  BY <1>1, <1>11, HelperTypes
<1>13. Space' /\ OnlySingleBlocksOverrun'
  BY <1>1 DEF Core, Space, OnlySingleBlocksOverrun
<1> QED BY <1>1, <1>2, <1>5, <1>6, <1>8, <1>9, <1>10, <1>11, <1>12, <1>13

\* allocate()
LEMMA AllocateCore ==
  ASSUME Core, NEW bytes \in Requests, NEW m \in Mems, NEW i, Allocate(bytes, m, i),
         UNCHANGED objVars
  PROVE  Core' /\ \E c \in Caches : /\ Gained(c, m, i) /\ Serves(c, bytes)
                                    /\ Block(m, i, bytes) \notin Held
                                    /\ Held' = Held \cup {Block(m, i, bytes)}
<1>1. PICK c \in Caches : Serves(c, bytes) /\ AllocateIn(c, m, i)
  BY DEF Allocate
<1>2. c \in Stores /\ c # Pool /\ Pool \in Stores
  BY HeldFacts
<1>3. Gained(c, m, i)
  BY <1>1, <1>2, AllocateGains
<1>4. PICK b : b = Block(m, i, bytes)
  OBVIOUS
<1>5. b.mem = m /\ b.idx = i /\ b.bytes = bytes
  BY <1>4 DEF Block
<1>6. /\ live' = live \cup {b} /\ leaked' = leaked /\ Held' = Held \cup {b}
      /\ objects' = objects /\ out' = out
  BY <1>4 DEF Allocate, Held, objVars
<1>7. \A n, j : Busy(n, j)' <=> Busy(n, j) \/ (n = m /\ j = i)
  BY <1>5, <1>6 DEF Busy, Object
<1>8. ~Busy(m, i) /\ i \in Indices(c) /\ m \in MemsOf(c)'
  BY <1>3 DEF Gained
<1>9. b \notin Held
  BY <1>5, <1>8 DEF Busy
<1>10. /\ \A d \in Stores \ {c} : /\ MemsOf(d)' = MemsOf(d) /\ m \notin MemsOf(d)
                                  /\ Indices(d)' = Indices(d)
       /\ MemsOf(c)' = MemsOf(c) \cup {m} /\ Indices(c)' = Indices(c)
       /\ \A d, e \in Stores : d # e => MemsOf(d)' \cap MemsOf(e)' = {}
       /\ \A d \in Stores, p \in LargeBlocks : p.mem \notin MemsOf(d)'
       /\ heap' = (UNION {MemsOf(d)' : d \in Stores}) \cup {p.mem : p \in LargeBlocks}
       /\ i \in Nat /\ HelperTypeOK' /\ Space' /\ OnlySingleBlocksOverrun' /\ Lists'
  BY <1>2, <1>3, GainedPlaces DEF Gained
<1>11. LargeBlocks' = LargeBlocks
  <2>1. b \notin LargeBlocks' /\ LargeBlocks \subseteq LargeBlocks'
    BY <1>1, <1>5, <1>6 DEF LargeBlocks, Serves
  <2> QED BY <1>6, <2>1 DEF LargeBlocks
<1>12. \A d \in Stores : \A s \in SlabsOf(d)' :
         s.availible = {j \in Indices(d)' : ~Busy(s.mem, j)'}
  <2>1. \A d \in Stores \ {c} : \A n \in MemsOf(d) : \A j : Busy(n, j)' <=> Busy(n, j)
    BY <1>7, <1>10
  <2>2. \A d \in Stores \ {c} : \A s \in SlabsOf(d)' :
          s.availible = {j \in Indices(d)' : ~Busy(s.mem, j)'}
    BY <1>2, <1>3, <2>1, OthersAccounted DEF Gained
  <2>3. \A s \in SlabsOf(c)' : s.availible = {j \in Indices(c)' : ~Busy(s.mem, j)'}
    BY <1>3, <1>7, <1>10 DEF Gained
  <2> QED BY <2>2, <2>3
<1>13. Blocks'
  <2>1. /\ \A p \in Held \ LargeBlocks : \E d \in Caches :
             Serves(d, p.bytes) /\ p.mem \in MemsOf(d)
        /\ \A p, q \in Held : p.mem = q.mem /\ p.idx = q.idx => p = q
        /\ live \cap leaked = {}
        /\ \A p \in LargeBlocks : p.idx = 0
        /\ \A d \in Caches, p \in Held : p.mem \in MemsOf(d) => p.idx \in Indices(d)
        /\ \A d \in Caches : d \in Stores
    BY HeldFacts DEF Core, Blocks, BlocksAccounted
  <2>2. \A p \in Held' \ LargeBlocks' : \E d \in Caches :
          Serves(d, p.bytes) /\ p.mem \in MemsOf(d)'
    BY <1>1, <1>5, <1>6, <1>8, <1>10, <1>11, <2>1
  <2>3. \A p, q \in Held' : p.mem = q.mem /\ p.idx = q.idx => p = q
    BY <1>5, <1>6, <1>8, <2>1 DEF Busy
  <2>4. live' \cap leaked' = {}
    BY <1>6, <1>9, <2>1 DEF Held
  <2>5. \A d \in Caches, p \in Held' : p.mem \in MemsOf(d)' => p.idx \in Indices(d)'
    <3>1. ASSUME NEW d \in Caches, NEW p \in Held', p.mem \in MemsOf(d)'
          PROVE  p.idx \in Indices(d)'
      <4>1. CASE p = b
        <5>1. d = c
          BY <1>2, <1>5, <1>8, <1>10, <2>1, <3>1, <4>1
        <5> QED BY <1>5, <1>8, <1>10, <4>1, <5>1
      <4>2. CASE p # b /\ p.mem \in MemsOf(d)
        BY <1>6, <1>10, <2>1, <4>2
      <4>3. CASE p # b /\ p.mem \notin MemsOf(d)
        <5>1. d = c /\ p.mem = m /\ p \in Held
          BY <1>6, <1>10, <2>1, <3>1, <4>3
        <5>2. m \notin heap
          BY <1>3, <4>3, <5>1 DEF Gained
        <5> QED BY <5>1, <5>2, HeldFacts
      <4> QED BY <4>1, <4>2, <4>3
    <3> QED BY <3>1
  <2> QED BY <1>11, <1>12, <2>1, <2>2, <2>3, <2>4, <2>5, BlocksStep
<1>14. Places'
  BY <1>10, <1>11 DEF Places
<1>15. Objects'
  BY <1>2, <1>6, <1>10 DEF Core, Objects
<1>16. TypeOK'
  <2>1. b \in [mem : Mems, idx : Nat, bytes : Requests]
    BY <1>4, <1>10 DEF Block
  <2> QED BY <1>6, <1>10, <2>1 DEF Core, TypeOK
<1> QED BY <1>1, <1>3, <1>4, <1>6, <1>9, <1>10, <1>13, <1>14, <1>15, <1>16 DEF Core

\* The objects there are when slabs come and go.
LEMMA ObjectsMade ==
  ASSUME Core, SlabsMakeObjects,
         MemsOf(Pool)' = (MemsOf(Pool) \cap heap') \cup (heap' \ heap),
         Indices(Pool)' = Indices(Pool) \/ MemsOf(Pool) \cap heap' = {}
  PROVE  objects' = {Object(n, j) : n \in MemsOf(Pool)', j \in Indices(Pool)'}
<1>1. objects = {Object(n, j) : n \in MemsOf(Pool), j \in Indices(Pool)}
  BY DEF Core, Objects
<1> DEFINE Kept == {o \in objects : o.mem \in heap'}
           Made == {Object(n, j) : n \in heap' \ heap, j \in Indices(Pool)'}
<1>2. objects' = Kept \cup Made
  BY DEF SlabsMakeObjects, Indices
<1>3. Kept = {Object(n, j) : n \in MemsOf(Pool) \cap heap', j \in Indices(Pool)'}
  <2>1. \A n, j : Object(n, j).mem = n
    BY DEF Object
  <2> QED BY <1>1, <2>1
<1> QED BY <1>2, <1>3

LEMMA AllocateObjCore ==
  ASSUME Core, NEW m \in Mems, NEW i, AllocateObj(m, i)
  PROVE  Core' /\ Gained(Pool, m, i) /\ Object(m, i) \notin out
<1>1. /\ AllocateIn(Pool, m, i) /\ SlabsMakeObjects /\ out' = out \cup {Object(m, i)}
      /\ live' = live /\ leaked' = leaked
  BY DEF AllocateObj, memVars
<1>2. Pool \in Stores /\ Pool \notin Caches /\ Caches \subseteq Stores
  BY HeldFacts
<1>3. Gained(Pool, m, i)
  BY <1>1, <1>2, AllocateGains
<1>4. Held' = Held /\ LargeBlocks' = LargeBlocks
  BY <1>1 DEF Held, LargeBlocks
<1>5. \A n, j : Busy(n, j)' <=> Busy(n, j) \/ (n = m /\ j = i)
  BY <1>1, <1>4 DEF Busy, Object
<1>6. /\ ~Busy(m, i) /\ i \in Indices(Pool) /\ m \in MemsOf(Pool)'
      /\ heap' = heap \cup {m}
      /\ m \in MemsOf(Pool) \/ m \notin heap
  BY <1>3 DEF Gained
<1>7. Object(m, i) \notin out
  BY <1>6 DEF Busy
<1>8. /\ \A d \in Stores \ {Pool} : /\ MemsOf(d)' = MemsOf(d) /\ m \notin MemsOf(d)
                                    /\ Indices(d)' = Indices(d)
      /\ MemsOf(Pool)' = MemsOf(Pool) \cup {m} /\ Indices(Pool)' = Indices(Pool)
      /\ \A d, e \in Stores : d # e => MemsOf(d)' \cap MemsOf(e)' = {}
      /\ \A d \in Stores, p \in LargeBlocks : p.mem \notin MemsOf(d)'
      /\ heap' = (UNION {MemsOf(d)' : d \in Stores}) \cup {p.mem : p \in LargeBlocks}
      /\ i \in Nat /\ HelperTypeOK' /\ Space' /\ OnlySingleBlocksOverrun' /\ Lists'
  BY <1>2, <1>3, GainedPlaces DEF Gained
<1>9. \A d \in Stores : \A s \in SlabsOf(d)' :
         s.availible = {j \in Indices(d)' : ~Busy(s.mem, j)'}
  <2>1. \A d \in Stores \ {Pool} : \A n \in MemsOf(d) : \A j : Busy(n, j)' <=> Busy(n, j)
    BY <1>5, <1>8
  <2>2. \A d \in Stores \ {Pool} : \A s \in SlabsOf(d)' :
          s.availible = {j \in Indices(d)' : ~Busy(s.mem, j)'}
    BY <1>2, <1>3, <2>1, OthersAccounted DEF Gained
  <2>3. \A s \in SlabsOf(Pool)' : s.availible = {j \in Indices(Pool)' : ~Busy(s.mem, j)'}
    BY <1>3, <1>5, <1>8 DEF Gained
  <2> QED BY <2>2, <2>3
<1>10. Blocks'
  <2>1. /\ \A p \in Held \ LargeBlocks : \E d \in Caches :
             Serves(d, p.bytes) /\ p.mem \in MemsOf(d)
        /\ \A p, q \in Held : p.mem = q.mem /\ p.idx = q.idx => p = q
        /\ live \cap leaked = {}
        /\ \A p \in LargeBlocks : p.idx = 0
        /\ \A d \in Caches, p \in Held : p.mem \in MemsOf(d) => p.idx \in Indices(d)
    BY DEF Core, Blocks, BlocksAccounted
  <2>2. \A d \in Caches : MemsOf(d)' = MemsOf(d) /\ Indices(d)' = Indices(d)
    BY <1>2, <1>8
  <2> QED BY <1>1, <1>4, <1>9, <2>1, <2>2, BlocksStep
<1>11. Places'
  BY <1>4, <1>8 DEF Places
<1>12. objects' = {Object(n, j) : n \in MemsOf(Pool)', j \in Indices(Pool)'}
  <2>1. MemsOf(Pool) \subseteq heap
    BY <1>2, HeldFacts
  <2>2. MemsOf(Pool)' = (MemsOf(Pool) \cap heap') \cup (heap' \ heap)
    BY <1>6, <1>8, <2>1
  <2> QED BY <1>1, <1>8, <2>2, ObjectsMade
<1>13. out' \subseteq objects'
  <2>1. Object(m, i) \in objects'
    BY <1>6, <1>8, <1>12
  <2>2. \A o \in out : o \in objects'
    <3>1. TAKE o \in out
    <3>2. o.mem \in MemsOf(Pool) /\ o.idx \in Indices(Pool) /\ o = Object(o.mem, o.idx)
      BY HeldFacts
    <3> QED BY <1>8, <1>12, <3>2
  <2> QED BY <1>1, <2>1, <2>2
<1>14. Objects'
  BY <1>12, <1>13 DEF Objects
<1>15. TypeOK'
  <2>1. \A n \in MemsOf(Pool)', j \in Indices(Pool)' : Object(n, j) \in [mem : Mems, idx : Nat]
    <3>1. MemsOf(Pool)' \subseteq Mems /\ Indices(Pool)' \subseteq Nat
      BY <1>2, <1>8, HeldFacts DEF Indices
    <3> QED BY <3>1 DEF Object
  <2>2. objects' \subseteq [mem : Mems, idx : Nat]
    BY <1>12, <2>1
  <2> QED BY <1>1, <1>8, <1>12, <1>13, <2>2 DEF Core, TypeOK
<1> QED BY <1>3, <1>7, <1>8, <1>10, <1>11, <1>14, <1>15 DEF Core

\* What a block that comes back means for the other caches.
LEMMA ReturnedPlaces ==
  ASSUME Core, NEW c \in Stores, NEW m, NEW i, Returned(c, m, i)
  PROVE  /\ \A d \in Stores : MemsOf(d)' = MemsOf(d) /\ Indices(d)' = Indices(d)
         /\ \A d \in Stores \ {c} : m \notin MemsOf(d)
         /\ Lists' /\ HelperTypeOK' /\ Space' /\ OnlySingleBlocksOverrun'
<1>1. /\ Lists' /\ Only(c) /\ UNCHANGED <<heap, count, emptied, overrun, myCapacity>>
      /\ MemsOf(c)' = MemsOf(c) /\ m \in MemsOf(c)
      /\ mySize' \in [Stores -> 0 .. Modulus - 1]
  BY DEF Returned
<1>2. \A d \in Stores : MemsOf(d)' = MemsOf(d) /\ Indices(d)' = Indices(d)
  BY <1>1, OnlyFacts DEF Indices
<1>3. \A d \in Stores \ {c} : m \notin MemsOf(d)
  BY <1>1 DEF Core, Places
<1>4. HelperTypeOK'
  <2>1. /\ count' \in [Stores -> Nat] /\ myCapacity' \in [Stores -> 0 .. Modulus - 1]
        /\ heap' \subseteq Mems /\ emptied' \subseteq Stores /\ overrun' \subseteq Stores
    BY <1>1 DEF Core, TypeOK, HelperTypeOK
  <2> QED BY <1>1, <2>1, HelperTypes
<1>5. Space' /\ OnlySingleBlocksOverrun'
  BY <1>1 DEF Core, Space, OnlySingleBlocksOverrun
<1> QED BY <1>1, <1>2, <1>3, <1>4, <1>5

\* deallocate()
LEMMA DeallocateCore ==
  ASSUME Core, NEW p \in live, Deallocate(p), UNCHANGED objVars
  PROVE  Core' /\ Held' = Held \ {p}
               /\ \E c \in Caches : Returned(c, p.mem, p.idx) /\ Serves(c, p.bytes)
<1>1. PICK c \in Caches : Serves(c, p.bytes) /\ DeallocateIn(c, p.mem, p.idx)
  BY DEF Deallocate
<1>2. /\ c \in Stores /\ c # Pool /\ Pool \in Stores /\ Caches \subseteq Stores
      /\ p \in Held /\ p.mem \in MemsOf(c) /\ p.idx \in Indices(c) /\ p \notin LargeBlocks
  BY <1>1, HeldFacts DEF Held
<1>3. Returned(c, p.mem, p.idx)
  BY <1>1, <1>2, DeallocateReturns
<1>4. /\ \A q \in Held \ LargeBlocks : \E d \in Caches :
           Serves(d, q.bytes) /\ q.mem \in MemsOf(d)
      /\ \A q, r \in Held : q.mem = r.mem /\ q.idx = r.idx => q = r
      /\ live \cap leaked = {}
      /\ \A q \in LargeBlocks : q.idx = 0
      /\ \A d \in Caches, q \in Held : q.mem \in MemsOf(d) => q.idx \in Indices(d)
  BY DEF Core, Blocks, BlocksAccounted
<1>5. /\ live' = live \ {p} /\ leaked' = leaked /\ Held' = Held \ {p}
      /\ objects' = objects /\ out' = out
  BY <1>4 DEF Deallocate, Held, objVars
<1>6. LargeBlocks' = LargeBlocks
  BY <1>2, <1>5 DEF LargeBlocks
<1>7. \A n, j : Busy(n, j)' <=> Busy(n, j) /\ ~(n = p.mem /\ j = p.idx)
  <2>1. Object(p.mem, p.idx) \notin out
    BY <1>1, <1>2, BusyFacts
  <2> QED BY <1>2, <1>4, <1>5, <2>1 DEF Busy, Object
<1>8. /\ \A d \in Stores : MemsOf(d)' = MemsOf(d) /\ Indices(d)' = Indices(d)
      /\ \A d \in Stores \ {c} : p.mem \notin MemsOf(d)
      /\ Lists' /\ HelperTypeOK' /\ Space' /\ OnlySingleBlocksOverrun'
  BY <1>2, <1>3, ReturnedPlaces
<1>9. \A d \in Stores : \A s \in SlabsOf(d)' :
        s.availible = {j \in Indices(d)' : ~Busy(s.mem, j)'}
  <2>1. \A d \in Stores \ {c} : \A n \in MemsOf(d) : \A j : Busy(n, j)' <=> Busy(n, j)
    BY <1>7, <1>8
  <2>2. \A d \in Stores \ {c} : \A s \in SlabsOf(d)' :
          s.availible = {j \in Indices(d)' : ~Busy(s.mem, j)'}
    BY <1>2, <1>3, <2>1, OthersAccounted DEF Returned
  <2>3. \A s \in SlabsOf(c)' : s.availible = {j \in Indices(c)' : ~Busy(s.mem, j)'}
    BY <1>2, <1>3, <1>7, <1>8 DEF Returned
  <2> QED BY <2>2, <2>3
<1>10. Blocks'
  BY <1>2, <1>4, <1>5, <1>6, <1>8, <1>9, BlocksStep
<1>11. Places'
  <2>1. heap' = heap
    BY <1>3 DEF Returned
  <2>2. UNION {MemsOf(d)' : d \in Stores} = UNION {MemsOf(d) : d \in Stores}
    BY <1>8
  <2> QED BY <1>6, <1>8, <2>1, <2>2 DEF Core, Places
<1>12. Objects'
  BY <1>2, <1>5, <1>8 DEF Core, Objects
<1>13. TypeOK'
  BY <1>5, <1>8 DEF Core, TypeOK
<1> QED BY <1>1, <1>3, <1>5, <1>8, <1>10, <1>11, <1>12, <1>13 DEF Core

LEMMA DeallocateObjCore ==
  ASSUME Core, NEW o \in out, DeallocateObj(o)
  PROVE  Core' /\ Returned(Pool, o.mem, o.idx) /\ out' = out \ {o}
               /\ UNCHANGED <<live, leaked>>
<1>1. /\ DeallocateIn(Pool, o.mem, o.idx) /\ out' = out \ {o}
      /\ SlabsMakeObjects
      /\ live' = live /\ leaked' = leaked
  BY DEF DeallocateObj, memVars
<1>2. /\ Pool \in Stores /\ Pool \notin Caches /\ Caches \subseteq Stores
      /\ o.mem \in MemsOf(Pool) /\ o.idx \in Indices(Pool) /\ o = Object(o.mem, o.idx)
      /\ MemsOf(Pool) \subseteq heap
  BY HeldFacts
<1>3. Returned(Pool, o.mem, o.idx)
  BY <1>1, <1>2, DeallocateReturns
<1>4. Held' = Held /\ LargeBlocks' = LargeBlocks
  BY <1>1 DEF Held, LargeBlocks
<1>5. \A n, j : Busy(n, j)' <=> Busy(n, j) /\ ~(n = o.mem /\ j = o.idx)
  <2>1. ASSUME NEW p \in Held, p.mem = o.mem
        PROVE  FALSE
    BY <1>2, <2>1, HeldFacts
  <2> QED BY <1>1, <1>2, <1>4, <2>1 DEF Busy, Object
<1>6. /\ \A d \in Stores : MemsOf(d)' = MemsOf(d) /\ Indices(d)' = Indices(d)
      /\ \A d \in Stores \ {Pool} : o.mem \notin MemsOf(d)
      /\ Lists' /\ HelperTypeOK' /\ Space' /\ OnlySingleBlocksOverrun'
  BY <1>2, <1>3, ReturnedPlaces
<1>7. \A d \in Stores : \A s \in SlabsOf(d)' :
        s.availible = {j \in Indices(d)' : ~Busy(s.mem, j)'}
  <2>1. \A d \in Stores \ {Pool} : \A n \in MemsOf(d) : \A j : Busy(n, j)' <=> Busy(n, j)
    BY <1>5, <1>6
  <2>2. \A d \in Stores \ {Pool} : \A s \in SlabsOf(d)' :
          s.availible = {j \in Indices(d)' : ~Busy(s.mem, j)'}
    BY <1>2, <1>3, <2>1, OthersAccounted DEF Returned
  <2>3. \A s \in SlabsOf(Pool)' : s.availible = {j \in Indices(Pool)' : ~Busy(s.mem, j)'}
    BY <1>2, <1>3, <1>5, <1>6 DEF Returned
  <2> QED BY <2>2, <2>3
<1>8. Blocks'
  <2>1. /\ \A p \in Held \ LargeBlocks : \E d \in Caches :
             Serves(d, p.bytes) /\ p.mem \in MemsOf(d)
        /\ \A p, q \in Held : p.mem = q.mem /\ p.idx = q.idx => p = q
        /\ live \cap leaked = {}
        /\ \A p \in LargeBlocks : p.idx = 0
        /\ \A d \in Caches, p \in Held : p.mem \in MemsOf(d) => p.idx \in Indices(d)
    BY DEF Core, Blocks, BlocksAccounted
  <2> QED BY <1>1, <1>2, <1>4, <1>6, <1>7, <2>1, BlocksStep
<1>9. heap' = heap
  BY <1>3 DEF Returned
<1>10. Places'
  <2>1. UNION {MemsOf(d)' : d \in Stores} = UNION {MemsOf(d) : d \in Stores}
    BY <1>6
  <2> QED BY <1>4, <1>6, <1>9, <2>1 DEF Core, Places
<1>11. objects' = objects
  <2>1. MemsOf(Pool)' = (MemsOf(Pool) \cap heap') \cup (heap' \ heap)
    BY <1>2, <1>6, <1>9
  <2>2. Indices(Pool)' = Indices(Pool)
    BY <1>2, <1>6
  <2>3. objects' = {Object(n, j) : n \in MemsOf(Pool)', j \in Indices(Pool)'}
    BY <1>1, <2>1, <2>2, ObjectsMade
  <2> QED BY <1>2, <1>6, <2>3 DEF Core, Objects
<1>12. Objects'
  BY <1>1, <1>2, <1>6, <1>11 DEF Core, Objects
<1>13. TypeOK'
  BY <1>1, <1>6, <1>11 DEF Core, TypeOK
<1> QED BY <1>1, <1>3, <1>6, <1>8, <1>10, <1>12, <1>13 DEF Core

\* Cache c loses slabs, and nothing else.
Dropped(c) ==
  /\ Lists' /\ Only(c) /\ UNCHANGED <<count, overrun>>
  /\ SlabsOf(c)' \subseteq SlabsOf(c)
  /\ heap' = heap \ (MemsOf(c) \ MemsOf(c)')
  /\ emptied' \subseteq Stores
  /\ mySize' \in [Stores -> 0 .. Modulus - 1]
  /\ myCapacity' \in [Stores -> 0 .. Modulus - 1]

LEMMA DroppedPlaces ==
  ASSUME Core, NEW c \in Stores, Dropped(c)
  PROVE  /\ \A d \in Stores \ {c} : MemsOf(d)' = MemsOf(d) /\ SlabsOf(d)' = SlabsOf(d)
         /\ \A d \in Stores : /\ Indices(d)' = Indices(d) /\ MemsOf(d)' \subseteq MemsOf(d)
                              /\ SlabsOf(d)' \subseteq SlabsOf(d)
                              /\ MemsOf(d)' = MemsOf(d) \cap heap'
         /\ heap' \subseteq heap
         /\ \A d, e \in Stores : d # e => MemsOf(d)' \cap MemsOf(e)' = {}
         /\ \A d \in Stores, p \in LargeBlocks : p.mem \notin MemsOf(d)'
         /\ heap' = (UNION {MemsOf(d)' : d \in Stores}) \cup {p.mem : p \in LargeBlocks}
         /\ Lists' /\ HelperTypeOK' /\ Space' /\ OnlySingleBlocksOverrun'
<1>1. /\ Lists' /\ Only(c) /\ UNCHANGED <<count, overrun>>
      /\ SlabsOf(c)' \subseteq SlabsOf(c)
      /\ heap' = heap \ (MemsOf(c) \ MemsOf(c)')
      /\ emptied' \subseteq Stores
      /\ mySize' \in [Stores -> 0 .. Modulus - 1]
      /\ myCapacity' \in [Stores -> 0 .. Modulus - 1]
  BY DEF Dropped
<1>2. \A d \in Stores \ {c} : MemsOf(d)' = MemsOf(d) /\ SlabsOf(d)' = SlabsOf(d)
  BY <1>1, OnlyFacts
<1>3. MemsOf(c)' \subseteq MemsOf(c)
  BY <1>1 DEF MemsOf
<1>4. \A d \in Stores : /\ Indices(d)' = Indices(d) /\ MemsOf(d)' \subseteq MemsOf(d)
                        /\ SlabsOf(d)' \subseteq SlabsOf(d)
  BY <1>1, <1>2, <1>3 DEF Indices
<1>5. /\ \A d, e \in Stores : d # e => MemsOf(d) \cap MemsOf(e) = {}
      /\ \A d \in Stores, p \in LargeBlocks : p.mem \notin MemsOf(d)
      /\ heap = (UNION {MemsOf(d) : d \in Stores}) \cup {p.mem : p \in LargeBlocks}
  BY DEF Core, Places
<1>6. \A d \in Stores : MemsOf(d) \subseteq heap
  BY HeldFacts
<1>7. \A d \in Stores : MemsOf(d)' = MemsOf(d) \cap heap'
  BY <1>1, <1>2, <1>3, <1>5, <1>6
<1>8. /\ \A d, e \in Stores : d # e => MemsOf(d)' \cap MemsOf(e)' = {}
      /\ \A d \in Stores, p \in LargeBlocks : p.mem \notin MemsOf(d)'
  BY <1>4, <1>5
<1>9. heap' = (UNION {MemsOf(d)' : d \in Stores}) \cup {p.mem : p \in LargeBlocks}
  <2>1. ASSUME NEW x, x \in heap'
        PROVE  x \in (UNION {MemsOf(d)' : d \in Stores}) \cup {p.mem : p \in LargeBlocks}
    <3>1. x \in heap
      BY <1>1, <2>1
    <3>2. CASE \E d \in Stores : x \in MemsOf(d)
      BY <1>7, <2>1, <3>2
    <3>3. CASE x \in {p.mem : p \in LargeBlocks}
      BY <3>3
    <3> QED BY <1>5, <3>1, <3>2, <3>3
  <2>2. \A p \in LargeBlocks : p.mem \in heap'
    BY <1>1, <1>5
  <2>3. \A d \in Stores : MemsOf(d)' \subseteq heap'
    BY <1>7
  <2> QED BY <2>1, <2>2, <2>3
<1>10. HelperTypeOK'
  <2>1. /\ count' \in [Stores -> Nat] /\ heap' \subseteq Mems /\ overrun' \subseteq Stores
    BY <1>1 DEF Core, TypeOK, HelperTypeOK
  <2> QED BY <1>1, <2>1, HelperTypes
<1>11. Space' /\ OnlySingleBlocksOverrun'
  BY <1>1 DEF Core, Space, OnlySingleBlocksOverrun
<1>12. heap' \subseteq heap
  BY <1>1
<1> QED BY <1>1, <1>2, <1>4, <1>7, <1>8, <1>9, <1>10, <1>11, <1>12

\* Blocks in the slabs that are left stay with those who have them.
LEMMA DroppedCore ==
  ASSUME Core, NEW c \in Stores, Dropped(c),
         Held' \subseteq Held, live' \cap leaked' = {}, out' \subseteq out,
         \A d \in Stores : \A n \in MemsOf(d)' : \A j : Busy(n, j)' <=> Busy(n, j),
         LargeBlocks' = LargeBlocks,
         \A p \in Held' : \A d \in Stores : p.mem \in MemsOf(d) => p.mem \in MemsOf(d)',
         \A o \in out' : o.mem \in MemsOf(Pool)',
         objects' = {Object(n, j) : n \in MemsOf(Pool)', j \in Indices(Pool)'}
  PROVE  Core'
<1>1. /\ \A d \in Stores : /\ Indices(d)' = Indices(d) /\ MemsOf(d)' \subseteq MemsOf(d)
                           /\ SlabsOf(d)' \subseteq SlabsOf(d)
      /\ heap' \subseteq heap
      /\ \A d, e \in Stores : d # e => MemsOf(d)' \cap MemsOf(e)' = {}
      /\ \A d \in Stores, p \in LargeBlocks : p.mem \notin MemsOf(d)'
      /\ heap' = (UNION {MemsOf(d)' : d \in Stores}) \cup {p.mem : p \in LargeBlocks}
      /\ Lists' /\ HelperTypeOK' /\ Space' /\ OnlySingleBlocksOverrun'
  BY DroppedPlaces
<1>2. Caches \subseteq Stores /\ Pool \in Stores
  BY HeldFacts
<1>3. \A d \in Stores : \A s \in SlabsOf(d)' :
        s.availible = {j \in Indices(d)' : ~Busy(s.mem, j)'}
  <2>1. TAKE d \in Stores
  <2>2. TAKE s \in SlabsOf(d)'
  <2>3. s.availible = {j \in Indices(d) : ~Busy(s.mem, j)}
    BY <1>1, BusyFacts
  <2>4. s.mem \in MemsOf(d)'
    BY DEF MemsOf
  <2>5. \A j : Busy(s.mem, j)' <=> Busy(s.mem, j)
    BY <2>4
  <2> QED BY <1>1, <2>3, <2>5
<1>4. Blocks'
  <2>1. /\ \A p \in Held \ LargeBlocks : \E d \in Caches :
             Serves(d, p.bytes) /\ p.mem \in MemsOf(d)
        /\ \A p, q \in Held : p.mem = q.mem /\ p.idx = q.idx => p = q
        /\ \A p \in LargeBlocks : p.idx = 0
        /\ \A d \in Caches, p \in Held : p.mem \in MemsOf(d) => p.idx \in Indices(d)
    BY DEF Core, Blocks, BlocksAccounted
  <2>2. \A p \in Held' \ LargeBlocks' : \E d \in Caches :
          Serves(d, p.bytes) /\ p.mem \in MemsOf(d)'
    BY <1>2, <2>1
  <2>3. \A d \in Caches, p \in Held' : p.mem \in MemsOf(d)' => p.idx \in Indices(d)'
    BY <1>1, <1>2, <2>1
  <2> QED BY <1>3, <2>1, <2>2, <2>3, BlocksStep
<1>5. Places'
  BY <1>1 DEF Places
<1>6. \A o \in out' : o.idx \in Indices(Pool)' /\ o = Object(o.mem, o.idx)
  BY <1>1, <1>2, HeldFacts
<1>7. Objects'
  <2>1. \A o \in out' : o \in objects'
    BY <1>6
  <2> QED BY <2>1 DEF Objects
<1>8. TypeOK'
  <2>1. \A n \in MemsOf(Pool)', j \in Indices(Pool)' : Object(n, j) \in [mem : Mems, idx : Nat]
    <3>1. MemsOf(Pool)' \subseteq Mems /\ Indices(Pool)' \subseteq Nat
      BY <1>1, <1>2, HeldFacts DEF Indices
    <3> QED BY <3>1 DEF Object
  <2>2. objects' \subseteq [mem : Mems, idx : Nat]
    BY <2>1
  <2>3. out' \subseteq [mem : Mems, idx : Nat]
    BY DEF Core, TypeOK
  <2>4. Held' \subseteq [mem : Mems, idx : Nat, bytes : Requests]
    BY HeldFacts
  <2> QED BY <1>1, <2>2, <2>3, <2>4 DEF TypeOK, Held
<1> QED BY <1>1, <1>4, <1>5, <1>7, <1>8 DEF Core

LEMMA FreeAllDrops ==
  ASSUME Core, NEW c \in Stores, FreeAllIn(c)
  PROVE  Dropped(c) /\ MemsOf(c)' = {}
<1>1. /\ Lists' /\ Only(c) /\ UNCHANGED <<count, overrun>> /\ SlabsOf(c)' = {}
      /\ heap' = heap \ MemsOf(c) /\ emptied' = emptied \ {c}
      /\ mySize' \in [Stores -> 0 .. Modulus - 1]
      /\ myCapacity' \in [Stores -> 0 .. Modulus - 1]
  BY FreeAllIs
<1>2. MemsOf(c)' = {}
  BY <1>1 DEF MemsOf
<1>3. emptied' \subseteq Stores
  BY <1>1 DEF Core, TypeOK, HelperTypeOK
<1> QED BY <1>1, <1>2, <1>3 DEF Dropped

LEMMA FreeEmptyDrops ==
  ASSUME Core, NEW c \in Stores, FreeEmptyIn(c)
  PROVE  /\ Dropped(c)
         /\ \A m \in MemsOf(c) \ MemsOf(c)' : \A j \in Indices(c) : ~Busy(m, j)
<1>1. /\ Lists' /\ Only(c) /\ UNCHANGED <<count, overrun, mySize>>
      /\ SlabsOf(c)' \subseteq SlabsOf(c)
      /\ \A s \in SlabsOf(c) \ SlabsOf(c)' : s.availible = Indices(c)
      /\ heap' = heap \ {s.mem : s \in SlabsOf(c) \ SlabsOf(c)'}
      /\ emptied' = emptied \cup {c}
      /\ myCapacity' \in [Stores -> 0 .. Modulus - 1]
  BY FreeEmptyIs
<1>2. \A s, t \in SlabsOf(c) : s.mem = t.mem => s = t
  BY ListFacts DEF Core
<1>3. {s.mem : s \in SlabsOf(c) \ SlabsOf(c)'} = MemsOf(c) \ MemsOf(c)'
  BY <1>1, <1>2 DEF MemsOf
<1>4. /\ emptied' \subseteq Stores /\ mySize' \in [Stores -> 0 .. Modulus - 1]
  BY <1>1 DEF Core, TypeOK, HelperTypeOK
<1>5. ASSUME NEW m \in MemsOf(c) \ MemsOf(c)', NEW j \in Indices(c)
      PROVE  ~Busy(m, j)
  <2>1. PICK s \in SlabsOf(c) \ SlabsOf(c)' : s.mem = m
    BY <1>5 DEF MemsOf
  <2>2. s.availible = Indices(c) /\ s.availible = {i \in Indices(c) : ~Busy(s.mem, i)}
    BY <1>1, <2>1, BusyFacts
  <2> QED BY <2>1, <2>2
<1> QED BY <1>1, <1>3, <1>4, <1>5 DEF Dropped

\* freeAll() of SlabMem
LEMMA FreeAllCore ==
  ASSUME Core, NEW size, NEW c \in Caches, FreeAll(size, c), UNCHANGED objVars
  PROVE  Core' /\ Held' = Held \ HeldBy(c)
<1> DEFINE told    == {p \in live : \E d \in Caches : /\ Serves(d, p.bytes)
                                                      /\ size = 0 \/ BlockSize[d] = size}
           reached == {p \in live \cup leaked : Serves(c, p.bytes)}
<1>1. /\ Matches(size, c) /\ FreeAllIn(c)
      /\ live' = live \ told /\ leaked' = (leaked \cup told) \ reached
      /\ objects' = objects /\ out' = out
  BY DEF FreeAll, objVars
<1>2. c \in Stores /\ c # Pool /\ Caches \subseteq Stores /\ Pool \in Stores
  BY HeldFacts
<1>3. Dropped(c) /\ MemsOf(c)' = {}
  BY <1>1, <1>2, FreeAllDrops
<1>4. size = 0 \/ BlockSize[c] = size
  BY <1>1 DEF Matches
<1>5. told \subseteq live /\ live \cap reached \subseteq told
  BY <1>4
<1>6. reached = HeldBy(c)
  BY DEF HeldBy, Held
<1> HIDE DEF told, reached
<1>7. live \cap leaked = {}
  BY DEF Core, Blocks
<1>8. Held' = Held \ HeldBy(c) /\ live' \cap leaked' = {}
  BY <1>1, <1>5, <1>6, <1>7 DEF Held
<1>9. \A p \in HeldBy(c) : p.mem \in MemsOf(c) /\ p \notin LargeBlocks
  BY HeldFacts DEF HeldBy
<1>10. LargeBlocks' = LargeBlocks
  BY <1>8, <1>9 DEF LargeBlocks
<1>11. /\ \A d \in Stores \ {c} : MemsOf(d)' = MemsOf(d)
       /\ \A d \in Stores : Indices(d)' = Indices(d)
  BY <1>2, <1>3, DroppedPlaces
<1>12. ASSUME NEW d \in Stores, NEW n \in MemsOf(d)', NEW j
       PROVE  Busy(n, j)' <=> Busy(n, j)
  <2>1. n \notin MemsOf(c)
    BY <1>2, <1>3, <1>11, <1>12 DEF Core, Places
  <2>2. \A p \in Held : p.mem = n => p \in Held'
    BY <1>8, <1>9, <2>1
  <2>3. Held' \subseteq Held
    BY <1>8
  <2> QED BY <1>1, <2>2, <2>3 DEF Busy, Object
<1>13. ASSUME NEW p \in Held', NEW d \in Stores, p.mem \in MemsOf(d)
       PROVE  p.mem \in MemsOf(d)'
  <2>1. d # c
    BY <1>8, <1>13, HeldFacts DEF HeldBy
  <2> QED BY <1>11, <1>13, <2>1
<1>14. \A o \in out' : o.mem \in MemsOf(Pool)'
  BY <1>1, <1>2, <1>11, HeldFacts
<1>15. objects' = {Object(n, j) : n \in MemsOf(Pool)', j \in Indices(Pool)'}
  BY <1>1, <1>2, <1>11 DEF Core, Objects, TypeOK
<1>16. Held' \subseteq Held /\ out' \subseteq out
  BY <1>1, <1>8
<1>17. Core'
  BY <1>2, <1>3, <1>8, <1>10, <1>12, <1>13, <1>14, <1>15, <1>16, DroppedCore
<1> QED BY <1>8, <1>17

\* freeEmpty() of either
LEMMA FreeEmptyCore ==
  ASSUME Core, NEW c \in Stores, FreeEmptyIn(c), UNCHANGED memVars, out' = out,
         objects' = {Object(n, j) : n \in MemsOf(Pool)', j \in Indices(Pool)'}
  PROVE  Core' /\ Held' = Held
<1>1. /\ Dropped(c)
      /\ \A m \in MemsOf(c) \ MemsOf(c)' : \A j \in Indices(c) : ~Busy(m, j)
  BY FreeEmptyDrops
<1>2. Held' = Held /\ LargeBlocks' = LargeBlocks /\ live' \cap leaked' = {}
  BY DEF memVars, Held, LargeBlocks, Core, Blocks
<1>3. \A n, j : Busy(n, j)' <=> Busy(n, j)
  BY <1>2 DEF Busy, Object
<1>4. /\ \A d \in Stores \ {c} : MemsOf(d)' = MemsOf(d)
      /\ Pool \in Stores
  BY <1>1, DroppedPlaces, HeldFacts
<1>5. ASSUME NEW p \in Held', NEW d \in Stores, p.mem \in MemsOf(d)
      PROVE  p.mem \in MemsOf(d)'
  <2>1. CASE d # c
    BY <1>4, <1>5, <2>1
  <2>2. CASE d = c
    <3>1. p.idx \in Indices(c)
      BY <1>2, <1>5, <2>2, HeldFacts
    <3>2. Busy(p.mem, p.idx)
      BY <1>2 DEF Busy
    <3> QED BY <1>1, <1>5, <2>2, <3>1, <3>2
  <2> QED BY <2>1, <2>2
<1>6. ASSUME NEW o \in out'
      PROVE  o.mem \in MemsOf(Pool)'
  <2>1. /\ o.mem \in MemsOf(Pool) /\ o.idx \in Indices(Pool)
        /\ o = Object(o.mem, o.idx) /\ o \in out
    BY HeldFacts
  <2>2. Busy(o.mem, o.idx)
    BY <2>1 DEF Busy
  <2> QED BY <1>1, <1>4, <2>1, <2>2
<1>7. Held' \subseteq Held /\ out' \subseteq out
  BY <1>2
<1>8. Core'
  BY <1>1, <1>2, <1>3, <1>5, <1>6, <1>7, DroppedCore
<1> QED BY <1>2, <1>8

LEMMA FreeEmptyMemCore ==
  ASSUME Core, NEW size, NEW c \in Caches, FreeEmpty(size, c), UNCHANGED objVars
  PROVE  Core' /\ Held' = Held
<1>1. FreeEmptyIn(c) /\ UNCHANGED memVars /\ objects' = objects /\ out' = out
  BY DEF FreeEmpty, objVars
<1>2. c \in Stores /\ c # Pool /\ Pool \in Stores
  BY HeldFacts
<1>3. MemsOf(Pool)' = MemsOf(Pool) /\ Indices(Pool)' = Indices(Pool)
  BY <1>1, <1>2, FreeEmptyDrops, DroppedPlaces
<1>4. objects' = {Object(n, j) : n \in MemsOf(Pool)', j \in Indices(Pool)'}
  BY <1>1, <1>3 DEF Core, Objects, TypeOK
<1> QED BY <1>1, <1>2, <1>4, FreeEmptyCore

LEMMA DroppedObjects ==
  ASSUME Core, Dropped(Pool), SlabsMakeObjects
  PROVE  objects' = {Object(n, j) : n \in MemsOf(Pool)', j \in Indices(Pool)'}
<1>1. Pool \in Stores
  BY HeldFacts
<1>2. /\ Indices(Pool)' = Indices(Pool) /\ MemsOf(Pool)' = MemsOf(Pool) \cap heap'
      /\ heap' \subseteq heap
  BY <1>1, DroppedPlaces
<1>3. MemsOf(Pool)' = (MemsOf(Pool) \cap heap') \cup (heap' \ heap)
  BY <1>2
<1> QED BY <1>2, <1>3, ObjectsMade

LEMMA FreeEmptyObjCore ==
  ASSUME Core, FreeEmptyObj
  PROVE  Core' /\ Held' = Held
<1>1. FreeEmptyIn(Pool) /\ SlabsMakeObjects /\ UNCHANGED memVars /\ out' = out
  BY DEF FreeEmptyObj
<1>2. Pool \in Stores
  BY HeldFacts
<1>3. Dropped(Pool)
  BY <1>1, <1>2, FreeEmptyDrops
<1>4. objects' = {Object(n, j) : n \in MemsOf(Pool)', j \in Indices(Pool)'}
  BY <1>1, <1>3, DroppedObjects
<1> QED BY <1>1, <1>2, <1>4, FreeEmptyCore

LEMMA FreeAllObjCore ==
  ASSUME Core, FreeAllObj
  PROVE  Core' /\ Held' = Held /\ out' = {}
<1>1. FreeAllIn(Pool) /\ SlabsMakeObjects /\ UNCHANGED memVars /\ out' = {}
  BY DEF FreeAllObj
<1>2. Pool \in Stores
  BY HeldFacts
<1>3. Dropped(Pool) /\ MemsOf(Pool)' = {}
  BY <1>1, <1>2, FreeAllDrops
<1>4. objects' = {Object(n, j) : n \in MemsOf(Pool)', j \in Indices(Pool)'}
  BY <1>1, <1>3, DroppedObjects
<1>5. Held' = Held /\ LargeBlocks' = LargeBlocks /\ live' \cap leaked' = {}
  BY <1>1 DEF memVars, Held, LargeBlocks, Core, Blocks
<1>6. \A d \in Stores \ {Pool} : MemsOf(d)' = MemsOf(d)
  BY <1>2, <1>3, DroppedPlaces
<1>7. ASSUME NEW d \in Stores, NEW n \in MemsOf(d)', NEW j
      PROVE  Busy(n, j)' <=> Busy(n, j)
  <2>1. n \in MemsOf(d) /\ d \in Caches
    BY <1>3, <1>6, <1>7, PoolAssumption
  <2>2. Object(n, j) \notin out
    BY <2>1, BusyFacts
  <2> QED BY <1>1, <1>5, <2>2 DEF Busy, Object
<1>8. ASSUME NEW p \in Held', NEW d \in Stores, p.mem \in MemsOf(d)
      PROVE  p.mem \in MemsOf(d)'
  <2>1. d # Pool
    BY <1>5, <1>8, HeldFacts
  <2> QED BY <1>6, <1>8, <2>1
<1>9. /\ \A o \in out' : o.mem \in MemsOf(Pool)'
      /\ Held' \subseteq Held /\ out' \subseteq out
  BY <1>1, <1>5
<1>10. Core'
  BY <1>2, <1>3, <1>4, <1>5, <1>7, <1>8, <1>9, DroppedCore
<1> QED BY <1>1, <1>5, <1>10

LEMMA RoundedIsNat ==
  ASSUME NEW c \in Stores, NEW n \in Nat
  PROVE  RoundedCount(c, n) \in Nat
<1>1. /\ BlockSize[c] \in Nat /\ BlockSize[c] > 0 /\ PageSize \in Nat /\ PageSize > 0
  BY SizesAssumption
<1>2. \A x, y \in Nat : x * y \in Nat
  OBVIOUS
<1>3. \A x, y \in Nat : y > 0 => x \div y \in Nat
  OBVIOUS
<1>4. PICK b : b = n * BlockSize[c] + PageSize - 1
  OBVIOUS
<1>5. b \in Nat
  <2>1. n * BlockSize[c] \in Nat
    BY <1>1, <1>2
  <2> QED BY <1>1, <1>4, <2>1
<1>6. PICK k : k = b \div PageSize
  OBVIOUS
<1>7. k \in Nat /\ k = Pages(n * BlockSize[c])
  BY <1>1, <1>3, <1>4, <1>5, <1>6 DEF Pages
<1>8. PICK q : q = k * PageSize
  OBVIOUS
<1>9. q \in Nat
  BY <1>1, <1>2, <1>7, <1>8
<1>10. RoundedCount(c, n) = q \div BlockSize[c]
  BY <1>7, <1>8 DEF RoundedCount
<1> QED BY <1>1, <1>3, <1>9, <1>10

\* A number of blocks that all memory there is can be counted in.
LEMMA FewEnough ==
  ASSUME NEW n \in Nat, Cardinality(Mems) * n < Modulus, Mems # {}
  PROVE  n \in 0 .. Modulus - 1
<1>1. IsFiniteSet(Mems) /\ Cardinality(Mems) \in Nat
  BY SpaceAssumption, FS_CardinalityType
<1>2. Cardinality(Mems) >= 1
  BY <1>1, FS_EmptySet
<1>3. PICK k \in Nat : k = Cardinality(Mems) /\ k >= 1
  BY <1>1, <1>2
<1>4. 1 * n <= k * n
  BY <1>3, Product
<1>5. k * n < Modulus /\ k * n \in Nat /\ Modulus \in Nat
  BY <1>3, SizesAssumption
<1> QED BY <1>4, <1>5

\* addCache() of SlabObj
LEMMA AddPoolCore ==
  ASSUME Core, NEW n \in PoolCounts, NEW m \in Mems, AddPool(n, m)
  PROVE  Core' /\ Held' = Held /\ out' = {}
<1>1. PICK k : k = RoundedCount(Pool, n)
  OBVIOUS
<1>2. /\ NewCacheIn(Pool, k, m) /\ SlabsMakeObjects /\ UNCHANGED memVars /\ out' = {}
  BY <1>1 DEF AddPool
<1>3. Pool \in Stores /\ Pool \notin Caches /\ Caches \subseteq Stores
  BY HeldFacts
<1>4. k \in 0 .. Modulus - 1 /\ Cardinality(Mems) * k < Modulus
  <2>1. n \in Nat
    BY PoolAssumption
  <2>2. k \in Nat
    BY <1>1, <1>3, <2>1, RoundedIsNat
  <2>3. Cardinality(Mems) * k < Modulus
    BY <1>1, SpaceAssumption
  <2>4. Mems # {}
    OBVIOUS
  <2> QED BY <2>2, <2>3, <2>4, FewEnough
<1>5. /\ Lists' /\ Only(Pool) /\ UNCHANGED overrun /\ m \notin heap /\ overrun = {}
      /\ SlabsOf(Pool)' = {NewSlab(m, k)}
      /\ heap' = (heap \cup {m}) \ MemsOf(Pool) /\ emptied' = emptied \ {Pool}
      /\ mySize' \in [Stores -> 0 .. Modulus - 1]
      /\ myCapacity' \in [Stores -> 0 .. Modulus - 1]
      /\ count'[Pool] = k /\ count' \in [Stores -> Nat]
  BY <1>2, <1>3, <1>4, NewCacheIs
<1>6. \A d \in Stores \ {Pool} : /\ SlabsOf(d)' = SlabsOf(d) /\ MemsOf(d)' = MemsOf(d)
                                 /\ count'[d] = count[d] /\ Indices(d)' = Indices(d)
  BY <1>3, <1>5, OnlyFacts
<1>7. MemsOf(Pool)' = {m} /\ Indices(Pool)' = 0 .. k - 1
  BY <1>5 DEF MemsOf, NewSlab, Indices
<1>8. Held' = Held /\ LargeBlocks' = LargeBlocks /\ live' \cap leaked' = {}
  BY <1>2 DEF memVars, Held, LargeBlocks, Core, Blocks
<1>9. \A d, j : Busy(d, j)' <=> \E p \in Held : p.mem = d /\ p.idx = j
  BY <1>2, <1>8 DEF Busy
<1>10. /\ \A d, e \in Stores : d # e => MemsOf(d) \cap MemsOf(e) = {}
       /\ \A d \in Stores, p \in LargeBlocks : p.mem \notin MemsOf(d)
       /\ heap = (UNION {MemsOf(d) : d \in Stores}) \cup {p.mem : p \in LargeBlocks}
  BY DEF Core, Places
<1>11. /\ \A d \in Stores : MemsOf(d) \subseteq heap
       /\ \A p \in Held : p.mem \in heap
       /\ heap \subseteq Mems
       /\ LargeBlocks \subseteq Held
  BY HeldFacts DEF LargeBlocks
<1>12. \A d \in Stores : \A s \in SlabsOf(d)' :
         s.availible = {j \in Indices(d)' : ~Busy(s.mem, j)'}
  <2>1. \A s \in SlabsOf(Pool)' : s.availible = {j \in Indices(Pool)' : ~Busy(s.mem, j)'}
    <3>1. \A j : ~Busy(m, j)'
      BY <1>5, <1>9, <1>11
    <3>2. NewSlab(m, k).mem = m /\ NewSlab(m, k).availible = 0 .. k - 1
      BY NewFacts
    <3>3. ASSUME NEW s \in SlabsOf(Pool)'
          PROVE  s.availible = {j \in Indices(Pool)' : ~Busy(s.mem, j)'}
      <4>1. s = NewSlab(m, k)
        BY <1>5
      <4>2. s.mem = m /\ s.availible = Indices(Pool)'
        BY <1>7, <3>2, <4>1
      <4> QED BY <3>1, <4>2
    <3> QED BY <3>3
  <2>2. \A d \in Stores \ {Pool} : \A q \in MemsOf(d) : \A j : Busy(q, j)' <=> Busy(q, j)
    <3>1. Stores \ {Pool} = Caches
      BY PoolAssumption
    <3> QED BY <1>9, <3>1, BusyFacts
  <2>3. \A d \in Stores \ {Pool} : \A s \in SlabsOf(d)' :
          s.availible = {j \in Indices(d)' : ~Busy(s.mem, j)'}
    BY <1>3, <1>5, <2>2, OthersAccounted
  <2> QED BY <2>1, <2>3
<1>13. Blocks'
  <2>1. /\ \A p \in Held \ LargeBlocks : \E d \in Caches :
             Serves(d, p.bytes) /\ p.mem \in MemsOf(d)
        /\ \A p, q \in Held : p.mem = q.mem /\ p.idx = q.idx => p = q
        /\ \A p \in LargeBlocks : p.idx = 0
        /\ \A d \in Caches, p \in Held : p.mem \in MemsOf(d) => p.idx \in Indices(d)
    BY DEF Core, Blocks, BlocksAccounted
  <2>2. \A d \in Caches : MemsOf(d)' = MemsOf(d) /\ Indices(d)' = Indices(d)
    BY <1>3, <1>6
  <2> QED BY <1>8, <1>12, <2>1, <2>2, BlocksStep
<1>14. Places'
  <2>1. ASSUME NEW d \in Stores, NEW e \in Stores, d # e
        PROVE  MemsOf(d)' \cap MemsOf(e)' = {}
    <3>1. m \notin heap /\ \A r \in Stores \ {Pool} : MemsOf(r)' \subseteq heap
      BY <1>5, <1>6, <1>11
    <3>2. CASE d = Pool \/ e = Pool
      BY <1>7, <2>1, <3>1, <3>2
    <3>3. CASE d # Pool /\ e # Pool
      BY <1>6, <1>10, <2>1, <3>3
    <3> QED BY <3>2, <3>3
  <2>2. \A d \in Stores, p \in LargeBlocks : p.mem \notin MemsOf(d)'
    BY <1>5, <1>6, <1>7, <1>10, <1>11
  <2>3. heap' = (UNION {MemsOf(d)' : d \in Stores}) \cup {p.mem : p \in LargeBlocks}
    <3>1. ASSUME NEW x, x \in heap'
          PROVE  x \in (UNION {MemsOf(d)' : d \in Stores}) \cup {p.mem : p \in LargeBlocks}
      <4>1. CASE x = m
        BY <1>3, <1>7, <4>1
      <4>2. CASE \E d \in Stores : x \in MemsOf(d)
        <5>1. PICK d \in Stores : x \in MemsOf(d)
          BY <4>2
        <5>2. d # Pool
          BY <1>5, <3>1, <5>1
        <5> QED BY <1>6, <5>1, <5>2
      <4>3. CASE x \in {p.mem : p \in LargeBlocks}
        BY <4>3
      <4> QED BY <1>5, <1>10, <3>1, <4>1, <4>2, <4>3
    <3>2. \A p \in LargeBlocks : p.mem \in heap'
      BY <1>3, <1>5, <1>10, <1>11
    <3>3. \A d \in Stores : MemsOf(d)' \subseteq heap'
      BY <1>3, <1>5, <1>6, <1>7, <1>10, <1>11
    <3> QED BY <3>1, <3>2, <3>3
  <2> QED BY <1>8, <2>1, <2>2, <2>3 DEF Places
<1>15. objects' = {Object(q, j) : q \in MemsOf(Pool)', j \in Indices(Pool)'}
  <2>1. MemsOf(Pool) \cap heap' = {}
    BY <1>5
  <2>2. heap' \ heap = {m}
    BY <1>3, <1>5, <1>11
  <2>3. MemsOf(Pool)' = (MemsOf(Pool) \cap heap') \cup (heap' \ heap)
    BY <1>7, <2>1, <2>2
  <2> QED BY <1>2, <2>1, <2>3, ObjectsMade
<1>16. Objects'
  BY <1>2, <1>15 DEF Objects
<1>17. HelperTypeOK'
  <2>1. heap' \subseteq Mems /\ emptied' \subseteq Stores /\ overrun' \subseteq Stores
    BY <1>5, <1>11 DEF Core, TypeOK, HelperTypeOK
  <2> QED BY <1>5, <2>1, HelperTypes
<1>18. TypeOK'
  <2>1. \A q \in MemsOf(Pool)', j \in Indices(Pool)' : Object(q, j) \in [mem : Mems, idx : Nat]
    <3>1. Indices(Pool)' \subseteq Nat
      BY <1>4, <1>7
    <3> QED BY <1>7, <3>1 DEF Object
  <2>2. objects' \subseteq [mem : Mems, idx : Nat]
    BY <1>15, <2>1
  <2>3. live' \cup leaked' \subseteq [mem : Mems, idx : Nat, bytes : Requests]
    BY <1>2 DEF memVars, Core, TypeOK
  <2> QED BY <1>2, <1>15, <1>17, <2>2, <2>3 DEF TypeOK
<1>19. Space'
  <2>1. \A d \in Stores \ {Pool} : Cardinality(Mems) * count[d] < Modulus
    BY DEF Core, Space
  <2> QED BY <1>4, <1>5, <1>6, <2>1 DEF Space
<1>20. OnlySingleBlocksOverrun'
  BY <1>5 DEF OnlySingleBlocksOverrun
<1> QED BY <1>2, <1>5, <1>8, <1>13, <1>14, <1>16, <1>18, <1>19, <1>20 DEF Core

\* Caches that nothing happens to.
LEMMA Still ==
  ASSUME UNCHANGED <<count, lists>>
  PROVE  /\ \A c \in Stores : /\ SlabsOf(c)' = SlabsOf(c) /\ MemsOf(c)' = MemsOf(c)
                              /\ Indices(c)' = Indices(c) /\ SlabCount(c)' = SlabCount(c)
         /\ (Lists => Lists') /\ (Space => Space')
         /\ (/\ mySize' = mySize /\ myCapacity' = myCapacity /\ heap' \subseteq Mems
             /\ emptied' = emptied /\ overrun' \subseteq Stores /\ HelperTypeOK)
            => HelperTypeOK'
<1>1. /\ slabsFree' = slabsFree /\ slabsPart' = slabsPart /\ slabsFull' = slabsFull
      /\ count' = count
  BY DEF lists
<1>2. \A c \in Stores : /\ SlabsOf(c)' = SlabsOf(c) /\ MemsOf(c)' = MemsOf(c)
                        /\ Indices(c)' = Indices(c) /\ SlabCount(c)' = SlabCount(c)
  BY <1>1 DEF SlabsOf, MemsOf, Indices, SlabCount
<1>3. (Lists => Lists') /\ (Space => Space')
  BY <1>1 DEF Lists, Space
<1>4. ASSUME mySize' = mySize, myCapacity' = myCapacity, heap' \subseteq Mems,
             emptied' = emptied, overrun' \subseteq Stores, HelperTypeOK
      PROVE  HelperTypeOK'
  <2>1. \A c \in Stores : Slab(c)' = Slab(c)
    BY <1>2 DEF Slab
  <2> QED BY <1>1, <1>4, <2>1 DEF HelperTypeOK
<1> QED BY <1>2, <1>3, <1>4

\* allocate() of what no cache has blocks for
LEMMA AllocateLargeCore ==
  ASSUME Core, NEW bytes \in Requests, NEW m, AllocateLarge(bytes, m), UNCHANGED objVars
  PROVE  Core' /\ \A c \in Caches : HeldBy(c)' = HeldBy(c)
<1>1. PICK b : b = Block(m, 0, bytes)
  OBVIOUS
<1>2. /\ overrun = {} /\ Served(bytes) = {} /\ m \in Mems \ heap
      /\ heap' = heap \cup {m} /\ live' = live \cup {b} /\ leaked' = leaked
      /\ UNCHANGED <<count, lists, mySize, myCapacity, emptied, overrun>>
      /\ objects' = objects /\ out' = out
  BY <1>1 DEF AllocateLarge, Unused, objVars
<1>3. /\ b.mem = m /\ b.idx = 0 /\ b.bytes = bytes
      /\ b \in [mem : Mems, idx : Nat, bytes : Requests]
  BY <1>1, <1>2 DEF Block
<1>4. Held' = Held \cup {b} /\ LargeBlocks' = LargeBlocks \cup {b}
  BY <1>2, <1>3 DEF Held, LargeBlocks
<1>5. /\ \A p \in Held : p.mem # m
      /\ \A c \in Stores : m \notin MemsOf(c) /\ MemsOf(c) \subseteq heap
      /\ Caches \subseteq Stores /\ Pool \in Stores /\ heap \subseteq Mems
  BY <1>2, HeldFacts
<1>6. /\ \A c \in Stores : /\ SlabsOf(c)' = SlabsOf(c) /\ MemsOf(c)' = MemsOf(c)
                           /\ Indices(c)' = Indices(c)
      /\ Lists' /\ Space'
  BY <1>2, Still DEF Core
<1>7. HelperTypeOK'
  <2>1. heap' \subseteq Mems /\ overrun' \subseteq Stores /\ HelperTypeOK
    BY <1>2, <1>5 DEF Core, TypeOK
  <2> QED BY <1>2, <2>1, Still
<1>8. \A c \in Stores : \A s \in SlabsOf(c)' :
        s.availible = {j \in Indices(c)' : ~Busy(s.mem, j)'}
  <2>1. \A n, j : n # m => (Busy(n, j)' <=> Busy(n, j))
    BY <1>2, <1>3, <1>4 DEF Busy, Object
  <2>2. \A c \in Stores : \A s \in SlabsOf(c) :
          s.mem # m /\ s.availible = {j \in Indices(c) : ~Busy(s.mem, j)}
    BY <1>5, BusyFacts DEF MemsOf
  <2> QED BY <1>6, <2>1, <2>2
<1>9. /\ \A p \in Held \ LargeBlocks : \E c \in Caches :
           Serves(c, p.bytes) /\ p.mem \in MemsOf(c)
      /\ \A p, q \in Held : p.mem = q.mem /\ p.idx = q.idx => p = q
      /\ live \cap leaked = {}
      /\ \A p \in LargeBlocks : p.idx = 0
      /\ \A c \in Caches, p \in Held : p.mem \in MemsOf(c) => p.idx \in Indices(c)
  BY DEF Core, Blocks, BlocksAccounted
<1>10. Blocks'
  <2>1. \A p \in Held' \ LargeBlocks' : \E c \in Caches :
          Serves(c, p.bytes) /\ p.mem \in MemsOf(c)'
    BY <1>4, <1>5, <1>6, <1>9
  <2>2. \A p, q \in Held' : p.mem = q.mem /\ p.idx = q.idx => p = q
    BY <1>3, <1>4, <1>5, <1>9
  <2>3. live' \cap leaked' = {}
    BY <1>2, <1>3, <1>5, <1>9 DEF Held
  <2>4. \A p \in LargeBlocks' : p.idx = 0
    BY <1>3, <1>4, <1>9
  <2>5. \A c \in Caches, p \in Held' : p.mem \in MemsOf(c)' => p.idx \in Indices(c)'
    BY <1>3, <1>4, <1>5, <1>6, <1>9
  <2> QED BY <1>8, <2>1, <2>2, <2>3, <2>4, <2>5, BlocksStep
<1>11. Places'
  <2>1. /\ \A c, d \in Stores : c # d => MemsOf(c)' \cap MemsOf(d)' = {}
        /\ \A c \in Stores, p \in LargeBlocks' : p.mem \notin MemsOf(c)'
    BY <1>3, <1>4, <1>5, <1>6 DEF Core, Places
  <2>2. UNION {MemsOf(c)' : c \in Stores} = UNION {MemsOf(c) : c \in Stores}
    BY <1>6
  <2>3. {p.mem : p \in LargeBlocks'} = {p.mem : p \in LargeBlocks} \cup {m}
    BY <1>3, <1>4
  <2>4. heap = (UNION {MemsOf(c) : c \in Stores}) \cup {p.mem : p \in LargeBlocks}
    BY DEF Core, Places
  <2>5. heap' = (UNION {MemsOf(c)' : c \in Stores}) \cup {p.mem : p \in LargeBlocks'}
    BY <1>2, <2>2, <2>3, <2>4
  <2> QED BY <2>1, <2>5 DEF Places
<1>12. Objects' /\ OnlySingleBlocksOverrun'
  BY <1>2, <1>5, <1>6 DEF Core, Objects, OnlySingleBlocksOverrun
<1>13. TypeOK'
  BY <1>2, <1>3, <1>7 DEF Core, TypeOK
<1>14. \A c \in Caches : HeldBy(c)' = HeldBy(c)
  BY <1>2, <1>3, <1>4 DEF HeldBy, Serves
<1> QED BY <1>6, <1>10, <1>11, <1>12, <1>13, <1>14 DEF Core

\* deallocate() of it
LEMMA DeallocateLargeCore ==
  ASSUME Core, NEW b \in live, DeallocateLarge(b), UNCHANGED objVars
  PROVE  Core' /\ \A c \in Caches : HeldBy(c)' = HeldBy(c)
<1>1. /\ overrun = {} /\ Served(b.bytes) = {}
      /\ heap' = heap \ {b.mem} /\ live' = live \ {b} /\ leaked' = leaked
      /\ UNCHANGED <<count, lists, mySize, myCapacity, emptied, overrun>>
      /\ objects' = objects /\ out' = out
  BY DEF DeallocateLarge, objVars
<1>2. /\ \A p \in Held \ LargeBlocks : \E c \in Caches :
           Serves(c, p.bytes) /\ p.mem \in MemsOf(c)
      /\ \A p, q \in Held : p.mem = q.mem /\ p.idx = q.idx => p = q
      /\ live \cap leaked = {}
      /\ \A p \in LargeBlocks : p.idx = 0
      /\ \A c \in Caches, p \in Held : p.mem \in MemsOf(c) => p.idx \in Indices(c)
  BY DEF Core, Blocks, BlocksAccounted
<1>3. b \in Held /\ b \in LargeBlocks /\ LargeBlocks \subseteq Held
  BY <1>1 DEF Held, LargeBlocks
<1>4. Held' = Held \ {b} /\ LargeBlocks' = LargeBlocks \ {b}
  BY <1>1, <1>2 DEF Held, LargeBlocks
<1>5. /\ \A c \in Stores : b.mem \notin MemsOf(c) /\ MemsOf(c) \subseteq heap
      /\ Caches \subseteq Stores /\ Pool \in Stores /\ heap \subseteq Mems
  BY <1>3, HeldFacts DEF Core, Places
<1>6. /\ \A c \in Stores : /\ SlabsOf(c)' = SlabsOf(c) /\ MemsOf(c)' = MemsOf(c)
                           /\ Indices(c)' = Indices(c)
      /\ Lists' /\ Space'
  BY <1>1, Still DEF Core
<1>7. HelperTypeOK'
  <2>1. heap' \subseteq Mems /\ overrun' \subseteq Stores /\ HelperTypeOK
    BY <1>1, <1>5 DEF Core, TypeOK
  <2> QED BY <1>1, <2>1, Still
<1>8. \A c \in Stores : \A s \in SlabsOf(c)' :
        s.availible = {j \in Indices(c)' : ~Busy(s.mem, j)'}
  <2>1. \A n, j : n # b.mem => (Busy(n, j)' <=> Busy(n, j))
    BY <1>1, <1>4 DEF Busy, Object
  <2>2. \A c \in Stores : \A s \in SlabsOf(c) :
          s.mem # b.mem /\ s.availible = {j \in Indices(c) : ~Busy(s.mem, j)}
    BY <1>5, BusyFacts DEF MemsOf
  <2> QED BY <1>6, <2>1, <2>2
<1>9. Blocks'
  <2>1. \A p \in Held' \ LargeBlocks' : \E c \in Caches :
          Serves(c, p.bytes) /\ p.mem \in MemsOf(c)'
    BY <1>2, <1>4, <1>5, <1>6
  <2>2. live' \cap leaked' = {}
    BY <1>1, <1>2
  <2>3. \A c \in Caches, p \in Held' : p.mem \in MemsOf(c)' => p.idx \in Indices(c)'
    BY <1>2, <1>4, <1>5, <1>6
  <2> QED BY <1>2, <1>4, <1>8, <2>1, <2>2, <2>3, BlocksStep
<1>10. Places'
  <2>1. /\ \A c, d \in Stores : c # d => MemsOf(c)' \cap MemsOf(d)' = {}
        /\ \A c \in Stores, p \in LargeBlocks' : p.mem \notin MemsOf(c)'
    BY <1>4, <1>6 DEF Core, Places
  <2>2. UNION {MemsOf(c)' : c \in Stores} = UNION {MemsOf(c) : c \in Stores}
    BY <1>6
  <2>3. b.mem \notin UNION {MemsOf(c) : c \in Stores}
    BY <1>5
  <2>4. {p.mem : p \in LargeBlocks'} = {p.mem : p \in LargeBlocks} \ {b.mem}
    <3>1. \A p \in LargeBlocks : p.mem = b.mem => p = b
      BY <1>2, <1>3
    <3> QED BY <1>4, <3>1
  <2>5. heap = (UNION {MemsOf(c) : c \in Stores}) \cup {p.mem : p \in LargeBlocks}
    BY DEF Core, Places
  <2>6. heap' = (UNION {MemsOf(c)' : c \in Stores}) \cup {p.mem : p \in LargeBlocks'}
    BY <1>1, <2>2, <2>3, <2>4, <2>5
  <2> QED BY <2>1, <2>6 DEF Places
<1>11. Objects' /\ OnlySingleBlocksOverrun'
  BY <1>1, <1>5, <1>6 DEF Core, Objects, OnlySingleBlocksOverrun
<1>12. TypeOK'
  BY <1>1, <1>7 DEF Core, TypeOK
<1>13. \A c \in Caches : HeldBy(c)' = HeldBy(c)
  BY <1>1, <1>4 DEF HeldBy, Serves
<1> QED BY <1>6, <1>9, <1>10, <1>11, <1>12, <1>13 DEF Core

\* A slab with one block is opened.
LEMMA OverrunIs ==
  ASSUME Core, NEW c \in Stores, AllocateOverrun(c)
  PROVE  /\ count[c] = 1 /\ overrun' = {c}
         /\ UNCHANGED <<count, lists, mySize, myCapacity, heap, emptied>>
<1>1. /\ \/ slabsFree[c] # <<>> /\ Cardinality(Head(slabsFree[c]).availible) = 1
         \/ count[c] = 1
      /\ overrun' = {c}
      /\ UNCHANGED <<count, lists, mySize, myCapacity, heap, emptied>>
  BY DEF AllocateOverrun
<1>2. PICK f, n : f = slabsFree[c] /\ n = count[c]
  OBVIOUS
<1>3. /\ f \in Seq(SlabOf(n)) /\ \A s \in Range(f) : s.availible = 0 .. n - 1
  BY <1>2, ListFacts DEF Core, Tidy
<1>4. n \in Nat
  BY <1>2, CounterFacts DEF Core
<1>5. CASE f # <<>> /\ Cardinality(Head(f).availible) = 1
  <2>1. Head(f) \in Range(f)
    BY <1>3, <1>5, HeadIs
  <2>2. Head(f).availible = 0 .. n - 1
    BY <1>3, <2>1
  <2>3. Cardinality(0 .. n - 1) = n
    BY <1>4, Interval
  <2> QED BY <1>1, <1>2, <1>5, <2>2, <2>3
<1> QED BY <1>1, <1>2, <1>5

LEMMA QuietCore ==
  ASSUME Core, UNCHANGED <<count, lists, mySize, myCapacity, heap, emptied>>,
         UNCHANGED <<memVars, objVars>>,
         overrun' \subseteq Stores, \A c \in overrun' : count[c] = 1
  PROVE  Core' /\ Held' = Held
<1>1. /\ \A c \in overrun' : count[c] = 1
      /\ UNCHANGED <<count, lists, mySize, myCapacity, heap, emptied>>
  OBVIOUS
<1>2. /\ live' = live /\ leaked' = leaked /\ objects' = objects /\ out' = out
      /\ Held' = Held /\ LargeBlocks' = LargeBlocks
  BY DEF memVars, objVars, Held, LargeBlocks
<1>3. /\ \A d \in Stores : /\ SlabsOf(d)' = SlabsOf(d) /\ MemsOf(d)' = MemsOf(d)
                           /\ Indices(d)' = Indices(d)
      /\ Lists' /\ Space'
  BY <1>1, Still DEF Core
<1>4. HelperTypeOK'
  <2>1. heap' \subseteq Mems /\ overrun' \subseteq Stores /\ HelperTypeOK
    BY <1>1 DEF Core, TypeOK, HelperTypeOK
  <2> QED BY <1>1, <2>1, Still
<1>5. /\ \A d \in Caches : d \in Stores
      /\ Pool \in Stores
  BY HeldFacts
<1>6. Blocks'
  <2>1. \A n, j : Busy(n, j)' <=> Busy(n, j)
    BY <1>2 DEF Busy, Object
  <2>2. \A d \in Stores : \A s \in SlabsOf(d)' :
          s.availible = {j \in Indices(d)' : ~Busy(s.mem, j)'}
    BY <1>3, <2>1, BusyFacts
  <2>3. /\ \A p \in Held \ LargeBlocks : \E d \in Caches :
             Serves(d, p.bytes) /\ p.mem \in MemsOf(d)
        /\ \A p, q \in Held : p.mem = q.mem /\ p.idx = q.idx => p = q
        /\ live \cap leaked = {}
        /\ \A p \in LargeBlocks : p.idx = 0
        /\ \A d \in Caches, p \in Held : p.mem \in MemsOf(d) => p.idx \in Indices(d)
    BY DEF Core, Blocks, BlocksAccounted
  <2> QED BY <1>2, <1>3, <1>5, <2>2, <2>3, BlocksStep
<1>7. Places'
  <2>1. UNION {MemsOf(d)' : d \in Stores} = UNION {MemsOf(d) : d \in Stores}
    BY <1>3
  <2> QED BY <1>1, <1>2, <1>3, <2>1 DEF Core, Places
<1>8. Objects'
  BY <1>2, <1>3, <1>5 DEF Core, Objects
<1>9. OnlySingleBlocksOverrun'
  BY <1>1 DEF OnlySingleBlocksOverrun
<1>10. TypeOK'
  BY <1>2, <1>4 DEF Core, TypeOK
<1> QED BY <1>2, <1>3, <1>6, <1>7, <1>8, <1>9, <1>10 DEF Core

LEMMA AstrayCore ==
  ASSUME Core, NEW c \in Stores, AllocateOverrun(c), UNCHANGED <<memVars, objVars>>
  PROVE  Core' /\ Held' = Held
<1>1. /\ count[c] = 1 /\ overrun' = {c}
      /\ UNCHANGED <<count, lists, mySize, myCapacity, heap, emptied>>
  BY OverrunIs
<1>2. overrun' \subseteq Stores /\ \A d \in overrun' : count[d] = 1
  BY <1>1
<1> QED BY <1>1, <1>2, QuietCore

-----------------------------------------------------------------------------
(* The counters, from step to step.                                         *)

\* CountersRight, from its parts, after a step.
CountersStep ==
  /\ \A c \in Caches : mySize'[c] = Cardinality(HeldBy(c)')
  /\ mySize'[Pool] = Cardinality(out')
  /\ \A c \in Stores : c \notin emptied' => myCapacity'[c] = count'[c] * SlabCount(c)'

LEMMA CountersAre ==
  /\ CountersStep => CountersRight'
  /\ CountersRight => /\ \A c \in Caches : mySize[c] = Cardinality(HeldBy(c))
                      /\ mySize[Pool] = Cardinality(out)
                      /\ \A c \in Stores : c \notin emptied =>
                           myCapacity[c] = count[c] * SlabCount(c)
BY DEF CountersStep, CountersRight, HeldBy, Serves, Served, Caches

LEMMA SizeUp ==
  ASSUME NEW S, NEW b, IsFiniteSet(S), b \notin S, Cardinality(S \cup {b}) \in 0 .. Modulus - 1
  PROVE  (Cardinality(S) + 1) % Modulus = Cardinality(S \cup {b})
<1>1. Cardinality(S \cup {b}) = Cardinality(S) + 1
  BY FS_AddElement
<1>2. Modulus \in Nat \ {0}
  BY SizesAssumption
<1>3. PICK k : k = Cardinality(S) + 1
  OBVIOUS
<1>4. k \in 0 .. Modulus - 1
  BY <1>1, <1>3
<1>5. k % Modulus = k
  BY <1>2, <1>4
<1> QED BY <1>1, <1>3, <1>5

LEMMA SizeDown ==
  ASSUME NEW S, NEW b \in S, IsFiniteSet(S), Cardinality(S) \in 0 .. Modulus - 1
  PROVE  (Cardinality(S) - 1) % Modulus = Cardinality(S \ {b})
<1>1. IsFiniteSet(S \ {b}) /\ Cardinality(S \ {b}) = Cardinality(S) - 1
  BY FS_RemoveElement
<1>2. Modulus \in Nat \ {0} /\ Cardinality(S \ {b}) \in Nat
  BY <1>1, SizesAssumption, FS_CardinalityType
<1>3. PICK k : k = Cardinality(S) - 1
  OBVIOUS
<1>4. k \in 0 .. Modulus - 1
  BY <1>1, <1>2, <1>3
<1>5. k % Modulus = k
  BY <1>2, <1>4
<1> QED BY <1>1, <1>3, <1>5

LEMMA GainedCapacity ==
  ASSUME Inv, Core', NEW c \in Stores, NEW m, NEW i, Gained(c, m, i)
  PROVE  \A d \in Stores : d \notin emptied' => myCapacity'[d] = count'[d] * SlabCount(d)'
<1>1. /\ Only(c) /\ UNCHANGED <<count, emptied>>
      /\ \/ myCapacity'[c] = myCapacity[c] /\ SlabCount(c)' = SlabCount(c)
         \/ /\ myCapacity'[c] = (myCapacity[c] + count[c]) % Modulus
            /\ SlabCount(c)' = SlabCount(c) + 1
  BY DEF Gained
<1>2. \A d \in Stores : d \notin emptied => myCapacity[d] = count[d] * SlabCount(d)
  BY CountersAre DEF Inv
<1>3. \A d \in Stores \ {c} : d \notin emptied' => myCapacity'[d] = count'[d] * SlabCount(d)'
  BY <1>1, <1>2, OnlyFacts
<1>4. ASSUME c \notin emptied'
      PROVE  myCapacity'[c] = count'[c] * SlabCount(c)'
  <2>1. count'[c] = count[c] /\ myCapacity[c] = count[c] * SlabCount(c)
    BY <1>1, <1>2, <1>4
  <2>2. CASE myCapacity'[c] = myCapacity[c] /\ SlabCount(c)' = SlabCount(c)
    BY <2>1, <2>2
  <2>3. CASE /\ myCapacity'[c] = (myCapacity[c] + count[c]) % Modulus
             /\ SlabCount(c)' = SlabCount(c) + 1
    <3>1. PICK a, b : a = count[c] /\ b = SlabCount(c)
      OBVIOUS
    <3>2. a \in Nat /\ b \in Nat /\ Modulus \in Nat \ {0}
      <4>1. a \in Nat /\ Modulus \in Nat \ {0}
        BY <3>1, CounterFacts DEF Inv, Core
      <4>2. IsFiniteSet(MemsOf(c)) /\ Cardinality(MemsOf(c)) = b
        BY <3>1, ListFacts DEF Inv, Core
      <4> QED BY <4>1, <4>2, FS_CardinalityType
    <3>3. a * (b + 1) = a * b + a
      BY <3>2
    <3>4. a * (b + 1) \in 0 .. Modulus - 1
      <4>1. count'[c] * SlabCount(c)' \in 0 .. Modulus - 1
        BY CoreIsFewNext DEF Few
      <4> QED BY <2>1, <2>3, <3>1, <4>1
    <3>5. PICK k : k = a * b + a
      OBVIOUS
    <3>6. k % Modulus = k
      BY <3>2, <3>3, <3>4, <3>5
    <3> QED BY <2>1, <2>3, <3>1, <3>3, <3>5, <3>6
  <2> QED BY <1>1, <2>2, <2>3
<1> QED BY <1>3, <1>4

LEMMA ReturnedCapacity ==
  ASSUME Inv, NEW c \in Stores, NEW m, NEW i, Returned(c, m, i)
  PROVE  \A d \in Stores : d \notin emptied' => myCapacity'[d] = count'[d] * SlabCount(d)'
<1>1. /\ Only(c) /\ UNCHANGED <<count, emptied, myCapacity>>
      /\ SlabCount(c)' = SlabCount(c)
  BY DEF Returned
<1>2. \A d \in Stores : d \notin emptied => myCapacity[d] = count[d] * SlabCount(d)
  BY CountersAre DEF Inv
<1>3. \A d \in Stores : SlabCount(d)' = SlabCount(d)
  BY <1>1, OnlyFacts
<1> QED BY <1>1, <1>2, <1>3

LEMMA HeldByIs ==
  \A c \in Caches : HeldBy(c)' = {p \in Held' : Serves(c, p.bytes)}
BY DEF HeldBy, Serves, Served, Caches

LEMMA SizesKnown ==
  ASSUME Inv
  PROVE  /\ \A c \in Caches : /\ IsFiniteSet(HeldBy(c)) /\ mySize[c] = Cardinality(HeldBy(c))
                              /\ Cardinality(HeldBy(c)) \in 0 .. Modulus - 1
         /\ IsFiniteSet(out) /\ mySize[Pool] = Cardinality(out)
         /\ Cardinality(out) \in 0 .. Modulus - 1
         /\ \A c \in Stores : c \notin emptied => myCapacity[c] = count[c] * SlabCount(c)
         /\ Core
<1>1. Core /\ Few
  BY CoreIsFew DEF Inv
<1> QED BY <1>1, CountersAre DEF Inv, Few

LEMMA AllocateInv ==
  ASSUME Inv, NEW bytes \in Requests, NEW m \in Mems, NEW i, Allocate(bytes, m, i),
         UNCHANGED objVars
  PROVE  Inv'
<1>1. Core
  BY DEF Inv
<1>2. PICK c, b : /\ c \in Caches /\ Core' /\ Gained(c, m, i) /\ Serves(c, bytes)
                  /\ b = Block(m, i, bytes)
                  /\ b \notin Held /\ Held' = Held \cup {b}
  BY <1>1, AllocateCore
<1>3. c \in Stores /\ c # Pool /\ Pool \in Stores /\ Caches \subseteq Stores /\ b.bytes = bytes
  BY <1>1, <1>2, HeldFacts DEF Block
<1>4. /\ HeldBy(c)' = HeldBy(c) \cup {b} /\ b \notin HeldBy(c)
      /\ \A d \in Caches \ {c} : HeldBy(d)' = HeldBy(d)
  <2>1. \A d \in Caches : Serves(d, bytes) => d = c
    BY <1>2, OneServes
  <2> QED BY <1>2, <1>3, <2>1, HeldByIs DEF HeldBy
<1>5. /\ mySize'[c] = (mySize[c] + 1) % Modulus
      /\ \A d \in Stores \ {c} : mySize'[d] = mySize[d]
  BY <1>2, <1>3, OnlyFacts DEF Gained
<1>6. mySize'[c] = Cardinality(HeldBy(c)')
  <2>1. Cardinality(HeldBy(c)') \in 0 .. Modulus - 1
    BY <1>2, CoreIsFewNext DEF Few
  <2>2. IsFiniteSet(HeldBy(c)) /\ mySize[c] = Cardinality(HeldBy(c))
    BY <1>2, SizesKnown
  <2>3. (Cardinality(HeldBy(c)) + 1) % Modulus = Cardinality(HeldBy(c) \cup {b})
    BY <1>4, <2>1, <2>2, SizeUp
  <2> QED BY <1>4, <1>5, <2>2, <2>3
<1>7. \A d \in Caches : mySize'[d] = Cardinality(HeldBy(d)')
  BY <1>3, <1>4, <1>5, <1>6, SizesKnown
<1>8. mySize'[Pool] = Cardinality(out')
  BY <1>3, <1>5, SizesKnown DEF objVars
<1>9. \A d \in Stores : d \notin emptied' => myCapacity'[d] = count'[d] * SlabCount(d)'
  BY <1>2, <1>3, GainedCapacity
<1>10. CountersRight'
  BY <1>7, <1>8, <1>9, CountersAre DEF CountersStep
<1> QED BY <1>2, <1>10 DEF Inv

LEMMA DeallocateInv ==
  ASSUME Inv, NEW p \in live, Deallocate(p), UNCHANGED objVars
  PROVE  Inv'
<1>1. Core
  BY DEF Inv
<1>2. PICK c \in Caches : /\ Core' /\ Returned(c, p.mem, p.idx) /\ Serves(c, p.bytes)
                          /\ Held' = Held \ {p}
  BY <1>1, DeallocateCore
<1>3. c \in Stores /\ c # Pool /\ Pool \in Stores /\ Caches \subseteq Stores /\ p \in Held
  BY <1>1, HeldFacts DEF Held
<1>4. /\ HeldBy(c)' = HeldBy(c) \ {p} /\ p \in HeldBy(c)
      /\ \A d \in Caches \ {c} : HeldBy(d)' = HeldBy(d)
  <2>1. \A d \in Caches : Serves(d, p.bytes) => d = c
    BY <1>2, OneServes
  <2> QED BY <1>2, <1>3, <2>1, HeldByIs DEF HeldBy
<1>5. /\ mySize'[c] = (mySize[c] - 1) % Modulus
      /\ \A d \in Stores \ {c} : mySize'[d] = mySize[d]
  BY <1>2, <1>3, OnlyFacts DEF Returned
<1>6. mySize'[c] = Cardinality(HeldBy(c)')
  <2>1. /\ IsFiniteSet(HeldBy(c)) /\ mySize[c] = Cardinality(HeldBy(c))
        /\ Cardinality(HeldBy(c)) \in 0 .. Modulus - 1
    BY SizesKnown
  <2>2. (Cardinality(HeldBy(c)) - 1) % Modulus = Cardinality(HeldBy(c) \ {p})
    BY <1>4, <2>1, SizeDown
  <2> QED BY <1>4, <1>5, <2>1, <2>2
<1>7. \A d \in Caches : mySize'[d] = Cardinality(HeldBy(d)')
  BY <1>3, <1>4, <1>5, <1>6, SizesKnown
<1>8. mySize'[Pool] = Cardinality(out')
  BY <1>3, <1>5, SizesKnown DEF objVars
<1>9. \A d \in Stores : d \notin emptied' => myCapacity'[d] = count'[d] * SlabCount(d)'
  BY <1>2, <1>3, ReturnedCapacity
<1>10. CountersRight'
  BY <1>7, <1>8, <1>9, CountersAre DEF CountersStep
<1> QED BY <1>2, <1>10 DEF Inv

LEMMA AllocateObjInv ==
  ASSUME Inv, NEW m \in Mems, NEW i, AllocateObj(m, i)
  PROVE  Inv'
<1>1. Core
  BY DEF Inv
<1>2. /\ Core' /\ Gained(Pool, m, i) /\ Object(m, i) \notin out
      /\ out' = out \cup {Object(m, i)} /\ Held' = Held
  BY <1>1, AllocateObjCore DEF AllocateObj, memVars, Held
<1>3. Pool \in Stores /\ Pool \notin Caches /\ Caches \subseteq Stores
  BY <1>1, HeldFacts
<1>4. /\ mySize'[Pool] = (mySize[Pool] + 1) % Modulus
      /\ \A d \in Stores \ {Pool} : mySize'[d] = mySize[d]
  BY <1>2, <1>3, OnlyFacts DEF Gained
<1>5. mySize'[Pool] = Cardinality(out')
  <2>1. Cardinality(out') \in 0 .. Modulus - 1
    BY <1>2, CoreIsFewNext DEF Few
  <2>2. IsFiniteSet(out) /\ mySize[Pool] = Cardinality(out)
    BY SizesKnown
  <2>3. PICK o : o = Object(m, i)
    OBVIOUS
  <2>4. (Cardinality(out) + 1) % Modulus = Cardinality(out \cup {o})
    BY <1>2, <2>1, <2>2, <2>3, SizeUp
  <2> QED BY <1>2, <1>4, <2>2, <2>3, <2>4
<1>6. \A d \in Caches : mySize'[d] = Cardinality(HeldBy(d)')
  <2>1. \A d \in Caches : HeldBy(d)' = HeldBy(d)
    BY <1>2, HeldByIs DEF HeldBy
  <2> QED BY <1>3, <1>4, <2>1, SizesKnown
<1>7. \A d \in Stores : d \notin emptied' => myCapacity'[d] = count'[d] * SlabCount(d)'
  BY <1>2, <1>3, GainedCapacity
<1>8. CountersRight'
  BY <1>5, <1>6, <1>7, CountersAre DEF CountersStep
<1> QED BY <1>2, <1>8 DEF Inv

LEMMA DeallocateObjInv ==
  ASSUME Inv, NEW o \in out, DeallocateObj(o)
  PROVE  Inv'
<1>1. Core
  BY DEF Inv
<1>2. /\ Core' /\ Returned(Pool, o.mem, o.idx) /\ out' = out \ {o} /\ Held' = Held
  BY <1>1, DeallocateObjCore DEF Held
<1>3. Pool \in Stores /\ Pool \notin Caches /\ Caches \subseteq Stores
  BY <1>1, HeldFacts
<1>4. /\ mySize'[Pool] = (mySize[Pool] - 1) % Modulus
      /\ \A d \in Stores \ {Pool} : mySize'[d] = mySize[d]
  BY <1>2, <1>3, OnlyFacts DEF Returned
<1>5. mySize'[Pool] = Cardinality(out')
  <2>1. /\ IsFiniteSet(out) /\ mySize[Pool] = Cardinality(out)
        /\ Cardinality(out) \in 0 .. Modulus - 1
    BY SizesKnown
  <2>2. (Cardinality(out) - 1) % Modulus = Cardinality(out \ {o})
    BY <2>1, SizeDown
  <2> QED BY <1>2, <1>4, <2>1, <2>2
<1>6. \A d \in Caches : mySize'[d] = Cardinality(HeldBy(d)')
  <2>1. \A d \in Caches : HeldBy(d)' = HeldBy(d)
    BY <1>2, HeldByIs DEF HeldBy
  <2> QED BY <1>3, <1>4, <2>1, SizesKnown
<1>7. \A d \in Stores : d \notin emptied' => myCapacity'[d] = count'[d] * SlabCount(d)'
  BY <1>2, <1>3, ReturnedCapacity
<1>8. CountersRight'
  BY <1>5, <1>6, <1>7, CountersAre DEF CountersStep
<1> QED BY <1>2, <1>8 DEF Inv

\* Calls after which cache c has no blocks with callers.
LEMMA ClearedCounters ==
  ASSUME Inv, NEW c \in Stores, Only(c), mySize'[c] = 0, c \notin Caches \/ HeldBy(c)' = {},
         c # Pool \/ out' = {},
         \A d \in Caches \ {c} : HeldBy(d)' = HeldBy(d), c = Pool \/ out' = out,
         myCapacity'[c] = count'[c] * SlabCount(c)'
  PROVE  CountersRight'
<1>1. Pool \in Stores /\ Pool \notin Caches /\ Caches \subseteq Stores
  BY PoolAssumption
<1>2. \A d \in Stores \ {c} : /\ mySize'[d] = mySize[d] /\ myCapacity'[d] = myCapacity[d]
                              /\ count'[d] = count[d] /\ SlabCount(d)' = SlabCount(d)
                              /\ d \in emptied' <=> d \in emptied
  BY OnlyFacts
<1>3. Cardinality({}) = 0
  BY FS_EmptySet
<1>4. \A d \in Caches : mySize'[d] = Cardinality(HeldBy(d)')
  BY <1>1, <1>2, <1>3, SizesKnown
<1>5. mySize'[Pool] = Cardinality(out')
  BY <1>1, <1>2, <1>3, SizesKnown
<1>6. \A d \in Stores : d \notin emptied' => myCapacity'[d] = count'[d] * SlabCount(d)'
  BY <1>2, SizesKnown
<1> QED BY <1>4, <1>5, <1>6, CountersAre DEF CountersStep

LEMMA FreeAllInv ==
  ASSUME Inv, NEW size, NEW c \in Caches, FreeAll(size, c), UNCHANGED objVars
  PROVE  Inv'
<1>1. Core
  BY DEF Inv
<1>2. Core' /\ Held' = Held \ HeldBy(c)
  BY <1>1, FreeAllCore
<1>3. FreeAllIn(c) /\ out' = out /\ c \in Stores /\ c # Pool
  BY <1>1, HeldFacts DEF FreeAll, objVars
<1>4. /\ Only(c) /\ SlabCount(c)' = 0 /\ mySize'[c] = 0 /\ myCapacity'[c] = 0
      /\ count' = count
  BY <1>1, <1>3, FreeAllIs
<1>5. myCapacity'[c] = count'[c] * SlabCount(c)'
  <2>1. count'[c] \in Nat
    BY <1>1, <1>3, <1>4, CounterFacts DEF Core
  <2> QED BY <1>4, <2>1
<1>6. HeldBy(c)' = {}
  BY <1>2, HeldByIs DEF HeldBy
<1>7. \A d \in Caches \ {c} : HeldBy(d)' = HeldBy(d)
  <2>1. TAKE d \in Caches \ {c}
  <2>2. \A p \in HeldBy(d) : p \notin HeldBy(c)
    BY OneServes DEF HeldBy
  <2> QED BY <1>2, <2>2, HeldByIs DEF HeldBy
<1>8. CountersRight'
  BY <1>3, <1>4, <1>5, <1>6, <1>7, ClearedCounters
<1> QED BY <1>2, <1>8 DEF Inv

LEMMA FreeAllObjInv ==
  ASSUME Inv, FreeAllObj
  PROVE  Inv'
<1>1. Core
  BY DEF Inv
<1>2. Core' /\ Held' = Held /\ out' = {}
  BY <1>1, FreeAllObjCore
<1>3. FreeAllIn(Pool) /\ Pool \in Stores /\ Pool \notin Caches
  BY <1>1, HeldFacts DEF FreeAllObj
<1>4. /\ Only(Pool) /\ SlabCount(Pool)' = 0 /\ mySize'[Pool] = 0 /\ myCapacity'[Pool] = 0
      /\ count' = count
  BY <1>1, <1>3, FreeAllIs
<1>5. myCapacity'[Pool] = count'[Pool] * SlabCount(Pool)'
  <2>1. count'[Pool] \in Nat
    BY <1>1, <1>3, <1>4, CounterFacts DEF Core
  <2> QED BY <1>4, <2>1
<1>6. \A d \in Caches \ {Pool} : HeldBy(d)' = HeldBy(d)
  BY <1>2, HeldByIs DEF HeldBy
<1>7. CountersRight'
  BY <1>2, <1>3, <1>4, <1>5, <1>6, ClearedCounters
<1> QED BY <1>2, <1>7 DEF Inv

LEMMA AddPoolInv ==
  ASSUME Inv, NEW n \in PoolCounts, NEW m \in Mems, AddPool(n, m)
  PROVE  Inv'
<1>1. Core
  BY DEF Inv
<1>2. Core' /\ Held' = Held /\ out' = {}
  BY <1>1, AddPoolCore
<1>3. PICK k : k = RoundedCount(Pool, n)
  OBVIOUS
<1>4. NewCacheIn(Pool, k, m) /\ Pool \in Stores /\ Pool \notin Caches
  BY <1>1, <1>3, HeldFacts DEF AddPool
<1>5. k \in 0 .. Modulus - 1
  <2>1. n \in Nat
    BY PoolAssumption
  <2>2. k \in Nat
    BY <1>3, <1>4, <2>1, RoundedIsNat
  <2>3. Cardinality(Mems) * k < Modulus
    BY <1>3, SpaceAssumption
  <2>4. Mems # {}
    OBVIOUS
  <2> QED BY <2>2, <2>3, <2>4, FewEnough
<1>6. /\ Only(Pool) /\ SlabCount(Pool)' = 1 /\ mySize'[Pool] = 0 /\ myCapacity'[Pool] = k
      /\ count'[Pool] = k
  BY <1>1, <1>4, <1>5, NewCacheIs
<1>7. myCapacity'[Pool] = count'[Pool] * SlabCount(Pool)'
  BY <1>5, <1>6
<1>8. \A d \in Caches \ {Pool} : HeldBy(d)' = HeldBy(d)
  BY <1>2, HeldByIs DEF HeldBy
<1>9. CountersRight'
  BY <1>2, <1>4, <1>6, <1>7, <1>8, ClearedCounters
<1> QED BY <1>2, <1>9 DEF Inv

\* Calls after which the callers have what they had.
LEMMA SameCounters ==
  ASSUME Inv, mySize' = mySize, out' = out,
         \A d \in Caches : HeldBy(d)' = HeldBy(d),
         \A d \in Stores : d \notin emptied' =>
           /\ d \notin emptied /\ myCapacity'[d] = myCapacity[d]
           /\ count'[d] = count[d] /\ SlabCount(d)' = SlabCount(d)
  PROVE  CountersRight'
<1>1. \A d \in Caches : mySize'[d] = Cardinality(HeldBy(d)')
  BY SizesKnown
<1>2. mySize'[Pool] = Cardinality(out')
  BY SizesKnown
<1>3. \A d \in Stores : d \notin emptied' => myCapacity'[d] = count'[d] * SlabCount(d)'
  BY SizesKnown
<1> QED BY <1>1, <1>2, <1>3, CountersAre DEF CountersStep

LEMMA FreeEmptyInv ==
  ASSUME Inv, NEW c \in Stores, FreeEmptyIn(c), Core', Held' = Held, out' = out
  PROVE  Inv'
<1>1. /\ Only(c) /\ mySize' = mySize /\ emptied' = emptied \cup {c}
  BY FreeEmptyIs DEF Inv
<1>2. \A d \in Caches : HeldBy(d)' = HeldBy(d)
  BY HeldByIs DEF HeldBy
<1>3. \A d \in Stores : d \notin emptied' =>
        /\ d \notin emptied /\ myCapacity'[d] = myCapacity[d]
        /\ count'[d] = count[d] /\ SlabCount(d)' = SlabCount(d)
  BY <1>1, OnlyFacts
<1>4. CountersRight'
  BY <1>1, <1>2, <1>3, SameCounters
<1> QED BY <1>4 DEF Inv

LEMMA StillInv ==
  ASSUME Inv, Core', UNCHANGED <<count, lists, mySize, myCapacity, emptied>>, out' = out,
         \A d \in Caches : HeldBy(d)' = HeldBy(d)
  PROVE  Inv'
<1>1. \A d \in Stores : SlabCount(d)' = SlabCount(d)
  BY Still
<1>2. CountersRight'
  BY <1>1, SameCounters
<1> QED BY <1>2 DEF Inv

-----------------------------------------------------------------------------
(* The invariant.                                                           *)

LEMMA InitInv == Init => Inv
<1> SUFFICES ASSUME Init PROVE Inv
  OBVIOUS
<1>1. PICK n \in [Caches -> AddedCounts] :
        count = [c \in Stores |-> IF c \in Caches THEN RoundedCount(c, n[c]) ELSE 0]
  BY DEF Init, InitMem
<1>2. PICK m \in [Caches -> Mems] :
        /\ \A c, d \in Caches : m[c] = m[d] => c = d
        /\ slabsFree = [c \in Stores |-> IF c \in Caches
                                         THEN <<NewSlab(m[c], count[c])>> ELSE <<>>]
        /\ heap = {m[c] : c \in Caches}
  BY DEF Init, InitMem
<1>3. /\ slabsPart = [c \in Stores |-> <<>>] /\ slabsFull = [c \in Stores |-> <<>>]
      /\ mySize = [c \in Stores |-> 0] /\ myCapacity = count
      /\ emptied = {} /\ overrun = {} /\ live = {} /\ leaked = {}
      /\ objects = {} /\ out = {}
  BY DEF Init, InitMem
<1>4. /\ Pool \in Stores /\ Pool \notin Caches /\ Caches \subseteq Stores
      /\ Stores = Caches \cup {Pool}
  BY PoolAssumption
<1>5. ASSUME NEW c \in Caches
      PROVE  /\ count[c] \in 0 .. Modulus - 1 /\ Cardinality(Mems) * count[c] < Modulus
             /\ slabsFree[c] = <<NewSlab(m[c], count[c])>> /\ m[c] \in Mems
  <2>1. PICK k : k = n[c]
    OBVIOUS
  <2>2. k \in AddedCounts /\ k \in Nat
    BY <2>1, AddedAssumption
  <2>3. count[c] = RoundedCount(c, k) /\ c \in Stores
    BY <1>1, <1>4, <2>1
  <2>4. count[c] \in Nat
    BY <2>2, <2>3, RoundedIsNat
  <2>5. Cardinality(Mems) * count[c] < Modulus
    BY <2>2, <2>3, SpaceAssumption
  <2>6. m[c] \in Mems /\ Mems # {}
    BY <1>2
  <2>7. slabsFree[c] = <<NewSlab(m[c], count[c])>>
    BY <1>2, <2>3
  <2> QED BY <2>4, <2>5, <2>6, <2>7, FewEnough
<1>6. count[Pool] = 0 /\ slabsFree[Pool] = <<>>
  BY <1>1, <1>2, <1>4
<1>7. \A c \in Stores : slabsPart[c] = <<>> /\ slabsFull[c] = <<>>
  BY <1>3
<1>8. Lists
  <2>1. ASSUME NEW c \in Stores
        PROVE  Tidy(slabsFree[c], slabsPart[c], slabsFull[c], count[c])
    <3>1. CASE c \in Caches
      <4>1. Tidy(<<NewSlab(m[c], count[c])>>, <<>>, <<>>, count[c])
        BY <1>5, <3>1, FewSlabs
      <4> QED BY <1>5, <1>7, <3>1, <4>1
    <3>2. CASE c = Pool
      <4>1. Tidy(<<>>, <<>>, <<>>, count[c])
        BY FewSlabs
      <4> QED BY <1>6, <1>7, <3>2, <4>1
    <3> QED BY <1>4, <3>1, <3>2
  <2>2. DOMAIN slabsFree = Stores /\ DOMAIN slabsPart = Stores /\ DOMAIN slabsFull = Stores
    BY <1>2, <1>3
  <2> QED BY <2>1, <2>2 DEF Lists
<1>9. /\ \A c \in Caches : /\ SlabsOf(c) = {NewSlab(m[c], count[c])}
                           /\ MemsOf(c) = {m[c]} /\ SlabCount(c) = 1
      /\ SlabsOf(Pool) = {} /\ MemsOf(Pool) = {} /\ SlabCount(Pool) = 0
  <2>1. ASSUME NEW c \in Caches
        PROVE  /\ SlabsOf(c) = {NewSlab(m[c], count[c])}
               /\ MemsOf(c) = {m[c]} /\ SlabCount(c) = 1
    <3>1. PICK e, f : e = <<>> /\ f = <<NewSlab(m[c], count[c])>>
      OBVIOUS
    <3>2. slabsFree[c] = f /\ slabsPart[c] = e /\ slabsFull[c] = e
      BY <1>4, <1>5, <1>7, <3>1
    <3>3. /\ Len(f) = 1 /\ Range(f) = {NewSlab(m[c], count[c])}
          /\ Len(e) = 0 /\ Range(e) = {} /\ NewSlab(m[c], count[c]).mem = m[c]
      <4>1. NewSlab(m[c], count[c]) \in SlabOf(count[c])
        BY <1>5, NewFacts
      <4>2. PICK s : s = NewSlab(m[c], count[c])
        OBVIOUS
      <4>3. Len(<<s>>) = 1 /\ Range(<<s>>) = {s}
        BY <4>1, <4>2, SingleIs
      <4> QED BY <1>5, <3>1, <4>2, <4>3, NewFacts, EmptyIs
    <3>4. SlabsOf(c) = {NewSlab(m[c], count[c])}
      BY <3>2, <3>3 DEF SlabsOf
    <3>5. MemsOf(c) = {m[c]}
      BY <3>3, <3>4 DEF MemsOf
    <3>6. SlabCount(c) = 1
      BY <3>2, <3>3 DEF SlabCount
    <3> QED BY <3>4, <3>5, <3>6
  <2>2. SlabsOf(Pool) = {} /\ SlabCount(Pool) = 0
    <3>1. PICK e : e = <<>>
      OBVIOUS
    <3>2. slabsFree[Pool] = e /\ slabsPart[Pool] = e /\ slabsFull[Pool] = e
      BY <1>4, <1>6, <1>7, <3>1
    <3>3. Len(e) = 0 /\ Range(e) = {}
      BY <3>1, EmptyIs
    <3> QED BY <3>2, <3>3 DEF SlabsOf, SlabCount
  <2>3. MemsOf(Pool) = {}
    BY <2>2 DEF MemsOf
  <2> QED BY <2>1, <2>2, <2>3
<1>10. Held = {} /\ LargeBlocks = {} /\ \A k, i : ~Busy(k, i)
  BY <1>3 DEF Held, LargeBlocks, Busy
<1>11. \A c \in Stores : Indices(c) = 0 .. count[c] - 1
  BY DEF Indices
<1>12. Blocks
  <2>1. \A c \in Stores : \A s \in SlabsOf(c) :
          s.availible = {i \in Indices(c) : /\ Object(s.mem, i) \notin out
                                            /\ \A p \in Held : p.mem # s.mem \/ p.idx # i}
    <3>1. ASSUME NEW c \in Stores, NEW s \in SlabsOf(c)
          PROVE  s.availible = Indices(c)
      <4>1. c \in Caches /\ s = NewSlab(m[c], count[c])
        BY <1>4, <1>9
      <4> QED BY <1>5, <1>11, <4>1, NewFacts
    <3> QED BY <1>3, <1>10, <3>1
  <2> QED BY <1>3, <1>10, <2>1 DEF Blocks, BlocksAccounted
<1>13. Places
  <2>1. \A c, d \in Stores : c # d => MemsOf(c) \cap MemsOf(d) = {}
    BY <1>2, <1>4, <1>9
  <2>2. UNION {MemsOf(c) : c \in Stores} = {m[c] : c \in Caches}
    BY <1>4, <1>9
  <2>3. {p.mem : p \in LargeBlocks} = {}
    BY <1>10
  <2> QED BY <1>2, <1>10, <2>1, <2>2, <2>3 DEF Places
<1>14. objects = {}
  BY <1>3
<1>15. Objects
  BY <1>3, <1>9, <1>14 DEF Objects
<1>16. Modulus \in Nat \ {0} /\ Cardinality(Mems) \in Nat
  BY SizesAssumption, SpaceAssumption, FS_CardinalityType
<1>17. Space
  BY <1>4, <1>5, <1>6, <1>16 DEF Space
<1>18. TypeOK
  <2>1. count \in [Stores -> 0 .. Modulus - 1]
    <3>1. DOMAIN count = Stores /\ count = [c \in DOMAIN count |-> count[c]]
      BY <1>1
    <3>2. \A c \in Stores : count[c] \in 0 .. Modulus - 1
      BY <1>4, <1>5, <1>6, <1>16
    <3> QED BY <3>1, <3>2
  <2>2. /\ count \in [Stores -> Nat] /\ myCapacity \in [Stores -> 0 .. Modulus - 1]
    BY <1>3, <1>16, <2>1
  <2>3. mySize \in [Stores -> 0 .. Modulus - 1]
    BY <1>3, <1>16
  <2>4. heap \subseteq Mems
    BY <1>2
  <2>5. ASSUME NEW c \in Stores
        PROVE  /\ slabsFree[c] \in Seq(Slab(c)) /\ slabsPart[c] \in Seq(Slab(c))
               /\ slabsFull[c] \in Seq(Slab(c))
    <3>1. Tidy(slabsFree[c], slabsPart[c], slabsFull[c], count[c])
      BY <1>8 DEF Lists
    <3>2. Slab(c) = SlabOf(count[c])
      BY DEF Slab, SlabOf, Indices
    <3> QED BY <3>1, <3>2 DEF Tidy
  <2>6. HelperTypeOK
    BY <1>3, <1>8, <2>2, <2>3, <2>4, <2>5 DEF HelperTypeOK, Lists
  <2> QED BY <1>3, <1>14, <2>6 DEF TypeOK
<1>19. CountersRight
  <2>1. Cardinality({}) = 0
    BY FS_EmptySet
  <2>2. \A c \in Caches : {p \in Held : Serves(c, p.bytes)} = {}
    BY <1>10
  <2>3. \A c \in Stores : mySize[c] = 0
    BY <1>3
  <2>4. \A c \in Stores : myCapacity[c] = count[c] * SlabCount(c)
    <3>1. \A c \in Caches : count[c] = count[c] * SlabCount(c)
      BY <1>5, <1>9, <1>16
    <3>2. 0 = count[Pool] * SlabCount(Pool)
      BY <1>6, <1>9
    <3> QED BY <1>3, <1>4, <1>6, <3>1, <3>2
  <2> QED BY <1>3, <1>4, <2>1, <2>2, <2>3, <2>4 DEF CountersRight
<1>20. OnlySingleBlocksOverrun
  BY <1>3 DEF OnlySingleBlocksOverrun
<1> QED BY <1>8, <1>12, <1>13, <1>15, <1>17, <1>18, <1>19, <1>20 DEF Inv, Core

LEMMA NextInv == Inv /\ [Next]_vars => Inv'
<1> SUFFICES ASSUME Inv, [Next]_vars PROVE Inv'
  OBVIOUS
<1>1. Core /\ Caches \subseteq Stores /\ Pool \in Stores
  BY HeldFacts DEF Inv
<1>2. CASE NextMem /\ UNCHANGED objVars
  <2>1. out' = out
    BY <1>2 DEF objVars
  <2>2. ASSUME NEW bytes \in Requests, NEW m \in Mems, NEW i, Allocate(bytes, m, i)
        PROVE  Inv'
    BY <1>2, <2>2, AllocateInv
  <2>3. ASSUME NEW bytes \in Requests, AllocateAstray(bytes)
        PROVE  Inv'
    <3>1. PICK c \in Caches : AllocateOverrun(c) /\ UNCHANGED <<memVars, objVars>>
      BY <1>2, <2>3 DEF AllocateAstray
    <3>2. c \in Stores
      BY <1>1
    <3>3. Core' /\ Held' = Held
      BY <1>1, <3>1, <3>2, AstrayCore
    <3>4. UNCHANGED <<count, lists, mySize, myCapacity, emptied>>
      BY <3>1 DEF AllocateOverrun
    <3>5. \A d \in Caches : HeldBy(d)' = HeldBy(d)
      BY <3>3, HeldByIs DEF HeldBy
    <3> QED BY <2>1, <3>3, <3>4, <3>5, StillInv
  <2>4. ASSUME NEW bytes \in Requests, NEW m \in Mems, AllocateLarge(bytes, m)
        PROVE  Inv'
    <3>1. Core' /\ \A d \in Caches : HeldBy(d)' = HeldBy(d)
      BY <1>1, <1>2, <2>4, AllocateLargeCore
    <3>2. UNCHANGED <<count, lists, mySize, myCapacity, emptied>>
      BY <2>4 DEF AllocateLarge
    <3> QED BY <2>1, <3>1, <3>2, StillInv
  <2>5. ASSUME NEW p \in live, Deallocate(p)
        PROVE  Inv'
    BY <1>2, <2>5, DeallocateInv
  <2>6. ASSUME NEW p \in live, DeallocateLarge(p)
        PROVE  Inv'
    <3>1. Core' /\ \A d \in Caches : HeldBy(d)' = HeldBy(d)
      BY <1>1, <1>2, <2>6, DeallocateLargeCore
    <3>2. UNCHANGED <<count, lists, mySize, myCapacity, emptied>>
      BY <2>6 DEF DeallocateLarge
    <3> QED BY <2>1, <3>1, <3>2, StillInv
  <2>7. ASSUME NEW size, NEW c \in Caches, FreeAll(size, c)
        PROVE  Inv'
    BY <1>2, <2>7, FreeAllInv
  <2>8. ASSUME NEW size, NEW c \in Caches, FreeEmpty(size, c)
        PROVE  Inv'
    <3>1. Core' /\ Held' = Held
      BY <1>1, <1>2, <2>8, FreeEmptyMemCore
    <3>2. FreeEmptyIn(c) /\ c \in Stores
      BY <1>1, <2>8 DEF FreeEmpty
    <3> QED BY <2>1, <3>1, <3>2, FreeEmptyInv
  <2> QED BY <1>2, <2>2, <2>3, <2>4, <2>5, <2>6, <2>7, <2>8 DEF NextMem
<1>3. CASE NextObj
  <2>1. ASSUME AllocateObjAstray
        PROVE  Inv'
    <3>1. AllocateOverrun(Pool) /\ UNCHANGED <<memVars, objVars>>
      BY <2>1 DEF AllocateObjAstray
    <3>2. Core' /\ Held' = Held
      BY <1>1, <3>1, AstrayCore
    <3>3. UNCHANGED <<count, lists, mySize, myCapacity, emptied>> /\ out' = out
      BY <3>1 DEF AllocateOverrun, objVars
    <3>4. \A d \in Caches : HeldBy(d)' = HeldBy(d)
      BY <3>2, HeldByIs DEF HeldBy
    <3> QED BY <3>2, <3>3, <3>4, StillInv
  <2>2. ASSUME FreeEmptyObj
        PROVE  Inv'
    <3>1. Core' /\ Held' = Held
      BY <1>1, <2>2, FreeEmptyObjCore
    <3>2. FreeEmptyIn(Pool) /\ out' = out
      BY <2>2 DEF FreeEmptyObj
    <3> QED BY <1>1, <3>1, <3>2, FreeEmptyInv
  <2> QED BY <1>3, <2>1, <2>2, AddPoolInv, AllocateObjInv, DeallocateObjInv, FreeAllObjInv
          DEF NextObj
<1>4. CASE UNCHANGED vars
  <2>1. /\ UNCHANGED <<count, lists, mySize, myCapacity, heap, emptied>>
        /\ overrun' = overrun /\ UNCHANGED <<memVars, objVars>> /\ out' = out
    BY <1>4 DEF vars, helperVars, memVars, objVars, lists
  <2>2. overrun' \subseteq Stores /\ \A c \in overrun' : count[c] = 1
    BY <1>1, <2>1 DEF Core, TypeOK, HelperTypeOK, OnlySingleBlocksOverrun
  <2>3. Core' /\ Held' = Held
    BY <1>1, <2>1, <2>2, QuietCore
  <2>4. \A d \in Caches : HeldBy(d)' = HeldBy(d)
    BY <2>3, HeldByIs DEF HeldBy
  <2> QED BY <2>1, <2>3, <2>4, StillInv
<1> QED BY <1>2, <1>3, <1>4 DEF Next

\* The invariant holds in every state that operations of the caches, SlabMem and
\* SlabObj lead to, in whatever order they are called.
THEOREM SpecInv == Spec => []Inv
<1>1. Init => Inv
  BY InitInv
<1>2. Inv /\ [Next]_vars => Inv'
  BY NextInv
<1> QED BY <1>1, <1>2, PTL DEF Spec

\* Slabs keep the blocks of their caches, and counters the width of size_t, for
\* any caches, pool, sizes and requests.
THEOREM Typing == Spec => []TypeOK
<1>1. Inv => TypeOK
  BY DEF Inv, Core
<1> QED BY <1>1, SpecInv, PTL

\* However blocks are taken and given back, and by whichever of the two
\* allocators, a slab is in the list that tells how full it is: findFreeSlab()
\* never takes a full slab for one with a block.
THEOREM SlabsStayInTheirLists == Spec => []InRightList
<1>1. Inv => InRightList
  BY Follows
<1> QED BY <1>1, SpecInv, PTL

\* allocate() follows an iterator into a list that its slab has left only where
\* slabs have one block.
THEOREM OverrunsNeedSingleBlocks == Spec => []OnlySingleBlocksOverrun
<1>1. Inv => OnlySingleBlocksOverrun
  BY DEF Inv, Core
<1> QED BY <1>1, SpecInv, PTL

\* A block is free in its slab or held by one caller, never both and never by
\* two, and deallocate() finds the slab of a block that is held.
THEOREM EveryBlockHasOnePlace == Spec => []BlocksAccounted
<1>1. Inv => BlocksAccounted
  BY DEF Inv, Core, Blocks
<1> QED BY <1>1, SpecInv, PTL

\* Memory from operator new is with one slab of one cache or with the caller of
\* a large block until it is given back: none leaks and none is freed in use.
THEOREM MemoryIsManaged == Spec => []HeapIsManaged
<1>1. Inv => HeapIsManaged
  BY Follows
<1> QED BY <1>1, SpecInv, PTL

\* mySize counts the blocks that are held, and myCapacity the blocks of the
\* slabs until freeEmpty() takes bytes from it.
THEOREM CountersCount == Spec => []CountersRight
<1>1. Inv => CountersRight
  BY DEF Inv
<1> QED BY <1>1, SpecInv, PTL

\* The objects that exist are those of the blocks of the pool, free or held, and
\* the pool's capacity is how many its destruction destroys.
THEOREM ObjectsStayAlive == Spec => []ObjectsLive
<1>1. Inv => ObjectsLive
  BY Follows
<1> QED BY <1>1, SpecInv, PTL
=============================================================================
