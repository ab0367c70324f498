--------------------------- MODULE FreeListProofs ---------------------------
(***************************************************************************)
(* Theorems about FreeList, for a region and headers of any size, for      *)
(* size_type of any width and for any requests.                            *)
(***************************************************************************)
EXTENDS FreeList, FiniteSetTheorems, WellFoundedInduction, TLAPS

\* What the list of free chunks is.
IsList(f) ==
  /\ DOMAIN f \subseteq Nat
  /\ f \in [DOMAIN f -> SizeType]

\* Chunks are in the region, each ends before the next begins.
Apart(f) ==
  /\ \A a \in DOMAIN f : a + f[a] <= Bytes
  /\ \A a, b \in DOMAIN f : a < b => a + f[a] <= b

Meets(f, a, b) == a < b /\ a + f[a] = b

\* No two chunks are adjacent.
Settled(f) == \A a, b \in DOMAIN f : ~ Meets(f, a, b)

\* No chunk begins at, or reaches into, the bytes from at up to end.
Clear(f, at, end) ==
  \A a \in DOMAIN f : (a < at /\ a + f[a] <= at) \/ end <= a

Covers(f, x) == \E a \in DOMAIN f : a <= x /\ x < a + f[a]

-----------------------------------------------------------------------------
(* The list of free chunks.                                                 *)

\* What wraps stays within size_type.
LEMMA Wrapped ==
  /\ Modulus \in Nat /\ Modulus > 0
  /\ \A n \in Int : n % Modulus \in SizeType
  /\ \A n \in SizeType : n \in Nat /\ n < Modulus /\ n % Modulus = n
BY SizesAssumption DEF SizeType

LEMMA PutIs ==
  ASSUME NEW f, IsList(f), NEW a \in Nat, NEW n \in SizeType
  PROVE  /\ IsList(Put(f, a, n))
         /\ DOMAIN Put(f, a, n) = DOMAIN f \cup {a}
         /\ Put(f, a, n)[a] = n
         /\ \A b \in DOMAIN f \ {a} : Put(f, a, n)[b] = f[b]
BY DEF IsList, Put

LEMMA DropIs ==
  ASSUME NEW f, IsList(f), NEW a
  PROVE  /\ IsList(Drop(f, a))
         /\ DOMAIN Drop(f, a) = DOMAIN f \ {a}
         /\ \A b \in DOMAIN f \ {a} : Drop(f, a)[b] = f[b]
BY DEF IsList, Drop

LEMMA MergeIs ==
  ASSUME NEW f, IsList(f), NEW a \in DOMAIN f, NEW b \in DOMAIN f, a # b
  PROVE  /\ IsList(Merge(f, a, b))
         /\ DOMAIN Merge(f, a, b) = DOMAIN f \ {b}
         /\ Merge(f, a, b)[a] = (f[a] + f[b]) % Modulus
         /\ \A c \in DOMAIN f \ {a, b} : Merge(f, a, b)[c] = f[c]
<1> DEFINE g == [f EXCEPT ![a] = (@ + f[b]) % Modulus]
<1>1. (f[a] + f[b]) % Modulus \in SizeType
  BY Wrapped DEF IsList
<1>2. /\ DOMAIN g = DOMAIN f
      /\ g[a] = (f[a] + f[b]) % Modulus
      /\ \A c \in DOMAIN f \ {a} : g[c] = f[c]
  BY DEF IsList
<1>3. IsList(g)
  BY <1>1, <1>2 DEF IsList
<1> HIDE DEF g
<1>4. /\ IsList(Drop(g, b))
      /\ DOMAIN Drop(g, b) = DOMAIN f \ {b}
      /\ \A c \in DOMAIN f \ {b} : Drop(g, b)[c] = g[c]
  BY <1>2, <1>3, DropIs
<1>5. Merge(f, a, b) = Drop(g, b)
  BY DEF Merge, g
<1> QED BY <1>2, <1>4, <1>5

\* Coalescence keeps the types, of any list.
LEMMA CoalesceType ==
  ASSUME NEW f, IsList(f), NEW s \in DOMAIN f
  PROVE  IsList(Coalesce(f, s))
<1>1. IsList(MergeNext(f, s)) /\ s \in DOMAIN MergeNext(f, s)
  <2>1. CASE \E b \in DOMAIN f : Touches(f, s, b)
    <3>1. PICK b \in DOMAIN f : Touches(f, s, b)
      BY <2>1
    <3>2. s # b /\ b = s + f[s]
      BY <3>1 DEF Touches, IsList
    <3>3. MergeNext(f, s) = Merge(f, s, b)
      BY <2>1, <3>2 DEF MergeNext
    <3>4. s # b
      BY <3>2
    <3>5. IsList(Merge(f, s, b)) /\ DOMAIN Merge(f, s, b) = DOMAIN f \ {b}
      BY <3>4, MergeIs
    <3> QED BY <3>3, <3>4, <3>5
  <2> QED BY <2>1 DEF MergeNext
<1> DEFINE g == MergeNext(f, s)
           before == {a \in DOMAIN g : Touches(g, a, s)}
<1>2. CASE before = {}
  BY <1>1, <1>2 DEF Coalesce
<1>3. CASE before # {}
  <2>1. PICK a \in before : a = CHOOSE c \in before : TRUE
    BY <1>3
  <2>2. a \in DOMAIN g /\ a # s
    BY <1>1, <2>1 DEF Touches, IsList
  <2>3. Coalesce(f, s) = Merge(g, a, s)
    BY <1>3, <2>1 DEF Coalesce
  <2>4. IsList(g) /\ s \in DOMAIN g
    BY <1>1
  <2> HIDE DEF g
  <2>5. IsList(Merge(g, a, s))
    BY <2>2, <2>4, MergeIs
  <2> QED BY <2>3, <2>5
<1> QED BY <1>2, <1>3

LEMMA AddType ==
  ASSUME NEW f, IsList(f), NEW start \in Nat, NEW size \in SizeType
  PROVE  IsList(Add(f, start, size))
<1>1. PICK n \in SizeType : n = (size + HeaderSize) % Modulus
  BY Wrapped, SizesAssumption
<1>2. CASE DOMAIN f = {}
  BY <1>2, PutIs DEF Add
<1>3. CASE DOMAIN f # {} /\ start \in DOMAIN f
  BY <1>3, CoalesceType DEF Add
<1>4. CASE DOMAIN f # {} /\ start \notin DOMAIN f
  <2>1. IsList(Put(f, start, n)) /\ DOMAIN Put(f, start, n) = DOMAIN f \cup {start}
    BY PutIs
  <2>2. Add(f, start, size) = Coalesce(Put(f, start, n), start)
    BY <1>1, <1>4 DEF Add
  <2> QED BY <2>1, <2>2, CoalesceType
<1> QED BY <1>2, <1>3, <1>4

-----------------------------------------------------------------------------
(* What add() does to a list whose chunks are apart.                        *)

\* Chunks that are apart meet when they touch: no third one is in between.
LEMMA TouchesIsMeets ==
  ASSUME NEW f, IsList(f), Apart(f), NEW a \in DOMAIN f, NEW b \in DOMAIN f
  PROVE  Touches(f, a, b) <=> Meets(f, a, b)
<1>1. \A c \in DOMAIN f : c <= a \/ a + f[a] <= c
  BY DEF IsList, Apart
<1> QED BY <1>1 DEF Touches, Meets

\* Two chunks that meet become one: nothing else changes, no byte is lost, and
\* what was clear of both is clear of it.
LEMMA MergeMeeting ==
  ASSUME NEW f, IsList(f), Apart(f),
         NEW a \in DOMAIN f, NEW b \in DOMAIN f, Meets(f, a, b),
         NEW g, g = Merge(f, a, b)
  PROVE  /\ IsList(g) /\ Apart(g) /\ DOMAIN g = DOMAIN f \ {b}
         /\ \A c, d \in DOMAIN g : Meets(g, c, d) => Meets(f, IF c = a THEN b ELSE c, d)
         /\ \A x \in Nat : Covers(f, x) => Covers(g, x)
         /\ \A x, y \in Nat : x < y /\ Clear(f, x, y) => Clear(g, x, y)
<1>1. a # b /\ a \in Nat /\ b \in Nat /\ a < b
  BY DEF Meets, IsList
<1>2. /\ IsList(g) /\ DOMAIN g = DOMAIN f \ {b}
      /\ g[a] = (f[a] + f[b]) % Modulus
      /\ \A c \in DOMAIN f \ {a, b} : g[c] = f[c]
  BY <1>1, MergeIs
<1>3. \A c \in DOMAIN f : c \in Nat /\ f[c] \in Nat
  BY DEF IsList, SizeType
<1>4. a + f[a] = b /\ b + f[b] <= Bytes
  BY DEF Meets, Apart
<1>5. g[a] = f[a] + f[b]
  <2>1. f[a] + f[b] \in SizeType
    BY <1>1, <1>3, <1>4, SizesAssumption DEF SizeType
  <2> QED BY <1>2, <2>1, Wrapped
<1>6. Apart(g)
  <2>1. \A c \in DOMAIN g : c + g[c] <= Bytes
    BY <1>1, <1>2, <1>3, <1>4, <1>5 DEF Apart
  <2>2. ASSUME NEW c \in DOMAIN g, NEW d \in DOMAIN g, c < d
        PROVE  c + g[c] <= d
    <3>1. CASE c = a
      <4>1. b < d
        BY <1>1, <1>2, <1>3, <1>4, <2>2, <3>1 DEF Apart
      <4>2. b + f[b] <= d
        BY <1>2, <4>1 DEF Apart
      <4> QED BY <1>1, <1>3, <1>4, <1>5, <3>1, <4>2
    <3>2. CASE c # a
      BY <1>2, <2>2, <3>2 DEF Apart
    <3> QED BY <3>1, <3>2
  <2> QED BY <2>1, <2>2 DEF Apart
<1>7. ASSUME NEW c \in DOMAIN g, NEW d \in DOMAIN g, Meets(g, c, d)
      PROVE  Meets(f, IF c = a THEN b ELSE c, d)
  <2>1. CASE c = a
    <3>1. b + f[b] = d
      BY <1>1, <1>3, <1>4, <1>5, <1>7, <2>1 DEF Meets
    <3>2. b # d /\ d \in Nat
      BY <1>2, <1>3
    <3> QED BY <1>1, <1>3, <2>1, <3>1, <3>2 DEF Meets
  <2>2. CASE c # a
    BY <1>2, <1>7, <2>2 DEF Meets
  <2> QED BY <2>1, <2>2
<1>8. ASSUME NEW x \in Nat, Covers(f, x)
      PROVE  Covers(g, x)
  <2>1. PICK c \in DOMAIN f : c <= x /\ x < c + f[c]
    BY <1>8 DEF Covers
  <2>2. CASE c \in {a, b}
    <3>1. a <= x /\ x < a + g[a]
      BY <1>1, <1>3, <1>4, <1>5, <2>1, <2>2
    <3> QED BY <1>1, <1>2, <3>1 DEF Covers
  <2>3. CASE c \notin {a, b}
    BY <1>2, <2>1, <2>3 DEF Covers
  <2> QED BY <2>2, <2>3
<1>9. ASSUME NEW x \in Nat, NEW y \in Nat, x < y, Clear(f, x, y)
      PROVE  Clear(g, x, y)
  <2>1. (a < x /\ a + g[a] <= x) \/ y <= a
    <3>1. /\ (a < x /\ b <= x) \/ y <= a
          /\ (b < x /\ b + f[b] <= x) \/ y <= b
      BY <1>4, <1>9 DEF Clear
    <3> QED BY <1>1, <1>3, <1>4, <1>5, <1>9, <3>1
  <2>2. \A c \in DOMAIN g \ {a} : (c < x /\ c + g[c] <= x) \/ y <= c
    BY <1>2, <1>9 DEF Clear
  <2> QED BY <2>1, <2>2 DEF Clear
<1> QED BY <1>2, <1>6, <1>7, <1>8, <1>9

\* A new chunk between the others: only it can meet any.
LEMMA PutBetween ==
  ASSUME NEW f, IsList(f), Apart(f), Settled(f),
         NEW s \in Nat, NEW n \in SizeType, n > 0, s + n <= Bytes, Clear(f, s, s + n),
         NEW g, g = Put(f, s, n)
  PROVE  /\ IsList(g) /\ Apart(g) /\ s \in DOMAIN g
         /\ \A c, d \in DOMAIN g : Meets(g, c, d) => c = s \/ d = s
         /\ \A x \in Nat : Covers(f, x) \/ (s <= x /\ x < s + n) => Covers(g, x)
         /\ \A x, y \in Nat :
              x < y /\ Clear(f, x, y) /\ (y <= s \/ s + n <= x) => Clear(g, x, y)
<1>1. /\ IsList(g) /\ DOMAIN g = DOMAIN f \cup {s} /\ g[s] = n
      /\ \A c \in DOMAIN f \ {s} : g[c] = f[c]
  BY DEF IsList, Put
<1>2. n \in Nat
  BY DEF SizeType
<1>3. \A c \in DOMAIN f : c \in Nat /\ f[c] \in Nat
  BY DEF IsList, SizeType
<1>4. \A c \in DOMAIN f : (c < s /\ c + f[c] <= s) \/ s + n <= c
  BY DEF Clear
<1>5. s \notin DOMAIN f
  BY <1>2, <1>4
<1>6. Apart(g)
  <2>1. \A c \in DOMAIN g : c + g[c] <= Bytes
    BY <1>1, <1>5 DEF Apart
  <2>2. ASSUME NEW c \in DOMAIN g, NEW d \in DOMAIN g, c < d
        PROVE  c + g[c] <= d
    <3>1. CASE c = s
      BY <1>1, <1>2, <1>3, <1>4, <2>2, <3>1
    <3>2. CASE d = s
      BY <1>1, <1>2, <1>3, <1>4, <2>2, <3>2
    <3>3. CASE c # s /\ d # s
      BY <1>1, <2>2, <3>3 DEF Apart
    <3> QED BY <3>1, <3>2, <3>3
  <2> QED BY <2>1, <2>2 DEF Apart
<1>7. \A c, d \in DOMAIN g : Meets(g, c, d) => c = s \/ d = s
  BY <1>1 DEF Meets, Settled
<1>8. ASSUME NEW x \in Nat, Covers(f, x) \/ (s <= x /\ x < s + n)
      PROVE  Covers(g, x)
  <2>1. CASE Covers(f, x)
    BY <1>1, <1>5, <2>1 DEF Covers
  <2>2. CASE s <= x /\ x < s + n
    BY <1>1, <2>2 DEF Covers
  <2> QED BY <1>8, <2>1, <2>2
<1>9. ASSUME NEW x \in Nat, NEW y \in Nat, x < y, Clear(f, x, y), y <= s \/ s + n <= x
      PROVE  Clear(g, x, y)
  <2>1. (s < x /\ s + n <= x) \/ y <= s
    BY <1>2, <1>9
  <2>2. \A c \in DOMAIN g \ {s} : (c < x /\ c + g[c] <= x) \/ y <= c
    BY <1>1, <1>9 DEF Clear
  <2> QED BY <1>1, <2>1, <2>2 DEF Clear
<1> QED BY <1>1, <1>6, <1>7, <1>8, <1>9

\* Coalescing around a new chunk leaves no two chunks adjacent.
LEMMA CoalesceIs ==
  ASSUME NEW f, IsList(f), Apart(f), NEW s \in DOMAIN f,
         \A c, d \in DOMAIN f : Meets(f, c, d) => c = s \/ d = s,
         NEW g, g = Coalesce(f, s)
  PROVE  /\ IsList(g) /\ Apart(g) /\ Settled(g)
         /\ \A x \in Nat : Covers(f, x) => Covers(g, x)
         /\ \A x, y \in Nat : x < y /\ Clear(f, x, y) => Clear(g, x, y)
<1> DEFINE h == MergeNext(f, s)
           before == {a \in DOMAIN h : Touches(h, a, s)}
<1>1. /\ IsList(h) /\ Apart(h) /\ s \in DOMAIN h
      /\ \A c, d \in DOMAIN h : Meets(h, c, d) => d = s
      /\ \A x \in Nat : Covers(f, x) => Covers(h, x)
      /\ \A x, y \in Nat : x < y /\ Clear(f, x, y) => Clear(h, x, y)
  <2>1. CASE \E b \in DOMAIN f : Touches(f, s, b)
    <3>1. PICK b \in DOMAIN f : Touches(f, s, b)
      BY <2>1
    <3>2. Meets(f, s, b)
      BY <3>1, TouchesIsMeets
    <3>3. h = Merge(f, s, b)
      BY <2>1, <3>2 DEF MergeNext, Meets
    <3> HIDE DEF h
    <3>4. /\ IsList(h) /\ Apart(h) /\ DOMAIN h = DOMAIN f \ {b}
          /\ \A c, d \in DOMAIN h : Meets(h, c, d) => Meets(f, IF c = s THEN b ELSE c, d)
          /\ \A x \in Nat : Covers(f, x) => Covers(h, x)
          /\ \A x, y \in Nat : x < y /\ Clear(f, x, y) => Clear(h, x, y)
      BY <3>2, <3>3, MergeMeeting
    <3>5. s # b
      BY <3>2 DEF Meets, IsList
    <3>6. ASSUME NEW c \in DOMAIN h, NEW d \in DOMAIN h, Meets(h, c, d)
          PROVE  d = s
      <4>1. CASE c = s
        BY <3>4, <3>5, <3>6, <4>1
      <4>2. CASE c # s
        BY <3>4, <3>6, <4>2
      <4> QED BY <4>1, <4>2
    <3> QED BY <3>4, <3>5, <3>6
  <2>2. CASE ~ \E b \in DOMAIN f : Touches(f, s, b)
    <3>1. h = f
      BY <2>2 DEF MergeNext
    <3>2. \A b \in DOMAIN f : ~ Meets(f, s, b)
      BY <2>2, TouchesIsMeets
    <3> HIDE DEF h
    <3> QED BY <3>1, <3>2
  <2> QED BY <2>1, <2>2
<1>2. g = IF before = {} THEN h ELSE Merge(h, CHOOSE a \in before : TRUE, s)
  BY DEF Coalesce
<1>3. \A a \in DOMAIN h : a \in before <=> Meets(h, a, s)
  <2> HIDE DEF h
  <2> QED BY <1>1, TouchesIsMeets
<1>4. before \subseteq DOMAIN h
  OBVIOUS
<1> HIDE DEF h, before
<1>5. CASE before = {}
  <2>1. Settled(h)
    BY <1>1, <1>3, <1>5 DEF Settled
  <2> QED BY <1>1, <1>2, <1>5, <2>1
<1>6. CASE before # {}
  <2>1. PICK a \in before : a = CHOOSE c \in before : TRUE
    BY <1>6
  <2>2. a \in DOMAIN h /\ Meets(h, a, s) /\ g = Merge(h, a, s)
    BY <1>2, <1>3, <1>4, <1>6, <2>1
  <2>3. /\ IsList(g) /\ Apart(g) /\ DOMAIN g = DOMAIN h \ {s}
        /\ \A c, d \in DOMAIN g : Meets(g, c, d) => Meets(h, IF c = a THEN s ELSE c, d)
        /\ \A x \in Nat : Covers(h, x) => Covers(g, x)
        /\ \A x, y \in Nat : x < y /\ Clear(h, x, y) => Clear(g, x, y)
    BY <1>1, <2>2, MergeMeeting
  <2>4. Settled(g)
    <3> SUFFICES ASSUME NEW c \in DOMAIN g, NEW d \in DOMAIN g, Meets(g, c, d)
                 PROVE  FALSE
      BY DEF Settled
    <3>1. Meets(h, IF c = a THEN s ELSE c, d)
      BY <2>3
    <3>2. (IF c = a THEN s ELSE c) \in DOMAIN h /\ d \in DOMAIN h
      BY <1>1, <2>3
    <3> QED BY <1>1, <2>3, <3>1, <3>2
  <2> QED BY <1>1, <2>3, <2>4
<1> QED BY <1>5, <1>6

\* A block that comes back to other chunks is one of them, or part of one, and
\* its header with it.
LEMMA AddIs ==
  ASSUME NEW f, IsList(f), Apart(f), Settled(f), DOMAIN f # {},
         NEW s \in Nat, NEW size \in Nat, s + size + HeaderSize <= Bytes,
         Clear(f, s, s + size + HeaderSize),
         NEW g, g = Add(f, s, size)
  PROVE  /\ IsList(g) /\ Apart(g) /\ Settled(g)
         /\ \A x \in Nat :
              Covers(f, x) \/ (s <= x /\ x < s + size + HeaderSize) => Covers(g, x)
         /\ \A x, y \in Nat :
              x < y /\ Clear(f, x, y) /\ (y <= s \/ s + size + HeaderSize <= x)
                => Clear(g, x, y)
<1>1. PICK n : n = size + HeaderSize
  OBVIOUS
<1>2. n \in SizeType /\ n > 0 /\ s + n = s + size + HeaderSize
  BY <1>1, SizesAssumption DEF SizeType
<1>3. (size + HeaderSize) % Modulus = n
  BY <1>1, <1>2, Wrapped
<1>4. s \notin DOMAIN f
  BY <1>2 DEF Clear, IsList, SizeType
<1>5. g = Coalesce(Put(f, s, n), s)
  BY <1>3, <1>4 DEF Add
<1>6. PICK h : h = Put(f, s, n)
  OBVIOUS
<1>7. /\ IsList(h) /\ Apart(h) /\ s \in DOMAIN h
      /\ \A c, d \in DOMAIN h : Meets(h, c, d) => c = s \/ d = s
      /\ \A x \in Nat : Covers(f, x) \/ (s <= x /\ x < s + n) => Covers(h, x)
      /\ \A x, y \in Nat :
           x < y /\ Clear(f, x, y) /\ (y <= s \/ s + n <= x) => Clear(h, x, y)
  BY <1>2, <1>6, PutBetween
<1>8. g = Coalesce(h, s)
  BY <1>5, <1>6
<1>9. /\ IsList(g) /\ Apart(g) /\ Settled(g)
      /\ \A x \in Nat : Covers(h, x) => Covers(g, x)
      /\ \A x, y \in Nat : x < y /\ Clear(h, x, y) => Clear(g, x, y)
  BY <1>7, <1>8, CoalesceIs
<1> QED BY <1>2, <1>7, <1>9

-----------------------------------------------------------------------------
(* The inductive invariant.                                                 *)

\* While nothing clashed, a block in use is what was asked for, and in the
\* region: a request that wraps has clashed at once.
BlocksFit ==
  ~ clash => \A b \in live : /\ b.asked + HeaderSize < Modulus
                             /\ b.size = b.asked
                             /\ End(b) <= Bytes

\* Blocks do not overlap, also if the list is wrong.
BlocksApart ==
  ~ clash => \A b, c \in live : b = c \/ End(b) <= c.at \/ End(c) <= b.at

\* The list is right until a chunk was cut while others were free.
ListIsRight == overcounts = 0 => Apart(availible) /\ Settled(availible)

\* Until then chunks and blocks do not overlap.
BlocksAreClear ==
  overcounts = 0 /\ ~ clash => \A b \in live : Clear(availible, b.at, End(b))

InUse(x) == \E b \in live : b.at <= x /\ x < End(b)

BytesCovered ==
  overcounts = 0 /\ ~ clash /\ ~ headerLost =>
    \A x \in 0 .. Bytes - 1 : Covers(availible, x) \/ InUse(x)

Inv ==
  /\ TypeOK /\ IsList(availible)
  /\ BlocksFit /\ BlocksApart
  /\ ListIsRight /\ BlocksAreClear /\ BytesCovered
  /\ ClashesExplained

\* One chunk that is the region.
LEMMA WholeIs ==
  /\ IsList(Whole) /\ DOMAIN Whole = {0} /\ Whole[0] = Bytes
  /\ Apart(Whole) /\ Settled(Whole)
  /\ \A x \in 0 .. Bytes - 1 : Covers(Whole, x)
<1>1. Whole = [a \in {0} |-> Bytes]
  BY DEF Whole, Put
<1>2. Bytes \in SizeType /\ Bytes \in Nat
  BY SizesAssumption DEF SizeType
<1> QED BY <1>1, <1>2 DEF IsList, Apart, Settled, Meets, Covers

LEMMA InvInit == Init => Inv
<1> SUFFICES ASSUME Init PROVE Inv
  OBVIOUS
<1>1. TypeOK /\ IsList(availible)
  BY WholeIs, SizesAssumption DEF Init, TypeOK, IsList, SizeType
<1>2. BytesCovered
  BY WholeIs DEF Init, BytesCovered
<1> QED
  BY <1>1, <1>2, WholeIs DEF Init, Inv, BlocksFit, BlocksApart, ListIsRight,
                             BlocksAreClear, ClashesExplained

\* The types, for all of FreeList's actions.
LEMMA TypeStep == TypeOK /\ IsList(availible) /\ [Next]_vars
                    => TypeOK' /\ IsList(availible)'
<1> SUFFICES ASSUME TypeOK, IsList(availible), [Next]_vars
             PROVE  TypeOK' /\ IsList(availible)'
  OBVIOUS
<1>1. ASSUME NEW n \in Requests
      PROVE  n \in Nat /\ ReqBytes(n) \in SizeType /\ ReqBytes(n) \in Nat
  BY Wrapped, RequestsAssumption, SizesAssumption DEF ReqBytes
<1>2. ASSUME NEW n \in Requests, NEW a \in DOMAIN availible, HandOut(a, n)
      PROVE  /\ live' \subseteq [at : Nat, size : SizeType, asked : Requests]
             /\ bytesFree' \in SizeType /\ clash' \in BOOLEAN
  <2>1. (ReqBytes(n) - HeaderSize) % Modulus \in SizeType
    BY <1>1, Wrapped, SizesAssumption
  <2>2. (bytesFree - ReqBytes(n)) % Modulus \in SizeType
    BY <1>1, Wrapped DEF TypeOK
  <2>3. a \in Nat
    BY DEF IsList
  <2> QED BY <1>2, <2>1, <2>2, <2>3 DEF HandOut, TypeOK
<1>3. ASSUME IsList(availible)'
      PROVE  DOMAIN availible' \subseteq Nat /\ \A a \in DOMAIN availible' : availible'[a] \in SizeType
  BY <1>3 DEF IsList
<1>4. ASSUME NEW n \in Requests, AllocateWhole(n)
      PROVE  TypeOK' /\ IsList(availible)'
  <2>1. PICK a \in DOMAIN availible : availible' = Drop(availible, a) /\ HandOut(a, n)
    BY <1>4 DEF AllocateWhole
  <2>2. IsList(availible)'
    BY <2>1, DropIs
  <2> QED BY <1>2, <1>3, <1>4, <2>1, <2>2 DEF AllocateWhole, TypeOK
<1>5. ASSUME NEW n \in Requests, AllocateSplit(n)
      PROVE  TypeOK' /\ IsList(availible)'
  <2>1. PICK a \in DOMAIN availible :
              /\ availible[a] > ReqBytes(n)
              /\ availible' = Add(Drop(availible, a), a + ReqBytes(n), availible[a] - ReqBytes(n))
              /\ overcounts' = overcounts + IF DOMAIN Drop(availible, a) = {} THEN 0 ELSE 1
              /\ HandOut(a, n)
    BY <1>5 DEF AllocateSplit
  <2>2. a \in Nat /\ availible[a] \in SizeType /\ a + ReqBytes(n) \in Nat
    BY <1>1 DEF IsList
  <2>3. availible[a] - ReqBytes(n) \in SizeType
    <3>1. PICK r \in Nat : r = ReqBytes(n)
      BY <1>1
    <3>2. PICK k \in 0 .. Modulus - 1 : k = availible[a]
      BY <2>2 DEF SizeType
    <3>3. k > r /\ k - r \in 0 .. Modulus - 1
      BY <2>1, <3>1, <3>2, SizesAssumption
    <3> QED BY <3>1, <3>2, <3>3 DEF SizeType
  <2>4. IsList(Drop(availible, a))
    BY DropIs
  <2>5. IsList(availible)'
    BY <2>1, <2>2, <2>3, <2>4, AddType
  <2>6. overcounts' \in Nat
    BY <2>1 DEF TypeOK
  <2> QED BY <1>2, <1>3, <1>5, <2>1, <2>5, <2>6 DEF AllocateSplit, TypeOK
<1>6. ASSUME NEW b \in live, Deallocate(b)
      PROVE  TypeOK' /\ IsList(availible)'
  <2>1. b.at \in Nat /\ b.size \in SizeType
    BY DEF TypeOK
  <2>2. IsList(availible)'
    BY <1>6, <2>1, AddType DEF Deallocate
  <2>3. bytesFree' \in SizeType
    <3>1. bytesFree + b.size + HeaderSize \in Int
      BY <2>1, SizesAssumption DEF TypeOK, SizeType
    <3> QED BY <1>6, <3>1, Wrapped DEF Deallocate
  <2> QED BY <1>3, <1>6, <2>2, <2>3 DEF Deallocate, TypeOK
<1>7. CASE FreeAll
  <2>1. IsList(availible)' /\ bytesFree' \in SizeType
    BY <1>7, WholeIs, SizesAssumption DEF FreeAll, SizeType
  <2> QED BY <1>3, <1>7, <2>1 DEF FreeAll, TypeOK
<1>8. CASE UNCHANGED vars
  BY <1>8 DEF vars, TypeOK, IsList
<1> QED BY <1>4, <1>5, <1>6, <1>7, <1>8 DEF Next

-----------------------------------------------------------------------------
(* The actions.                                                             *)

\* Blocks in use are not empty.
LEMMA LiveType ==
  ASSUME TypeOK, NEW c \in live
  PROVE  /\ c.at \in Nat /\ c.size \in SizeType /\ c.asked \in Nat
         /\ End(c) = c.at + HeaderSize + c.asked
         /\ End(c) \in Nat /\ c.at < End(c)
<1>1. c \in [at : Nat, size : SizeType, asked : Requests]
  BY DEF TypeOK
<1>2. c.at \in Nat /\ c.size \in SizeType /\ c.asked \in Nat
  BY <1>1, RequestsAssumption
<1> QED BY <1>2, SizesAssumption DEF End

\* A new block that does not clash is what was asked for, and beside the others.
LEMMA HandedOut ==
  ASSUME Inv, ~ clash, NEW n \in Requests, NEW a \in DOMAIN availible, HandOut(a, n)
  PROVE  /\ BlocksFit' /\ BlocksApart'
         /\ \E b : /\ live' = live \cup {b} /\ b.at = a /\ b.asked = n
                   /\ End(b) = a + HeaderSize + n
                   /\ ~ clash' => /\ n + HeaderSize < Modulus
                                  /\ ReqBytes(n) = n + HeaderSize
                   /\ clash' = (End(b) > Bytes \/ \E c \in live : Overlap(b, c))
<1>1. n \in Nat /\ a \in Nat /\ HeaderSize \in Nat /\ Bytes \in Nat /\ Modulus \in Nat /\ Bytes < Modulus
  BY RequestsAssumption, SizesAssumption DEF Inv, IsList
<1>2. PICK b : b = [at |-> a, size |-> (ReqBytes(n) - HeaderSize) % Modulus, asked |-> n]
  OBVIOUS
<1>3. /\ b.at = a /\ b.asked = n /\ End(b) = a + HeaderSize + n
      /\ b.size = (ReqBytes(n) - HeaderSize) % Modulus
  BY <1>2 DEF End
<1>4. /\ live' = live \cup {b}
      /\ clash' = (End(b) > Bytes \/ \E c \in live : Overlap(b, c))
  BY <1>2 DEF HandOut
<1>5. ASSUME ~ clash'
      PROVE  /\ n + HeaderSize < Modulus /\ ReqBytes(n) = n + HeaderSize
             /\ b.size = n /\ End(b) <= Bytes
             /\ \A c \in live : End(b) <= c.at \/ End(c) <= b.at
  <2>0. ~ (End(b) > Bytes)
    BY <1>4, <1>5
  <2>1. End(b) <= Bytes
    BY <1>1, <1>3, <2>0
  <2>2. n + HeaderSize \in SizeType /\ n \in SizeType
    BY <1>1, <1>3, <2>1 DEF SizeType
  <2>3. ReqBytes(n) = n + HeaderSize /\ ReqBytes(n) - HeaderSize = n
    BY <1>1, <2>2, Wrapped DEF ReqBytes
  <2>4. b.size = n
    BY <1>3, <2>2, <2>3, Wrapped
  <2>5. \A c \in live : ~ Overlap(b, c)
    BY <1>4, <1>5
  <2>6. \A c \in live : c.at \in Nat /\ End(c) \in Nat
    BY LiveType DEF Inv
  <2>7. \A c \in live : End(b) <= c.at \/ End(c) <= b.at
    BY <1>1, <1>3, <2>5, <2>6 DEF Overlap
  <2> QED BY <1>1, <2>1, <2>2, <2>3, <2>4, <2>7 DEF SizeType
<1>6. BlocksFit'
  BY <1>3, <1>4, <1>5 DEF BlocksFit, Inv, End
<1>7. BlocksApart'
  BY <1>4, <1>5 DEF BlocksApart, Inv, End
<1> QED BY <1>3, <1>4, <1>5, <1>6, <1>7

\* A block out of a chunk of a list that is right clashes with nothing, unless
\* the request wraps.
LEMMA RightListNeverClashes ==
  ASSUME Inv, ~ clash, overcounts = 0,
         NEW n \in Requests, NEW a \in DOMAIN availible,
         availible[a] >= ReqBytes(n), HandOut(a, n), n + HeaderSize < Modulus
  PROVE  ~ clash'
<1>1. n \in Nat /\ a \in Nat /\ HeaderSize \in Nat \ {0} /\ Bytes \in Nat
  BY RequestsAssumption, SizesAssumption DEF Inv, IsList
<1>2. ReqBytes(n) = n + HeaderSize
  BY <1>1, Wrapped DEF ReqBytes, SizeType
<1>3. PICK b : /\ b.at = a /\ End(b) = a + HeaderSize + n
               /\ clash' = (End(b) > Bytes \/ \E c \in live : Overlap(b, c))
  BY HandedOut
<1>4. availible[a] \in Nat /\ a + availible[a] <= Bytes
  BY DEF Inv, IsList, SizeType, ListIsRight, Apart
<1>5. End(b) <= a + availible[a]
  BY <1>1, <1>2, <1>3, <1>4
<1>6. ASSUME NEW c \in live, Overlap(b, c)
      PROVE  FALSE
  <2>1. c.at \in Nat /\ End(c) \in Nat /\ c.at < End(c)
    BY LiveType DEF Inv
  <2>2. (a < c.at /\ a + availible[a] <= c.at) \/ End(c) <= a
    BY DEF Inv, BlocksAreClear, Clear
  <2> QED BY <1>1, <1>3, <1>4, <1>5, <1>6, <2>1, <2>2 DEF Overlap
<1>7. ~ (End(b) > Bytes)
  BY <1>1, <1>3, <1>4, <1>5
<1> QED BY <1>3, <1>6, <1>7

\* So a clash is explained by the request or by an earlier cut.
LEMMA ClashStep ==
  ASSUME Inv, ~ clash, NEW n \in Requests, NEW a \in DOMAIN availible,
         availible[a] >= ReqBytes(n), HandOut(a, n),
         overcounts' \in Nat, overcounts' >= overcounts
  PROVE  clash' => overcounts' > 0 \/ \E b \in live' : b.asked + HeaderSize >= Modulus
<1>1. overcounts \in Nat
  BY DEF Inv, TypeOK
<1>2. CASE overcounts = 0 /\ n + HeaderSize < Modulus
  BY <1>2, RightListNeverClashes
<1>3. CASE n + HeaderSize >= Modulus
  BY <1>3, HandedOut
<1>4. CASE overcounts # 0
  BY <1>1, <1>4
<1>5. n + HeaderSize \in Int /\ Modulus \in Int
  BY SizesAssumption, RequestsAssumption
<1> QED BY <1>2, <1>3, <1>4, <1>5

\* Dropping the chunk that becomes a block leaves the rest as it was.
LEMMA DropRight ==
  ASSUME NEW f, IsList(f), Apart(f), Settled(f), NEW a \in DOMAIN f,
         NEW g, g = Drop(f, a)
  PROVE  /\ Apart(g) /\ Settled(g)
         /\ \A x, y \in Nat : Clear(f, x, y) => Clear(g, x, y)
         /\ \A y \in Nat : a < y /\ y <= a + f[a] => Clear(g, a, y)
         /\ \A x \in Nat : Covers(f, x) => Covers(g, x) \/ (a <= x /\ x < a + f[a])
<1>1. DOMAIN g = DOMAIN f \ {a} /\ \A b \in DOMAIN f \ {a} : g[b] = f[b]
  BY DropIs
<1>2. \A b \in DOMAIN f : b \in Nat /\ f[b] \in Nat
  BY DEF IsList, SizeType
<1>3. Apart(g)
  BY <1>1 DEF Apart
<1>4. Settled(g)
  BY <1>1 DEF Settled, Meets
<1>5. \A x, y \in Nat : Clear(f, x, y) => Clear(g, x, y)
  BY <1>1 DEF Clear
<1>6. ASSUME NEW y \in Nat, a < y, y <= a + f[a]
      PROVE  Clear(g, a, y)
  <2> SUFFICES ASSUME NEW b \in DOMAIN g
               PROVE  (b < a /\ b + g[b] <= a) \/ y <= b
    BY DEF Clear
  <2>1. b < a => b + f[b] <= a
    BY <1>1 DEF Apart
  <2>2. a < b => a + f[a] <= b
    BY <1>1 DEF Apart
  <2> QED BY <1>1, <1>2, <1>6, <2>1, <2>2
<1>7. \A x \in Nat : Covers(f, x) => Covers(g, x) \/ (a <= x /\ x < a + f[a])
  BY <1>1 DEF Covers
<1> QED BY <1>3, <1>4, <1>5, <1>6, <1>7

\* A list of one chunk that is right.
LEMMA OneChunk ==
  ASSUME NEW f, IsList(f), NEW s \in Nat, NEW n \in SizeType, DOMAIN f = {},
         s + n <= Bytes, NEW g, g = Put(f, s, n)
  PROVE  /\ Apart(g) /\ Settled(g)
         /\ \A x, y \in Nat : y <= s \/ (s < x /\ s + n <= x) => Clear(g, x, y)
         /\ \A x \in Nat : s <= x /\ x < s + n => Covers(g, x)
<1>1. DOMAIN g = {s} /\ g[s] = n
  BY DEF Put
<1>2. n \in Nat
  BY DEF SizeType
<1> QED BY <1>1, <1>2 DEF Apart, Settled, Meets, Clear, Covers

LEMMA WholeStep ==
  ASSUME Inv, NEW n \in Requests, AllocateWhole(n)
  PROVE  Inv'
<1>1. PICK a \in DOMAIN availible :
            /\ availible[a] = ReqBytes(n)
            /\ availible' = Drop(availible, a) /\ HandOut(a, n)
  BY DEF AllocateWhole
<1>2. ~ clash /\ headerLost' = headerLost /\ overcounts' = overcounts
  BY DEF AllocateWhole
<1>3. TypeOK' /\ IsList(availible)'
  BY TypeStep DEF Inv, Next
<1>4. PICK b : /\ live' = live \cup {b} /\ b.at = a /\ b.asked = n
               /\ End(b) = a + HeaderSize + n
               /\ ~ clash' => n + HeaderSize < Modulus /\ ReqBytes(n) = n + HeaderSize
  BY <1>1, <1>2, HandedOut
<1>5. BlocksFit' /\ BlocksApart'
  BY <1>1, <1>2, HandedOut
<1>6. /\ a \in Nat /\ availible[a] \in Nat /\ n \in Nat /\ HeaderSize \in Nat \ {0}
      /\ availible[a] >= ReqBytes(n)
  BY <1>1, SizesAssumption, RequestsAssumption DEF Inv, IsList, SizeType
<1>7. ClashesExplained'
  <2>1. overcounts' \in Nat /\ overcounts' >= overcounts
    BY <1>2 DEF Inv, TypeOK
  <2> QED BY <1>1, <1>2, <1>6, <2>1, ClashStep DEF ClashesExplained
<1>8. ASSUME overcounts = 0
      PROVE  /\ Apart(availible') /\ Settled(availible')
             /\ \A x, y \in Nat : Clear(availible, x, y) => Clear(availible', x, y)
             /\ \A y \in Nat : a < y /\ y <= a + availible[a] => Clear(availible', a, y)
             /\ \A x \in Nat : Covers(availible, x)
                                 => Covers(availible', x) \/ (a <= x /\ x < a + availible[a])
  BY <1>1, <1>8, DropRight DEF Inv, ListIsRight
<1>9. ListIsRight'
  BY <1>2, <1>8 DEF ListIsRight
<1>10. ~ clash' => End(b) = a + availible[a] /\ a < End(b) /\ End(b) \in Nat
  BY <1>1, <1>4, <1>6
<1>11. BlocksAreClear'
  <2> SUFFICES ASSUME overcounts = 0, ~ clash', NEW c \in live'
               PROVE  Clear(availible', c.at, End(c))
    BY <1>2 DEF BlocksAreClear, End
  <2>1. CASE c = b
    BY <1>4, <1>6, <1>8, <1>10, <2>1
  <2>2. CASE c \in live
    <3>1. c.at \in Nat /\ End(c) \in Nat
      BY <2>2, LiveType DEF Inv
    <3>2. Clear(availible, c.at, End(c))
      BY <1>2, <2>2 DEF Inv, BlocksAreClear
    <3> QED BY <1>8, <3>1, <3>2
  <2> QED BY <1>4, <2>1, <2>2
<1>12. BytesCovered'
  <2> SUFFICES ASSUME overcounts = 0, ~ clash', ~ headerLost, NEW x \in 0 .. Bytes - 1
               PROVE  Covers(availible', x) \/ InUse(x)'
    BY <1>2 DEF BytesCovered
  <2>1. x \in Nat
    BY SizesAssumption
  <2>2. Covers(availible, x) \/ InUse(x)
    BY <1>2 DEF Inv, BytesCovered
  <2>3. CASE InUse(x)
    BY <1>4, <2>3 DEF InUse, End
  <2>4. CASE Covers(availible, x)
    <3>1. Covers(availible', x) \/ (b.at <= x /\ x < End(b))
      BY <1>4, <1>8, <1>10, <2>1, <2>4
    <3> QED BY <1>4, <3>1 DEF InUse, End
  <2> QED BY <2>2, <2>3, <2>4
<1> QED BY <1>3, <1>5, <1>7, <1>9, <1>11, <1>12 DEF Inv

LEMMA SplitStep ==
  ASSUME Inv, NEW n \in Requests, AllocateSplit(n)
  PROVE  Inv'
<1>1. PICK a \in DOMAIN availible :
            /\ availible[a] > ReqBytes(n)
            /\ availible' = Add(Drop(availible, a), a + ReqBytes(n), availible[a] - ReqBytes(n))
            /\ overcounts' = overcounts + IF DOMAIN Drop(availible, a) = {} THEN 0 ELSE 1
            /\ HandOut(a, n)
  BY DEF AllocateSplit
<1>2. ~ clash /\ headerLost' = headerLost
  BY DEF AllocateSplit
<1>3. TypeOK' /\ IsList(availible)'
  BY TypeStep DEF Inv, Next
<1>4. PICK b : /\ live' = live \cup {b} /\ b.at = a /\ b.asked = n
               /\ End(b) = a + HeaderSize + n
               /\ ~ clash' => n + HeaderSize < Modulus /\ ReqBytes(n) = n + HeaderSize
  BY <1>1, <1>2, HandedOut
<1>5. BlocksFit' /\ BlocksApart'
  BY <1>1, <1>2, HandedOut
<1>6. /\ a \in Nat /\ availible[a] \in SizeType /\ availible[a] \in Nat
      /\ n \in Nat /\ HeaderSize \in Nat \ {0} /\ ReqBytes(n) \in Nat
      /\ overcounts \in Nat
  BY SizesAssumption, RequestsAssumption, Wrapped DEF Inv, TypeOK, IsList, SizeType, ReqBytes
<1>7. ClashesExplained'
  <2>1. overcounts' \in Nat /\ overcounts' >= overcounts /\ availible[a] >= ReqBytes(n)
    BY <1>1, <1>6
  <2> QED BY <1>1, <1>2, <2>1, ClashStep DEF ClashesExplained
<1>8. ASSUME overcounts' = 0
      PROVE  overcounts = 0 /\ DOMAIN Drop(availible, a) = {} /\ DOMAIN availible = {a}
  <2>1. overcounts = 0 /\ DOMAIN Drop(availible, a) = {}
    BY <1>1, <1>6, <1>8
  <2>2. DOMAIN Drop(availible, a) = DOMAIN availible \ {a}
    BY DropIs DEF Inv
  <2> QED BY <2>1, <2>2
<1>9. PICK s \in Nat : s = a + ReqBytes(n)
  BY <1>6
<1>10. PICK k \in Nat : k = availible[a] - ReqBytes(n)
  BY <1>1, <1>6
<1>11. k \in SizeType /\ s + k = a + availible[a] /\ s < a + availible[a]
  BY <1>1, <1>6, <1>9, <1>10, SizesAssumption DEF SizeType
<1>12. ASSUME overcounts' = 0
       PROVE  /\ Apart(availible') /\ Settled(availible')
              /\ \A x, y \in Nat : y <= s \/ (s < x /\ s + k <= x) => Clear(availible', x, y)
              /\ \A x \in Nat : s <= x /\ x < s + k => Covers(availible', x)
  <2>1. availible' = Put(Drop(availible, a), s, k)
    BY <1>1, <1>8, <1>9, <1>10, <1>12 DEF Add
  <2>2. IsList(Drop(availible, a))
    BY DropIs DEF Inv
  <2>3. s + k <= Bytes
    BY <1>8, <1>11, <1>12 DEF Inv, ListIsRight, Apart
  <2> QED BY <1>8, <1>11, <1>12, <2>1, <2>2, <2>3, OneChunk
<1>13. ListIsRight'
  BY <1>12 DEF ListIsRight
<1>14. ~ clash' => End(b) = s /\ a < s
  BY <1>4, <1>6, <1>9
<1>15. BlocksAreClear'
  <2> SUFFICES ASSUME overcounts' = 0, ~ clash', NEW c \in live'
               PROVE  Clear(availible', c.at, End(c))
    BY DEF BlocksAreClear, End
  <2>1. CASE c = b
    BY <1>4, <1>6, <1>9, <1>12, <1>14, <2>1
  <2>2. CASE c \in live
    <3>1. c.at \in Nat /\ End(c) \in Nat
      BY <2>2, LiveType DEF Inv
    <3>2. (a < c.at /\ a + availible[a] <= c.at) \/ End(c) <= a
      BY <1>2, <1>8, <2>2 DEF Inv, BlocksAreClear, Clear
    <3>3. End(c) <= s \/ (s < c.at /\ s + k <= c.at)
      BY <1>6, <1>9, <1>11, <3>1, <3>2
    <3> QED BY <1>12, <3>1, <3>3
  <2> QED BY <1>4, <2>1, <2>2
<1>16. BytesCovered'
  <2> SUFFICES ASSUME overcounts' = 0, ~ clash', ~ headerLost, NEW x \in 0 .. Bytes - 1
               PROVE  Covers(availible', x) \/ InUse(x)'
    BY <1>2 DEF BytesCovered
  <2>1. x \in Nat
    BY SizesAssumption
  <2>2. Covers(availible, x) \/ InUse(x)
    BY <1>2, <1>8 DEF Inv, BytesCovered
  <2>3. CASE InUse(x)
    BY <1>4, <2>3 DEF InUse, End
  <2>4. CASE Covers(availible, x)
    <3>1. a <= x /\ x < a + availible[a]
      BY <1>8, <2>4 DEF Covers
    <3>2. (b.at <= x /\ x < End(b)) \/ (s <= x /\ x < s + k)
      BY <1>4, <1>6, <1>9, <1>11, <1>14, <2>1, <3>1
    <3> QED BY <1>4, <1>12, <2>1, <3>2 DEF InUse, End
  <2> QED BY <2>2, <2>3, <2>4
<1> QED BY <1>3, <1>5, <1>7, <1>13, <1>15, <1>16 DEF Inv

LEMMA DeallocateStep ==
  ASSUME Inv, NEW b \in live, Deallocate(b)
  PROVE  Inv'
<1>1. /\ ~ clash /\ clash' = clash /\ overcounts' = overcounts
      /\ live' = live \ {b} /\ availible' = Add(availible, b.at, b.size)
      /\ headerLost' = (headerLost \/ availible = <<>>)
  BY DEF Deallocate
<1>2. TypeOK' /\ IsList(availible)'
  BY TypeStep DEF Inv, Next
<1>3. /\ b.at \in Nat /\ b.size \in SizeType /\ b.size \in Nat
      /\ End(b) = b.at + b.size + HeaderSize /\ End(b) <= Bytes /\ b.at < End(b)
      /\ HeaderSize \in Nat
  BY <1>1, LiveType, SizesAssumption DEF Inv, BlocksFit
<1>4. BlocksFit' /\ BlocksApart' /\ ClashesExplained'
  BY <1>1 DEF BlocksFit, BlocksApart, ClashesExplained, Inv, End
<1>5. ASSUME NEW c \in live'
      PROVE  /\ c \in live /\ c.at \in Nat /\ End(c) \in Nat /\ c.at < End(c)
             /\ End(b) <= c.at \/ End(c) <= b.at
  BY <1>1, LiveType DEF Inv, BlocksApart
<1>6. ListIsRight' /\ BlocksAreClear' /\ BytesCovered'
  <2>1. CASE overcounts # 0
    BY <1>1, <2>1 DEF ListIsRight, BlocksAreClear, BytesCovered
  <2>2. CASE overcounts = 0 /\ DOMAIN availible = {}
    <3>1. availible' = Put(availible, b.at, b.size)
      BY <1>1, <2>2 DEF Add
    <3>2. b.at + b.size <= Bytes
      BY <1>3, SizesAssumption
    <3>3. /\ Apart(availible') /\ Settled(availible')
          /\ \A x, y \in Nat : y <= b.at \/ (b.at < x /\ b.at + b.size <= x)
                                 => Clear(availible', x, y)
      BY <1>3, <2>2, <3>1, <3>2, OneChunk DEF Inv
    <3>4. ASSUME NEW c \in live'
          PROVE  Clear(availible', c.at, End(c))
      <4>1. End(c) <= b.at \/ (b.at < c.at /\ b.at + b.size <= c.at)
        BY <1>3, <1>5
      <4> QED BY <1>5, <3>3, <4>1
    <3>5. availible = <<>>
      BY <2>2 DEF Inv, IsList
    <3> QED BY <1>1, <3>3, <3>4, <3>5 DEF ListIsRight, BlocksAreClear, BytesCovered, End
  <2>3. CASE overcounts = 0 /\ DOMAIN availible # {}
    <3>1. Apart(availible) /\ Settled(availible) /\ Clear(availible, b.at, End(b))
      BY <1>1, <2>3 DEF Inv, ListIsRight, BlocksAreClear
    <3>2. /\ Apart(availible') /\ Settled(availible')
          /\ \A x \in Nat :
               Covers(availible, x) \/ (b.at <= x /\ x < End(b)) => Covers(availible', x)
          /\ \A x, y \in Nat :
               x < y /\ Clear(availible, x, y) /\ (y <= b.at \/ End(b) <= x)
                 => Clear(availible', x, y)
      BY <1>1, <1>3, <2>3, <3>1, AddIs DEF Inv
    <3>3. ASSUME NEW c \in live'
          PROVE  Clear(availible', c.at, End(c))
      <4>1. Clear(availible, c.at, End(c))
        BY <1>1, <1>5, <2>3 DEF Inv, BlocksAreClear
      <4> QED BY <1>5, <3>2, <4>1
    <3>4. ASSUME ~ headerLost', NEW x \in 0 .. Bytes - 1
          PROVE  Covers(availible', x) \/ InUse(x)'
      <4>1. x \in Nat
        BY SizesAssumption
      <4>2. Covers(availible, x) \/ InUse(x)
        BY <1>1, <2>3, <3>4 DEF Inv, BytesCovered
      <4>3. CASE Covers(availible, x)
        BY <3>2, <4>1, <4>3
      <4>4. CASE InUse(x)
        <5>1. PICK c \in live : c.at <= x /\ x < End(c)
          BY <4>4 DEF InUse
        <5>2. CASE c = b
          BY <3>2, <4>1, <5>1, <5>2
        <5>3. CASE c # b
          BY <1>1, <5>1, <5>3 DEF InUse, End
        <5> QED BY <5>2, <5>3
      <4> QED BY <4>2, <4>3, <4>4
    <3>5. BytesCovered'
      BY <3>4 DEF BytesCovered
    <3> QED BY <3>2, <3>3, <3>5 DEF ListIsRight, BlocksAreClear, End
  <2> QED BY <2>1, <2>2, <2>3
<1> QED BY <1>2, <1>4, <1>6 DEF Inv

LEMMA FreeAllStep == Inv /\ FreeAll => Inv'
<1> SUFFICES ASSUME Inv, FreeAll PROVE Inv'
  OBVIOUS
<1>1. TypeOK' /\ IsList(availible)'
  BY TypeStep DEF Inv, Next
<1>2. availible' = Whole /\ live' = {} /\ clash' = clash /\ ~ clash
  BY DEF FreeAll
<1>3. ListIsRight' /\ BytesCovered'
  BY <1>2, WholeIs DEF ListIsRight, BytesCovered
<1> QED
  BY <1>1, <1>2, <1>3 DEF Inv, BlocksFit, BlocksApart, BlocksAreClear, ClashesExplained

LEMMA InvNext == Inv /\ [Next]_vars => Inv'
<1> SUFFICES ASSUME Inv, [Next]_vars PROVE Inv'
  OBVIOUS
<1>1. CASE UNCHANGED vars
  <2>1. TypeOK' /\ IsList(availible)'
    BY TypeStep DEF Inv
  <2> QED
    BY <1>1, <2>1 DEF vars, Inv, BlocksFit, BlocksApart, ListIsRight, BlocksAreClear,
                      BytesCovered, ClashesExplained, InUse, End
<1> QED
  BY <1>1, WholeStep, SplitStep, DeallocateStep, FreeAllStep DEF Next

\* Inv holds in every reachable state.
THEOREM FreeListInvariant == Spec => []Inv
BY InvInit, InvNext, PTL DEF Spec

-----------------------------------------------------------------------------
(* What callers may rely on.                                                *)

\* Whatever is asked for, and however the list goes wrong, sizes stay within
\* size_type and addresses are natural numbers.
THEOREM Typing == Spec => []TypeOK
BY FreeListInvariant, PTL DEF Inv

\* allocate() gives out memory that is in use, or outside the region, only
\* after a chunk was cut while others were free, or for a request that wraps.
THEOREM ClashesHaveACause == Spec => []ClashesExplained
BY FreeListInvariant, PTL DEF Inv

\* Until then chunks and blocks lie side by side in the region: add() coalesces
\* what is adjacent, and nothing else.
THEOREM PiecesStayApart == Spec => []PiecesApart
<1>1. Inv => PiecesApart
  <2> SUFFICES ASSUME Inv, overcounts = 0, ~ clash
               PROVE  /\ \A p \in Pieces : p.end <= Bytes
                      /\ \A p, q \in Pieces : p = q \/ p.end <= q.at \/ q.end <= p.at
    BY DEF PiecesApart
  <2>1. Apart(availible) /\ \A b \in live : Clear(availible, b.at, End(b))
    BY DEF Inv, ListIsRight, BlocksAreClear
  <2>2. /\ \A b \in live : End(b) <= Bytes
        /\ \A b, c \in live : b = c \/ End(b) <= c.at \/ End(c) <= b.at
    BY DEF Inv, BlocksFit, BlocksApart
  <2>3. ASSUME NEW p \in Pieces
        PROVE  \/ \E a \in DOMAIN availible : p = Chunk(a) /\ p.at = a /\ p.end = a + availible[a]
               \/ \E b \in live : p = Block(b) /\ p.at = b.at /\ p.end = End(b)
    BY DEF Pieces, Chunk, Block
  <2>4. \A p \in Pieces : p.end <= Bytes
    BY <2>1, <2>2, <2>3 DEF Apart
  <2>5. ASSUME NEW p \in Pieces, NEW q \in Pieces
        PROVE  p = q \/ p.end <= q.at \/ q.end <= p.at
    <3>1. CASE \E a, b \in DOMAIN availible :
                 /\ p = Chunk(a) /\ p.at = a /\ p.end = a + availible[a]
                 /\ q = Chunk(b) /\ q.at = b /\ q.end = b + availible[b]
      <4>1. PICK a, b \in DOMAIN availible :
                   /\ p = Chunk(a) /\ p.at = a /\ p.end = a + availible[a]
                   /\ q = Chunk(b) /\ q.at = b /\ q.end = b + availible[b]
        BY <3>1
      <4>2. a \in Nat /\ b \in Nat
        BY DEF Inv, IsList
      <4> QED BY <2>1, <4>1, <4>2 DEF Apart
    <3>2. CASE \E a \in DOMAIN availible, b \in live :
                 \/ /\ p.at = a /\ p.end = a + availible[a]
                    /\ q.at = b.at /\ q.end = End(b)
                 \/ /\ q.at = a /\ q.end = a + availible[a]
                    /\ p.at = b.at /\ p.end = End(b)
      BY <2>1, <3>2 DEF Clear
    <3>3. CASE \E b, c \in live :
                 /\ p = Block(b) /\ p.at = b.at /\ p.end = End(b)
                 /\ q = Block(c) /\ q.at = c.at /\ q.end = End(c)
      BY <2>2, <3>3
    <3> QED BY <2>3, <3>1, <3>2, <3>3
  <2> QED BY <2>4, <2>5
<1> QED BY <1>1, FreeListInvariant, PTL

\* Until then no two adjacent chunks stay apart.
THEOREM ChunksCoalesce == Spec => []Coalesced
<1>1. Inv => Coalesced
  BY TouchesIsMeets DEF Inv, ListIsRight, Settled, Coalesced
<1> QED BY <1>1, FreeListInvariant, PTL

-----------------------------------------------------------------------------
(* The sum in BytesFreeCounts.                                              *)

\* What a block takes from bytesFree.
Weight(b) == b.size + HeaderSize

Chosen(s) == CHOOSE x \in s : TRUE

\* g sums up the blocks of each subset of s.
IsSum(g, s) ==
  g = [u \in SUBSET s |-> IF u = {} THEN 0 ELSE Weight(Chosen(u)) + g[u \ {Chosen(u)}]]

Sum(s) == (CHOOSE g : IsSum(g, s))[s]

LEMMA SumIs == \A s : MapThenSumSet(LAMBDA b : b.size + HeaderSize, s) = Sum(s)
BY DEF MapThenSumSet, MapThenFoldSet, Sum, IsSum, Weight, Chosen

\* Of any subsets of a finite set one has none of the others in it: what holds
\* of a set whenever it holds of all smaller ones holds of every finite set.
LEMMA SmallestSet ==
  ASSUME NEW S, IsFiniteSet(S), NEW T, T \subseteq SUBSET S, T # {}
  PROVE  \E s \in T : \A u \in T : u \subseteq s => u = s
<1>1. T \subseteq FiniteSubsetsOf(S)
  BY FS_FiniteSubsetsOfFinite
<1>2. PICK s \in T : \A u \in T : ~ (<<u, s>> \in StrictSubsetOrdering(S))
  BY <1>1, FS_StrictSubsetOrderingWellFounded, WFMin
<1> QED BY <1>2 DEF StrictSubsetOrdering

LEMMA ChosenIs == \A s : s # {} => Chosen(s) \in s
BY DEF Chosen

\* Two functions that sum up agree where both do.
LEMMA SumsAgree ==
  ASSUME NEW s, IsFiniteSet(s), NEW t, NEW g, NEW h, IsSum(g, s), IsSum(h, t),
         NEW v \in SUBSET s, v \in SUBSET t
  PROVE  g[v] = h[v]
<1> DEFINE Bad == {u \in SUBSET s : u \in SUBSET t /\ g[u] # h[u]}
<1> SUFFICES ASSUME Bad # {} PROVE FALSE
  OBVIOUS
<1>1. PICK u \in Bad : \A w \in Bad : w \subseteq u => w = u
  <2>1. Bad \subseteq SUBSET s
    OBVIOUS
  <2> HIDE DEF Bad
  <2> QED BY <2>1, SmallestSet
<1>2. CASE u = {}
  BY <1>2 DEF IsSum
<1>3. CASE u # {}
  <2>1. Chosen(u) \in u
    BY <1>3, ChosenIs
  <2>2. PICK w : w = u \ {Chosen(u)}
    OBVIOUS
  <2>3. w \subseteq u /\ w # u /\ w \in SUBSET s /\ w \in SUBSET t
    BY <2>1, <2>2
  <2>4. g[w] = h[w]
    BY <1>1, <2>3
  <2>5. g[u] = Weight(Chosen(u)) + g[w] /\ h[u] = Weight(Chosen(u)) + h[w]
    BY <1>3, <2>2 DEF IsSum
  <2> QED BY <2>4, <2>5
<1> QED BY <1>2, <1>3

\* There is one for every finite set.
LEMMA SumExists ==
  ASSUME NEW S, IsFiniteSet(S)
  PROVE  \E g : IsSum(g, S)
<1> DEFINE Bad == {u \in SUBSET S : ~ \E g : IsSum(g, u)}
<1> SUFFICES ASSUME Bad # {} PROVE FALSE
  OBVIOUS
<1>1. PICK s \in Bad : \A w \in Bad : w \subseteq s => w = s
  <2>1. Bad \subseteq SUBSET S
    OBVIOUS
  <2> HIDE DEF Bad
  <2> QED BY <2>1, SmallestSet
<1>2. \A w \in SUBSET s : IsFiniteSet(w)
  <2>1. s \in SUBSET S
    OBVIOUS
  <2> QED BY <2>1, FS_Subset
<1>3. \A w \in SUBSET s : w # s => \E g : IsSum(g, w)
  BY <1>1
<1>4. PICK h : h = [u \in SUBSET s |-> IF u = {} THEN 0
                                       ELSE Weight(Chosen(u)) + Sum(u \ {Chosen(u)})]
  OBVIOUS
<1>5. ASSUME NEW w \in SUBSET s, w # s
      PROVE  h[w] = Sum(w)
  <2>1. PICK g : g = CHOOSE k : IsSum(k, w)
    OBVIOUS
  <2>2. IsSum(g, w) /\ Sum(w) = g[w]
    BY <1>3, <1>5, <2>1 DEF Sum
  <2>3. CASE w = {}
    BY <1>4, <2>2, <2>3 DEF IsSum
  <2>4. CASE w # {}
    <3>1. PICK v : v = w \ {Chosen(w)}
      OBVIOUS
    <3>2. v \in SUBSET w /\ v \in SUBSET s /\ v # s
      BY <2>4, <3>1, ChosenIs
    <3>3. PICK k : k = CHOOSE j : IsSum(j, v)
      OBVIOUS
    <3>4. IsSum(k, v) /\ Sum(v) = k[v]
      BY <1>3, <3>2, <3>3 DEF Sum
    <3>5. g[v] = k[v]
      BY <1>2, <2>2, <3>2, <3>4, SumsAgree
    <3>6. g[w] = Weight(Chosen(w)) + g[v]
      BY <2>2, <2>4, <3>1 DEF IsSum
    <3>7. h[w] = Weight(Chosen(w)) + Sum(v)
      BY <1>4, <2>4, <3>1
    <3> QED BY <2>2, <3>4, <3>5, <3>6, <3>7
  <2> QED BY <2>3, <2>4
<1>6. IsSum(h, s)
  <2>1. ASSUME NEW u \in SUBSET s, u # {}
        PROVE  h[u \ {Chosen(u)}] = Sum(u \ {Chosen(u)})
    <3>1. u \ {Chosen(u)} \in SUBSET s /\ u \ {Chosen(u)} # s
      BY <2>1, ChosenIs
    <3> QED BY <1>5, <3>1
  <2>2. h = [u \in SUBSET s |-> IF u = {} THEN 0
                                ELSE Weight(Chosen(u)) + h[u \ {Chosen(u)}]]
    BY <1>4, <2>1
  <2> QED BY <2>2 DEF IsSum
<1> QED BY <1>6

\* The recursion behind the sum.
LEMMA SumUnfolds ==
  ASSUME NEW S, IsFiniteSet(S)
  PROVE  Sum(S) = IF S = {} THEN 0 ELSE Weight(Chosen(S)) + Sum(S \ {Chosen(S)})
<1>1. PICK g : g = CHOOSE k : IsSum(k, S)
  OBVIOUS
<1>2. IsSum(g, S) /\ Sum(S) = g[S]
  BY <1>1, SumExists DEF Sum
<1>3. CASE S = {}
  BY <1>2, <1>3 DEF IsSum
<1>4. CASE S # {}
  <2>1. PICK v : v = S \ {Chosen(S)}
    OBVIOUS
  <2>2. v \in SUBSET S /\ IsFiniteSet(v)
    BY <2>1, FS_Subset
  <2>3. PICK k : k = CHOOSE j : IsSum(j, v)
    OBVIOUS
  <2>4. IsSum(k, v) /\ Sum(v) = k[v]
    BY <2>2, <2>3, SumExists DEF Sum
  <2>5. g[v] = k[v]
    BY <1>2, <2>2, <2>4, SumsAgree
  <2>6. g[S] = Weight(Chosen(S)) + g[v]
    BY <1>2, <1>4, <2>1 DEF IsSum
  <2> QED BY <1>2, <1>4, <2>1, <2>4, <2>5, <2>6
<1> QED BY <1>3, <1>4

\* What is summed up are integers.
LEMMA SumType ==
  ASSUME NEW S, IsFiniteSet(S), \A b \in S : Weight(b) \in Int
  PROVE  \A u \in SUBSET S : Sum(u) \in Int
<1> DEFINE Bad == {u \in SUBSET S : Sum(u) \notin Int}
<1> SUFFICES ASSUME Bad # {} PROVE FALSE
  OBVIOUS
<1>1. PICK u \in Bad : \A w \in Bad : w \subseteq u => w = u
  <2>1. Bad \subseteq SUBSET S
    OBVIOUS
  <2> HIDE DEF Bad
  <2> QED BY <2>1, SmallestSet
<1>2. IsFiniteSet(u) /\ u \in SUBSET S /\ Sum(u) \notin Int
  BY FS_Subset
<1>3. u # {}
  <2>1. Sum({}) = 0
    BY FS_EmptySet, SumUnfolds
  <2> QED BY <1>2, <2>1
<1>4. PICK v : v = u \ {Chosen(u)}
  OBVIOUS
<1>5. Chosen(u) \in u /\ v \in SUBSET S /\ v \subseteq u /\ v # u
  BY <1>2, <1>3, <1>4, ChosenIs
<1>6. Sum(u) = Weight(Chosen(u)) + Sum(v)
  BY <1>2, <1>3, <1>4, SumUnfolds
<1>7. Sum(v) \in Int
  BY <1>1, <1>5
<1>8. Weight(Chosen(u)) \in Int
  BY <1>2, <1>5
<1> QED BY <1>2, <1>6, <1>7, <1>8

\* The order of summing up does not matter: any element may come first.
LEMMA SumRemove ==
  ASSUME NEW S, IsFiniteSet(S), \A b \in S : Weight(b) \in Int, NEW b \in S
  PROVE  Sum(S) = Weight(b) + Sum(S \ {b}) /\ Sum(S) \in Int /\ Sum(S \ {b}) \in Int
<1> DEFINE Bad == {u \in SUBSET S : \E x \in u : Sum(u) # Weight(x) + Sum(u \ {x})}
<1>1. SUFFICES ASSUME Bad # {} PROVE FALSE
  <2>1. S \in SUBSET S /\ S \ {b} \in SUBSET S
    OBVIOUS
  <2>2. Sum(S) \in Int /\ Sum(S \ {b}) \in Int
    BY <2>1, SumType
  <2> QED BY <2>1, <2>2
<1>2. PICK u \in Bad : \A w \in Bad : w \subseteq u => w = u
  <2>1. Bad \subseteq SUBSET S
    OBVIOUS
  <2> HIDE DEF Bad
  <2> QED BY <1>1, <2>1, SmallestSet
<1>3. u \in SUBSET S /\ IsFiniteSet(u)
  BY FS_Subset
<1>4. PICK x \in u : Sum(u) # Weight(x) + Sum(u \ {x})
  OBVIOUS
<1>5. PICK p : p = Chosen(u)
  OBVIOUS
<1>6. p \in u /\ Sum(u) = Weight(p) + Sum(u \ {p})
  BY <1>3, <1>4, <1>5, ChosenIs, SumUnfolds
<1>7. p # x
  BY <1>4, <1>6
<1>8. PICK v, w, z : v = u \ {p} /\ w = u \ {x} /\ z = u \ {p, x}
  OBVIOUS
<1>9. /\ v \in SUBSET S /\ v \subseteq u /\ v # u /\ x \in v /\ v \ {x} = z
      /\ w \in SUBSET S /\ w \subseteq u /\ w # u /\ p \in w /\ w \ {p} = z
      /\ z \in SUBSET S
  BY <1>3, <1>6, <1>7, <1>8
<1>10. v \notin Bad /\ w \notin Bad
  BY <1>2, <1>9
<1>11. Sum(v) = Weight(x) + Sum(z) /\ Sum(w) = Weight(p) + Sum(z)
  BY <1>9, <1>10
<1>12. Weight(x) \in Int /\ Weight(p) \in Int
  BY <1>3, <1>6
<1>13. Sum(z) \in Int
  BY <1>9, SumType
<1>14. Sum(u) = Weight(p) + Sum(v) /\ Sum(u) # Weight(x) + Sum(w)
  BY <1>4, <1>6, <1>8
<1> QED BY <1>11, <1>12, <1>13, <1>14

-----------------------------------------------------------------------------
(* Arithmetic of size_type.                                                 *)

LEMMA MultiplesApart ==
  ASSUME NEW d \in Int, NEW e \in Int, e = Modulus * d, e < Modulus, - Modulus < e
  PROVE  d = 0
<1>1. CASE d >= 1
  <2>1. Modulus * d >= Modulus
    BY <1>1, Wrapped
  <2> QED BY <2>1, Wrapped
<1>2. CASE d <= -1
  <2>1. Modulus * d <= - Modulus
    BY <1>2, Wrapped
  <2> QED BY <2>1, Wrapped
<1> QED BY <1>1, <1>2

LEMMA DivMod ==
  ASSUME NEW x \in Int
  PROVE  \E q \in Int : x = Modulus * q + (x % Modulus)
BY Wrapped

LEMMA ModIsUnique ==
  ASSUME NEW x \in Int, NEW q \in Int, NEW r \in SizeType, x = Modulus * q + r
  PROVE  x % Modulus = r
<1>1. PICK k \in Int : x = Modulus * k + (x % Modulus)
  BY DivMod
<1>2. PICK s \in SizeType : s = x % Modulus
  BY Wrapped
<1>3. /\ r \in Int /\ s \in Int /\ Modulus \in Int
      /\ s - r < Modulus /\ - Modulus < s - r
  BY SizesAssumption DEF SizeType
<1>4. s - r = Modulus * (q - k)
  <2>1. Modulus * q + r = Modulus * k + s
    BY <1>1, <1>2
  <2>2. Modulus * (q - k) = Modulus * q - Modulus * k
    BY <1>3
  <2> QED BY <1>3, <2>1, <2>2
<1>5. q - k = 0
  BY <1>3, <1>4, MultiplesApart
<1> QED BY <1>2, <1>3, <1>4, <1>5

\* Wrapping a summand does not change what the sum wraps to.
LEMMA WrapsOnce ==
  ASSUME NEW x \in Int, NEW y \in Int
  PROVE  ((x % Modulus) + y) % Modulus = (x + y) % Modulus
<1>1. PICK r \in SizeType : r = x % Modulus
  BY Wrapped
<1>2. r \in Int /\ Modulus \in Int
  BY SizesAssumption DEF SizeType
<1>3. PICK q \in Int : x = Modulus * q + r
  BY <1>1, DivMod
<1>4. PICK s \in SizeType : s = (r + y) % Modulus
  BY <1>2, Wrapped
<1>5. PICK k \in Int : r + y = Modulus * k + s
  <2>1. PICK z \in Int : z = r + y
    BY <1>2
  <2>2. PICK k \in Int : z = Modulus * k + (z % Modulus)
    BY DivMod
  <2> QED BY <1>4, <2>1, <2>2
<1>6. x + y = Modulus * (q + k) + s
  <2>1. Modulus * (q + k) = Modulus * q + Modulus * k
    BY <1>2
  <2>2. s \in Int
    BY SizesAssumption DEF SizeType
  <2>3. Modulus * q \in Int /\ Modulus * k \in Int
    BY <1>2
  <2> QED BY <1>2, <1>3, <1>5, <2>1, <2>2, <2>3
<1>7. (x + y) % Modulus = s
  BY <1>6, ModIsUnique
<1> QED BY <1>1, <1>4, <1>7

-----------------------------------------------------------------------------
(* bytesFree.                                                               *)

Counts ==
  /\ IsFiniteSet(live)
  /\ ~ clash => bytesFree = (Bytes - Sum(live)) % Modulus

LEMMA CountsInit == Init => Counts
<1> SUFFICES ASSUME Init PROVE Counts
  OBVIOUS
<1>1. IsFiniteSet(live) /\ Sum(live) = 0
  BY FS_EmptySet, SumUnfolds DEF Init
<1>2. Bytes \in SizeType /\ Bytes - 0 = Bytes
  BY SizesAssumption DEF SizeType
<1> QED BY <1>1, <1>2, Wrapped DEF Init, Counts

\* A block handed out without a clash was not in use before.
LEMMA HandOutCounts ==
  ASSUME Inv, Counts, ~ clash, NEW n \in Requests, NEW a \in DOMAIN availible, HandOut(a, n)
  PROVE  Counts'
<1>1. PICK b : /\ live' = live \cup {b} /\ b.at = a /\ b.asked = n
               /\ End(b) = a + HeaderSize + n
               /\ ~ clash' => n + HeaderSize < Modulus /\ ReqBytes(n) = n + HeaderSize
               /\ clash' = (End(b) > Bytes \/ \E c \in live : Overlap(b, c))
  BY HandedOut
<1>2. IsFiniteSet(live)'
  BY <1>1, FS_AddElement DEF Counts
<1>3. ASSUME ~ clash'
      PROVE  bytesFree' = (Bytes - Sum(live')) % Modulus
  <2>1. /\ n \in Nat /\ a \in Nat /\ HeaderSize \in Nat \ {0} /\ Bytes \in Nat
        /\ ReqBytes(n) = n + HeaderSize
    BY <1>1, <1>3, SizesAssumption, RequestsAssumption DEF Inv, IsList
  <2>2. b \notin live
    <3>1. a < End(b)
      BY <1>1, <2>1
    <3> QED BY <1>1, <1>3, <3>1 DEF Overlap
  <2>3. b.size = n
    BY <1>1, <1>3, HandedOut DEF BlocksFit
  <2>4. Weight(b) = ReqBytes(n) /\ Weight(b) \in Nat
    BY <2>1, <2>3 DEF Weight
  <2>5. \A c \in live' : Weight(c) \in Int
    BY <1>1, <2>1, <2>4, LiveType DEF Inv, Weight, SizeType
  <2>6. live' \ {b} = live /\ b \in live'
    BY <1>1, <2>2
  <2>7. Sum(live') = Weight(b) + Sum(live) /\ Sum(live) \in Int
    BY <1>2, <2>5, <2>6, SumRemove
  <2>8. PICK x \in Int : x = Bytes - Sum(live)
    BY <2>1, <2>7
  <2>9. PICK y \in Int : y = - Weight(b)
    BY <2>4
  <2>10. bytesFree' = ((x % Modulus) + y) % Modulus
    <3>1. bytesFree' = (bytesFree - Weight(b)) % Modulus
      BY <2>4 DEF HandOut
    <3>2. bytesFree = x % Modulus
      BY <2>8 DEF Counts
    <3>3. bytesFree \in Int
      BY DEF Inv, TypeOK, SizeType
    <3>4. bytesFree - Weight(b) = bytesFree + y
      BY <2>4, <2>9, <3>3
    <3> QED BY <3>1, <3>2, <3>4
  <2>11. Bytes - Sum(live') = x + y
    BY <2>1, <2>4, <2>7, <2>8, <2>9
  <2> QED BY <2>10, <2>11, WrapsOnce
<1> QED BY <1>2, <1>3 DEF Counts

LEMMA CountsNext == Inv /\ Counts /\ [Next]_vars => Counts'
<1> SUFFICES ASSUME Inv, Counts, [Next]_vars PROVE Counts'
  OBVIOUS
<1>1. ASSUME NEW n \in Requests, AllocateWhole(n) \/ AllocateSplit(n)
      PROVE  Counts'
  BY <1>1, HandOutCounts DEF AllocateWhole, AllocateSplit
<1>2. ASSUME NEW b \in live, Deallocate(b)
      PROVE  Counts'
  <2>1. \A c \in live : Weight(c) \in Int
    BY LiveType, SizesAssumption DEF Inv, Weight, SizeType
  <2>2. live' = live \ {b} /\ IsFiniteSet(live')
    BY <1>2, FS_RemoveElement DEF Deallocate, Counts
  <2>3. Sum(live) = Weight(b) + Sum(live') /\ Sum(live) \in Int /\ Sum(live') \in Int
    BY <2>1, <2>2, SumRemove DEF Counts
  <2>4. PICK x \in Int : x = Bytes - Sum(live)
    BY <2>3, SizesAssumption
  <2>5. PICK y \in Int : y = Weight(b)
    BY <2>1
  <2>6. bytesFree' = ((x % Modulus) + y) % Modulus
    <3>1. bytesFree' = (bytesFree + b.size + HeaderSize) % Modulus
      BY <1>2 DEF Deallocate
    <3>2. bytesFree = x % Modulus
      BY <1>2, <2>4 DEF Counts, Deallocate
    <3>3. bytesFree \in Int /\ b.size \in Int /\ HeaderSize \in Int
      BY LiveType, SizesAssumption DEF Inv, TypeOK, SizeType
    <3>4. bytesFree + b.size + HeaderSize = bytesFree + y
      BY <2>5, <3>3 DEF Weight
    <3> QED BY <3>1, <3>2, <3>4
  <2>7. Bytes - Sum(live') = x + y
    BY <2>3, <2>4, <2>5, SizesAssumption
  <2> QED BY <2>2, <2>6, <2>7, WrapsOnce DEF Counts
<1>3. CASE FreeAll
  <2>1. IsFiniteSet(live') /\ Sum(live') = 0
    BY <1>3, FS_EmptySet, SumUnfolds DEF FreeAll
  <2>2. Bytes \in SizeType /\ Bytes - 0 = Bytes
    BY SizesAssumption DEF SizeType
  <2> QED BY <1>3, <2>1, <2>2, Wrapped DEF FreeAll, Counts
<1>4. CASE UNCHANGED vars
  BY <1>4 DEF vars, Counts
<1> QED BY <1>1, <1>2, <1>3, <1>4 DEF Next

\* In terms of pieces: what is covered is in a chunk, what is in use in a block.
LEMMA NothingIsLost == Inv /\ Counts => NothingLost
<1> SUFFICES ASSUME Inv, Counts PROVE NothingLost
  OBVIOUS
<1>1. BytesAreFreeOrInUse
  <2> SUFFICES ASSUME overcounts = 0, ~ clash, ~ headerLost, NEW x \in 0 .. Bytes - 1
               PROVE  \E p \in Pieces : p.at <= x /\ x < p.end
    BY DEF BytesAreFreeOrInUse
  <2>1. Covers(availible, x) \/ InUse(x)
    BY DEF Inv, BytesCovered
  <2>2. CASE Covers(availible, x)
    <3>1. PICK a \in DOMAIN availible : a <= x /\ x < a + availible[a]
      BY <2>2 DEF Covers
    <3>2. Chunk(a) \in Pieces
      BY DEF Pieces
    <3> QED BY <3>1, <3>2 DEF Chunk
  <2>3. CASE InUse(x)
    <3>1. PICK b \in live : b.at <= x /\ x < End(b)
      BY <2>3 DEF InUse
    <3>2. Block(b) \in Pieces
      BY DEF Pieces
    <3> QED BY <3>1, <3>2 DEF Block
  <2> QED BY <2>1, <2>2, <2>3
<1>2. BytesFreeCounts
  BY SumIs DEF Counts, BytesFreeCounts
<1> QED BY <1>1, <1>2 DEF NothingLost

\* No byte of the region is lost to both the list and the callers, unless a
\* block came back to an empty list; and bytesFree is the size of the region
\* less that of the blocks in use with their headers, modulo the width of
\* size_type, also when the list is wrong.
THEOREM NoByteIsLost == Spec => []NothingLost
<1>1. Spec => []Counts
  BY CountsInit, CountsNext, FreeListInvariant, PTL DEF Spec
<1> QED BY <1>1, NothingIsLost, FreeListInvariant, PTL

=============================================================================
