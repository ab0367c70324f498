------------------------------ MODULE FreeList ------------------------------
(***************************************************************************)
(* FreeList: first-fit allocation out of one region of memory.  The free   *)
(* chunks are kept outside the region, by address, in a vector, a list or  *)
(* a map; a block in use begins with a header that holds its size.         *)
(*                                                                         *)
(* Addresses count from MyBegin.  allocate() that finds no chunk throws    *)
(* and changes nothing, which is a stuttering step.                        *)
(***************************************************************************)
EXTENDS Integers, FiniteSets, FiniteSetsExt

CONSTANTS
  Bytes,        \* Size of the region.
  HeaderSize,   \* sizeof(Header), which holds a size_type.
  Modulus,      \* size_type counts modulo 2^8, 2^16, ...
  Requests      \* What callers ask for, sizeof(T) * count.

ASSUME SizesAssumption ==
  /\ Bytes \in Nat /\ HeaderSize \in Nat \ {0} /\ Modulus \in Nat
  /\ HeaderSize + 1 < Bytes /\ Bytes < Modulus
ASSUME RequestsAssumption == Requests \subseteq Nat

SizeType == 0 .. Modulus - 1

VARIABLES
  availible,    \* The size of each free chunk, by its address.
  bytesFree,
  live,         \* The blocks in use, with the size in their header.
  headerLost,   \* History: a block came back to an empty list.
  overcounts,   \* History: how many chunks were cut while others were free.
  clash         \* A caller has been given memory that is not free.

vars == <<availible, bytesFree, live, headerLost, overcounts, clash>>

\* Sizes stay within size_type: what wraps is wrapped where the code wraps it.
TypeOK ==
  /\ DOMAIN availible \subseteq Nat
  /\ \A a \in DOMAIN availible : availible[a] \in SizeType
  /\ bytesFree \in SizeType
  /\ live \subseteq [at : Nat, size : SizeType, asked : Requests]
  /\ headerLost \in BOOLEAN /\ overcounts \in Nat /\ clash \in BOOLEAN

-----------------------------------------------------------------------------
(* The list of free chunks.                                                 *)

Drop(f, a) == [b \in DOMAIN f \ {a} |-> f[b]]

Put(f, a, n) == [b \in DOMAIN f \cup {a} |-> IF b = a THEN n ELSE f[b]]

\* b is the next chunk after a, and begins where a ends.
Touches(f, a, b) ==
  /\ a < b /\ a + f[a] = b
  /\ \A c \in DOMAIN f : c <= a \/ b <= c

Merge(f, a, b) == Drop([f EXCEPT ![a] = (@ + f[b]) % Modulus], b)

\* Mutant: the chunk after is not looked at.
MergeNext_Never(f, it) == f

MergeNext(f, it) ==
  IF \E b \in DOMAIN f : Touches(f, it, b) THEN Merge(f, it, it + f[it]) ELSE f

\* Coalescence of adjacent blocks: with the next one, then with the previous.
\* (--prev)->first + prev->second is read from left to right; C++ leaves that open.
Coalesce(f, it) ==
  LET g == MergeNext(f, it)
      before == {a \in DOMAIN g : Touches(g, a, it)}
  IN IF before = {} THEN g ELSE Merge(g, CHOOSE a \in before : TRUE, it)

\* Mutant: headerSize is forgotten.
Add_NoHeader(f, start, size) ==
  IF DOMAIN f = {} \/ start \in DOMAIN f THEN Put(f, start, size)
  ELSE Coalesce(Put(f, start, size), start)

\* add(): headerSize is added to the size, but not on an empty list; a chunk
\* with this address that is there already stays as it is.
Add(f, start, size) ==
  IF DOMAIN f = {} THEN Put(f, start, size)
  ELSE Coalesce(IF start \in DOMAIN f
                THEN f ELSE Put(f, start, (size + HeaderSize) % Modulus),
                start)

-----------------------------------------------------------------------------
\* The whole region, as one chunk.
Whole == Put(<<>>, 0, Bytes)

Init ==
  /\ availible = Whole
  /\ bytesFree = Bytes
  /\ live = {}
  /\ headerLost = FALSE /\ overcounts = 0 /\ clash = FALSE

\* Mutant: the size is computed without the header.
ReqBytes_NoHeader(n) == n % Modulus

\* size_type reqBytes
ReqBytes(n) == (n + HeaderSize) % Modulus

\* The chunk at a is the first that is large enough.
FirstFit(r, a) ==
  /\ a \in DOMAIN availible /\ availible[a] >= r
  /\ \A b \in DOMAIN availible : availible[b] >= r => a <= b

\* What the caller of allocate() may write to, and the header.
End(b) == b.at + HeaderSize + b.asked

Overlap(b, c) == b.at < End(c) /\ c.at < End(b)

\* Mutant: the size in the header is signed.
HandOut_Signed(a, n) ==
  LET b == [at |-> a, size |-> ReqBytes(n) - HeaderSize, asked |-> n]
  IN /\ live' = live \cup {b}
     /\ clash' = (End(b) > Bytes \/ \E c \in live : Overlap(b, c))
     /\ bytesFree' = (bytesFree - ReqBytes(n)) % Modulus

\* writeHeader(), and the pointer goes to the caller.
HandOut(a, n) ==
  LET b == [at |-> a, size |-> (ReqBytes(n) - HeaderSize) % Modulus, asked |-> n]
  IN /\ live' = live \cup {b}
     /\ clash' = (End(b) > Bytes \/ \E c \in live : Overlap(b, c))
     /\ bytesFree' = (bytesFree - ReqBytes(n)) % Modulus

\* The chunk is used up.
AllocateWhole(n) ==
  /\ ~ clash
  /\ \E a \in DOMAIN availible :
       /\ FirstFit(ReqBytes(n), a)
       /\ availible[a] = ReqBytes(n)
       /\ availible' = Drop(availible, a)
       /\ HandOut(a, n)
  /\ UNCHANGED <<headerLost, overcounts>>

\* Mutant: what is cut off is not subtracted.
AllocateSplit_SizeKept(n) ==
  /\ ~ clash
  /\ \E a \in DOMAIN availible :
       LET others == Drop(availible, a)
           r      == ReqBytes(n)
       IN /\ FirstFit(r, a)
          /\ availible[a] > r
          /\ availible' = Add(others, a + r, availible[a])
          /\ overcounts' = overcounts + IF DOMAIN others = {} THEN 0 ELSE 1
          /\ HandOut(a, n)
  /\ UNCHANGED headerLost

\* Its remaining memory goes back to the list.
AllocateSplit(n) ==
  /\ ~ clash
  /\ \E a \in DOMAIN availible :
       LET others == Drop(availible, a)
           r      == ReqBytes(n)
       IN /\ FirstFit(r, a)
          /\ availible[a] > r
          /\ availible' = Add(others, a + r, availible[a] - r)
          /\ overcounts' = overcounts + IF DOMAIN others = {} THEN 0 ELSE 1
          /\ HandOut(a, n)
  /\ UNCHANGED headerLost

\* The size comes from the header, not from the caller.
Deallocate(b) ==
  /\ ~ clash
  /\ live' = live \ {b}
  /\ bytesFree' = (bytesFree + b.size + HeaderSize) % Modulus
  /\ availible' = Add(availible, b.at, b.size)
  /\ headerLost' = (headerLost \/ availible = <<>>)
  /\ UNCHANGED <<overcounts, clash>>

\* freeAll(): the callers have no blocks any more.
FreeAll ==
  /\ ~ clash
  /\ availible' = Whole
  /\ bytesFree' = Bytes
  /\ live' = {}
  /\ headerLost' = FALSE /\ overcounts' = 0
  /\ UNCHANGED clash

Next == \/ \E n \in Requests : AllocateWhole(n) \/ AllocateSplit(n)
        \/ \E b \in live : Deallocate(b)
        \/ FreeAll

Spec == Init /\ [][Next]_vars

-----------------------------------------------------------------------------
(* Properties.                                                              *)

Chunk(a) == [at |-> a, end |-> a + availible[a], free |-> TRUE]
Block(b) == [at |-> b.at, end |-> End(b), free |-> FALSE]

Pieces == {Chunk(a) : a \in DOMAIN availible} \cup {Block(b) : b \in live}

\* A caller is given memory that is in use, or outside the region, only after
\* a chunk was cut while others were free, or for a request that does not fit
\* size_type.
ClashesExplained ==
  clash => overcounts > 0 \/ \E b \in live : b.asked + HeaderSize >= Modulus

\* Until then no byte is in two places, whatever is cut, given back and
\* coalesced: free chunks and blocks in use do not overlap.
PiecesApart ==
  overcounts = 0 /\ ~ clash =>
    /\ \A p \in Pieces : p.end <= Bytes
    /\ \A p, q \in Pieces : p = q \/ p.end <= q.at \/ q.end <= p.at

\* No two adjacent chunks stay apart.
Coalesced ==
  overcounts = 0 => \A a, b \in DOMAIN availible : ~ Touches(availible, a, b)

\* bytesFree is the size of the region less that of the blocks in use with
\* their headers, modulo the width of size_type, also when the list is wrong.
BytesFreeCounts ==
  ~ clash =>
    bytesFree = (Bytes
                 - MapThenSumSet(LAMBDA b : b.size + HeaderSize, live)) % Modulus

\* Until then each byte is free or in use, unless a block came back to an empty
\* list, which forgets its header.
BytesAreFreeOrInUse ==
  overcounts = 0 /\ ~ clash /\ ~ headerLost =>
    \A x \in 0 .. Bytes - 1 : \E p \in Pieces : p.at <= x /\ x < p.end

\* No byte is lost from the region, and bytesFree loses none at all.
NothingLost == BytesAreFreeOrInUse /\ BytesFreeCounts

\* Nothing a caller holds is overwritten by another.
NothingOverwritten == ~ clash
=============================================================================
