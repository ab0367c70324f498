--------------------------- MODULE HandlesProofs ----------------------------
(***************************************************************************)
(* Theorems about Handles, for any finite set of handles and any set of    *)
(* interfaces.                                                             *)
(***************************************************************************)
EXTENDS Handles, FiniteSetTheorems, TLAPS

\* A handle that is assigned to others is not changed, nor is one without a
\* call reading another.
Reading ==
  \A h, k \in Names : other[k] = h => IF h = k THEN pc[h] # "idle" ELSE pc[h] = "idle"

\* A handle without a call has none to read.
Resting == \A h \in Names : pc[h] = "idle" => other[h] = None

\* What handles point to has been made; what has not was never assigned to.
Made ==
  /\ \A h \in Names : interfacePtr[h] # None => deletes[interfacePtr[h]] # None
  /\ \A x \in Interfaces : deletes[x] = None => assigned[x] = 0

Calls == TypeOK /\ Reading /\ Resting /\ Made

\* At first there are no handles.
LEMMA CallsInit == Init => Calls
BY NoneAssumption DEF Init, Calls, TypeOK, Reading, Resting, Made

\* Every step keeps the types, and the handles that others read.
LEMMA CallsStep == Calls /\ [Next]_vars => Calls'
<1> SUFFICES ASSUME Calls, [Next]_vars PROVE Calls'
  OBVIOUS
<1> USE NamesAssumption, NoneAssumption DEF Calls, TypeOK, Reading, Resting, Made
<1>1. ASSUME NEW h \in Names, NEW x \in Interfaces, Construct(h, x) PROVE Calls'
  BY <1>1 DEF Construct, Free
<1>2. ASSUME NEW h \in Names, NEW g \in Names, Copy(h, g) PROVE Calls'
  BY <1>2 DEF Copy, Free, Ready, Alive
<1>3. ASSUME NEW h \in Names, Destroy(h) PROVE Calls'
  <2>1. refCount' \in [Interfaces -> Int]
    BY <1>3 DEF Destroy, DecRef, Alive
  <2>2. CASE Last(interfacePtr[h])
    BY <1>3, <2>1, <2>2 DEF Destroy, DecRef, Free, Ready, Alive
  <2>3. CASE ~ Last(interfacePtr[h])
    BY <1>3, <2>1, <2>3 DEF Destroy, DecRef, Free, Ready, Alive
  <2> QED
    BY <2>2, <2>3
<1>4. ASSUME NEW h \in Names, NEW g \in Names, Assign(h, g) PROVE Calls'
  <2>1. refCount' \in [Interfaces -> Int]
    BY <1>4 DEF Assign, DecRef, Alive
  <2> QED
    BY <1>4, <2>1 DEF Assign, DecRef, Free, Ready
<1>5. ASSUME NEW h \in Names, Delete(h) PROVE Calls'
  <2>1. deletes' \in [Interfaces -> Nat \cup {None}]
    BY <1>5 DEF Delete
  <2> QED
    BY <1>5, <2>1 DEF Delete
<1>6. ASSUME NEW h \in Names, Repoint(h) PROVE Calls'
  BY <1>6 DEF Repoint
<1>7. CASE UNCHANGED vars
  BY <1>7 DEF vars
<1> QED
  BY <1>1, <1>2, <1>3, <1>4, <1>5, <1>6, <1>7 DEF Next
-----------------------------------------------------------------------------
(* Counting.                                                                *)

\* A finite number of handles is at an interface; of those that are, one makes
\* it at least one, two make it two, and no other makes it one.
LEMMA HandlesAt ==
  ASSUME NEW x \in Interfaces
  PROVE  /\ IsFiniteSet(At(x)) /\ Cardinality(At(x)) \in Nat
         /\ \A h \in At(x) : Cardinality(At(x)) >= 1
         /\ \A h, k \in At(x) : h # k => Cardinality(At(x)) >= 2
         /\ \A h \in At(x) : At(x) \ {h} = {} => Cardinality(At(x)) = 1
<1> DEFINE S == At(x)
<1>1. IsFiniteSet(S)
  BY FS_Subset, NamesAssumption DEF At
<1>2. Cardinality(S) \in Nat
  BY <1>1, FS_CardinalityType
<1>3. ASSUME NEW h \in S
      PROVE  /\ IsFiniteSet(S \ {h}) /\ Cardinality(S \ {h}) \in Nat
             /\ Cardinality(S) = Cardinality(S \ {h}) + 1
  <2>1. IsFiniteSet(S \ {h}) /\ Cardinality(S \ {h}) = Cardinality(S) - 1
    BY <1>1, FS_RemoveElement
  <2>2. Cardinality(S \ {h}) \in Nat
    BY <2>1, FS_CardinalityType
  <2> QED
    BY <1>2, <2>1, <2>2
<1>4. ASSUME NEW h \in S, NEW k \in S, h # k PROVE Cardinality(S) >= 2
  <2>1. Cardinality(S \ {h}) \in Nat /\ Cardinality(S) = Cardinality(S \ {h}) + 1
    BY <1>3
  <2>2. IsFiniteSet(S \ {h}) /\ S \ {h} # {}
    BY <1>3, <1>4
  <2>3. Cardinality(S \ {h}) # 0
    BY <2>2, FS_EmptySet
  <2> QED
    BY <2>1, <2>3
<1>5. ASSUME NEW h \in S, S \ {h} = {} PROVE Cardinality(S) = 1
  BY <1>3, <1>5, FS_EmptySet
<1> QED
  BY <1>1, <1>2, <1>3, <1>4, <1>5

\* Handles come and go one at a time, and the count follows.
LEMMA BalanceStep == Calls /\ RefsBalance /\ [Next]_vars => RefsBalance'
<1> SUFFICES ASSUME Calls, RefsBalance, [Next]_vars,
                    NEW x \in Interfaces, Alive(x)'
             PROVE  refCount'[x] = Cardinality(At(x)') - assigned'[x]
  BY DEF RefsBalance, Alive
<1> USE NoneAssumption DEF Calls, TypeOK
<1>0. IsFiniteSet(At(x)) /\ Cardinality(At(x)) \in Nat
  BY HandlesAt
<1>a. ASSUME NEW h, h \notin At(x), At(x)' = At(x) \cup {h}
      PROVE  Cardinality(At(x)') = Cardinality(At(x)) + 1
  BY <1>0, <1>a, FS_AddElement
<1>b. ASSUME NEW h, h \in At(x), At(x)' = At(x) \ {h}
      PROVE  Cardinality(At(x)') = Cardinality(At(x)) - 1
  BY <1>0, <1>b, FS_RemoveElement
<1>c. Alive(x) => refCount[x] = Cardinality(At(x)) - assigned[x]
  BY DEF RefsBalance
<1>1. ASSUME NEW h \in Names, NEW y \in Interfaces, Construct(h, y)
      PROVE  refCount'[x] = Cardinality(At(x)') - assigned'[x]
  <2>1. CASE x = y
    <3>1. At(x) = {} /\ At(x)' = At(x) \cup {h}
      BY <1>1, <2>1 DEF Construct, Free, At, Made
    <3>2. Cardinality(At(x)) = 0
      BY <3>1, FS_EmptySet
    <3>3. h \notin At(x)
      BY <3>1
    <3>4. Cardinality(At(x)') = Cardinality(At(x)) + 1
      BY ONLY <1>a, <3>1, <3>3
    <3>5. refCount'[x] = 1 /\ assigned'[x] = 0
      BY <1>1, <2>1 DEF Construct, Made
    <3> QED
      BY <3>2, <3>4, <3>5
  <2>2. CASE x # y
    <3>1. At(x)' = At(x)
      BY <1>1, <2>2 DEF Construct, Free, At
    <3>2. Alive(x)
      BY <1>1, <2>2 DEF Construct, Alive
    <3> QED
      BY <1>1, <2>2, <1>c, <3>1, <3>2 DEF Construct
  <2> QED
    BY <2>1, <2>2
<1>2. ASSUME NEW h \in Names, NEW g \in Names, Copy(h, g)
      PROVE  refCount'[x] = Cardinality(At(x)') - assigned'[x]
  <2>1. Alive(x)
    BY <1>2 DEF Copy, Alive
  <2>2. CASE x = interfacePtr[g]
    <3>1. h \notin At(x)
      BY <1>2, <2>2 DEF Copy, Alive, At
    <3>2. At(x)' = At(x) \cup {h}
      BY <1>2, <2>2 DEF Copy, Free, At
    <3>3. Cardinality(At(x)') = Cardinality(At(x)) + 1
      BY <1>a, <3>1, <3>2
    <3>4. refCount'[x] = refCount[x] + 1 /\ assigned'[x] = assigned[x]
      BY <1>2, <2>2 DEF Copy
    <3> QED
      BY <1>0, <1>c, <2>1, <3>3, <3>4
  <2>3. CASE x # interfacePtr[g]
    <3>1. At(x)' = At(x)
      BY <1>2, <2>3 DEF Copy, Free, At
    <3> QED
      BY <1>c, <1>2, <2>1, <2>3, <3>1 DEF Copy
  <2> QED
    BY <2>2, <2>3
<1>3. ASSUME NEW h \in Names, DecRef(h), At(x)' = At(x) \ {h}
      PROVE  refCount'[x] = Cardinality(At(x)') - assigned'[x]
  <2>1. Alive(x)
    BY <1>3 DEF DecRef, Alive
  <2>2. CASE x = interfacePtr[h]
    <3>1. h \in At(x)
      BY <1>3, <2>2 DEF DecRef, Free, At
    <3> QED
      BY <1>0, <1>b, <1>c, <1>3, <2>1, <2>2, <3>1 DEF DecRef
  <2>3. CASE x # interfacePtr[h]
    <3>1. At(x)' = At(x)
      BY <1>3, <2>3 DEF At
    <3> QED
      BY <1>c, <1>3, <2>1, <2>3, <3>1 DEF DecRef
  <2> QED
    BY <2>2, <2>3
<1>4. ASSUME NEW h \in Names, Destroy(h)
      PROVE  refCount'[x] = Cardinality(At(x)') - assigned'[x]
  <2>1. DecRef(h)
    BY <1>4 DEF Destroy
  <2>2. At(x)' = At(x) \ {h}
    BY <1>4 DEF Destroy, At
  <2> QED
    BY <1>3, <2>1, <2>2
<1>5. ASSUME NEW h \in Names, NEW g \in Names, Assign(h, g)
      PROVE  refCount'[x] = Cardinality(At(x)') - assigned'[x]
  <2>1. DecRef(h)
    BY <1>5 DEF Assign
  <2>2. At(x)' = At(x) \ {h}
    BY <1>5 DEF Assign, At
  <2> QED
    BY <1>3, <2>1, <2>2
<1>6. ASSUME NEW h \in Names, Delete(h)
      PROVE  refCount'[x] = Cardinality(At(x)') - assigned'[x]
  <2>1. At(x)' = At(x)
    BY <1>6 DEF Delete, At
  <2>2. Alive(x)
    BY <1>6 DEF Delete, Alive, Made
  <2> QED
    BY <1>c, <1>6, <2>1, <2>2 DEF Delete
<1>7. ASSUME NEW h \in Names, Repoint(h)
      PROVE  refCount'[x] = Cardinality(At(x)') - assigned'[x]
  <2>1. Alive(x)
    BY <1>7 DEF Repoint, Alive
  <2>2. CASE x = interfacePtr[other[h]]
    <3>1. h \notin At(x) /\ At(x)' = At(x) \cup {h}
      BY <1>7, <2>2 DEF Repoint, At
    <3>2. Cardinality(At(x)') = Cardinality(At(x)) + 1
      BY ONLY <1>a, <3>1
    <3>3. refCount'[x] = refCount[x] /\ assigned'[x] = assigned[x] + 1
      BY <1>7, <2>2 DEF Repoint
    <3> QED
      BY <1>0, <1>c, <2>1, <3>2, <3>3
  <2>3. CASE x # interfacePtr[other[h]]
    <3>1. At(x)' = At(x)
      BY <1>7, <2>3 DEF Repoint, At
    <3> QED
      BY <1>c, <1>7, <2>1, <2>3, <3>1 DEF Repoint
  <2> QED
    BY <2>2, <2>3
<1>8. CASE UNCHANGED vars
  BY <1>c, <1>8 DEF vars, At, Alive
<1> QED
  BY <1>1, <1>2, <1>4, <1>5, <1>6, <1>7, <1>8 DEF Next
-----------------------------------------------------------------------------
(* What is known when an interface is deleted.                              *)

\* A handle was assigned to an interface that a call is about to delete ...
PendingMarks == \A x \in Interfaces : AboutToDelete(x) # {} => assigned[x] >= 1

\* ... and to one that is gone.
DeletedMarks ==
  \A x \in Interfaces : deletes[x] \notin {None, 0} => assigned[x] >= 1

Marks == PendingMarks /\ DeletedMarks

\* At first no interface is there.
LEMMA MarksInit == Init => RefsBalance /\ Marks
BY NoneAssumption
   DEF Init, RefsBalance, Marks, PendingMarks, DeletedMarks, AboutToDelete, Alive

\* What the test of decRef() tells: the count was wrong about a handle.
LEMMA WhatLastTells ==
  ASSUME Calls, RefsBalance, NEW h \in Names, DecRef(h), Last(interfacePtr[h])
  PROVE  interfacePtr[h] \in Interfaces /\ assigned[interfacePtr[h]] >= 1
<1> DEFINE x == interfacePtr[h]
<1>1. x \in Interfaces /\ Alive(x) /\ h \in At(x)
  BY DEF DecRef, Ready, Alive, At
<1>2. /\ refCount[x] \in Int /\ assigned[x] \in Nat
      /\ refCount[x] = Cardinality(At(x)) - assigned[x]
  BY <1>1 DEF Calls, TypeOK, RefsBalance
<1>3. Cardinality(At(x)) \in Nat /\ Cardinality(At(x)) >= 1
  BY <1>1, HandlesAt
<1> QED
  BY <1>1, <1>2, <1>3 DEF Last

\* A call of decRef() keeps the marks, whether it deletes next or not.
LEMMA MarksAfterDecRef ==
  ASSUME Calls, RefsBalance, Marks, NEW h \in Names, DecRef(h),
         \/ /\ Last(interfacePtr[h])
            /\ \A y \in Interfaces : AboutToDelete(y)' \subseteq
                 AboutToDelete(y) \cup {last \in {h} : y = interfacePtr[h]}
         \/ \A y \in Interfaces : AboutToDelete(y)' = AboutToDelete(y)
  PROVE  Marks'
<1>1. UNCHANGED <<deletes, assigned>>
  BY DEF DecRef
<1>2. ASSUME NEW y \in Interfaces, AboutToDelete(y)' # {} PROVE assigned[y] >= 1
  <2>1. CASE AboutToDelete(y) # {}
    BY <2>1 DEF Marks, PendingMarks
  <2>2. CASE AboutToDelete(y) = {}
    BY <1>2, <2>2, WhatLastTells
  <2> QED
    BY <2>1, <2>2
<1> QED
  BY <1>1, <1>2 DEF Marks, PendingMarks, DeletedMarks

\* Every step keeps the marks.
LEMMA MarksStep == Calls /\ RefsBalance /\ Marks /\ [Next]_vars => Marks'
<1> SUFFICES ASSUME Calls, RefsBalance, Marks, [Next]_vars PROVE Marks'
  OBVIOUS
<1> USE NoneAssumption DEF Calls, TypeOK
<1>1. ASSUME NEW h \in Names, NEW y \in Interfaces, Construct(h, y) PROVE Marks'
  BY <1>1 DEF Construct, Free, Marks, PendingMarks, DeletedMarks, AboutToDelete
<1>2. ASSUME NEW h \in Names, NEW g \in Names, Copy(h, g) PROVE Marks'
  BY <1>2 DEF Copy, Free, Marks, PendingMarks, DeletedMarks, AboutToDelete
<1>3. ASSUME NEW h \in Names, Destroy(h) PROVE Marks'
  <2>1. DecRef(h)
    BY <1>3 DEF Destroy
  <2>2. \/ /\ Last(interfacePtr[h])
           /\ \A y \in Interfaces : AboutToDelete(y)' \subseteq
                AboutToDelete(y) \cup {last \in {h} : y = interfacePtr[h]}
        \/ \A y \in Interfaces : AboutToDelete(y)' = AboutToDelete(y)
    BY <1>3, <2>1 DEF Destroy, DecRef, Ready, AboutToDelete
  <2> QED
    BY <2>1, <2>2, MarksAfterDecRef
<1>4. ASSUME NEW h \in Names, NEW g \in Names, Assign(h, g) PROVE Marks'
  <2>1. DecRef(h)
    BY <1>4 DEF Assign
  <2>2. \/ /\ Last(interfacePtr[h])
           /\ \A y \in Interfaces : AboutToDelete(y)' \subseteq
                AboutToDelete(y) \cup {last \in {h} : y = interfacePtr[h]}
        \/ \A y \in Interfaces : AboutToDelete(y)' = AboutToDelete(y)
    BY <1>4, <2>1 DEF Assign, DecRef, Ready, AboutToDelete
  <2> QED
    BY <2>1, <2>2, MarksAfterDecRef
<1>5. ASSUME NEW h \in Names, Delete(h) PROVE Marks'
  BY <1>5 DEF Delete, Marks, PendingMarks, DeletedMarks, AboutToDelete
<1>6. ASSUME NEW h \in Names, Repoint(h) PROVE Marks'
  BY <1>6 DEF Repoint, Marks, PendingMarks, DeletedMarks, AboutToDelete
<1>7. CASE UNCHANGED vars
  BY <1>7 DEF vars, Marks, PendingMarks, DeletedMarks, AboutToDelete
<1> QED
  BY <1>1, <1>2, <1>3, <1>4, <1>5, <1>6, <1>7 DEF Next

\* The marks say which interfaces are deleted.
LEMMA MarksTell == Calls /\ Marks => OnlyAssignmentsDeleteEarly
BY DEF Calls, TypeOK, Marks, DeletedMarks, OnlyAssignmentsDeleteEarly

-----------------------------------------------------------------------------
(* The theorems.                                                            *)

\* All of these are kept together.
LEMMA HandleInvariant == Spec => [](Calls /\ RefsBalance /\ Marks)
BY CallsInit, CallsStep, MarksInit, BalanceStep, MarksStep, PTL DEF Spec

\* Every variable keeps its type, and calls have the handles they work on.
THEOREM Typing == Spec => []TypeOK
<1>1. Calls => TypeOK
  BY DEF Calls
<1> QED BY <1>1, HandleInvariant, PTL

\* refCount is the number of handles less that of assignments, as long as the
\* interface is there.
THEOREM RefsAreHandles == Spec => []RefsBalance
BY HandleInvariant, PTL

\* However copies, assignments and destructions overlap, copies alone never delete
\* an interface that a handle points to, or twice.
THEOREM DeletionsAreExplained == Spec => []OnlyAssignmentsDeleteEarly
BY HandleInvariant, MarksTell, PTL
=============================================================================
