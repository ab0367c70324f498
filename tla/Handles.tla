------------------------------ MODULE Handles -------------------------------
(***************************************************************************)
(* SlabMulti objects as handles: copies point to the same Interface, which *)
(* counts them.  Threads copy, assign and destroy handles of their own; a  *)
(* step is an atomic operation on a reference count, or what a call does   *)
(* after it.  While a call reads a handle nobody changes that.             *)
(*                                                                         *)
(* The assignment operators return nothing; the model takes them to end    *)
(* like others.  A handle whose interface is gone does nothing any more.   *)
(***************************************************************************)
EXTENDS Integers, FiniteSets

CONSTANTS
  Names,       \* Of handles, that is of SlabMulti objects.
  Interfaces,
  None

ASSUME NamesAssumption == IsFiniteSet(Names)
ASSUME NoneAssumption  == None \notin Names \cup Interfaces \cup Nat

VARIABLES
  interfacePtr,  \* Of each handle; None if there is no such handle.
  refCount,
  deletes,       \* How often each interface was deleted; None before new.
  pc,            \* What a call on the handle does next.
  other,         \* The handle that it is assigned from.
  assigned       \* History: how often a handle was made to point to it by =.

vars == <<interfacePtr, refCount, deletes, pc, other, assigned>>

\* Every variable keeps its type, and a call that is under way has the handles
\* that it works on.
TypeOK ==
  /\ interfacePtr \in [Names -> Interfaces \cup {None}]
  /\ refCount \in [Interfaces -> Int]
  /\ deletes \in [Interfaces -> Nat \cup {None}]
  /\ pc \in [Names -> {"idle", "delete", "assign"}]
  /\ other \in [Names -> Names \cup {None}]
  /\ assigned \in [Interfaces -> Nat]
  /\ \A h \in Names :
       /\ pc[h] # "idle" => interfacePtr[h] # None
       /\ pc[h] = "assign" => other[h] # None
       /\ other[h] # None => interfacePtr[other[h]] # None

Init ==
  /\ interfacePtr = [h \in Names |-> None]
  /\ refCount = [x \in Interfaces |-> 0]
  /\ deletes = [x \in Interfaces |-> None]
  /\ pc = [h \in Names |-> "idle"]
  /\ other = [h \in Names |-> None]
  /\ assigned = [x \in Interfaces |-> 0]

-----------------------------------------------------------------------------
Alive(x) == x \in Interfaces /\ deletes[x] = 0

\* A handle that no call is changing ...
Ready(h) == pc[h] = "idle" /\ interfacePtr[h] # None

\* ... or reading.
Free(h) == pc[h] = "idle" /\ \A g \in Names : other[g] # h

\* SlabMulti(): a new Interface has one handle.
Construct(h, x) ==
  /\ Free(h) /\ interfacePtr[h] = None
  /\ deletes[x] = None
  /\ deletes' = [deletes EXCEPT ![x] = 0]
  /\ refCount' = [refCount EXCEPT ![x] = 1]
  /\ interfacePtr' = [interfacePtr EXCEPT ![h] = x]
  /\ UNCHANGED <<pc, other, assigned>>

\* Mutant: the new handle is not counted.
Copy_NotCounted(h, g) ==
  /\ Free(h) /\ interfacePtr[h] = None
  /\ Ready(g) /\ Alive(interfacePtr[g])
  /\ interfacePtr' = [interfacePtr EXCEPT ![h] = interfacePtr[g]]
  /\ UNCHANGED <<refCount, deletes, pc, other, assigned>>

\* SlabMulti(g), which copies also when it should move.
Copy(h, g) ==
  /\ Free(h) /\ interfacePtr[h] = None
  /\ Ready(g) /\ Alive(interfacePtr[g])
  /\ interfacePtr' = [interfacePtr EXCEPT ![h] = interfacePtr[g]]
  /\ refCount' = [refCount EXCEPT ![interfacePtr[g]] = @ + 1]
  /\ UNCHANGED <<deletes, pc, other, assigned>>

\* fetch_sub(1) < 1
Last(x) == refCount[x] < 1

\* decRef(), up to the delete.
DecRef(h) ==
  /\ Free(h) /\ Ready(h) /\ Alive(interfacePtr[h])
  /\ refCount' = [refCount EXCEPT ![interfacePtr[h]] = @ - 1]
  /\ UNCHANGED <<deletes, assigned>>

\* Mutant: the pointer is cleared first.
Destroy_Emptied(h) ==
  /\ DecRef(h)
  /\ interfacePtr' = [interfacePtr EXCEPT ![h] = None]
  /\ pc' = [pc EXCEPT ![h] = IF Last(interfacePtr[h]) THEN "delete" ELSE "idle"]
  /\ UNCHANGED other

\* ~SlabMulti()
Destroy(h) ==
  /\ DecRef(h)
  /\ \/ /\ Last(interfacePtr[h])
        /\ pc' = [pc EXCEPT ![h] = "delete"]
        /\ UNCHANGED interfacePtr
     \/ /\ ~ Last(interfacePtr[h])
        /\ interfacePtr' = [interfacePtr EXCEPT ![h] = None]
        /\ UNCHANGED pc
  /\ UNCHANGED other

\* operator=(g): the old interface is left first, if it is the one of g, too.
Assign(h, g) ==
  /\ DecRef(h)
  /\ Ready(g)
  /\ other' = [other EXCEPT ![h] = g]
  /\ pc' = [pc EXCEPT ![h] = IF Last(interfacePtr[h]) THEN "delete" ELSE "assign"]
  /\ UNCHANGED interfacePtr

\* delete interfacePtr, and what follows.
Delete(h) ==
  /\ pc[h] = "delete"
  /\ deletes' = [deletes EXCEPT ![interfacePtr[h]] = @ + 1]
  /\ \/ /\ other[h] = None
        /\ interfacePtr' = [interfacePtr EXCEPT ![h] = None]
        /\ pc' = [pc EXCEPT ![h] = "idle"]
     \/ /\ other[h] # None
        /\ pc' = [pc EXCEPT ![h] = "assign"]
        /\ UNCHANGED interfacePtr
  /\ UNCHANGED <<refCount, other, assigned>>

\* The new interface does not learn of its handle.
Repoint(h) ==
  LET x == interfacePtr[other[h]]
  IN /\ pc[h] = "assign"
     /\ interfacePtr' = [interfacePtr EXCEPT ![h] = x]
     /\ assigned' = [assigned EXCEPT ![x] = @ + 1]
     /\ other' = [other EXCEPT ![h] = None]
     /\ pc' = [pc EXCEPT ![h] = "idle"]
     /\ UNCHANGED <<refCount, deletes>>

Next == \E h \in Names : \/ \E x \in Interfaces : Construct(h, x)
                         \/ \E g \in Names : Copy(h, g) \/ Assign(h, g)
                         \/ Destroy(h) \/ Delete(h) \/ Repoint(h)

Spec == Init /\ [][Next]_vars

-----------------------------------------------------------------------------
(* Properties.                                                              *)

At(x) == {h \in Names : interfacePtr[h] = x /\ pc[h] = "idle"}

AboutToDelete(x) == {h \in Names : interfacePtr[h] = x /\ pc[h] = "delete"}

AboutToPoint(x) ==
  {h \in Names : pc[h] = "assign" /\ interfacePtr[other[h]] = x}

\* The reference count of an interface is the number of its handles, less one
\* for each assignment.
RefsBalance ==
  \A x \in Interfaces : Alive(x) => refCount[x] = Cardinality(At(x)) - assigned[x]

\* Copies alone never delete an interface that a handle points to, or twice:
\* where that happens, a handle was assigned to it.
OnlyAssignmentsDeleteEarly ==
  \A x \in Interfaces :
    \/ deletes[x] \in {None, 0}
    \/ deletes[x] = 1 /\ At(x) \cup AboutToDelete(x) = {}
    \/ assigned[x] > 0

\* An interface stays as long as a handle points to it, or does again at the end of
\* an assignment, and is deleted with the last one, once.
DeletedWithLastHandle ==
  \A x \in Interfaces :
    deletes[x] # None =>
      deletes[x] = IF At(x) \cup AboutToDelete(x) \cup AboutToPoint(x) = {}
                     THEN 1 ELSE 0
=============================================================================
