------------------------------- MODULE RWLock -------------------------------
(***************************************************************************)
(* A reader/writer lock as its callers see it: any number of readers, or   *)
(* one writer.  Acquisition and release are single steps here; SharedMutex *)
(* says what the code does in between.                                     *)
(*                                                                         *)
(* The lock may leak a little: when a writer gets in, a set of stragglers, *)
(* no larger than Lanes, may still be reading or about to, each of them    *)
(* once.  With Lanes = {} this is the textbook lock.                       *)
(***************************************************************************)
CONSTANTS Threads,      \* The threads that may use the lock.
          Lanes         \* Bounds the number of stragglers.

VARIABLES readers,      \* Threads inside a shared section.
          writers,      \* Threads inside an exclusive section.
          stragglers    \* Readers the present writer has to live with.

vars == <<readers, writers, stragglers>>

\* S has at most as many elements as Lanes.
FitsLanes(S) ==
  \E f \in [S -> Lanes] : \A x, y \in S : f[x] = f[y] => x = y

Init == readers = {} /\ writers = {} /\ stragglers = {}

AcquireShared(t) ==
  /\ t \notin readers
  /\ writers = {} \/ t \in stragglers
  /\ readers' = readers \cup {t}
  /\ UNCHANGED <<writers, stragglers>>

ReleaseShared(t) ==
  /\ t \in readers
  /\ readers' = readers \ {t}
  /\ stragglers' = stragglers \ {t}
  /\ UNCHANGED writers

AcquireExclusive(t) ==
  /\ writers = {}
  /\ \E S \in SUBSET Threads : /\ readers \subseteq S
                               /\ FitsLanes(S)
                               /\ stragglers' = S
  /\ writers' = {t}
  /\ UNCHANGED readers

ReleaseExclusive(t) ==
  /\ t \in writers
  /\ writers' = writers \ {t}
  /\ stragglers' = {}
  /\ UNCHANGED readers

Next == \E t \in Threads : \/ AcquireShared(t)    \/ ReleaseShared(t)
                           \/ AcquireExclusive(t) \/ ReleaseExclusive(t)

Spec == Init /\ [][Next]_vars
=============================================================================
