----------------------------- MODULE SharedMutex -----------------------------
(***************************************************************************)
(* alloc::SharedMutex: a reader/writer lock in which every reader that     *)
(* owns one of NumSlots flags announces itself there, so that readers do   *)
(* not contend, and everyone else serialises on one spin lock, spLock.     *)
(*                                                                         *)
(* One action per atomic instruction of the code.  A spinning thread is a  *)
(* thread whose next action is not enabled.  Memory is sequentially        *)
(* consistent.  The state of a thread that is local to it                  *)
(* (the thread_local tmap, the loop counters) is read and written in the   *)
(* step of the shared access that follows or precedes it.                  *)
(***************************************************************************)
EXTENDS Integers

CONSTANTS
  Threads,       \* Threads that use the mutex.
  NumSlots,      \* Template parameter `threads': size of the flags array.
  LockCallers,   \* Threads that call lock().
  TryCallers,    \* Threads that call try_lock_shared().
  NoThread       \* defaultThreadId.

ASSUME NumSlotsAssumption == NumSlots \in Nat
ASSUME CallersAssumption  == LockCallers \subseteq Threads /\ TryCallers \subseteq Threads
ASSUME NoThreadAssumption == NoThread \notin Threads

Slots         == 0 .. NumSlots - 1
Counters      == 0 .. NumSlots          \* Values of a loop over the slots.
NotRegistered == -2                     \* ThreadRegister::Unregistered

VARIABLES
  spLock,   \* The spill lock.
  flag,     \* flags[s].flag, for every slot s.
  id,       \* flags[s].id, for every slot s.
  mapped,   \* Threads whose tmap has an entry for this mutex.
  index,    \* ThreadRegister::index of that entry.
  pc,       \* The next atomic instruction of each thread.
  op,       \* The shared-lock call the thread is in, or was in last.
  pos,      \* Loop counter of registerThread() or lock().
  late      \* History: readers that had read spLock but not yet announced
            \* themselves when lock() last took spLock.

vars == <<spLock, flag, id, mapped, index, pc, op, pos, late>>

FlagValues == {"Unregistered", "Registered", "SharedLock"}
Ops        == {"lock_shared", "try_lock_shared"}
PCs        == {"idle", "register", "setId", "gate", "announce", "spill",
               "reading", "lockWait", "scan", "writing", "drop"}

\* Every variable keeps its type; a thread's index is a slot or "none".
TypeOK ==
  /\ spLock \in BOOLEAN
  /\ flag \in [Slots -> FlagValues]
  /\ id \in [Slots -> Threads \cup {NoThread}]
  /\ mapped \subseteq Threads
  /\ index \in [Threads -> Slots \cup {NotRegistered}]
  /\ pc \in [Threads -> PCs]
  /\ op \in [Threads -> Ops]
  /\ pos \in [Threads -> Counters]
  /\ late \subseteq Threads

Init ==
  /\ spLock = FALSE
  /\ flag   = [s \in Slots |-> "Unregistered"]
  /\ id     = [s \in Slots |-> NoThread]
  /\ mapped = {}
  /\ index  = [t \in Threads |-> NotRegistered]
  /\ pc     = [t \in Threads |-> "idle"]
  /\ op     = [t \in Threads |-> "lock_shared"]
  /\ pos    = [t \in Threads |-> 0]
  /\ late   = {}

Registered(t) == index[t] \in Slots

Goto(t, label) == pc' = [pc EXCEPT ![t] = label]

-----------------------------------------------------------------------------
(* Entry of lock_shared() and try_lock_shared(): registerThread() looks the *)
(* thread up and tries to claim a slot only on its first call ever.         *)

CallShared(t, o) ==
  /\ pc[t] = "idle"
  /\ o = "try_lock_shared" => t \in TryCallers
  /\ op' = [op EXCEPT ![t] = o]
  /\ IF t \in mapped
     THEN /\ Goto(t, IF Registered(t) THEN "gate" ELSE "spill")
          /\ UNCHANGED <<mapped, pos>>
     ELSE /\ mapped' = mapped \cup {t}
          /\ pos' = [pos EXCEPT ![t] = 0]
          /\ Goto(t, "register")
  /\ UNCHANGED <<spLock, flag, id, index, late>>

\* Mutant: the flag is stored without being compared.
ClaimSlot_Unchecked(t) ==
  /\ pc[t] = "register"
  /\ pos[t] \in Slots
  /\ flag' = [flag EXCEPT ![pos[t]] = "Registered"]
  /\ Goto(t, "setId")
  /\ UNCHANGED <<spLock, id, mapped, index, op, pos, late>>

\* compare_exchange_strong on the flag of slot pos[t] succeeds.
ClaimSlot(t) ==
  /\ pc[t] = "register"
  /\ pos[t] \in Slots
  /\ flag[pos[t]] = "Unregistered"
  /\ flag' = [flag EXCEPT ![pos[t]] = "Registered"]
  /\ Goto(t, "setId")
  /\ UNCHANGED <<spLock, id, mapped, index, op, pos, late>>

\* compare_exchange_strong fails: the slot belongs to another thread.
SkipSlot(t) ==
  /\ pc[t] = "register"
  /\ pos[t] \in Slots
  /\ flag[pos[t]] # "Unregistered"
  /\ pos' = [pos EXCEPT ![t] = @ + 1]
  /\ UNCHANGED <<spLock, flag, id, mapped, index, pc, op, late>>

\* No slot was free: the thread uses the spill lock, now and ever after.
NoSlotLeft(t) ==
  /\ pc[t] = "register"
  /\ pos[t] = NumSlots
  /\ Goto(t, "spill")
  /\ UNCHANGED <<spLock, flag, id, mapped, index, op, pos, late>>

\* Mutant: the index is counted from one.
SetId_OffByOne(t) ==
  /\ pc[t] = "setId"
  /\ id' = [id EXCEPT ![pos[t]] = t]
  /\ index' = [index EXCEPT ![t] = pos[t] + 1]
  /\ Goto(t, "gate")
  /\ UNCHANGED <<spLock, flag, mapped, op, pos, late>>

\* f.id = this_thread::get_id(); getOrSetIndex(idx).
SetId(t) ==
  /\ pc[t] = "setId"
  /\ id' = [id EXCEPT ![pos[t]] = t]
  /\ index' = [index EXCEPT ![t] = pos[t]]
  /\ Goto(t, "gate")
  /\ UNCHANGED <<spLock, flag, mapped, op, pos, late>>

-----------------------------------------------------------------------------
(* A registered reader: load spLock, then store SharedLock, in two steps.   *)

\* Mutant: the reader does not look at spLock.
GateOpen_Unguarded(t) ==
  /\ pc[t] = "gate"
  /\ Goto(t, "announce")
  /\ UNCHANGED <<spLock, flag, id, mapped, index, op, pos, late>>

GateOpen(t) ==
  /\ pc[t] = "gate"
  /\ ~ spLock
  /\ Goto(t, "announce")
  /\ UNCHANGED <<spLock, flag, id, mapped, index, op, pos, late>>

\* try_lock_shared() returns false; lock_shared() would keep spinning.
GateShut(t) ==
  /\ pc[t] = "gate"
  /\ op[t] = "try_lock_shared"
  /\ spLock
  /\ Goto(t, "idle")
  /\ UNCHANGED <<spLock, flag, id, mapped, index, op, pos, late>>

Announce(t) ==
  /\ pc[t] = "announce"
  /\ flag' = [flag EXCEPT ![index[t]] = "SharedLock"]
  /\ Goto(t, "reading")
  /\ UNCHANGED <<spLock, id, mapped, index, op, pos, late>>

(* A reader without a slot takes the spill lock itself.                     *)

SpillAcquire(t) ==
  /\ pc[t] = "spill"
  /\ op[t] = "lock_shared"
  /\ ~ spLock
  /\ spLock' = TRUE
  /\ Goto(t, "reading")
  /\ UNCHANGED <<flag, id, mapped, index, op, pos, late>>

\* try_lock_shared() returns `locked', the variable that holds the expected
\* value of the exchange: false when the exchange succeeded ...
TrySpillFree(t) ==
  /\ pc[t] = "spill"
  /\ op[t] = "try_lock_shared"
  /\ ~ spLock
  /\ spLock' = TRUE
  /\ Goto(t, "idle")
  /\ UNCHANGED <<flag, id, mapped, index, op, pos, late>>

\* ... and true when it failed, so that the caller reads and then unlocks.
TrySpillBusy(t) ==
  /\ pc[t] = "spill"
  /\ op[t] = "try_lock_shared"
  /\ spLock
  /\ Goto(t, "reading")
  /\ UNCHANGED <<spLock, flag, id, mapped, index, op, pos, late>>

\* Mutant: the flag is left raised.
UnlockShared_FlagKept(t) ==
  /\ pc[t] = "reading"
  /\ spLock' = (spLock /\ Registered(t))
  /\ late' = late \ {t}
  /\ Goto(t, "idle")
  /\ UNCHANGED <<flag, id, mapped, index, op, pos>>

\* Mutant: the flag is put back to its initial value.
UnlockShared_WrongFlag(t) ==
  /\ pc[t] = "reading"
  /\ IF Registered(t)
     THEN /\ flag' = [flag EXCEPT ![index[t]] = "Unregistered"]
          /\ UNCHANGED spLock
     ELSE /\ spLock' = FALSE
          /\ UNCHANGED flag
  /\ late' = late \ {t}
  /\ Goto(t, "idle")
  /\ UNCHANGED <<id, mapped, index, op, pos>>

\* Mutant: only registered readers give anything back.
UnlockShared_SpillKept(t) ==
  /\ pc[t] = "reading"
  /\ flag' = [s \in Slots |-> IF s = index[t] THEN "Registered" ELSE flag[s]]
  /\ late' = late \ {t}
  /\ Goto(t, "idle")
  /\ UNCHANGED <<spLock, id, mapped, index, op, pos>>

UnlockShared(t) ==
  /\ pc[t] = "reading"
  /\ IF Registered(t)
     THEN /\ flag' = [flag EXCEPT ![index[t]] = "Registered"]
          /\ UNCHANGED spLock
     ELSE /\ spLock' = FALSE
          /\ UNCHANGED flag
  /\ late' = late \ {t}
  /\ Goto(t, "idle")
  /\ UNCHANGED <<id, mapped, index, op, pos>>

-----------------------------------------------------------------------------
(* lock() and unlock().                                                     *)

CallLock(t) ==
  /\ t \in LockCallers
  /\ pc[t] = "idle"
  /\ Goto(t, "lockWait")
  /\ UNCHANGED <<spLock, flag, id, mapped, index, op, pos, late>>

\* Mutant: spLock is stored without being compared.
LockSpill_Unchecked(t) ==
  /\ pc[t] = "lockWait"
  /\ spLock' = TRUE
  /\ pos' = [pos EXCEPT ![t] = 0]
  /\ late' = {u \in Threads : pc[u] = "announce"}
  /\ Goto(t, "scan")
  /\ UNCHANGED <<flag, id, mapped, index, op>>

LockSpill(t) ==
  /\ pc[t] = "lockWait"
  /\ ~ spLock
  /\ spLock' = TRUE
  /\ pos' = [pos EXCEPT ![t] = 0]
  /\ late' = {u \in Threads : pc[u] = "announce"}
  /\ Goto(t, "scan")
  /\ UNCHANGED <<flag, id, mapped, index, op>>

\* Mutant: the flag is looked at once and not waited for.
ScanSlot_NoWait(t) ==
  /\ pc[t] = "scan"
  /\ pos[t] \in Slots
  /\ pos' = [pos EXCEPT ![t] = @ + 1]
  /\ UNCHANGED <<spLock, flag, id, mapped, index, pc, op, late>>

\* The load of flags[pos[t]] did not return SharedLock.
ScanSlot(t) ==
  /\ pc[t] = "scan"
  /\ pos[t] \in Slots
  /\ flag[pos[t]] # "SharedLock"
  /\ pos' = [pos EXCEPT ![t] = @ + 1]
  /\ UNCHANGED <<spLock, flag, id, mapped, index, pc, op, late>>

\* Mutant: the last flag is not looked at.
ScanDone_OneShort(t) ==
  /\ pc[t] = "scan"
  /\ pos[t] >= NumSlots - 1
  /\ Goto(t, "writing")
  /\ UNCHANGED <<spLock, flag, id, mapped, index, op, pos, late>>

ScanDone(t) ==
  /\ pc[t] = "scan"
  /\ pos[t] = NumSlots
  /\ Goto(t, "writing")
  /\ UNCHANGED <<spLock, flag, id, mapped, index, op, pos, late>>

\* Mutant: spLock is kept.
Unlock_SpillKept(t) ==
  /\ pc[t] = "writing"
  /\ Goto(t, "idle")
  /\ UNCHANGED <<spLock, flag, id, mapped, index, op, pos, late>>

Unlock(t) ==
  /\ pc[t] = "writing"
  /\ spLock' = FALSE
  /\ Goto(t, "idle")
  /\ UNCHANGED <<flag, id, mapped, index, op, pos, late>>

-----------------------------------------------------------------------------
(* The thread ends: its tmap is destroyed, and ~ThreadRegister gives the    *)
(* slot back in two steps.  A new thread may then run under the same name.  *)

\* Mutant: the id is not reset.
Exit_IdKept(t) ==
  /\ pc[t] = "idle"
  /\ t \in mapped
  /\ IF Registered(t) THEN Goto(t, "drop") /\ UNCHANGED mapped
                      ELSE mapped' = mapped \ {t} /\ UNCHANGED pc
  /\ UNCHANGED <<spLock, flag, id, index, op, pos, late>>

Exit(t) ==
  /\ pc[t] = "idle"
  /\ t \in mapped
  /\ IF Registered(t)
     THEN /\ id' = [id EXCEPT ![index[t]] = NoThread]
          /\ Goto(t, "drop")
          /\ UNCHANGED mapped
     ELSE /\ mapped' = mapped \ {t}
          /\ UNCHANGED <<id, pc>>
  /\ UNCHANGED <<spLock, flag, index, op, pos, late>>

DropSlot(t) ==
  /\ pc[t] = "drop"
  /\ flag[index[t]] = "Registered"
  /\ flag' = [flag EXCEPT ![index[t]] = "Unregistered"]
  /\ index' = [index EXCEPT ![t] = NotRegistered]
  /\ mapped' = mapped \ {t}
  /\ Goto(t, "idle")
  /\ UNCHANGED <<spLock, id, op, pos, late>>

-----------------------------------------------------------------------------
\* What a thread does of its own accord, and may never do.
Call(t) == \/ \E o \in Ops : CallShared(t, o)
           \/ CallLock(t)
           \/ Exit(t)

\* What a thread inside a call, or inside a section, goes on to do.
Step(t) == \/ ClaimSlot(t) \/ SkipSlot(t) \/ NoSlotLeft(t) \/ SetId(t)
           \/ GateOpen(t) \/ GateShut(t) \/ Announce(t)
           \/ SpillAcquire(t) \/ TrySpillFree(t) \/ TrySpillBusy(t)
           \/ UnlockShared(t)
           \/ LockSpill(t) \/ ScanSlot(t) \/ ScanDone(t) \/ Unlock(t)
           \/ DropSlot(t)

Next == \E t \in Threads : Call(t) \/ Step(t)

Spec == Init /\ [][Next]_vars

\* Every thread keeps being scheduled, and every section ends: the sections
\* of this repository are guard scopes around bounded work.
Fairness == \A t \in Threads : WF_vars(Step(t))

FairSpec == Spec /\ Fairness

-----------------------------------------------------------------------------
(* Properties.                                                              *)

Reading(t) == pc[t] = "reading"
Writing(t) == pc[t] = "writing"

\* Threads that act as if they owned spLock: writers from the exchange that
\* took it on, and readers that have no slot.
HoldsSpill(t) == \/ pc[t] \in {"scan", "writing"}
                 \/ Reading(t) /\ ~ Registered(t)

\* The slot is t's: by its tmap, or because t has claimed it and not yet
\* written the index down.
Owns(t, s) == \/ index[t] = s
              \/ pc[t] = "setId" /\ pos[t] = s

\* Slots are handed out and given back without two threads ever sharing one,
\* and a flag is Unregistered exactly while nobody owns it: registerThread()
\* racing with itself and with ~ThreadRegister.
SlotsOwnedOnce ==
  \A s \in Slots :
    /\ \A t, u \in Threads : Owns(t, s) /\ Owns(u, s) => t = u
    /\ flag[s] = "Unregistered" <=> \A t \in Threads : ~ Owns(t, s)

\* A flag says SharedLock exactly while the owner of its slot is reading, so
\* a thread never leaves the mutex, or its life, with the flag still raised.
FlagTellsReader ==
  \A s \in Slots :
    flag[s] = "SharedLock" <=> \E t \in Threads : index[t] = s /\ Reading(t)

\* The id of a slot is its owner's, except inside registration and
\* unregistration: no thread overwrites the id another thread has written.
IdOfOwner ==
  \A s \in Slots, t \in Threads :
    id[s] = t <=> index[t] = s /\ pc[t] # "drop"

\* spLock is set exactly while one thread relies on it, and only one does:
\* writers exclude each other and the readers without a slot.
SpillExclusion ==
  /\ \A t, u \in Threads : HoldsSpill(t) /\ HoldsSpill(u) => t = u
  /\ spLock <=> \E t \in Threads : HoldsSpill(t)

\* The one way a reader and a writer meet: the reader was between its load
\* of spLock and its store of SharedLock when lock() took spLock.  Readers
\* that announced themselves before that are waited for, and later ones wait.
OnlyLateReadersOverlap ==
  \A w, r \in Threads : Writing(w) /\ Reading(r) => r \in late

\* What lock_shared() and lock() are for.
MutualExclusion ==
  \A w, r \in Threads : ~ (Writing(w) /\ Reading(r))

\* A writer that has taken spLock gets in: readers drain, and no reader can
\* keep coming back past a writer that waits for its flag.
WriterDrainsReaders ==
  \A t \in Threads : pc[t] = "scan" ~> Writing(t)

\* Registered readers, however busy, cannot starve lock(): once the other users
\* of spLock stay away from it, a waiting writer gets in.
LockReturns ==
  \A t \in LockCallers :
    <>[](\A u \in Threads \ {t} : ~ HoldsSpill(u))
      => (pc[t] = "lockWait" ~> Writing(t))

\* Nobody waits for ever while nobody gets in: no lost release of spLock or
\* of a flag, no circular wait between the scan and the gate.
SomeoneGetsIn ==
  (\E t \in Threads : pc[t] \in {"gate", "spill", "lockWait", "scan"})
     ~> (\E t \in Threads : Reading(t) \/ Writing(t))

\* A slot being given back is given back: the exchange in ~ThreadRegister
\* spins on a flag that only this thread can change.
SlotsComeBack ==
  \A t \in Threads : pc[t] = "drop" ~> t \notin mapped

-----------------------------------------------------------------------------
\* What the callers see: a reader/writer lock in which a writer may meet as
\* many stragglers as there are slots; SharedMutex<0> admits none.
RW == INSTANCE RWLock
        WITH Lanes      <- Slots,
             readers    <- {t \in Threads : Reading(t)},
             writers    <- {t \in Threads : Writing(t)},
             stragglers <- IF \E t \in Threads : Writing(t) THEN late ELSE {}

\* The mutex implements it.
ImplementsRWLock == RW!Spec
=============================================================================
