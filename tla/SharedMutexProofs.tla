-------------------------- MODULE SharedMutexProofs --------------------------
(***************************************************************************)
(* Proofs about SharedMutex, for every number of threads and of slots.     *)
(*                                                                         *)
(*   1. RegInv, an inductive invariant of registration.  It needs nothing  *)
(*      of the callers, and gives TypeOK, SlotsOwnedOnce, FlagTellsReader  *)
(*      and IdOfOwner.                                                     *)
(*   2. LockInv, an inductive invariant of locking, for programs that do   *)
(*      not call try_lock_shared().  It gives SpillExclusion and           *)
(*      OnlyLateReadersOverlap.                                            *)
(*   3. Under the same condition SharedMutex implements RWLock, and        *)
(*      SharedMutex<0> excludes readers and writers outright.              *)
(***************************************************************************)
EXTENDS SharedMutex, TLAPS

\* Where a thread can be, given whether it is in tmap and has an index.
Stage(t) ==
  /\ pc[t] \in {"gate", "announce", "drop"} => Registered(t)
  /\ pc[t] \in {"register", "setId", "spill"} => ~ Registered(t)
  /\ pc[t] \in {"register", "setId"} \/ Registered(t) => t \in mapped
  /\ pc[t] = "setId" => pos[t] \in Slots

Stages == \A t \in Threads : Stage(t)

RegInv == TypeOK /\ Stages /\ SlotsOwnedOnce /\ FlagTellsReader /\ IdOfOwner

-----------------------------------------------------------------------------
\* No slot has the number that means "none".
LEMMA NoneIsNoSlot == NotRegistered \notin Slots
BY DEF NotRegistered, Slots

\* A loop over the slots starts at 0 and may step past the last slot.
LEMMA LoopOverSlots ==
  0 \in Counters /\ \A i \in Slots : i \in Counters /\ i + 1 \in Counters
BY NumSlotsAssumption DEF Slots, Counters

\* The initial state is well typed and nobody owns anything.
LEMMA RegInit == Init => RegInv
<1> SUFFICES ASSUME Init PROVE RegInv
  OBVIOUS
<1> USE NoneIsNoSlot DEF Init
<1>1. TypeOK
  BY LoopOverSlots DEF TypeOK, FlagValues, Ops, PCs
<1>2. Stages
  BY DEF Stages, Stage, Registered
<1>3. SlotsOwnedOnce
  BY DEF SlotsOwnedOnce, Owns
<1>4. FlagTellsReader
  BY DEF FlagTellsReader, Reading
<1>5. IdOfOwner
  BY NoThreadAssumption DEF IdOfOwner
<1> QED BY <1>1, <1>2, <1>3, <1>4, <1>5 DEF RegInv

\* A step keeps every variable in its type; of Stages it needs that a thread
\* that is about to write down its slot has one.
LEMMA TypeStep == TypeOK /\ Stages /\ [Next]_vars => TypeOK'
<1> SUFFICES ASSUME TypeOK, Stages, [Next]_vars PROVE TypeOK'
  OBVIOUS
<1> USE LoopOverSlots DEF TypeOK, FlagValues, Ops, PCs, Goto
<1>1. CASE UNCHANGED vars
  BY <1>1 DEF vars
<1>2. ASSUME NEW t \in Threads, Call(t) PROVE TypeOK'
  BY <1>2 DEF Call, CallShared, CallLock, Exit
<1>3. ASSUME NEW t \in Threads, Step(t) PROVE TypeOK'
  <2>1. CASE ClaimSlot(t) \/ NoSlotLeft(t) \/ GateOpen(t) \/ GateShut(t)
    BY <2>1 DEF ClaimSlot, NoSlotLeft, GateOpen, GateShut
  <2>2. CASE SkipSlot(t) \/ ScanSlot(t)
    BY <2>2 DEF SkipSlot, ScanSlot
  <2>3. CASE SetId(t)
    BY <2>3 DEF SetId, Stages, Stage
  <2>4. CASE Announce(t) \/ SpillAcquire(t) \/ TrySpillFree(t) \/ TrySpillBusy(t)
    BY <2>4 DEF Announce, SpillAcquire, TrySpillFree, TrySpillBusy
  <2>5. CASE UnlockShared(t)
    BY <2>5 DEF UnlockShared
  <2>6. CASE LockSpill(t)
    <3>1. late' \subseteq Threads
      BY <2>6 DEF LockSpill
    <3> QED BY <3>1, <2>6 DEF LockSpill
  <2>7. CASE ScanDone(t) \/ Unlock(t) \/ DropSlot(t)
    BY <2>7 DEF ScanDone, Unlock, DropSlot
  <2> QED BY <1>3, <2>1, <2>2, <2>3, <2>4, <2>5, <2>6, <2>7 DEF Step
<1> QED BY <1>1, <1>2, <1>3 DEF Next

\* Stages after each step; only ClaimSlot, SetId, Exit and DropSlot move a
\* thread between the stages of registration.
LEMMA StagesStep == TypeOK /\ Stages /\ [Next]_vars => Stages'
<1> SUFFICES ASSUME TypeOK, Stages, [Next]_vars, NEW u \in Threads PROVE Stage(u)'
  BY DEF Stages
<1> USE NoneIsNoSlot DEF TypeOK, Stages, Stage, Goto, Registered
<1>1. CASE UNCHANGED vars
  BY <1>1 DEF vars
<1>2. ASSUME NEW t \in Threads, Call(t) PROVE Stage(u)'
  BY <1>2 DEF Call, CallShared, CallLock, Exit
<1>3. ASSUME NEW t \in Threads, Step(t) PROVE Stage(u)'
  <2>1. CASE ClaimSlot(t) \/ SkipSlot(t) \/ NoSlotLeft(t) \/ SetId(t)
    BY <2>1 DEF ClaimSlot, SkipSlot, NoSlotLeft, SetId
  <2>2. CASE GateOpen(t) \/ GateShut(t) \/ Announce(t)
    BY <2>2 DEF GateOpen, GateShut, Announce
  <2>3. CASE SpillAcquire(t) \/ TrySpillFree(t) \/ TrySpillBusy(t) \/ UnlockShared(t)
    BY <2>3 DEF SpillAcquire, TrySpillFree, TrySpillBusy, UnlockShared
  <2>4. CASE LockSpill(t) \/ ScanSlot(t) \/ ScanDone(t) \/ Unlock(t)
    BY <2>4 DEF LockSpill, ScanSlot, ScanDone, Unlock
  <2>5. CASE DropSlot(t)
    BY <2>5 DEF DropSlot
  <2> QED BY <1>3, <2>1, <2>2, <2>3, <2>4, <2>5 DEF Step
<1> QED BY <1>1, <1>2, <1>3 DEF Next

\* Slots stay with their owners.  ClaimSlot is where it could go wrong: it
\* takes a slot whose flag is Unregistered, which nobody owns.
LEMMA OwnersStep == RegInv /\ [Next]_vars => SlotsOwnedOnce'
<1> SUFFICES ASSUME RegInv, [Next]_vars PROVE SlotsOwnedOnce'
  OBVIOUS
<1> USE NoneIsNoSlot
    DEF RegInv, TypeOK, Stages, Stage, SlotsOwnedOnce, Goto, Registered, Owns
<1>1. CASE UNCHANGED vars
  BY <1>1 DEF vars
<1>2. ASSUME NEW t \in Threads, Call(t) PROVE SlotsOwnedOnce'
  BY <1>2 DEF Call, CallShared, CallLock, Exit
<1>3. ASSUME NEW t \in Threads, Step(t) PROVE SlotsOwnedOnce'
  <2>1. CASE ClaimSlot(t)
    BY <2>1 DEF ClaimSlot
  <2>2. CASE SkipSlot(t) \/ NoSlotLeft(t) \/ GateOpen(t) \/ GateShut(t)
    BY <2>2 DEF SkipSlot, NoSlotLeft, GateOpen, GateShut
  <2>3. CASE SetId(t)
    BY <2>3 DEF SetId
  <2>4. CASE Announce(t)
    BY <2>4 DEF Announce
  <2>5. CASE UnlockShared(t)
    BY <2>5 DEF UnlockShared
  <2>6. CASE SpillAcquire(t) \/ TrySpillFree(t) \/ TrySpillBusy(t)
    BY <2>6 DEF SpillAcquire, TrySpillFree, TrySpillBusy
  <2>7. CASE LockSpill(t) \/ ScanSlot(t) \/ ScanDone(t) \/ Unlock(t)
    BY <2>7 DEF LockSpill, ScanSlot, ScanDone, Unlock
  <2>8. CASE DropSlot(t)
    BY <2>8 DEF DropSlot
  <2> QED BY <1>3, <2>1, <2>2, <2>3, <2>4, <2>5, <2>6, <2>7, <2>8 DEF Step
<1> QED BY <1>1, <1>2, <1>3 DEF Next

\* SharedLock goes up and down with the owner's section.
LEMMA FlagStep == RegInv /\ [Next]_vars => FlagTellsReader'
<1> SUFFICES ASSUME RegInv, [Next]_vars PROVE FlagTellsReader'
  OBVIOUS
<1> USE NoneIsNoSlot
    DEF RegInv, TypeOK, Stages, Stage, FlagTellsReader, Reading, Goto, Registered
<1>1. CASE UNCHANGED vars
  BY <1>1 DEF vars
<1>2. ASSUME NEW t \in Threads, Call(t) PROVE FlagTellsReader'
  BY <1>2 DEF Call, CallShared, CallLock, Exit
<1>3. ASSUME NEW t \in Threads, Step(t) PROVE FlagTellsReader'
  <2>1. CASE ClaimSlot(t)
    BY <2>1 DEF ClaimSlot, SlotsOwnedOnce, Owns
  <2>2. CASE SkipSlot(t) \/ NoSlotLeft(t) \/ GateOpen(t) \/ GateShut(t)
    BY <2>2 DEF SkipSlot, NoSlotLeft, GateOpen, GateShut
  <2>3. CASE SetId(t)
    BY <2>3 DEF SetId
  <2>4. CASE Announce(t)
    BY <2>4 DEF Announce
  <2>5. CASE UnlockShared(t)
    BY <2>5 DEF UnlockShared, SlotsOwnedOnce, Owns
  <2>6. CASE SpillAcquire(t) \/ TrySpillFree(t) \/ TrySpillBusy(t)
    BY <2>6 DEF SpillAcquire, TrySpillFree, TrySpillBusy
  <2>7. CASE LockSpill(t) \/ ScanSlot(t) \/ ScanDone(t) \/ Unlock(t)
    BY <2>7 DEF LockSpill, ScanSlot, ScanDone, Unlock
  <2>8. CASE DropSlot(t)
    BY <2>8 DEF DropSlot, SlotsOwnedOnce, Owns
  <2> QED BY <1>3, <2>1, <2>2, <2>3, <2>4, <2>5, <2>6, <2>7, <2>8 DEF Step
<1> QED BY <1>1, <1>2, <1>3 DEF Next

\* SetId overwrites no id but its own, and the first step of ~ThreadRegister
\* resets no id but its own.
LEMMA IdStep == RegInv /\ [Next]_vars => IdOfOwner'
<1> SUFFICES ASSUME RegInv, [Next]_vars PROVE IdOfOwner'
  OBVIOUS
<1> USE NoneIsNoSlot, NoThreadAssumption
    DEF RegInv, TypeOK, Stages, Stage, IdOfOwner, Goto, Registered
<1>1. CASE UNCHANGED vars
  BY <1>1 DEF vars
<1>2. ASSUME NEW t \in Threads, Call(t) PROVE IdOfOwner'
  <2>1. CASE Exit(t)
    BY <2>1 DEF Exit, SlotsOwnedOnce, Owns
  <2> QED BY <1>2, <2>1 DEF Call, CallShared, CallLock
<1>3. ASSUME NEW t \in Threads, Step(t) PROVE IdOfOwner'
  <2>1. CASE SetId(t)
    BY <2>1 DEF SetId, SlotsOwnedOnce, Owns
  <2>2. CASE ClaimSlot(t) \/ SkipSlot(t) \/ NoSlotLeft(t)
    BY <2>2 DEF ClaimSlot, SkipSlot, NoSlotLeft
  <2>3. CASE GateOpen(t) \/ GateShut(t) \/ Announce(t)
    BY <2>3 DEF GateOpen, GateShut, Announce
  <2>4. CASE SpillAcquire(t) \/ TrySpillFree(t) \/ TrySpillBusy(t) \/ UnlockShared(t)
    BY <2>4 DEF SpillAcquire, TrySpillFree, TrySpillBusy, UnlockShared
  <2>5. CASE LockSpill(t) \/ ScanSlot(t) \/ ScanDone(t) \/ Unlock(t)
    BY <2>5 DEF LockSpill, ScanSlot, ScanDone, Unlock
  <2>6. CASE DropSlot(t)
    BY <2>6 DEF DropSlot
  <2> QED BY <1>3, <2>1, <2>2, <2>3, <2>4, <2>5, <2>6 DEF Step
<1> QED BY <1>1, <1>2, <1>3 DEF Next

\* Every step keeps the part about registration.
LEMMA RegStep == RegInv /\ [Next]_vars => RegInv'
BY TypeStep, StagesStep, OwnersStep, FlagStep, IdStep DEF RegInv

\* Registration is sound whatever the callers do, the wrong answers of
\* try_lock_shared() included.
LEMMA RegInvariant == Spec => []RegInv
BY RegInit, RegStep, PTL DEF Spec

\* Every variable keeps its type.
THEOREM Typing == Spec => []TypeOK
BY RegInvariant, PTL DEF RegInv

\* No two threads ever share a slot, and free slots are exactly the ones
\* nobody owns, although claiming and giving back take several steps each.
THEOREM SlotOwnership == Spec => []SlotsOwnedOnce
BY RegInvariant, PTL DEF RegInv

\* A raised flag stands for a reader inside its section: no flag is left
\* raised by a thread that went away.
THEOREM FlagsAreReaders == Spec => []FlagTellsReader
BY RegInvariant, PTL DEF RegInv

\* A slot carries its owner's id from registration to the thread's end.
THEOREM IdsAreOwners == Spec => []IdOfOwner
BY RegInvariant, PTL DEF RegInv

-----------------------------------------------------------------------------
\* Everyone who is about to raise a flag behind a writer's back is late, and
\* so is everyone who has raised one that the writer already passed.
LateReaders ==
  \A w \in Threads :
    /\ pc[w] \in {"scan", "writing"} =>
         \A r \in Threads : pc[r] = "announce" => r \in late
    /\ pc[w] = "scan" =>
         \A r \in Threads, s \in Slots :
           index[r] = s /\ s < pos[w] /\ Reading(r) => r \in late

\* A late reader has a slot, and is late until it unlocks.
LateHaveSlots ==
  \A r \in late : Registered(r) /\ pc[r] \in {"announce", "reading"}

NobodyTries == \A t \in Threads : op[t] = "lock_shared"

LockInv == NobodyTries /\ SpillExclusion /\ LateReaders /\ LateHaveSlots
             /\ OnlyLateReadersOverlap

\* A new mutex is free.
LEMMA LockInit == Init => LockInv
<1> SUFFICES ASSUME Init PROVE LockInv
  OBVIOUS
<1> USE DEF Init
<1>1. NobodyTries /\ LateHaveSlots
  BY DEF NobodyTries, LateHaveSlots
<1>2. SpillExclusion
  BY DEF SpillExclusion, HoldsSpill, Reading
<1>3. LateReaders /\ OnlyLateReadersOverlap
  BY DEF LateReaders, OnlyLateReadersOverlap, Writing
<1> QED BY <1>1, <1>2, <1>3 DEF LockInv

\* Without callers of try_lock_shared() two of the actions are dead.
LEMMA TriesStep ==
  TryCallers = {} /\ TypeOK /\ NobodyTries /\ [Next]_vars => NobodyTries'
<1> SUFFICES ASSUME TryCallers = {}, TypeOK, NobodyTries, [Next]_vars
             PROVE  NobodyTries'
  OBVIOUS
<1>1. ASSUME NEW t \in Threads, NEW o \in Ops, CallShared(t, o) PROVE NobodyTries'
  BY <1>1 DEF CallShared, NobodyTries, TypeOK, Ops
<1>2. ASSUME op' = op PROVE NobodyTries'
  BY <1>2 DEF NobodyTries
<1>3. ASSUME NEW t \in Threads, CallLock(t) \/ Exit(t) PROVE op' = op
  BY <1>3 DEF CallLock, Exit
<1>4. ASSUME NEW t \in Threads, Step(t) PROVE op' = op
  BY <1>4 DEF Step, ClaimSlot, SkipSlot, NoSlotLeft, SetId, GateOpen, GateShut,
              Announce, SpillAcquire, TrySpillFree, TrySpillBusy, UnlockShared,
              LockSpill, ScanSlot, ScanDone, Unlock, DropSlot
<1> QED BY <1>1, <1>2, <1>3, <1>4 DEF Next, Call, vars

\* spLock is taken by whoever finds it free and given back by its holder; a
\* thread that gets or loses its index does not hold it.
LEMMA SpillStep ==
  RegInv /\ NobodyTries /\ SpillExclusion /\ [Next]_vars => SpillExclusion'
<1> SUFFICES ASSUME RegInv, NobodyTries, SpillExclusion, [Next]_vars
             PROVE  SpillExclusion'
  OBVIOUS
<1> USE NoneIsNoSlot
    DEF RegInv, TypeOK, Stages, Stage, NobodyTries, SpillExclusion, HoldsSpill,
        Reading, Goto, Registered
<1>1. CASE UNCHANGED vars
  BY <1>1 DEF vars
<1>2. ASSUME NEW t \in Threads, Call(t) PROVE SpillExclusion'
  BY <1>2 DEF Call, CallShared, CallLock, Exit
<1>3. ASSUME NEW t \in Threads, Step(t) PROVE SpillExclusion'
  <2>1. CASE ClaimSlot(t) \/ SkipSlot(t) \/ NoSlotLeft(t)
    BY <2>1 DEF ClaimSlot, SkipSlot, NoSlotLeft
  <2>2. CASE SetId(t)
    BY <2>2 DEF SetId
  <2>3. CASE GateOpen(t) \/ GateShut(t) \/ Announce(t)
    BY <2>3 DEF GateOpen, GateShut, Announce
  <2>4. CASE SpillAcquire(t)
    BY <2>4 DEF SpillAcquire
  <2>5. CASE TrySpillFree(t) \/ TrySpillBusy(t)
    BY <2>5 DEF TrySpillFree, TrySpillBusy
  <2>6. CASE UnlockShared(t)
    BY <2>6 DEF UnlockShared
  <2>7. CASE LockSpill(t)
    BY <2>7 DEF LockSpill
  <2>8. CASE ScanSlot(t) \/ ScanDone(t) \/ Unlock(t)
    BY <2>8 DEF ScanSlot, ScanDone, Unlock
  <2>9. CASE DropSlot(t)
    BY <2>9 DEF DropSlot
  <2> QED BY <1>3, <2>1, <2>2, <2>3, <2>4, <2>5, <2>6, <2>7, <2>8, <2>9 DEF Step
<1> QED BY <1>1, <1>2, <1>3 DEF Next

\* Late readers get in and leave; nobody becomes late after lock() has started.
LEMMA LateSlotsStep ==
  RegInv /\ LateHaveSlots /\ [Next]_vars => LateHaveSlots'
<1> SUFFICES ASSUME RegInv, LateHaveSlots, [Next]_vars PROVE LateHaveSlots'
  OBVIOUS
<1> USE NoneIsNoSlot
    DEF RegInv, TypeOK, Stages, Stage, LateHaveSlots, Goto, Registered
<1>1. CASE UNCHANGED vars
  BY <1>1 DEF vars
<1>2. ASSUME NEW t \in Threads, Call(t) PROVE LateHaveSlots'
  BY <1>2 DEF Call, CallShared, CallLock, Exit
<1>3. ASSUME NEW t \in Threads, Step(t) PROVE LateHaveSlots'
  <2>1. CASE ClaimSlot(t) \/ SkipSlot(t) \/ NoSlotLeft(t) \/ SetId(t)
    BY <2>1 DEF ClaimSlot, SkipSlot, NoSlotLeft, SetId
  <2>2. CASE GateOpen(t) \/ GateShut(t) \/ Announce(t)
    BY <2>2 DEF GateOpen, GateShut, Announce
  <2>3. CASE SpillAcquire(t) \/ TrySpillFree(t) \/ TrySpillBusy(t) \/ UnlockShared(t)
    BY <2>3 DEF SpillAcquire, TrySpillFree, TrySpillBusy, UnlockShared
  <2>4. CASE LockSpill(t)
    BY <2>4 DEF LockSpill
  <2>5. CASE ScanSlot(t) \/ ScanDone(t) \/ Unlock(t) \/ DropSlot(t)
    BY <2>5 DEF ScanSlot, ScanDone, Unlock, DropSlot
  <2> QED BY <1>3, <2>1, <2>2, <2>3, <2>4, <2>5 DEF Step
<1> QED BY <1>1, <1>2, <1>3 DEF Next

\* The slots a scan has passed: one more after ScanSlot, and the owner of that
\* one is not reading.
LEMMA ScanPasses ==
  ASSUME RegInv, LateReaders, NEW t \in Threads, ScanSlot(t),
         NEW r \in Threads, NEW s \in Slots,
         index[r] = s, s < pos[t] + 1, Reading(r)
  PROVE  r \in late
<1>1. s # pos[t]
  BY DEF ScanSlot, RegInv, FlagTellsReader
<1>2. s \in Int /\ pos[t] \in Int
  BY DEF RegInv, TypeOK, Slots, Counters
<1>3. s < pos[t]
  BY <1>1, <1>2
<1> QED BY <1>3 DEF LateReaders, ScanSlot

\* While lock() scans, the gate is shut, so readers that announce themselves
\* had passed it before.
LEMMA LateReadersStep ==
  RegInv /\ LockInv /\ [Next]_vars => LateReaders'
<1> SUFFICES ASSUME RegInv, LockInv, [Next]_vars PROVE LateReaders'
  OBVIOUS
<1> USE NoneIsNoSlot
    DEF RegInv, TypeOK, Stages, Stage, LockInv, NobodyTries, SpillExclusion,
        HoldsSpill, LateReaders, Reading, Goto, Registered
<1>1. CASE UNCHANGED vars
  BY <1>1 DEF vars
<1>2. ASSUME NEW t \in Threads, Call(t) PROVE LateReaders'
  BY <1>2 DEF Call, CallShared, CallLock, Exit
<1>3. ASSUME NEW t \in Threads, Step(t) PROVE LateReaders'
  <2>1. CASE ClaimSlot(t) \/ SkipSlot(t) \/ NoSlotLeft(t) \/ SetId(t)
    BY <2>1 DEF ClaimSlot, SkipSlot, NoSlotLeft, SetId
  <2>2. CASE GateOpen(t) \/ GateShut(t)
    BY <2>2 DEF GateOpen, GateShut
  <2>3. CASE Announce(t)
    BY <2>3 DEF Announce
  <2>4. CASE SpillAcquire(t) \/ TrySpillFree(t) \/ TrySpillBusy(t)
    BY <2>4 DEF SpillAcquire, TrySpillFree, TrySpillBusy
  <2>5. CASE UnlockShared(t)
    BY <2>5 DEF UnlockShared
  <2>6. CASE LockSpill(t)
    <3>1. \A s \in Slots : ~ (s < 0)
      BY DEF Slots
    <3> QED BY <3>1, <2>6 DEF LockSpill
  <2>7. CASE ScanSlot(t)
    BY <2>7, ScanPasses DEF ScanSlot
  <2>8. CASE ScanDone(t) \/ Unlock(t) \/ DropSlot(t)
    BY <2>8 DEF ScanDone, Unlock, DropSlot
  <2> QED BY <1>3, <2>1, <2>2, <2>3, <2>4, <2>5, <2>6, <2>7, <2>8 DEF Step
<1> QED BY <1>1, <1>2, <1>3 DEF Next

\* When the scan is over every reader inside is late: the ones with a slot
\* were passed, and one without would hold spLock.
LEMMA ScannedAreLate ==
  ASSUME RegInv, LockInv, NEW t \in Threads, ScanDone(t),
         NEW r \in Threads, Reading(r)
  PROVE  r \in late /\ Registered(r)
<1>1. Registered(r)
  BY DEF LockInv, SpillExclusion, HoldsSpill, ScanDone, Reading
<1>2. index[r] < pos[t]
  BY <1>1, NumSlotsAssumption DEF ScanDone, Registered, Slots
<1>3. r \in late
  BY <1>1, <1>2 DEF LockInv, LateReaders, ScanDone, Registered
<1> QED BY <1>1, <1>3

\* A reader gets in beside a writer only if it is late already.
LEMMA OverlapStep ==
  RegInv /\ LockInv /\ [Next]_vars => OnlyLateReadersOverlap'
<1> SUFFICES ASSUME RegInv, LockInv, [Next]_vars PROVE OnlyLateReadersOverlap'
  OBVIOUS
<1> USE NoneIsNoSlot
    DEF RegInv, TypeOK, LockInv, NobodyTries, SpillExclusion, HoldsSpill,
        LateReaders, OnlyLateReadersOverlap, Writing, Reading, Goto
<1>1. CASE UNCHANGED vars
  BY <1>1 DEF vars
<1>2. ASSUME NEW t \in Threads, Call(t) PROVE OnlyLateReadersOverlap'
  BY <1>2 DEF Call, CallShared, CallLock, Exit
<1>3. ASSUME NEW t \in Threads, Step(t) PROVE OnlyLateReadersOverlap'
  <2>1. CASE ClaimSlot(t) \/ SkipSlot(t) \/ NoSlotLeft(t) \/ SetId(t)
    BY <2>1 DEF ClaimSlot, SkipSlot, NoSlotLeft, SetId
  <2>2. CASE GateOpen(t) \/ GateShut(t) \/ Announce(t)
    BY <2>2 DEF GateOpen, GateShut, Announce
  <2>3. CASE SpillAcquire(t) \/ TrySpillFree(t) \/ TrySpillBusy(t) \/ UnlockShared(t)
    BY <2>3 DEF SpillAcquire, TrySpillFree, TrySpillBusy, UnlockShared
  <2>4. CASE ScanDone(t)
    <3>1. \A r \in Threads : Reading(r) => r \in late
      BY <2>4, ScannedAreLate
    <3> QED BY <3>1, <2>4 DEF ScanDone
  <2>5. CASE LockSpill(t) \/ ScanSlot(t) \/ Unlock(t) \/ DropSlot(t)
    BY <2>5 DEF LockSpill, ScanSlot, Unlock, DropSlot
  <2> QED BY <1>3, <2>1, <2>2, <2>3, <2>4, <2>5 DEF Step
<1> QED BY <1>1, <1>2, <1>3 DEF Next

\* Without try_lock_shared(), every step keeps the part about the lock.
LEMMA LockStep ==
  TryCallers = {} /\ RegInv /\ LockInv /\ [Next]_vars => LockInv'
BY TriesStep, SpillStep, LateReadersStep, LateSlotsStep, OverlapStep
   DEF LockInv, RegInv

\* So both parts hold throughout.
LEMMA LockInvariant == ASSUME TryCallers = {} PROVE Spec => [](RegInv /\ LockInv)
<1>1. RegInv /\ LockInv /\ [Next]_vars => (RegInv /\ LockInv)'
  BY RegStep, LockStep
<1> QED BY <1>1, RegInit, LockInit, PTL DEF Spec

\* Writers exclude each other and the readers without a slot, and spLock is
\* free whenever nobody relies on it, provided nobody calls try_lock_shared().
THEOREM SpillLockExcludes ==
  ASSUME TryCallers = {} PROVE Spec => []SpillExclusion
<1>1. LockInv => SpillExclusion
  BY DEF LockInv
<1> QED BY <1>1, LockInvariant, PTL

\* A reader meets a writer only if it had read spLock and not yet announced
\* itself when the writer took spLock.
THEOREM OverlapIsLate ==
  ASSUME TryCallers = {} PROVE Spec => []OnlyLateReadersOverlap
<1>1. LockInv => OnlyLateReadersOverlap
  BY DEF LockInv
<1> QED BY <1>1, LockInvariant, PTL

\* SharedMutex<0>, which main.cpp instantiates, is a correct lock: without
\* slots nobody can be late.
THEOREM NoSlotsNoOverlap ==
  ASSUME TryCallers = {}, NumSlots = 0 PROVE Spec => []MutualExclusion
<1>1. LockInv => MutualExclusion
  BY DEF LockInv, LateHaveSlots, OnlyLateReadersOverlap, MutualExclusion,
         Registered, Slots
<1> QED BY <1>1, LockInvariant, PTL

-----------------------------------------------------------------------------
\* ScanDone lets the writer in.  The late readers are its stragglers: each has
\* a slot of its own, so there are no more of them than slots.
LEMMA WriterGetsIn ==
  ASSUME RegInv, LockInv, NEW t \in Threads, ScanDone(t)
  PROVE  RW!AcquireExclusive(t)
<1>1. \A u \in Threads : ~ Writing(u)
  BY DEF ScanDone, LockInv, SpillExclusion, HoldsSpill, Writing
<1>2. {u \in Threads : Writing(u)}' = {t}
  BY <1>1 DEF ScanDone, Goto, Writing, RegInv, TypeOK
<1>3. {u \in Threads : Reading(u)}' = {u \in Threads : Reading(u)}
  BY DEF ScanDone, Goto, Reading, RegInv, TypeOK
<1>4. {u \in Threads : Reading(u)} \subseteq late /\ late \subseteq Threads
  BY ScannedAreLate DEF RegInv, TypeOK
<1>5. RW!FitsLanes(late)
  <2>1. [r \in late |-> index[r]] \in [late -> Slots]
    BY DEF LockInv, LateHaveSlots, Registered
  <2>2. \A x, y \in late : index[x] = index[y] => x = y
    BY <1>4 DEF LockInv, LateHaveSlots, Registered, RegInv, SlotsOwnedOnce, Owns
  <2> QED BY <2>1, <2>2 DEF RW!FitsLanes
<1>6. late' = late
  BY DEF ScanDone
<1> QED BY <1>1, <1>2, <1>3, <1>4, <1>5, <1>6 DEF RW!AcquireExclusive

\* Every step of the mutex is a step of RWLock or invisible to it.
LEMMA RWStep ==
  RegInv /\ LockInv /\ [Next]_vars => [RW!Next]_(RW!vars)
<1> SUFFICES ASSUME RegInv, LockInv, [Next]_vars
             PROVE  RW!Next \/ UNCHANGED RW!vars
  OBVIOUS
<1> DEFINE R == {u \in Threads : Reading(u)}
           W == {u \in Threads : Writing(u)}
           S == IF \E u \in Threads : Writing(u) THEN late ELSE {}
<1> USE DEF RegInv, TypeOK, Goto
<1>0. ASSUME R' = R, W' = W, late' = late PROVE UNCHANGED RW!vars
  BY <1>0 DEF RW!vars
<1>1. CASE UNCHANGED vars
  BY <1>1, <1>0 DEF vars, Reading, Writing
<1>2. ASSUME NEW t \in Threads, Call(t) PROVE UNCHANGED RW!vars
  BY <1>2, <1>0 DEF Call, CallShared, CallLock, Exit, Reading, Writing
<1>3. ASSUME NEW t \in Threads, Step(t) PROVE RW!Next \/ UNCHANGED RW!vars
  <2>1. CASE ClaimSlot(t) \/ SkipSlot(t) \/ NoSlotLeft(t) \/ SetId(t)
    BY <2>1, <1>0 DEF ClaimSlot, SkipSlot, NoSlotLeft, SetId, Reading, Writing
  <2>2. CASE GateOpen(t) \/ GateShut(t)
    BY <2>2, <1>0 DEF GateOpen, GateShut, Reading, Writing
  <2>3. CASE Announce(t)
    <3>1. RW!AcquireShared(t)
      BY <2>3 DEF Announce, RW!AcquireShared, Reading, Writing, LockInv, LateReaders
    <3> QED BY <3>1 DEF RW!Next
  <2>4. CASE SpillAcquire(t)
    <3>1. RW!AcquireShared(t)
      BY <2>4 DEF SpillAcquire, RW!AcquireShared, Reading, Writing, LockInv,
                  SpillExclusion, HoldsSpill
    <3> QED BY <3>1 DEF RW!Next
  <2>5. CASE TrySpillFree(t) \/ TrySpillBusy(t)
    BY <2>5 DEF TrySpillFree, TrySpillBusy, LockInv, NobodyTries
  <2>6. CASE UnlockShared(t)
    <3>1. RW!ReleaseShared(t)
      BY <2>6 DEF UnlockShared, RW!ReleaseShared, Reading, Writing
    <3> QED BY <3>1 DEF RW!Next
  <2>7. CASE LockSpill(t)
    BY <2>7 DEF LockSpill, RW!vars, Reading, Writing, LockInv, SpillExclusion,
                HoldsSpill
  <2>8. CASE ScanSlot(t) \/ DropSlot(t)
    BY <2>8, <1>0 DEF ScanSlot, DropSlot, Reading, Writing
  <2>9. CASE ScanDone(t)
    BY <2>9, WriterGetsIn DEF RW!Next
  <2>10. CASE Unlock(t)
    <3>1. RW!ReleaseExclusive(t)
      BY <2>10 DEF Unlock, RW!ReleaseExclusive, Reading, Writing, LockInv,
                   SpillExclusion, HoldsSpill
    <3> QED BY <3>1 DEF RW!Next
  <2> QED BY <1>3, <2>1, <2>2, <2>3, <2>4, <2>5, <2>6, <2>7, <2>8, <2>9, <2>10
          DEF Step
<1> QED BY <1>1, <1>2, <1>3 DEF Next

\* SharedMutex is a reader/writer lock with a bounded leak: a writer shares its
\* section with at most NumSlots readers, all of them known when it gets in.
THEOREM SharedMutexImplementsRWLock ==
  ASSUME TryCallers = {} PROVE Spec => ImplementsRWLock
<1>1. Init => RW!Init
  BY DEF Init, RW!Init, Reading, Writing
<1> QED BY <1>1, RWStep, LockInvariant, PTL DEF Spec, ImplementsRWLock, RW!Spec
=============================================================================
