\* Three threads, two slots; the writers and the readers without a slot also
\* call try_lock_shared.
CONSTANTS
  t1 = t1
  t2 = t2
  t3 = t3
  NoThread    = NoThread
  Threads     <- MCThreads
  NumSlots    = 2
  LockCallers <- MCOneWriter
  TryCallers  <- MCThreads
SPECIFICATION FairSpec
INVARIANTS TypeOK SlotsOwnedOnce FlagTellsReader IdOfOwner
PROPERTY SlotsComeBack
CHECK_DEADLOCK FALSE
