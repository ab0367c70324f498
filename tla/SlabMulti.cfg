CONSTANTS
  Threads = {t1, t2, t3}
  Allocators = {t1}
  Mems = {m1, m2, m3}
  Indices = {i1, i2}
  Nobody = Nobody
  None = None
SYMMETRY Symmetric
SPECIFICATION MCSpec
INVARIANTS
  TypeOK
  SlabsManageTheirMemory
  LiveMemoryIsKept
  EveryBlockIsFound
  SizesCount
  NoDeadlock
PROPERTY ImplementsHeaps
CHECK_DEADLOCK FALSE
