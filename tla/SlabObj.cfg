\* With pages of three units: slabs of three blocks and of one or two in SlabMem,
\* and of one or three in the pool.
CONSTANTS
  Stores <- MCStores
  BlockSize <- MCBlockSize
  AddedCounts = {1, 2}
  Buckets = 2
  PageSize = 3
  Mems = {m1, m2, m3, m4}
  NoMem = NoMem
  Modulus = 16
  Requests = {1, 3, 4}
  Pool = 0
  PoolCounts = {1, 3}
SYMMETRY Symmetric
SPECIFICATION MCSpec
INVARIANTS
  TypeOK
  InRightList
  OnlySingleBlocksOverrun
  BlocksAccounted
  HeapIsManaged
  CountersRight
  ObjectsLive
CHECK_DEADLOCK FALSE
