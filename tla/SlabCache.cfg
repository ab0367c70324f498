\* Three dispatcher blocks of four blocks each: Threshold is 1.
CONSTANTS
  Mems    = {m1, m2, m3}
  Indices = {a, b, c, d}
SYMMETRY Symmetric
SPECIFICATION Spec
INVARIANTS TypeOK SlabsManageTheirMemory LiveMemoryIsKept Accounting
           OrderedByFullness 
PROPERTY ImplementsHeap
CHECK_DEADLOCK FALSE
