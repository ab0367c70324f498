CONSTANTS
  Mems    = {m1, m2, m3}
  Indices = {a, b, c, d}
SYMMETRY Symmetric
SPECIFICATION Spec
INVARIANT AllocateFindsBlock
CHECK_DEADLOCK FALSE
