CONSTANTS
  Names = {h1, h2, h3, h4}
  Interfaces = {x, y}
  None = None
  MaxAssigned = 3
SYMMETRY Symmetric
SPECIFICATION MCSpec
INVARIANT DeletedWithLastHandle
CHECK_DEADLOCK FALSE
