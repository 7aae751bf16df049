\* The CPU window on an area that is taller than wide.
CONSTANTS
  Corners <- MCCorners
  s_indices <- MCIndices
  Sizes <- Tall
SPECIFICATION Spec
CHECK_DEADLOCK FALSE
INVARIANTS
  NeverOverMax
