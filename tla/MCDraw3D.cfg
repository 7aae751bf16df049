\* Both windows; the program ends when a copy loop throws, hence no deadlock
\* check.
CONSTANTS
  Corners <- MCCorners
  s_indices <- MCIndices
  Sizes <- MCSizes
SPECIFICATION Spec
CHECK_DEADLOCK FALSE
INVARIANTS
  TypeOK
  OnlyTallOverMax
  IndexesNameTheirCube
  PictureShowsHistory
PROPERTIES
  RefinesHistory
