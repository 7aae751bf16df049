\* Every call may fail at any time and the device may be lost at any time.
SPECIFICATION Spec
INVARIANTS
  TypeOK
  SafeUnlessFailed
  WaitsOnlyHalfway
  KeyReturned
  ShowsWhole
PROPERTIES
  KeepsDrawing
