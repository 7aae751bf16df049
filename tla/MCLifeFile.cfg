SPECIFICATION Spec
CONSTANTS
  Word = 8
  Coordinates <- MCCoordinates
  Lengths <- MCLengths
  MaxLines = 2
INVARIANTS
  TypeOK
  LoadsItsCells
  SurvivesSaving
