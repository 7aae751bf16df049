SPECIFICATION Spec
CONSTANTS
  Bars <- MCBars
  Fields <- MCFields
  Radios <- MCRadios
  Group <- MCGroup
  Buttons <- MCButtons
  Closing = {}
  Labels = {}
  Nothing = "nothing"
  Points <- MCPoints
  Client <- MCClient
  Under <- MCUnder
  MaxValue = 3
  PageSize = 2
  Positions <- MCPositions
INVARIANTS
  TypeOK
  KeysFollow
  LooksFollow
PROPERTIES
  ClosesAsPressed
  MovesWhatIsHeld
