SPECIFICATION Spec
CONSTANT MaxLength = 3
INVARIANTS
  TypeOK
  SelectionInText
  OnlyLooseThrows
  LayoutFollows
PROPERTIES
  ReportsAddUp
  Exclusive
  UpgradeGranted
