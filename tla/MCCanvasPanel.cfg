\* Commands, dialog and frames in every order; the clock stands still.
CONSTANTS
  r1 = r1
  file = file
  fives = fives
  InitialSize = 1
  MaxSize = 2
  Word = 12
  Fills = {r1}
  LifeFiles <- MCLifeFiles
  RuleFiles = {}
  Rules = {fives}
  Broken = Broken
  Conway = Conway
  NoFile = NoFile
  Entries <- MCEntries
  TickBits = 6
  FirstTick = 0
  LastTick = 0
SPECIFICATION Spec
INVARIANTS
  TypeOK
  DataFitsArea
  ShowsWhatWasAsked
PROPERTIES
  SettingsAreWhole
  SettingsTakeEffect
