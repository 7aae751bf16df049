\* A program started when GetTickCount() is negative as an int.
CONSTANTS
  r1 = r1
  file = file
  fives = fives
  InitialSize = 1
  MaxSize = 2
  Word = 12
  Fills = {r1}
  LifeFiles = {}
  RuleFiles = {}
  Rules = {fives}
  Broken = Broken
  Conway = Conway
  NoFile = NoFile
  Entries <- MCValidEntries
  TickBits = 6
  FirstTick <- MCNegativeTick
  LastTick <- MCNegativeTick
SPECIFICATION Spec
PROPERTIES
  GenerationsKeepTime
