\* Start, stop, settings and frames against the clock, far from 2 ^ 31 ms, and
\* against the editor of a rule file.
CONSTANTS
  r1 = r1
  file = file
  fives = fives
  InitialSize = 1
  MaxSize = 2
  Word = 12
  Fills = {r1}
  LifeFiles = {}
  RuleFiles = {file}
  Rules = {fives}
  Broken = Broken
  Conway = Conway
  NoFile = NoFile
  Entries <- MCValidEntries
  TickBits = 6
  FirstTick = 0
  LastTick = 11
SPECIFICATION Spec
INVARIANTS
  RuleFileSurvives
PROPERTIES
  GenerationsKeepTime
