\* Both simulators, two threads, every interleaving of their reads and writes.
CONSTANTS
  Workers = {w1, w2}
  CPUBoards <- MCCPUBoards
  CSBoards <- MCCSBoards
  RuleFiles <- MCRuleFiles
  DebugLifeSimulator = TRUE
SYMMETRY Interchangeable
SPECIFICATION Spec
INVARIANTS
  TypeOK
  NoDataRace
PROPERTIES
  RefinesGameOfLife
  CopiesAreConsecutive
