\* Without the dumps of DEBUG_LIFESIMULATOR: the GPU runs behind Compute.
CONSTANTS
  Workers = {w1, w2}
  CPUBoards = {}
  CSBoards <- MCCSBoards
  RuleFiles <- MCRuleFiles
  DebugLifeSimulator = FALSE
SYMMETRY Interchangeable
SPECIFICATION Spec
INVARIANTS
  NoDataRace
PROPERTIES
  RefinesGameOfLife
  CopiesAreConsecutive
