\* A CPU simulator on an area that is taller than wide.
CONSTANTS
  Workers = {w1}
  CPUBoards <- MCTallBoards
  CSBoards <- MCTallBoards
  RuleFiles <- MCRuleFiles
  DebugLifeSimulator = TRUE
SPECIFICATION Spec
PROPERTIES
  RefinesGameOfLife
