CONSTANTS
  p1 = p1
  p2 = p2
  c1 = c1
  Producers <- MCTwoP
  Consumers <- MCOneC
  BUFS = 2
  Products = {1}
  SEMAEM = 2
  MaxKills = 2
  MaxSurplus = 3
SYMMETRY Symmetry
SPECIFICATION UndoSpec
INVARIANTS MutexSurvivesKills KillLosesOneSlot TokensAccountedFor
PROPERTY WaitInPopIsForever
CHECK_DEADLOCK FALSE
