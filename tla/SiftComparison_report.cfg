SPECIFICATION Spec
CONSTANTS
  near = near
  far = far
  Probe <- MCProbe
  Chunks = 2
  Ranking <- MCRanking
  Sufficient <- MCSufficient
  None = None
  Torn = Torn
INVARIANTS LayersHaveEqualQuality BudgetsAreReal 
CHECK_DEADLOCK FALSE
