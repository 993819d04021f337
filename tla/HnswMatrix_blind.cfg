SPECIFICATION Spec
CONSTANTS
  graph = graph
  right = right
  wrong = wrong
  None = None
  Repeats = 1
  File <- OneFile
  Ranking <- OneAnswer
  SignalPoint <- Nowhere
INVARIANTS OkIsQuiet
CHECK_DEADLOCK FALSE
