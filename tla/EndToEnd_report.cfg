SPECIFICATION Spec
CONSTANTS
  Recall <- MCRecall
  Tolerance <- MCTolerance
  Probe <- MCProbe
  Minimum = 1
  Queries = 2
  MaxTries = 2
  MaxRebuilds = 1
  None = None
  Torn = Torn
INVARIANTS OkIsComparable OkAnswersParity LastingDamageIsSeen FailureIsRecorded
PROPERTIES SavedStands
CHECK_DEADLOCK FALSE
