SPECIFICATION FairSpec
CONSTANTS
  graph = graph
  right = right
  wrong = wrong
  None = None
  Repeats = 1
  File <- OneFile
  Ranking <- Answers
  SignalPoint <- Everywhere
INVARIANTS OkIsComplete OkIsQuietIfSampled VerdictIsRecorded
PROPERTIES VerdictIsFinal EventuallyGone
CHECK_DEADLOCK FALSE
