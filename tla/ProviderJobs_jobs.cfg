SPECIFICATION Spec
CONSTANTS
  cp310 = cp310
  cp312 = cp312
  p1 = p1
  p2 = p2
  None = None
  Torn = Torn
  Payload <- MCPayload
  Runtimes <- MCRuntimes
  Requests <- MCRequests
  MaxTries = 2
  MaxEdits = 2
  MaxReruns = 2
SYMMETRY Symmetry
INVARIANTS KeysErased BuildIsComplete
PROPERTIES FinishedStands ImplementsArtifactChain
CHECK_DEADLOCK FALSE
