SPECIFICATION ReadersSpec
CONSTANTS
  a = a
  b = b
  c = c
  Queries = 2
  Warmup = 1
  Rounds = 1
  K = 2
  Lifecycle <- MCLifecycle
  Line <- MCLine
  Row <- MCRow
  Id <- MCId
  Distance <- MCDistance
  Expected <- MCExpected
  NativeLine <- MCNativeLine
  Access <- MCAccess
  DiagnosticWarmup = 1
  DiagnosticRounds = 2
  MaxWork = 1
INVARIANTS AcceptedIsComplete RejectedIsDeviating AcceptedIsMeasurement CountersAreExact
CHECK_DEADLOCK FALSE
