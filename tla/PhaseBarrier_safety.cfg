SPECIFICATION Spec
CONSTANTS
  w = w
  child = child
  outsider = outsider
  Phase <- MCPhase
  Expected <- MCExpected
  Process <- MCProcess
  Confined <- MCConfined
  Programs <- MCPrograms
  Intervals <- MCIntervals
  PinController = TRUE
  StopMayFail = FALSE
CHECK_DEADLOCK FALSE
INVARIANTS TypeOK SnapshotsAreExact VerifiedMeansMeasured NoOomWhileMeasured DiskMatchesOutcome NothingLeftBehind
PROPERTIES NoWorkDuringCapture ImplementsMeasuredRun
