SPECIFICATION Spec
CONSTANTS
  w = w
  child = child
  outsider = outsider
  Phase <- MCPhase
  Expected <- MCExpected
  Process <- MCProcess
  Confined <- MCConfined
  Programs <- MCPrograms
  Intervals <- MCIntervals
  PinController = TRUE
  StopMayFail = TRUE
CHECK_DEADLOCK FALSE
PROPERTIES Terminates RunsToItsEnd
