SPECIFICATION Spec
CONSTANTS
  r1 = r1
  r2 = r2
  cp310 = cp310
  cp312 = cp312
  p1 = p1
  p2 = p2
  None = None
  Run <- MCRun
  Scenarios <- MCFailedJobs
  Runtime <- MCRuntime
  SmokeRuntime <- cp312
  Payload <- MCPayload
SYMMETRY Symmetry
PROPERTIES RetriedOnlyWithIdenticalBytes
CHECK_DEADLOCK FALSE
