SPECIFICATION Spec
CONSTANTS
  r1 = r1
  r2 = r2
  cp310 = cp310
  cp312 = cp312
  p1 = p1
  p2 = p2
  None = None
  Run <- MCRun
  Scenarios <- MCScenarios
  Runtime <- MCRuntime
  SmokeRuntime <- cp312
  Payload <- MCPayload
SYMMETRY Symmetry
INVARIANTS PypiHoldsOneBuild SuccessIsComplete ArtifactsBelongTogether PartialPromotionIsRetryable
PROPERTIES ImplementsStagedRelease RevalidatedRetriesAreIdentical
CHECK_DEADLOCK FALSE
