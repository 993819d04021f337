SPECIFICATION Spec
CONSTANTS
  MaxReplaced = 2
  None = None
  Torn = Torn
INVARIANT LayersMeasureTheSource
CHECK_DEADLOCK FALSE
