SPECIFICATION StrokesSpec
CONSTANTS
  Points = {0, 96}
  Handles = {4}
  Touches = {0}
  MaxPoints = 4
  MaxStrokes = 1
INVARIANT ThirdIsAtThirdOfLength
CHECK_DEADLOCK FALSE
