SPECIFICATION LoopSpec
CONSTANTS
  ImageCount = 2
  FrameCount = 9
  Period = 1
  Keys = {"B"}
  MaxDrawn = 1
  MaxPressed = 1
INVARIANTS
  PreviousFrameIsFinished
CHECK_DEADLOCK FALSE
