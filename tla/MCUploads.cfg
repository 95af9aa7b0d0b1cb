SPECIFICATION UploadsSpec
CONSTANTS
  b1 = b1
  b2 = b2
  b3 = b3
  circle = circle
  ring = ring
  NoBuffer = NoBuffer
  Buffer <- MCBuffer
  Size <- MCSize
  Mesh <- MCMesh
  kAlignment = 2
  kMinBufferSize = 3
  MaxSequence = 5
SYMMETRY Symmetry
INVARIANTS
  RegionsInUseAreSound
  StagingBuffersAccountedFor
  VerticesArriveBeforeDraw
  BuildKeepsOrder
CHECK_DEADLOCK FALSE
