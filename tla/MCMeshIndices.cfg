SPECIFICATION MeshSpec
CONSTANTS
  b1 = b1
  b2 = b2
  b3 = b3
  circle = circle
  NoBuffer = NoBuffer
  Buffer <- MCBuffer
  Size <- MCSize
  Mesh <- MCMesh
  kAlignment = 2
  kMinBufferSize = 3
  MaxSequence = 3
SYMMETRY Symmetry
INVARIANTS
  IndicesArriveBeforeDraw
CHECK_DEADLOCK FALSE
