SPECIFICATION UploaderSpec
CONSTANTS
  b1 = b1
  b2 = b2
  b3 = b3
  NoBuffer = NoBuffer
  Buffer <- MCBuffer
  Size <- MCSize
  kAlignment = 2
  kMinBufferSize = 5
  MaxSequence = 4
SYMMETRY Symmetry
INVARIANTS
  SubmittedWriterIsNotRecording
