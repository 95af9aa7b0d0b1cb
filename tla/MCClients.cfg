SPECIFICATION ClientsSpec
CONSTANTS
  Main = Main Transfer = Transfer
  b1 = b1 b2 = b2
  Buffer <- MCBuffer
  MaxSequence = 3
  early = early late = late
  Listener <- MCListener
  MaxNumber = 5
  MaxSubdivisions = 2
  Radii = {0, 20, 30}
  Width = 40
  Height = 40
  Specs = {1, 2}
  Scripts <- MCScripts
  Points = {0, 96}
  Handles = {4}
  Touches = {0, 1}
  MaxPoints = 4
  MaxStrokes = 2
  MaxSpecs = 3
  Objects <- MCObjects
  NumVertices = {32, 63}
  MaxFrames = 2
  PhysicalDevices <- MCDevices
  MaxDevices = 2
INVARIANTS
  AnnouncedIsDone
  OnlyOwnUseOnGpu
  UsesEndOnce
  NothingLostOrHeldBack
  MeshIsSound
  
  PipelinesAreShared
  StrokesInUseExist
  DrawnAsSketched
  ReadersFindWhatWritersWrote
  WobbleIsDrawnComplete
  SubmissionsAreLegal
PROPERTIES
  ImplementsCommandBuffers
  EveryNumberAnnounced
  ImplementsCompletionOrder
  EveryNumberIsHeard
  AwaitedPipelinesAreMade
CHECK_DEADLOCK FALSE
