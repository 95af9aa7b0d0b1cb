SPECIFICATION FramesSpec
CONSTANTS
  o1 = o1 o2 = o2 o3 = o3 o4 = o4 o5 = o5
  kNone = kNone
  Pixel <- MCPixel
  Object <- MCObject
  Scenes <- MCScenes
  StencilSize = 4
  kBufferSize = 8
  kPerModelSize = 1
  kPerObjectSize = 3
  kAlignment = 4
  kSetsPerAllocation = 2
  Sizes <- MCSizes
  MaxFrames = 2
  Depths <- MCDepths
  kPoolSize = 2
  MaxBuffers = 2
  MaxTimestamps = 5
  ImageCount = 2
  FrameCount = 9
  Period = 1
  Keys = {"SPACE", "D", "P", "B", "T"}
  MaxDrawn = 3
  MaxPressed = 1
INVARIANTS
  ClippingIsExact
  ItemsDoNotShareData
  LayoutsAreHandedOn
  PassesReadWholeFrame
  UsedImagesAreThere
  LookupTableIsExact
  ProfileIsRight
  SemaphoresAlternate
  BenchmarkIsThrottled
  ShownFrameIsAsAskedFor
PROPERTIES
  DrawFrameReturns
CHECK_DEADLOCK FALSE
