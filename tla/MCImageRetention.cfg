SPECIFICATION StorageSpec
CONSTANTS
  Mem = {s1, s2, s3, m}
  None = None
  Words = 4
  SlabSize = {3}
  Request = {1, 2}
  BufferOffset = {1}
  m = m
  s1 = s1 s2 = s2 s3 = s3
  u1 = u1 u2 = u2 i1 = i1
  h1 = h1 h2 = h2 w1 = w1
  DescriptorSet = {s1, s2, s3}
  UniformBuffer = {u1, u2}
  CachedImage = {i1}
  initial_capacity = 1
  kBufferBatchSize = 1
  Count = {1}
  Handle = {h1, h2}
  Wrapper = {w1}
  MaxSequence = 2
SYMMETRY Symmetry
INVARIANTS
  ImagesAreRetained
CHECK_DEADLOCK FALSE
