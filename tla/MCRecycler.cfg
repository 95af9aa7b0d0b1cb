SPECIFICATION FewResourcesSpec
CONSTANTS
  early = early
  late = late
  mesh = mesh
  buffer = buffer
  image = image
  Recycler <- MCRecycler
  Resource <- MCResource
  owner <- MCOwner
  MaxSequence = 2
INVARIANTS
  UsedIsNotRecycled
  NothingLeaksOrOutstays
PROPERTIES
  DeferredIsRecycled
