SPECIFICATION Spec
CONSTANTS
  HeapUnits = 13
  HeadUnits = 1
  BucketUnits = 2
  Requests <- MCRequests
INVARIANTS
  Coalesced
  RoomForBucket
  NothingLost
  AvailableExact
  MaxSizeExact
PROPERTY
  ImplementsHeap
