SPECIFICATION FairSpec
CONSTANTS
  Tokens = {own, sync, other}
  OwnToken = own
  SyncToken = sync
  OtherToken = other
  None = None
  Layers = {"app", "other"}
  LayerOf <- TwoLayers
  BlastLayer = "app"
  LateFrames = {2}
  TimedFrameNumbers = {3}
  LateFences <- LateBuffers
  TimedFrames <- TimedBuffers
  mMaxAcquiredBuffers = 1
  MaxDequeuedBuffers = 4
  currentMaxAcquiredBufferCount = 1
  MaxFrames = 5
  MaxCalls = 2
  OddSized = {5}
CHECK_DEADLOCK FALSE
INVARIANTS
  TypeOK
  ReleasedNotInUse
  LayerFramesInOrder
  SyncedFramesOut
  PendingHasCommit
  InductiveInvariant
PROPERTIES
  UnsignaledAlone
  EverythingDelivered
