SPECIFICATION Spec
CONSTANTS
  Tokens = {own, sync}
  OwnToken = own
  SyncToken = sync
  OtherToken = other
  None = None
  Layers = {"app", "other"}
  LayerOf <- TwoLayers
  BlastLayer = "app"
  LateFrames = {}
  TimedFrameNumbers = {}
  LateFences <- LateBuffers
  TimedFrames <- TimedBuffers
  mMaxAcquiredBuffers = 2
  MaxDequeuedBuffers = 2
  currentMaxAcquiredBufferCount = 1
  MaxFrames = 3
  MaxCalls = 2
  OddSized = {}
CHECK_DEADLOCK FALSE
INVARIANT
  DroppedSyncsForgotten
