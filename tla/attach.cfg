SPECIFICATION Spec
CONSTANTS
  NumSlots = 4
  Threads = {t1}
  Buffers = {b1, b2, b3, b4}
  NoBuffer = NoBuffer
  Apis = {"EGL"}
  Calls = {"connect", "dequeueBuffer", "queueBuffer", "acquireBuffer", "releaseBuffer", "detachBuffer", "consumerDetachBuffer", "consumerAttachBuffer", "expectedPresent", "setAsyncMode", "setAllowExtraAcquire", "discardFreeBuffers"}
  ConsumerIsSurfaceFlinger = FALSE
  MaxFrames = 2
  MaxCount = 2
  MaxConnects = 1
  Configs <- TwoDequeued
  Limits = {1, 2}
SYMMETRY BufferSymmetry
CHECK_DEADLOCK FALSE
INVARIANTS
  SlotInvariant
  QueueMatchesSlots
  FramesInOrder
  AsyncHasFreeSlot
