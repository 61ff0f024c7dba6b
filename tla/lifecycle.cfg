SPECIFICATION Spec
CONSTANTS
  NumSlots = 3
  Threads = {t1}
  Buffers = {b1, b2, b3, b4}
  NoBuffer = NoBuffer
  Apis = {"EGL"}
  Calls = {"connect", "dequeueBuffer", "queueBuffer", "acquireBuffer", "releaseBuffer", "disconnect", "consumerDisconnect", "cancelBuffer", "expectedPresent", "resize", "allowAllocation"}
  ConsumerIsSurfaceFlinger = FALSE
  MaxFrames = 3
  MaxCount = 2
  MaxConnects = 2
  Configs <- SyncOrNot
  Limits = {1, 2}
SYMMETRY BufferSymmetry
CHECK_DEADLOCK FALSE
INVARIANTS
  TypeOK
  ListsMatchSlotStates
  ConsumerBufferIsAcquired
  AsyncHasFreeSlot
PROPERTIES
  ImplementsFrameStream
