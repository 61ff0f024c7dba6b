SPECIFICATION Spec
CONSTANTS
  NumSlots = 3
  Threads = {t1}
  Buffers = {b1, b2, b3}
  NoBuffer = NoBuffer
  Apis = {"EGL"}
  Calls = {"connect", "dequeueBuffer", "queueBuffer", "acquireBuffer", "releaseBuffer", "setMaxDequeuedBufferCount", "setMaxAcquiredBufferCount", "setAsyncMode", "setDequeueTimeout", "setSharedBufferMode", "badCrop"}
  ConsumerIsSurfaceFlinger = FALSE
  MaxFrames = 2
  MaxCount = 2
  MaxConnects = 1
  Configs <- Plain
  Limits = {1, 2}
SYMMETRY BufferSymmetry
CHECK_DEADLOCK FALSE
INVARIANTS
  AllocatedSlotsMatchLimit
  SharedSlotStaysActive
  ListsMatchSlotStates
