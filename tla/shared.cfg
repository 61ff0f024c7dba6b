SPECIFICATION Spec
CONSTANTS
  NumSlots = 2
  Threads = {t1}
  Buffers = {b1, b2, b3}
  NoBuffer = NoBuffer
  Apis = {"EGL"}
  Calls = {"connect", "dequeueBuffer", "queueBuffer", "acquireBuffer", "releaseBuffer", "disconnect", "resize", "binderDied", "setMaxBufferCount", "consumerConnect"}
  ConsumerIsSurfaceFlinger = FALSE
  MaxFrames = 2
  MaxCount = 2
  MaxConnects = 2
  Configs <- SharedAutoRefresh
  Limits = {1, 2}
SYMMETRY BufferSymmetry
CHECK_DEADLOCK FALSE
INVARIANTS
  ListsPartitionSlots
  SharedSlotStaysActive
