SPECIFICATION Spec
CONSTANTS
  NumSlots = 2
  Threads = {t1}
  Buffers = {b1, b2}
  NoBuffer = NoBuffer
  Apis = {"EGL"}
  Calls = {"connect", "dequeueBuffer", "allocationFails"}
  ConsumerIsSurfaceFlinger = FALSE
  MaxFrames = 1
  MaxCount = 2
  MaxConnects = 1
  Configs <- Plain
  Limits = {1, 2}
CHECK_DEADLOCK FALSE
INVARIANTS
  ListsPartitionSlots
