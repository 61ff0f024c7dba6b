SPECIFICATION Spec
CONSTANTS
  NumSlots = 4
  Threads = {t1}
  Buffers = {b1}
  NoBuffer = NoBuffer
  Apis = {"EGL"}
  Calls = {"connect", "setMaxDequeuedBufferCount"}
  ConsumerIsSurfaceFlinger = FALSE
  MaxFrames = 1
  MaxCount = 2
  MaxConnects = 1
  Configs <- AnyConsumer
  Limits = {1, 2, 3}
CHECK_DEADLOCK FALSE
INVARIANTS
  AllocatedSlotsMatchLimit
