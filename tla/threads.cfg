SPECIFICATION FairSpec
CONSTANTS
  NumSlots = 2
  Threads = {t1, t2}
  Buffers = {b1, b2, b3}
  NoBuffer = NoBuffer
  Apis = {"EGL"}
  Calls = {"connect", "dequeueBuffer", "queueBuffer", "acquireBuffer", "releaseBuffer", "attachBuffer", "allocateBuffers", "detachNextBuffer", "disconnect", "cancelBuffer"}
  ConsumerIsSurfaceFlinger = FALSE
  MaxFrames = 2
  MaxCount = 2
  MaxConnects = 1
  Configs <- Plain
  Limits = {1, 2}
CHECK_DEADLOCK FALSE
INVARIANTS
  NoLostWakeup
PROPERTIES
  WaitingThreadReturns
  QueueBufferReturns
