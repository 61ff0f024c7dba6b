SPECIFICATION FairSpec
CONSTANTS
  None = None
  Tokens = {1, 2, 3, 4}
  Period = 4
  TimerSlack = 1
  MinVsyncDistance = 1
  DontSkipOnEarly = FALSE
  kInvalidTime = 1000
  MaxLate = 1
  WorkDurations = {1, 2}
  Connections = {c1}
  AppTiming <- AppTimings
  HotplugEvents = {"connect", "disconnect"}
  MaxEvents = 1
  MaxCalls = 3
CHECK_DEADLOCK FALSE
INVARIANTS
  TypeOK
  WakeupsCovered
  WakeupsInTime
  NoVsyncSkipped
  OncePerVsync
  NoRequestSleeps
  ScheduledFrameComes
PROPERTIES
  FrameRequestServed
  ExchangeEnds
  RequestAnswered
