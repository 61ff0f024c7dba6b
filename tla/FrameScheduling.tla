--------------------------- MODULE FrameScheduling ---------------------------
(***************************************************************************)
(* The vsync dispatch with its two kinds of clients: the MessageQueue of   *)
(* SurfaceFlinger's main thread ("sf") and an EventThread ("app").  The    *)
(* threads are the timer thread, the main thread, the event thread and     *)
(* any number of callers.                                                  *)
(***************************************************************************)
EXTENDS MessageQueue, EventThread

CONSTANT MaxCalls   \* bound: calls from outside, stalls, failures, changed predictions

ASSUME SchedulingAssumption == MaxCalls \in Nat /\ {1, 2} \subseteq Tokens

VARIABLE calls      \* how many there were

vars == <<dispatchVars, mqVars, etVars, calls>>

Init ==
  /\ dispatch = registerCallback(registerCallback(NewDispatch, "sf"), "app")
  /\ timer = [pc |-> "waiting", invocations |-> {}]
  /\ mRunning = {}
  /\ vsyncPhase = Period
  /\ MessageQueueInit(1, CHOOSE w \in WorkDurations : \A v \in WorkDurations : w <= v)
  /\ EventThreadInit(2)
  /\ calls = 0

\* A step of the dispatch, of the MessageQueue or of the EventThread alone.
OnDispatch == UNCHANGED <<mqVars, etVars, calls>>
OnQueue == UNCHANGED <<etVars, calls>>
OnThread == UNCHANGED <<mqVars, calls>>

\* A call from outside, counted.
Called == calls < MaxCalls /\ calls' = calls + 1
SfCalled == Called /\ ~aborted /\ UNCHANGED etVars
AppCalled == Called /\ UNCHANGED mqVars

Tick == UNCHANGED calls /\ EventThreadTick /\ MessageQueueTick /\ DispatchTick
TimerExpires == ~aborted /\ AlarmExpires /\ OnDispatch
TimerTakesCallback == ~aborted /\ TakeCallback /\ OnDispatch
TimerCallback == ~aborted /\ timerCallback /\ OnDispatch
TimerBeginsCallback == ~aborted /\ BeginCallback /\ OnDispatch
SfCallback == ~aborted /\ vsyncCallback /\ OnQueue
AppCallback == onVsync /\ OnThread

MainHandlesMessage == ~aborted /\ HandleMessage /\ OnQueue
MainSignalsFrame == ~aborted /\ onFrameSignal /\ OnQueue

ThreadRound == threadMain({}) /\ OnThread
ThrottledRound ==
  \E throttled \in SUBSET CanThrottle \ {{}} : threadMain(throttled) /\ AppCalled
SyntheticVsync == mState = "SyntheticVSync" /\ FakeVsync /\ OnThread
StalledVsync == mState = "VSync" /\ ~vsyncDropped /\ FakeVsync /\ AppCalled
DroppedVsync == mState = "VSync" /\ vsyncDropped /\ FakeVsync /\ OnThread

\* Scheduler::applyNewVsyncSchedule: first the MessageQueue exchanges its
\* registration, then the EventThread does; until then the token of the
\* MessageQueue is the newer one.
AppIsNext ==
  oldRegistration.pc = "none" /\ mVsync.registration > mVsyncRegistration.token

OnNewVsyncSchedule ==
  ~AppIsNext /\ exchange.pc = "none" /\ CancelOldRegistration /\ SfCalled
RegistrationMade == ~aborted /\ MakeRegistration /\ OnQueue
OldUnregistered == ~aborted /\ UnregisterOld /\ OnQueue
OldNotRunning == ~aborted /\ EnsureNotRunning /\ OnQueue
AppOnNewVsyncSchedule == AppIsNext /\ CancelRegistration /\ OnThread
AppRegistrationMade == ~aborted /\ ExchangeRegistration /\ OnThread
AppOldUnregistered == ~aborted /\ UnregisterReplaced /\ OnThread
AppOldNotRunning == ~aborted /\ EnsureReplacedNotRunning /\ OnThread

FrameScheduled == scheduleFrame /\ SfCalled
DurationSet == \E w \in WorkDurations : setDuration(w) /\ SfCalled
VsyncRequested == \E c \in Connections : requestNextVsync(c) /\ AppCalled
VsyncRateSet ==
  \E c \in Connections, r \in {"None", "Periodic"} : setVsyncRate(c, r) /\ AppCalled
HotplugReceived == \E event \in HotplugEvents : onHotplugReceived(event) /\ AppCalled
SyntheticEnabled == \E enable \in BOOLEAN : enableSyntheticVsync(enable) /\ AppCalled
AppDurationSet == \E timing \in AppTiming : EventThreadSetDuration(timing) /\ AppCalled
PipeClosed == \E c \in Connections : ClosePipe(c) /\ AppCalled
Resynced == Resync /\ SfCalled /\ UNCHANGED mqVars
TimerReset == reset /\ SfCalled /\ UNCHANGED mqVars

TimerThread ==
  \/ TimerExpires \/ TimerTakesCallback \/ TimerCallback \/ TimerBeginsCallback
  \/ SfCallback \/ AppCallback

Next ==
  \/ Tick \/ TimerThread
  \/ MainHandlesMessage \/ MainSignalsFrame
  \/ OnNewVsyncSchedule \/ RegistrationMade \/ OldUnregistered \/ OldNotRunning
  \/ AppOnNewVsyncSchedule \/ AppRegistrationMade \/ AppOldUnregistered \/ AppOldNotRunning
  \/ ThreadRound \/ ThrottledRound \/ SyntheticVsync \/ StalledVsync \/ DroppedVsync
  \/ FrameScheduled \/ DurationSet
  \/ VsyncRequested \/ VsyncRateSet \/ HotplugReceived \/ SyntheticEnabled
  \/ AppDurationSet \/ PipeClosed \/ Resynced \/ TimerReset

Spec == Init /\ [][Next]_vars

(***************************************************************************)
(* Fairness.  Time passes, and every thread that has something to do is    *)
(* run, a call of applyNewVsyncSchedule that has begun included; the timer *)
(* thread, which waits for a mutex in the middle of its callbacks that     *)
(* others take again and again, gets it (strong fairness: it takes one     *)
(* step at a time).  Nothing is assumed about other callers, nor about the *)
(* one-second timeout of the event thread unless nothing else is to come.  *)
(* For each actor CanStep is when it can take a step and Steps are its     *)
(* steps.                                                                  *)
(***************************************************************************)
TimeCanPass == ~aborted /\ dispatch.mIntendedWakeupTime > -MaxLate
TimePasses == vsyncPhase' # vsyncPhase /\ calls' = calls

TimerThreadCanStep ==
  /\ ~aborted
  /\ \/ timer.pc \in {"expired", "callback"}
     \/ timer.pc = "waiting" /\ dispatch.alarm # None /\ dispatch.alarm <= 0
     \/ timer.pc = "invoking" /\ mRunning = {}
     \/ \E i \in RunningInvocations :
          IF i.name = "sf" THEN ~mVsync.locked ELSE MutexFree
TimerThreadSteps ==
  vsyncPhase' = vsyncPhase /\ (timer' # timer \/ mRunning' # mRunning)

MainThreadCanStep == ~aborted /\ (mHandler.handling \/ mHandler.messages > 0)
MainThreadSteps == mHandler'.handling # mHandler.handling

CanExchange(old) ==
  /\ ~aborted
  /\ old.pc # "none"
  /\ old.pc = "ensureNotRunning" => old.token \notin mRunning
ScheduleCanStep ==
  \/ CanExchange(oldRegistration) \/ CanExchange(exchange)
  \/ AppIsNext /\ exchange.pc = "none" /\ MutexFree
ScheduleSteps ==
  \/ oldRegistration.pc # "none" /\ oldRegistration' # oldRegistration
  \/ exchange' # exchange

\* The timeout is the only way on: synthetic vsyncs, or the vsync was dropped.
TimeoutDue == thread = "timedWait" /\ (mState = "SyntheticVSync" \/ vsyncDropped)

EventThreadCanStep ==
  \/ thread = "looping" /\ ~aborted
  \/ thread = "awake" /\ MutexFree
  \/ TimeoutDue /\ MutexFree
EventThreadSteps ==
  \/ thread = "awake" /\ thread' # "awake"
  \/ thread = "looping" /\ mPendingEvents' # mPendingEvents
  \/ TimeoutDue /\ thread' = "looping"

FairSpec ==
  /\ Spec
  /\ []<>~TimeCanPass \/ []<><<TimePasses>>_vars
  /\ <>[]~TimerThreadCanStep \/ []<><<TimerThreadSteps>>_vars
  /\ []<>~MainThreadCanStep \/ []<><<MainThreadSteps>>_vars
  /\ []<>~ScheduleCanStep \/ []<><<ScheduleSteps>>_vars
  /\ []<>~EventThreadCanStep \/ []<><<EventThreadSteps>>_vars

(***************************************************************************)
(* Properties.                                                             *)
(***************************************************************************)
Optional(S) == S \cup {None}

Clients == {"sf", "app"}

Entries == [mName : Clients, mScheduleTiming : Optional(Timing),
            mArmedInfo : Optional(ArmingInfo), mLastDispatchTime : Optional(Int),
            mWorkloadUpdateInfo : Optional(Timing)]

Dispatches(tokens) ==
  [mCallbacks : [tokens -> Entries], mCallbackToken : Tokens, mIntendedWakeupTime : Int,
   alarm : Optional(Int), mCallback : BOOLEAN]

Invocations == [token : Tokens, name : Clients, vsync : Nat]

Exchanges == [pc : {"none", "reschedule", "register", "unregister", "ensureNotRunning"},
              token : Optional(Tokens)]

DispatchTypeOK ==
  /\ DOMAIN dispatch.mCallbacks \subseteq Tokens
  /\ dispatch \in Dispatches(DOMAIN dispatch.mCallbacks)
  /\ timer \in [pc : {"waiting", "expired", "callback", "invoking"},
                invocations : SUBSET Invocations]
  /\ mRunning \subseteq Tokens
  /\ vsyncPhase \in 1..Period

MessageQueueTypeOK ==
  /\ mVsync \in [registration : Tokens, workDuration : WorkDurations,
                 lastCallbackTime : Nat, scheduledFrameTime : BOOLEAN, locked : BOOLEAN]
  /\ oldRegistration \in Exchanges
  /\ mHandler \in [mFramePending : BOOLEAN, messages : 0..1, handling : BOOLEAN]
  /\ frameRequested \in BOOLEAN /\ frameDropped \in BOOLEAN

EventThreadTypeOK ==
  /\ thread \in {"awake", "looping", "waiting", "timedWait"}
  /\ mState \in {"Idle", "SyntheticVSync", "VSync"}
  /\ mVSyncState \in Optional([synthetic : BOOLEAN])
  /\ mPendingEvents \in Seq(HotplugEvents \cup {"connect", "vsync"})
  /\ mDisplayEventConnections \subseteq Connections
  /\ closed \subseteq Connections /\ unanswered \subseteq Connections
  /\ vsyncRequest \in [Connections -> Requests]
  /\ mVsyncRegistration \in [token : Tokens, timing : Timing]
  /\ exchange \in Exchanges
  /\ vsyncDropped \in BOOLEAN /\ aborted \in BOOLEAN

\* Types of the variables.  The registrations both clients hold are registered,
\* and at most one message waits in the looper (Handler::dispatchFrame).
TypeOK ==
  /\ DispatchTypeOK /\ MessageQueueTypeOK /\ EventThreadTypeOK
  /\ calls \in 0..MaxCalls
  /\ {mVsync.registration, mVsyncRegistration.token} \subseteq DOMAIN dispatch.mCallbacks

TimerThreadComing == timer.pc \in {"expired", "callback"}

\* No callback is forgotten: the timer is intended for a time no later than any
\* wakeup plus the slack, whatever was scheduled, cancelled or unregistered
\* meanwhile; while it is intended the alarm is set for that time or the timer
\* thread is on its way, also when the timer had to be made anew; and new timings
\* only wait in an entry while it is (scheduleLocked, cancel, timerCallback,
\* rearmTimerSkippingUpdateFor, Timer::reset).  It also keeps timerCallback from
\* adding the slack to kInvalidTime.
WakeupsCovered ==
  LET d == dispatch IN
  /\ \A t \in DOMAIN d.mCallbacks :
       /\ Armed(d.mCallbacks[t]) =>
            d.mIntendedWakeupTime <= d.mCallbacks[t].mArmedInfo.wakeup + TimerSlack
       /\ HasPendingWorkloadUpdate(d.mCallbacks[t]) =>
            d.mIntendedWakeupTime # kInvalidTime
  /\ d.mIntendedWakeupTime # kInvalidTime =>
       d.alarm = d.mIntendedWakeupTime \/ TimerThreadComing

\* The first time for which an entry may be armed: its timing has to fit in, and
\* another period to have passed since its last dispatch.
MayBeArmedFrom(timing, lastDispatchTime) ==
  LET fits == max(timing.earliestVsync, Lead(timing)) IN
  IF lastDispatchTime = None THEN fits ELSE max(fits, lastDispatchTime + Period)

\* No vsync is skipped that need not be: a callback is armed for a vsync at most one
\* period after the first time at which it may be, however often it was scheduled,
\* updated or dispatched early, and however the predictions moved
\* (adjustVsyncIfNeeded, schedule, update).  With dont_skip_on_early the entry keeps
\* a later vsync it was armed for when its timing shortens.
NoVsyncSkipped ==
  ~DontSkipOnEarly =>
    \A t \in DOMAIN dispatch.mCallbacks :
      LET e == dispatch.mCallbacks[t] IN
      Armed(e) =>
        e.mArmedInfo.vsync <=
          MayBeArmedFrom(e.mScheduleTiming, e.mLastDispatchTime) + Period

\* No callback is late by more than the timer thread is, and the slack: its
\* wakeup is never further in the past, however often others were scheduled,
\* cancelled or moved in front of it (scheduleLocked,
\* rearmTimerSkippingUpdateFor, timerCallback).
WakeupsInTime ==
  \A t \in DOMAIN dispatch.mCallbacks :
    Armed(dispatch.mCallbacks[t]) =>
      dispatch.mCallbacks[t].mArmedInfo.wakeup >= -(MaxLate + TimerSlack)

\* A callback is dispatched once per vsync: an armed entry is armed for a vsync
\* more than MinVsyncDistance after the one it was last dispatched for, also
\* after the predictions changed (adjustVsyncIfNeeded).
OncePerVsync ==
  \A t \in DOMAIN dispatch.mCallbacks :
    LET e == dispatch.mCallbacks[t] IN
    Armed(e) /\ e.mLastDispatchTime # None =>
      e.mArmedInfo.vsync > e.mLastDispatchTime + MinVsyncDistance

\* A callback of the given client is on its way.
Coming(name) ==
  \/ \E t \in DOMAIN dispatch.mCallbacks :
       LET e == dispatch.mCallbacks[t] IN
       e.mName = name /\ (Armed(e) \/ HasPendingWorkloadUpdate(e))
  \/ \E i \in timer.invocations : i.name = name

\* The event thread does not sleep on a request: when it waits without a
\* timeout there is no display or nobody has a request, although requestNextVsync
\* does not always notify; and when it waits for a vsync of the display, that
\* callback is armed, pending, running or about to be rescheduled.  The exception
\* is a callback that was pending when onNewVsyncScheduleInternal cancelled it:
\* only the timeout of one second answers then.
NoRequestSleeps ==
  /\ thread = "waiting" =>
       mVSyncState = None \/ \A c \in mDisplayEventConnections : vsyncRequest[c] = "None"
  /\ thread = "timedWait" /\ mState = "VSync" =>
       Coming("app") \/ exchange.pc = "reschedule" \/ vsyncDropped

\* getScheduledFrameTime tells the truth: while scheduledFrameTime is set a
\* callback of the MessageQueue is on its way, on the old registration or on the
\* new one while onNewVsyncSchedule exchanges them.  The exception is a frame
\* whose timing was pending at that moment: onNewVsyncScheduleLocked takes
\* TooLate to mean that the callback was dispatched, and drops it.
ScheduledFrameComes ==
  mVsync.scheduledFrameTime =>
    Coming("sf") \/ oldRegistration.pc = "reschedule" \/ frameDropped

\* EventThread::onVsync finds a display: LOG_FATAL_IF(!mVSyncState) does not fire.
VsyncFindsDisplay == ~aborted

\* Every frame that is asked for is signalled to the compositor, whatever is
\* cancelled, rescheduled, resynced or replaced in between, unless its timing was
\* pending when the registration was replaced (scheduleFrame to onFrameSignal).
FrameRequestServed == frameRequested ~> (~frameRequested \/ frameDropped \/ aborted)

\* onNewVsyncSchedule returns: waiting for the callback of the registration it
\* destroys does not keep that callback from the mutex it needs, neither in the
\* MessageQueue nor in the EventThread ("until after releasing the mutex to avoid
\* deadlock").
ExchangeEnds ==
  /\ oldRegistration.pc # "none" ~> (oldRegistration.pc = "none" \/ aborted)
  /\ exchange.pc # "none" ~> (exchange.pc = "none" \/ aborted)

\* A connection that asked for a vsync is posted an event, unless the display
\* goes away or the connection does: no notification is lost between
\* requestNextVsync, onVsync, enableSyntheticVsync and the waits of threadMain.
RequestAnswered ==
  \A c \in Connections :
    (c \in unanswered /\ mVSyncState # None) ~>
      (c \notin unanswered \cap mDisplayEventConnections \/ mVSyncState = None \/ aborted)
=============================================================================
