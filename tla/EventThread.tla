---------------------------- MODULE EventThread ----------------------------
(***************************************************************************)
(* services/surfaceflinger/Scheduler/EventThread.cpp: the thread that      *)
(* passes vsync and hotplug events to the connections of applications.     *)
(* mMutex is held over each action; while the thread is at "looping" it    *)
(* keeps the mutex from one round of its loop to the next.                 *)
(***************************************************************************)
EXTENDS VSyncDispatchTimerQueue, Sequences

CONSTANTS
  Connections,   \* EventThreadConnections
  AppTiming,     \* mWorkDuration and mReadyDuration: a set of choices
  HotplugEvents, \* the hotplug events of the display: "connect", "disconnect"
  MaxEvents      \* bound: no hotplug is received when so many events wait

ASSUME AppTimingAssumption ==
  AppTiming # {} /\ AppTiming \subseteq Timing /\ IsFiniteSet(AppTiming)

\* None stands for no event and for no mVSyncState, too.
ASSUME NoEventAssumption ==
  None \notin HotplugEvents \cup {"connect", "vsync"} \cup [synthetic : BOOLEAN]

VARIABLES
  thread,                    \* where threadMain is
  mState,                    \* EventThread::mState
  mVSyncState,               \* None, or whether vsyncs are synthetic
  mPendingEvents,
  mDisplayEventConnections,
  closed,                    \* connections whose receiver closed the pipe
  vsyncRequest,              \* per connection
  mVsyncRegistration,        \* the token, and mLastVsyncCallbackTime
  exchange,                  \* onNewVsyncSchedule: how far it is, the old token
  vsyncDropped,              \* the vsync awaited was pending when it began
  unanswered,                \* connections with a request and no event posted since
  aborted                    \* LOG_FATAL_IF(!mVSyncState)

etVars == <<thread, mState, mVSyncState, mPendingEvents, mDisplayEventConnections,
            closed, vsyncRequest, mVsyncRegistration, exchange, vsyncDropped,
            unanswered, aborted>>

Requests == {"None", "Single", "SingleSuppressCallback", "Periodic"}

\* The display that was found at boot is about to be announced.
EventThreadInit(token) ==
  /\ thread = "awake"
  /\ mState = "Idle"
  /\ mVSyncState = None
  /\ mPendingEvents = <<"connect">>
  /\ mDisplayEventConnections = Connections
  /\ closed = {}
  /\ vsyncRequest = [c \in Connections |-> "None"]
  /\ mVsyncRegistration =
       [token |-> token,
        timing |-> CHOOSE t \in AppTiming : \A u \in AppTiming : Lead(t) <= Lead(u)]
  /\ exchange = [pc |-> "none", token |-> None]
  /\ vsyncDropped = FALSE
  /\ unanswered = {}
  /\ aborted = FALSE

\* Mutant of MutexFree: the old registration is destroyed with the mutex held.
MutexFreeAfterExchange == thread # "looping" /\ exchange.pc = "none" /\ ~aborted

\* Nobody keeps mMutex from one step to the next.
MutexFree ==
  thread # "looping" /\ exchange.pc \notin {"reschedule", "register"} /\ ~aborted

\* mCondition.notify_all
Notified == IF thread \in {"waiting", "timedWait"} THEN "awake" ELSE thread

(***************************************************************************)
(* Calls of other threads.                                                 *)
(***************************************************************************)
\* Mutant of requestNextVsync: nobody is notified.
requestQuietly(c) ==
  /\ MutexFree
  /\ vsyncRequest[c] \in {"None", "SingleSuppressCallback"}
  /\ vsyncRequest' = [vsyncRequest EXCEPT ![c] = "Single"]
  /\ unanswered' = unanswered \cup {c}
  /\ UNCHANGED <<dispatchVars, thread, mState, mVSyncState, mPendingEvents,
                 mDisplayEventConnections, closed, mVsyncRegistration, exchange,
                 vsyncDropped, aborted>>

requestNextVsync(c) ==
  /\ MutexFree
  /\ vsyncRequest[c] \in {"None", "SingleSuppressCallback"}
  /\ thread' = IF vsyncRequest[c] = "None" THEN Notified ELSE thread
  /\ vsyncRequest' = [vsyncRequest EXCEPT ![c] = "Single"]
  /\ unanswered' = unanswered \cup {c}
  /\ UNCHANGED <<dispatchVars, mState, mVSyncState, mPendingEvents,
                 mDisplayEventConnections, closed, mVsyncRegistration, exchange,
                 vsyncDropped, aborted>>

setVsyncRate(c, request) ==
  /\ MutexFree
  /\ vsyncRequest[c] # request
  /\ thread' = Notified
  /\ vsyncRequest' = [vsyncRequest EXCEPT ![c] = request]
  /\ unanswered' = IF request = "None" THEN unanswered \ {c} ELSE unanswered \cup {c}
  /\ UNCHANGED <<dispatchVars, mState, mVSyncState, mPendingEvents,
                 mDisplayEventConnections, closed, mVsyncRegistration, exchange,
                 vsyncDropped, aborted>>

onHotplugReceived(event) ==
  /\ MutexFree
  /\ Len(mPendingEvents) < MaxEvents
  /\ mPendingEvents' = Append(mPendingEvents, event)
  /\ thread' = Notified
  /\ UNCHANGED <<dispatchVars, mState, mVSyncState, mDisplayEventConnections,
                 closed, vsyncRequest, mVsyncRegistration, exchange, vsyncDropped,
                 unanswered, aborted>>

enableSyntheticVsync(enable) ==
  /\ MutexFree
  /\ mVSyncState \notin {None, [synthetic |-> enable]}
  /\ mVSyncState' = [synthetic |-> enable]
  /\ thread' = Notified
  /\ UNCHANGED <<dispatchVars, mState, mPendingEvents, mDisplayEventConnections,
                 closed, vsyncRequest, mVsyncRegistration, exchange, vsyncDropped,
                 unanswered, aborted>>

EventThreadSetDuration(timing) ==
  /\ MutexFree
  /\ LET new == [timing EXCEPT !.earliestVsync =
                   mVsyncRegistration.timing.earliestVsync]
     IN /\ dispatch' = update(dispatch, mVsyncRegistration.token, new)
        /\ mVsyncRegistration' = [mVsyncRegistration EXCEPT !.timing = new]
  /\ UNCHANGED <<timer, mRunning, vsyncPhase, thread, mState, mVSyncState, mPendingEvents,
                 mDisplayEventConnections, closed, vsyncRequest, exchange, vsyncDropped,
                 unanswered, aborted>>

\* The receiver of a connection goes away.
ClosePipe(c) ==
  /\ ~aborted
  /\ c \notin closed
  /\ closed' = closed \cup {c}
  /\ UNCHANGED <<dispatchVars, thread, mState, mVSyncState, mPendingEvents,
                 mDisplayEventConnections, vsyncRequest, mVsyncRegistration, exchange,
                 vsyncDropped, unanswered, aborted>>

\* onVsync, on the timer thread.
onVsync ==
  /\ MutexFree
  /\ \E i \in RunningInvocations :
       /\ i.name = "app"
       /\ mVsyncRegistration' = [mVsyncRegistration EXCEPT !.timing.earliestVsync = i.vsync]
       /\ EndCallback(i)
  /\ aborted' = (mVSyncState = None)
  /\ mPendingEvents' = Append(mPendingEvents, "vsync")
  /\ thread' = Notified
  /\ UNCHANGED <<dispatch, vsyncPhase, mState, mVSyncState, mDisplayEventConnections,
                 closed, vsyncRequest, exchange, vsyncDropped, unanswered>>

(***************************************************************************)
(* onNewVsyncSchedule, in the steps of MessageQueue::onNewVsyncSchedule:   *)
(* cancel and exchange the registration with mMutex held, then destroy the *)
(* old one.                                                                *)
(***************************************************************************)
CancelRegistration ==
  /\ MutexFree
  /\ exchange.pc = "none"
  /\ dispatch.mCallbackToken + 1 \in Tokens
  /\ dispatch' = cancel(dispatch, mVsyncRegistration.token)
  /\ exchange' =
       [pc |-> IF CancelResult(dispatch, mVsyncRegistration.token) = "Cancelled"
               THEN "reschedule" ELSE "register",
        token |-> mVsyncRegistration.token]
  /\ vsyncDropped' = (vsyncDropped \/ Pending(mVsyncRegistration.token))
  /\ UNCHANGED <<timer, mRunning, vsyncPhase, thread, mState, mVSyncState, mPendingEvents,
                 mDisplayEventConnections, closed, vsyncRequest, mVsyncRegistration,
                 unanswered, aborted>>

ExchangeRegistration ==
  LET registered == registerCallback(dispatch, "app")
      token == registered.mCallbackToken
  IN /\ exchange.pc \in {"reschedule", "register"}
     /\ dispatch' = IF exchange.pc = "reschedule"
                    THEN schedule(registered, token, mVsyncRegistration.timing)
                    ELSE registered
     /\ mVsyncRegistration' = [mVsyncRegistration EXCEPT !.token = token]
     /\ exchange' = [exchange EXCEPT !.pc = "unregister"]
     /\ UNCHANGED <<timer, mRunning, vsyncPhase, thread, mState, mVSyncState,
                    mPendingEvents, mDisplayEventConnections, closed, vsyncRequest,
                    vsyncDropped, unanswered, aborted>>

UnregisterReplaced ==
  /\ exchange.pc = "unregister"
  /\ dispatch' = Unregistered(dispatch, exchange.token)
  /\ exchange' = [exchange EXCEPT !.pc = "ensureNotRunning"]
  /\ UNCHANGED <<timer, mRunning, vsyncPhase, thread, mState, mVSyncState, mPendingEvents,
                 mDisplayEventConnections, closed, vsyncRequest, mVsyncRegistration,
                 vsyncDropped, unanswered, aborted>>

EnsureReplacedNotRunning ==
  /\ exchange.pc = "ensureNotRunning"
  /\ exchange.token \notin mRunning
  /\ exchange' = [pc |-> "none", token |-> None]
  /\ UNCHANGED <<dispatchVars, thread, mState, mVSyncState, mPendingEvents,
                 mDisplayEventConnections, closed, vsyncRequest, mVsyncRegistration,
                 vsyncDropped, unanswered, aborted>>

(***************************************************************************)
(* One round of threadMain.                                                *)
(***************************************************************************)
VSyncStateAfter(event) ==
  CASE event = "connect" /\ mVSyncState = None -> [synthetic |-> FALSE]
    [] event = "disconnect" -> None
    [] OTHER -> mVSyncState

\* shouldConsumeEvent: what it answers and what it makes of the request.  A vsync
\* may be throttled: out of phase with the frame rate of a connection that has
\* asked for it.
Consumers(event) ==
  {c \in mDisplayEventConnections :
     IF event = "vsync" THEN vsyncRequest[c] \in {"Single", "Periodic"} ELSE event # None}

CanThrottle ==
  IF mPendingEvents # << >> /\ Head(mPendingEvents) = "vsync" THEN Consumers("vsync")
  ELSE {}

\* Mutant of RequestAfter: a single request is done with whoever consumes the event.
DoneAfter(event, request) ==
  IF event # None /\ request # "Periodic" THEN "None" ELSE request

RequestAfter(event, request) ==
  CASE event = "vsync" /\ request = "Single" -> "SingleSuppressCallback"
    [] event = "vsync" /\ request = "SingleSuppressCallback" -> "None"
    [] OTHER -> request

StateFor(vsyncState, requested) ==
  CASE vsyncState = None \/ ~requested -> "Idle"
    [] vsyncState # None /\ requested -> IF vsyncState.synthetic THEN "SyntheticVSync"
                                         ELSE "VSync"

\* The connections dispatchEvent leaves: postEvent fails with EPIPE on a closed pipe,
\* and the connection is removed. An event that finds the pipe full (EAGAIN) is not
\* posted again, and counts as answered here.
dispatchEvent(consumers) == mDisplayEventConnections \ (consumers \cap closed)

threadMain(throttled) ==
  /\ thread = "looping" \/ (thread = "awake" /\ MutexFree)
  /\ ~aborted
  /\ LET event == IF mPendingEvents = << >> THEN None ELSE Head(mPendingEvents)
         consumers == Consumers(event) \ throttled
         requests == [c \in Connections |->
                        IF c \in mDisplayEventConnections \ throttled
                        THEN RequestAfter(event, vsyncRequest[c]) ELSE vsyncRequest[c]]
         requested == \E c \in mDisplayEventConnections : requests[c] # "None"
         state == StateFor(VSyncStateAfter(event), requested)
     IN /\ mPendingEvents' = IF event = None THEN << >> ELSE Tail(mPendingEvents)
        /\ mVSyncState' = VSyncStateAfter(event)
        /\ vsyncRequest' = requests
        /\ mDisplayEventConnections' = dispatchEvent(consumers)
        /\ unanswered' = IF event = "vsync" THEN unanswered \ consumers ELSE unanswered
        /\ mState' = state
        /\ dispatch' = IF state = "VSync"
                       THEN schedule(dispatch, mVsyncRegistration.token,
                                     mVsyncRegistration.timing)
                       ELSE cancel(dispatch, mVsyncRegistration.token)
        /\ thread' = IF Len(mPendingEvents) > 1 THEN "looping"
                     ELSE IF state = "Idle" THEN "waiting" ELSE "timedWait"
  /\ vsyncDropped' = FALSE
  /\ UNCHANGED <<timer, mRunning, vsyncPhase, closed, mVsyncRegistration, exchange,
                 aborted>>

\* wait_for returns a timeout: a vsync is faked.
FakeVsync ==
  /\ thread = "timedWait" /\ MutexFree
  /\ mPendingEvents' = Append(mPendingEvents, "vsync")
  /\ thread' = "looping"
  /\ UNCHANGED <<dispatchVars, mState, mVSyncState, mDisplayEventConnections, closed,
                 vsyncRequest, mVsyncRegistration, exchange, vsyncDropped, unanswered,
                 aborted>>

EventThreadTick ==
  /\ ~aborted
  /\ mVsyncRegistration' = [mVsyncRegistration EXCEPT !.timing =
                              EarlierTiming(mVsyncRegistration.timing)]
  /\ UNCHANGED <<thread, mState, mVSyncState, mPendingEvents, mDisplayEventConnections,
                 closed, vsyncRequest, exchange, vsyncDropped, unanswered, aborted>>
=============================================================================
