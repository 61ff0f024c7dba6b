---------------------------- MODULE MessageQueue ----------------------------
(***************************************************************************)
(* services/surfaceflinger/Scheduler/MessageQueue.cpp: the client of the   *)
(* vsync dispatch that turns a request for a frame into a message for      *)
(* SurfaceFlinger's main thread.  mVsync.mutex is held over each action    *)
(* except where onNewVsyncSchedule is in the middle of its work.           *)
(***************************************************************************)
EXTENDS VSyncDispatchTimerQueue

CONSTANT WorkDurations   \* the durations setDuration is called with

ASSUME WorkDurationsAssumption ==
  WorkDurations # {} /\ WorkDurations \subseteq Nat /\ IsFiniteSet(WorkDurations)

VARIABLES
  mVsync,            \* MessageQueue::mVsync, locked: held by onNewVsyncSchedule
  oldRegistration,   \* the registration being destroyed, and how far it is
  mHandler,          \* MessageQueue::Handler and the looper's queue
  frameRequested,    \* a scheduleFrame not yet followed by onFrameSignal
  frameDropped       \* its timing was pending when the registration was replaced

mqVars == <<mVsync, oldRegistration, mHandler, frameRequested, frameDropped>>

\* After initVsync.
MessageQueueInit(token, work) ==
  /\ mVsync = [registration |-> token, workDuration |-> work, lastCallbackTime |-> 0,
               scheduledFrameTime |-> FALSE, locked |-> FALSE]
  /\ oldRegistration = [pc |-> "none", token |-> None]
  /\ mHandler = [mFramePending |-> FALSE, messages |-> 0, handling |-> FALSE]
  /\ frameRequested = FALSE
  /\ frameDropped = FALSE

SfTiming(work) ==
  [workDuration |-> work, readyDuration |-> 0, earliestVsync |-> mVsync.lastCallbackTime]

scheduleFrame ==
  /\ ~mVsync.locked
  /\ dispatch' = schedule(dispatch, mVsync.registration, SfTiming(mVsync.workDuration))
  /\ mVsync' = [mVsync EXCEPT !.scheduledFrameTime = TRUE]
  /\ frameRequested' = TRUE
  /\ frameDropped' = FALSE
  /\ UNCHANGED <<timer, mRunning, vsyncPhase, oldRegistration, mHandler>>

\* update does nothing, and returns nothing, when the callback is not armed.
setDuration(work) ==
  /\ ~mVsync.locked
  /\ dispatch' = update(dispatch, mVsync.registration, SfTiming(work))
  /\ mVsync' = [mVsync EXCEPT !.workDuration = work,
                  !.scheduledFrameTime =
                      Armed(dispatch.mCallbacks[mVsync.registration])]
  /\ UNCHANGED <<timer, mRunning, vsyncPhase, oldRegistration, mHandler,
                 frameRequested, frameDropped>>

(***************************************************************************)
(* onNewVsyncSchedule: with the mutex held the old registration is         *)
(* cancelled, then a new one is made and, if the old one was armed,        *)
(* scheduled; the old one is destroyed after the mutex is released, which  *)
(* waits for a callback that is running.  The dispatch it is given is the  *)
(* one that is modelled.                                                   *)
(***************************************************************************)
CancelOldRegistration ==
  /\ ~mVsync.locked
  /\ oldRegistration.pc = "none"
  /\ dispatch.mCallbackToken + 1 \in Tokens
  /\ dispatch' = cancel(dispatch, mVsync.registration)
  /\ oldRegistration' =
       [pc |-> IF CancelResult(dispatch, mVsync.registration) = "Cancelled"
               THEN "reschedule" ELSE "register",
        token |-> mVsync.registration]
  /\ mVsync' = [mVsync EXCEPT !.locked = TRUE]
  /\ frameDropped' = (frameDropped \/ Pending(mVsync.registration))
  /\ UNCHANGED <<timer, mRunning, vsyncPhase, mHandler, frameRequested>>

MakeRegistration ==
  LET registered == registerCallback(dispatch, "sf")
      token == registered.mCallbackToken
      rescheduled == oldRegistration.pc = "reschedule"
  IN /\ oldRegistration.pc \in {"reschedule", "register"}
     /\ dispatch' = IF rescheduled
                    THEN schedule(registered, token, SfTiming(mVsync.workDuration))
                    ELSE registered
     /\ mVsync' = [mVsync EXCEPT !.registration = token, !.locked = FALSE,
                     !.scheduledFrameTime = rescheduled \/ mVsync.scheduledFrameTime]
     /\ oldRegistration' = [oldRegistration EXCEPT !.pc = "unregister"]
     /\ UNCHANGED <<timer, mRunning, vsyncPhase, mHandler, frameRequested, frameDropped>>

UnregisterOld ==
  /\ oldRegistration.pc = "unregister"
  /\ dispatch' = Unregistered(dispatch, oldRegistration.token)
  /\ oldRegistration' = [oldRegistration EXCEPT !.pc = "ensureNotRunning"]
  /\ UNCHANGED <<timer, mRunning, vsyncPhase, mVsync, mHandler, frameRequested, frameDropped>>

EnsureNotRunning ==
  /\ oldRegistration.pc = "ensureNotRunning"
  /\ oldRegistration.token \notin mRunning
  /\ oldRegistration' = [pc |-> "none", token |-> None]
  /\ UNCHANGED <<dispatchVars, mVsync, mHandler, frameRequested, frameDropped>>

(***************************************************************************)
(* vsyncCallback, on the timer thread, and the message it sends.           *)
(***************************************************************************)
\* Mutant of DispatchFrame: mFramePending is not looked at.
DispatchEveryFrame(h) == [h EXCEPT !.mFramePending = TRUE, !.messages = h.messages + 1]

\* A frame that is pending already is not sent twice.
DispatchFrame(h) ==
  IF h.mFramePending THEN h
  ELSE [h EXCEPT !.mFramePending = TRUE, !.messages = h.messages + 1]

\* Mutant of vsyncCallback: scheduledFrameTime is not reset.
vsyncCallbackKeepsTime ==
  /\ ~mVsync.locked
  /\ \E i \in RunningInvocations :
       /\ i.name = "sf"
       /\ mVsync' = [mVsync EXCEPT !.lastCallbackTime = i.vsync]
       /\ EndCallback(i)
  /\ mHandler' = DispatchFrame(mHandler)
  /\ UNCHANGED <<dispatch, vsyncPhase, oldRegistration, frameRequested, frameDropped>>

vsyncCallback ==
  /\ ~mVsync.locked
  /\ \E i \in RunningInvocations :
       /\ i.name = "sf"
       /\ mVsync' = [mVsync EXCEPT !.lastCallbackTime = i.vsync,
                                   !.scheduledFrameTime = FALSE]
       /\ EndCallback(i)
  /\ mHandler' = DispatchFrame(mHandler)
  /\ UNCHANGED <<dispatch, vsyncPhase, oldRegistration, frameRequested, frameDropped>>

\* Handler::handleMessage clears the flag before it calls the compositor.
HandleMessage ==
  /\ mHandler.messages > 0
  /\ ~mHandler.handling
  /\ mHandler' = [mFramePending |-> FALSE, messages |-> mHandler.messages - 1,
                  handling |-> TRUE]
  /\ UNCHANGED <<dispatchVars, mVsync, oldRegistration, frameRequested, frameDropped>>

\* commit and composite.  A commit that returns early asks for another frame, a call
\* of scheduleFrame like any other.
onFrameSignal ==
  /\ mHandler.handling
  /\ mHandler' = [mHandler EXCEPT !.handling = FALSE]
  /\ frameRequested' = FALSE
  /\ UNCHANGED <<dispatchVars, mVsync, oldRegistration, frameDropped>>

MessageQueueTick ==
  /\ mVsync' = [mVsync EXCEPT !.lastCallbackTime = EarlierDownTo0(mVsync.lastCallbackTime)]
  /\ UNCHANGED <<oldRegistration, mHandler, frameRequested, frameDropped>>
=============================================================================
