---------------------- MODULE VSyncDispatchTimerQueue ----------------------
(***************************************************************************)
(* services/surfaceflinger/Scheduler: VSyncDispatchTimerQueue, the Timer   *)
(* it sets and the thread that runs its callbacks.                         *)
(*                                                                         *)
(* Every time is relative to the present: it is the code's time minus      *)
(* now(), so that now() is 0 and Tick lets one unit pass by subtracting    *)
(* one from every time that is kept.  The clock therefore never runs out   *)
(* and needs no bound.  mMutex is held over each operator that takes a     *)
(* dispatch d, so an operation of the queue is one step.                   *)
(***************************************************************************)
EXTENDS Integers, FiniteSets, Functions

CONSTANTS
  None,              \* an empty std::optional
  Tokens,            \* CallbackToken: 1..n, handed out in order
  Period,            \* the predicted distance of two vsyncs
  TimerSlack,        \* mTimerSlack
  MinVsyncDistance,  \* mMinVsyncDistance
  DontSkipOnEarly,   \* FlagManager::dont_skip_on_early
  kInvalidTime,      \* the largest nsecs_t
  MaxLate            \* bound: how late the timer thread may run

ASSUME DispatchAssumption ==
  /\ IsFiniteSet(Tokens) /\ Tokens = 1..Cardinality(Tokens)
  /\ Period \in Nat \ {0} /\ TimerSlack \in Nat
  /\ MinVsyncDistance \in 0..Period
  /\ DontSkipOnEarly \in BOOLEAN
  /\ MaxLate \in Nat /\ kInvalidTime \in Nat

VARIABLES
  dispatch,     \* the VSyncDispatchTimerQueue and the timer it has set
  timer,        \* the thread of Timer::threadMain
  mRunning,     \* the entries whose callback is executing
  vsyncPhase    \* the tracker: the next predicted vsync, in 1..Period

dispatchVars == <<dispatch, timer, mRunning, vsyncPhase>>

max(a, b) == IF a > b THEN a ELSE b
min(a, b) == IF a < b THEN a ELSE b

(***************************************************************************)
(* Data.                                                                   *)
(***************************************************************************)
Timing == [workDuration : Nat, readyDuration : Nat, earliestVsync : Nat]

Lead(timing) == timing.workDuration + timing.readyDuration

ArmingInfo == [wakeup : Int, vsync : Int]

ASSUME NoneAssumption == None \notin Int \cup Timing \cup ArmingInfo

NewEntry(name) ==
  [mName |-> name, mScheduleTiming |-> None, mArmedInfo |-> None,
   mLastDispatchTime |-> None, mWorkloadUpdateInfo |-> None]

Armed(e) == e.mArmedInfo # None

HasPendingWorkloadUpdate(e) == e.mWorkloadUpdateInfo # None

\* Scheduled while the timer thread was about to run: not armed yet, so that
\* cancel answers TooLate.
Pending(token) ==
  LET e == dispatch.mCallbacks[token] IN ~Armed(e) /\ HasPendingWorkloadUpdate(e)

NewDispatch ==
  [mCallbacks |-> << >>, mCallbackToken |-> 0, mIntendedWakeupTime |-> kInvalidTime,
   alarm |-> None, mCallback |-> FALSE]

(***************************************************************************)
(* VSyncPredictor::nextAnticipatedVSyncTimeFrom: the first predicted vsync *)
(* after t.  The division rounds down and adds a period, so a vsync at t   *)
(* itself is not returned.                                                 *)
(***************************************************************************)
nextAnticipatedVSyncTimeFrom(t) ==
  vsyncPhase + ((t - vsyncPhase) \div Period + 1) * Period

(***************************************************************************)
(* VSyncDispatchTimerQueueEntry.                                           *)
(***************************************************************************)
\* Mutant of adjustVsyncIfNeeded: the last dispatch is not looked at.
vsyncAsIs(e, vsync) == vsync

\* Mutant of adjustVsyncIfNeeded: however late the vsync is, it has to be a period
\* after the last dispatch.
vsyncPeriodLater(e, vsync) ==
  IF e.mLastDispatchTime = None THEN vsync
  ELSE nextAnticipatedVSyncTimeFrom(max(e.mLastDispatchTime, vsync) + Period)

\* A vsync the entry was dispatched for already, or one too close to it, is
\* skipped.
adjustVsyncIfNeeded(e, vsync) ==
  LET last == e.mLastDispatchTime IN
  IF last = None THEN vsync
  ELSE IF last + MinVsyncDistance >= vsync /\ last - MinVsyncDistance <= vsync
       THEN nextAnticipatedVSyncTimeFrom(last + MinVsyncDistance)
  ELSE IF vsync - last + MinVsyncDistance <= Period
       THEN nextAnticipatedVSyncTimeFrom(last + Period)
  ELSE vsync

NextVsync(timing) ==
  nextAnticipatedVSyncTimeFrom(max(timing.earliestVsync, Lead(timing)))

WouldSkipVsync(e, vsync) ==
  Armed(e) /\ vsync > e.mArmedInfo.vsync + MinVsyncDistance

WouldSkipWakeup(e, wakeup) ==
  Armed(e) /\ wakeup > e.mArmedInfo.wakeup + MinVsyncDistance

Rearmed(e, timing, vsync, wakeup) ==
  [e EXCEPT !.mScheduleTiming = timing,
            !.mArmedInfo = [wakeup |-> wakeup, vsync |-> vsync]]

EntrySchedule(e, timing) ==
  LET next == NextVsync(timing)
      skipsVsync == WouldSkipVsync(e, next)
      skipsWakeup == WouldSkipWakeup(e, next - Lead(timing))
      vsync == IF DontSkipOnEarly /\ (skipsVsync \/ skipsWakeup)
               THEN e.mArmedInfo.vsync
               ELSE adjustVsyncIfNeeded(e, next)
      wakeup == vsync - Lead(timing)
  IN IF DontSkipOnEarly THEN Rearmed(e, timing, vsync, max(0, wakeup))
     ELSE IF skipsVsync /\ skipsWakeup THEN e
     ELSE Rearmed(e, timing, vsync, wakeup)

EntryUpdate(e) ==
  LET timing == IF HasPendingWorkloadUpdate(e) THEN e.mWorkloadUpdateInfo
                ELSE e.mScheduleTiming
      vsync == adjustVsyncIfNeeded(e, NextVsync(timing))
  IN IF ~Armed(e) /\ ~HasPendingWorkloadUpdate(e) THEN e
     ELSE [Rearmed(e, timing, vsync, vsync - Lead(timing))
             EXCEPT !.mWorkloadUpdateInfo = None]

\* The timing of an entry that is not armed is never read.
Disarm(e) == [e EXCEPT !.mArmedInfo = None, !.mScheduleTiming = None]

Executing(e) == Disarm([e EXCEPT !.mLastDispatchTime = e.mArmedInfo.vsync])

(***************************************************************************)
(* VSyncDispatchTimerQueue, with mMutex held.                              *)
(***************************************************************************)
cancelTimer(d) ==
  [d EXCEPT !.mIntendedWakeupTime = kInvalidTime, !.alarm = None, !.mCallback = FALSE]

setTimer(d, target) ==
  [d EXCEPT !.mIntendedWakeupTime = target, !.alarm = target, !.mCallback = TRUE]

\* Every armed or pending entry but those of skip is updated; the timer is set
\* to the earliest wakeup.
rearmTimerSkippingUpdateFor(d, skip) ==
  LET cbs == [t \in DOMAIN d.mCallbacks |->
                IF t \in skip THEN d.mCallbacks[t] ELSE EntryUpdate(d.mCallbacks[t])]
      wakeups == {cbs[t].mArmedInfo.wakeup : t \in {u \in DOMAIN cbs : Armed(cbs[u])}}
      updated == [d EXCEPT !.mCallbacks = cbs]
  IN IF \E w \in wakeups : w < d.mIntendedWakeupTime
     THEN setTimer(updated, CHOOSE w \in wakeups : \A v \in wakeups : w <= v)
     ELSE cancelTimer(updated)

rearmTimer(d) == rearmTimerSkippingUpdateFor(d, {})

registerCallback(d, name) ==
  LET token == d.mCallbackToken + 1
  IN [d EXCEPT !.mCallbackToken = token,
               !.mCallbacks = [t \in DOMAIN d.mCallbacks \cup {token} |->
                                 IF t = token THEN NewEntry(name) ELSE d.mCallbacks[t]]]

\* The part of unregisterCallback under mMutex; ensureNotRunning follows.
Unregistered(d, token) ==
  [d EXCEPT !.mCallbacks = Restrict(d.mCallbacks, DOMAIN d.mCallbacks \ {token})]

\* Mutant of RearmImminent: the comparison is the wrong way round.
RearmDistant(d) == 0 < d.mIntendedWakeupTime

RearmImminent(d) == 0 > d.mIntendedWakeupTime

\* scheduleLocked and schedule.  When the timer thread is about to run, the new
\* timing waits for it in the entry.
schedule(d, token, timing) ==
  LET e == d.mCallbacks[token]
      scheduled == EntrySchedule(e, timing)
      d2 == [d EXCEPT !.mCallbacks[token] = scheduled]
  IN IF token \notin DOMAIN d.mCallbacks THEN d
     ELSE IF RearmImminent(d)
          THEN [d EXCEPT !.mCallbacks[token].mWorkloadUpdateInfo = timing]
     ELSE IF scheduled.mArmedInfo.wakeup < d.mIntendedWakeupTime - TimerSlack
          THEN rearmTimerSkippingUpdateFor(d2, {token})
     ELSE d2

update(d, token, timing) ==
  IF token \in DOMAIN d.mCallbacks /\ Armed(d.mCallbacks[token])
  THEN schedule(d, token, timing) ELSE d

CancelResult(d, token) ==
  IF token \notin DOMAIN d.mCallbacks THEN "Error"
  ELSE IF Armed(d.mCallbacks[token]) THEN "Cancelled" ELSE "TooLate"

\* Mutant of cancel: the timer is not set for the other callbacks.
cancelAll(d, token) ==
  LET d2 == [d EXCEPT !.mCallbacks[token] = Disarm(d.mCallbacks[token])]
  IN IF CancelResult(d, token) # "Cancelled" THEN d
     ELSE IF d.mCallbacks[token].mArmedInfo.wakeup = d.mIntendedWakeupTime
          THEN cancelTimer(d2)
     ELSE d2

cancel(d, token) ==
  LET d2 == [d EXCEPT !.mCallbacks[token] = Disarm(d.mCallbacks[token])]
  IN IF CancelResult(d, token) # "Cancelled" THEN d
     ELSE IF d.mCallbacks[token].mArmedInfo.wakeup = d.mIntendedWakeupTime
          THEN rearmTimer([d2 EXCEPT !.mIntendedWakeupTime = kInvalidTime])
     ELSE d2

(***************************************************************************)
(* Timer::dispatch, reset and timerCallback, on the timer thread.          *)
(***************************************************************************)
\* epoll_wait reports the timer.
AlarmExpires ==
  /\ timer.pc = "waiting"
  /\ dispatch.alarm # None
  /\ dispatch.alarm <= 0
  /\ timer' = [timer EXCEPT !.pc = "expired"]
  /\ UNCHANGED <<dispatch, mRunning, vsyncPhase>>

\* The thread reads the timer, which rearms it, and takes mCallback, unless the
\* alarm was cancelled since it expired.
TakeCallback ==
  /\ timer.pc = "expired"
  /\ timer' = [timer EXCEPT !.pc = IF dispatch.mCallback THEN "callback" ELSE "waiting"]
  /\ dispatch' = [dispatch EXCEPT !.alarm =
                    IF dispatch.alarm # None /\ dispatch.alarm <= 0 THEN None
                    ELSE dispatch.alarm]
  /\ UNCHANGED <<mRunning, vsyncPhase>>

\* Mutant of reset: the callback is not saved before cleanup.
resetOnly ==
  /\ timer.pc = "waiting"
  /\ dispatch' = [dispatch EXCEPT !.alarm = None, !.mCallback = FALSE]
  /\ UNCHANGED <<timer, mRunning, vsyncPhase>>

\* epoll_wait fails, and the thread makes a new timer.  The alarm is lost with the
\* old one; the callback that was expected is run at once.  While the thread waits
\* mExpectingCallback says that there is an mCallback.
reset ==
  /\ timer.pc = "waiting"
  /\ timer' = [timer EXCEPT !.pc = IF dispatch.mCallback THEN "callback" ELSE "waiting"]
  /\ dispatch' = [dispatch EXCEPT !.alarm = None, !.mCallback = FALSE]
  /\ UNCHANGED <<mRunning, vsyncPhase>>

\* The wakeups up to TimerSlack after the intended one, or after now() when the
\* thread is late.
Due(d, e) ==
  Armed(e) /\ e.mArmedInfo.wakeup < max(d.mIntendedWakeupTime, 0) + TimerSlack

DueTokens(d) == {t \in DOMAIN d.mCallbacks : Due(d, d.mCallbacks[t])}

Executed(d) ==
  [d EXCEPT !.mCallbacks = [t \in DOMAIN d.mCallbacks |->
                              IF t \in DueTokens(d) THEN Executing(d.mCallbacks[t])
                              ELSE d.mCallbacks[t]],
            !.mIntendedWakeupTime = kInvalidTime]

timerCallback ==
  /\ timer.pc = "callback"
  /\ dispatch' = rearmTimer(Executed(dispatch))
  /\ timer' = [pc |-> IF DueTokens(dispatch) = {} THEN "waiting" ELSE "invoking",
               invocations |->
                 {[token |-> t, name |-> dispatch.mCallbacks[t].mName,
                   vsync |-> max(0, dispatch.mCallbacks[t].mArmedInfo.vsync)] :
                      t \in DueTokens(dispatch)}]
  /\ UNCHANGED <<mRunning, vsyncPhase>>

\* The entry marks itself as running; then its callback waits for the lock of
\* the client.  The order of the invocations is that of an unordered map.
BeginCallback ==
  /\ timer.pc = "invoking"
  /\ mRunning = {}
  /\ \E i \in timer.invocations : mRunning' = {i.token}
  /\ UNCHANGED <<dispatch, timer, vsyncPhase>>

RunningInvocations == {i \in timer.invocations : i.token \in mRunning}

\* The end of VSyncDispatchTimerQueueEntry::callback, after the client's code.
EndCallback(i) ==
  /\ mRunning' = {}
  /\ timer' = [pc |-> IF timer.invocations = {i} THEN "waiting" ELSE "invoking",
               invocations |-> timer.invocations \ {i}]

(***************************************************************************)
(* Time and the tracker.                                                   *)
(***************************************************************************)
Earlier(t) == IF t = None THEN None ELSE t - 1

\* Times that can only be compared with later ones stop at 0.
EarlierDownTo0(t) == max(0, t - 1)

EarlierTiming(timing) ==
  IF timing = None THEN None
  ELSE [timing EXCEPT !.earliestVsync = EarlierDownTo0(timing.earliestVsync)]

\* A dispatch time of a period ago has no effect on adjustVsyncIfNeeded any
\* more, and is forgotten.
EarlierDispatch(t) == IF t = None \/ t - 1 <= -Period THEN None ELSE t - 1

EarlierEntry(e) ==
  [e EXCEPT !.mScheduleTiming = EarlierTiming(e.mScheduleTiming),
            !.mWorkloadUpdateInfo = EarlierTiming(e.mWorkloadUpdateInfo),
            !.mLastDispatchTime = EarlierDispatch(e.mLastDispatchTime),
            !.mArmedInfo = IF Armed(e)
                           THEN [wakeup |-> e.mArmedInfo.wakeup - 1,
                                 vsync |-> e.mArmedInfo.vsync - 1]
                           ELSE None]

DispatchTick ==
  /\ dispatch.mIntendedWakeupTime > -MaxLate
  /\ dispatch' = [dispatch EXCEPT
       !.mCallbacks = [t \in DOMAIN dispatch.mCallbacks |->
                         EarlierEntry(dispatch.mCallbacks[t])],
       !.mIntendedWakeupTime = IF dispatch.mIntendedWakeupTime = kInvalidTime
                               THEN kInvalidTime
                               ELSE dispatch.mIntendedWakeupTime - 1,
       !.alarm = Earlier(dispatch.alarm)]
  /\ timer' = [timer EXCEPT !.invocations =
                 {[i EXCEPT !.vsync = EarlierDownTo0(i.vsync)] : i \in timer.invocations}]
  /\ vsyncPhase' = IF vsyncPhase = 1 THEN Period ELSE vsyncPhase - 1
  /\ UNCHANGED mRunning

\* The tracker changes its prediction.
Resync ==
  /\ \E p \in 1..Period : vsyncPhase' = p
  /\ UNCHANGED <<dispatch, timer, mRunning>>
=============================================================================
