--------------------------- MODULE SurfaceFlinger ---------------------------
(***************************************************************************)
(* How SurfaceFlinger takes the buffers of its clients' transactions        *)
(* (services/surfaceflinger/SurfaceFlinger.cpp, Layer.cpp,                  *)
(* TransactionCallbackInvoker.cpp).  A binder thread queues a transaction   *)
(* and then sets eTransactionFlushNeeded.  The main thread, once per        *)
(* scheduled commit, clears the flag, flushes the transactions its filters  *)
(* find ready, applies and latches them, and tells the clients which        *)
(* buffers were committed, presented and released.                          *)
(*                                                                          *)
(* The front end modelled is the one with mLayerLifecycleManagerEnabled and *)
(* without mLegacyFrontEndEnabled.  One layer, BlastLayer, is fed by a      *)
(* BLASTBufferQueue; it has eEnableBackpressure and its client listens.     *)
(* Other layers get single simple buffer updates and have no listener.      *)
(***************************************************************************)
EXTENDS TransactionHandler, FiniteSetsExt

VARIABLES mTransactionFlags,  \* eTransactionFlushNeeded is set
          settingFlags,       \* tokens whose thread queued, flag not set yet
          commitScheduled,    \* scheduleCommit asked for a commit
          mainThread,         \* "idle", "commit", "flush" or "latched"
          background,         \* what BackgroundExecutor still has to send
          inbox,              \* one-way calls to the listener, in order
          outOfOrder          \* "Out of order buffers detected" was logged

surfaceFlingerVars ==
    <<handlerVars, mTransactionFlags, settingFlags, commitScheduled,
      mainThread, layers, unsignaled, early, background, inbox, outOfOrder>>

\* A layer: the buffer of mDrawingState, the one mBufferInfo holds, the
\* newest frame it was given, the frame mPreviousReleaseCallbackId names and
\* the callback handles of the transactions applied since the last present.
NewLayer == [frameNumber             |-> 0,
             bufferInfo              |-> 0,
             barrierFrameNumber      |-> 0,
             previousReleaseCallback |-> 0,
             callbackHandles         |-> <<>>]

SurfaceFlingerInit ==
    /\ TransactionHandlerInit
    /\ mTransactionFlags = FALSE /\ settingFlags = {}
    /\ commitScheduled = FALSE /\ mainThread = "idle"
    /\ layers = [l \in Layers |-> NewLayer]
    /\ unsignaled = LateFences /\ early = TimedFrames
    /\ background = <<>> /\ inbox = <<>>
    /\ outOfOrder = FALSE

-----------------------------------------------------------------------------
(* Binder threads: setTransactionState.                                     *)

\* The transactions of one token come one after the other.
QueueTransactionState(t) ==
    /\ t.token \notin settingFlags
    /\ queueTransaction(t)
    /\ settingFlags' = settingFlags \cup {t.token}

\* fetch_or on the flags; only the first one schedules a commit.
setTransactionFlags ==
    /\ mTransactionFlags' = TRUE
    /\ commitScheduled' = (commitScheduled \/ ~mTransactionFlags)

SetFlushNeeded(k) ==
    /\ k \in settingFlags
    /\ settingFlags' = settingFlags \ {k}
    /\ setTransactionFlags
    /\ UNCHANGED <<handlerVars, mainThread, layers, unsignaled, early,
                   background, inbox, outOfOrder>>

-----------------------------------------------------------------------------
(* A layer takes a buffer.                                                  *)

Call(kind, frame) == [kind |-> kind, frame |-> frame]

\* setBuffer before the latch: the buffer it replaces was never latched.
Dropped(layer) ==
    layer.frameNumber # 0 /\ layer.frameNumber # layer.bufferInfo

\* setBuffer and setTransactionCompletedListeners.
setBuffer(layer, t) ==
    LET handle == [frame                 |-> t.frame,
                   releasePreviousBuffer |-> layer.frameNumber # 0,
                   callbacks             |-> t.callbacks,
                   commits               |-> t.commits]
    IN [layer EXCEPT !.frameNumber = t.frame,
                     !.barrierFrameNumber = Max({@, t.frame}),
                     !.callbackHandles =
                         IF t.callbacks = 0 THEN @ ELSE Append(@, handle)]

\* One transaction of applyTransactions.  a.released are the calls of
\* callReleaseBufferCallback, which go straight to the listener.
ApplyTransaction(a, t) ==
    LET l     == LayerOf[t.token]
        layer == a.layers[l]
    IN [layers     |-> [a.layers EXCEPT ![l] = setBuffer(layer, t)],
        released   |-> IF Dropped(layer) /\ l = BlastLayer
                       THEN Append(a.released,
                                   Call("release", layer.frameNumber))
                       ELSE a.released,
        outOfOrder |-> a.outOfOrder \/ layer.frameNumber > t.frame]

\* latchBufferImpl, updateTexImage and gatherBufferInfo.
latchBuffer(layer) ==
    IF layer.frameNumber = layer.bufferInfo THEN layer
    ELSE [layer EXCEPT !.previousReleaseCallback = layer.bufferInfo,
                       !.bufferInfo = layer.frameNumber]

-----------------------------------------------------------------------------
(* The main thread.                                                         *)

\* The main thread takes up a commit that setTransactionFlags scheduled.
Commit ==
    /\ mainThread = "idle" /\ commitScheduled
    /\ commitScheduled' = FALSE
    /\ mainThread' = "commit"
    /\ UNCHANGED <<handlerVars, mTransactionFlags, settingFlags, layers,
                   unsignaled, early, background, inbox, outOfOrder>>

\* Mutant of SkipCommit: no other commit is asked for.
SkipForGood ==
    /\ mainThread = "commit"
    /\ mainThread' = "idle"
    /\ UNCHANGED <<handlerVars, mTransactionFlags, settingFlags,
                   commitScheduled, layers, unsignaled, early, background,
                   inbox, outOfOrder>>

\* A mode set or the last frame is still on its way to the display: commit
\* returns at once, for another try at the next vsync.
SkipCommit ==
    /\ mainThread = "commit"
    /\ mainThread' = "idle"
    /\ commitScheduled' = TRUE
    /\ UNCHANGED <<handlerVars, mTransactionFlags, settingFlags, layers,
                   unsignaled, early, background, inbox, outOfOrder>>

\* Without the flag the commit leaves the queues alone.
clearTransactionFlags ==
    /\ mainThread = "commit"
    /\ mainThread' = IF mTransactionFlags THEN "flush" ELSE "latched"
    /\ mTransactionFlags' = FALSE
    /\ UNCHANGED <<handlerVars, settingFlags, commitScheduled, layers,
                   unsignaled, early, background, inbox, outOfOrder>>

\* The flush and the latch.  The map of queues is unordered.
updateLayerSnapshots ==
    /\ mainThread = "flush"
    /\ \E order \in Orders({k \in Tokens : Collected[k] # <<>>}),
          configEarly \in BOOLEAN :
          LET flush   == flushTransactions(Collected, order, configEarly)
              applied == Fold(ApplyTransaction,
                              [layers     |-> layers,
                               released   |-> <<>>,
                               outOfOrder |-> outOfOrder],
                              flush.transactions)
          IN /\ mPendingTransactionQueues' = flush.queues
             /\ layers' = [l \in Layers |-> latchBuffer(applied.layers[l])]
             /\ inbox' = inbox \o applied.released
             /\ outOfOrder' = applied.outOfOrder
    /\ mLocklessTransactionQueue' = <<>>
    /\ mainThread' = "latched"
    /\ UNCHANGED <<mTransactionFlags, settingFlags, commitScheduled,
                   unsignaled, early, background>>

\* The calls that the handles of a layer come to at the client: the
\* on-commit callbacks, sent first, then the on-complete ones.  The first
\* handle that replaced a buffer also releases the previous one.
Repeat(call, n) == [i \in 1 .. n |-> call]

CommitCalls(handles) ==
    Fold(LAMBDA calls, h :
             calls \o Repeat(Call("commit", h.frame), h.commits),
         <<>>, handles)

releasePendingBuffer(layer) ==
    LET handles == layer.callbackHandles
        First(i) ==
            /\ handles[i].releasePreviousBuffer
            /\ \A j \in 1 .. i - 1 : ~handles[j].releasePreviousBuffer
        Calls(i) ==
            (IF First(i) /\ layer.previousReleaseCallback # 0
             THEN <<Call("release", layer.previousReleaseCallback)>>
             ELSE <<>>)
            \o Repeat(Call("complete", handles[i].frame),
                      handles[i].callbacks)
    IN Fold(LAMBDA calls, i : calls \o Calls(i), <<>>,
            [i \in DOMAIN handles |-> i])

\* sendCallbacks: one task for BackgroundExecutor, none for no calls.
sendCallbacks(tasks, calls) ==
    IF calls = <<>> THEN tasks ELSE Append(tasks, calls)

\* Mutant of ResetFlushNeeded: the flag is set and no commit scheduled.
SetFlushNeededOnly ==
    /\ mTransactionFlags' = (mTransactionFlags \/ hasPendingTransactions)
    /\ UNCHANGED commitScheduled

\* What is still pending needs another flush.
ResetFlushNeeded ==
    IF hasPendingTransactions
    THEN setTransactionFlags
    ELSE UNCHANGED <<mTransactionFlags, commitScheduled>>

\* The end of commit, then composite: what lies between them is private to
\* the main thread.
FinishCommit ==
    LET layer   == layers[BlastLayer]
        commits == CommitCalls(layer.callbackHandles)
        stats   == releasePendingBuffer(layer)
    IN /\ mainThread = "latched"
       /\ ResetFlushNeeded
       /\ background' = sendCallbacks(sendCallbacks(background, commits),
                                      stats)
       /\ layers' = [l \in Layers |->
                        [layers[l] EXCEPT !.callbackHandles = <<>>]]
       /\ mainThread' = "idle"
       /\ UNCHANGED <<handlerVars, settingFlags, unsignaled, early, inbox,
                      outOfOrder>>

-----------------------------------------------------------------------------
(* BackgroundExecutor, the GPU and the clock.                               *)

SendInBackground ==
    /\ background # <<>>
    /\ inbox' = inbox \o Head(background)
    /\ background' = Tail(background)
    /\ UNCHANGED <<handlerVars, mTransactionFlags, settingFlags,
                   commitScheduled, mainThread, layers, unsignaled, early,
                   outOfOrder>>

\* Fences and times matter once the transaction waits in a queue: whatever
\* comes before that can as well come right after.
Waits(buffer) ==
    \E t \in Range(mLocklessTransactionQueue)
          \cup UNION {Range(mPendingTransactionQueues[k]) : k \in Tokens} :
       Buffer(t) = buffer

FenceSignals(buffer) ==
    /\ buffer \in unsignaled /\ Waits(buffer)
    /\ unsignaled' = unsignaled \ {buffer}
    /\ UNCHANGED <<handlerVars, mTransactionFlags, settingFlags,
                   commitScheduled, mainThread, layers, early, background,
                   inbox, outOfOrder>>

PresentTimeComes(buffer) ==
    /\ buffer \in early /\ Waits(buffer)
    /\ early' = early \ {buffer}
    /\ UNCHANGED <<handlerVars, mTransactionFlags, settingFlags,
                   commitScheduled, mainThread, layers, unsignaled,
                   background, inbox, outOfOrder>>
=============================================================================
