---------------------------- MODULE FrameDelivery ----------------------------
(***************************************************************************)
(* A client's frames on their way to the screen and back: a                 *)
(* BLASTBufferQueue, the consumer of its sync transactions, one other       *)
(* client of SurfaceFlinger, SurfaceFlinger's binder threads, main thread   *)
(* and background thread, and the client's listener, each stepping in any   *)
(* order.  The BLASTBufferQueue's transactions are one-way calls of one     *)
(* thread at a time, so SurfaceFlinger sees them in the order sent; so does *)
(* the listener with SurfaceFlinger's calls.                                *)
(***************************************************************************)
EXTENDS BLASTBufferQueue, SurfaceFlinger

CONSTANT OtherToken    \* the apply token of the other client

VARIABLE otherSent     \* the other client has sent its transaction

vars == <<blastVars, surfaceFlingerVars, otherSent>>

ASSUME FrameDeliveryAssumption ==
    /\ {OwnToken, SyncToken} \subseteq Tokens
    /\ Tokens \subseteq {OwnToken, SyncToken, OtherToken}
    /\ LayerOf[OwnToken] = BlastLayer /\ LayerOf[SyncToken] = BlastLayer
    /\ OtherToken \in Tokens => LayerOf[OtherToken] # BlastLayer

Init == BlastInit /\ SurfaceFlingerInit /\ otherSent = FALSE

\* What setTransactionState leaves alone in SurfaceFlinger.
flingerIdleVars ==
    <<mPendingTransactionQueues, mTransactionFlags, commitScheduled,
      mainThread, layers, unsignaled, early, background, inbox, outOfOrder>>

-----------------------------------------------------------------------------
(* The client.                                                              *)

QueueBuffer == onFrameAvailable /\ UNCHANGED <<surfaceFlingerVars, otherSent>>

ProducerWakesUp ==
    /\ DrainWakesUp \/ AcquireWakesUp
    /\ UNCHANGED <<surfaceFlingerVars, otherSent>>

SyncNext(single) ==
    syncNextTransaction(single) /\ UNCHANGED <<surfaceFlingerVars, otherSent>>

StopContinuousSync ==
    /\ stopContinuousSyncTransaction
    /\ UNCHANGED <<surfaceFlingerVars, otherSent>>

ClearSync ==
    clearSyncTransaction /\ UNCHANGED <<surfaceFlingerVars, otherSent>>

Merge == MergeHeld /\ UNCHANGED <<surfaceFlingerVars, otherSent>>

ReleaseThreadRuns ==
    ReleaseOverwritten /\ UNCHANGED <<surfaceFlingerVars, otherSent>>

\* The listener's process takes the next call of SurfaceFlinger.
Receive ==
    /\ inbox # <<>>
    /\ HandleCall(Head(inbox))
    /\ inbox' = Tail(inbox)
    /\ UNCHANGED <<handlerVars, mTransactionFlags, settingFlags,
                   commitScheduled, mainThread, layers, unsignaled, early,
                   background, outOfOrder, otherSent>>

-----------------------------------------------------------------------------
(* Transactions arrive at SurfaceFlinger's binder threads.                  *)

OwnArrives ==
    /\ bbq.sent # <<>>
    /\ QueueTransactionState(Head(bbq.sent))
    /\ bbq' = [bbq EXCEPT !.sent = Tail(@)]
    /\ UNCHANGED <<producer, lastFrame, calls, held, releaseThread,
                   flingerIdleVars, otherSent>>

SyncArrives ==
    /\ held # <<>>
    /\ QueueTransactionState(Head(held))
    /\ held' = Tail(held)
    /\ UNCHANGED <<bbq, producer, lastFrame, calls, releaseThread,
                   flingerIdleVars, otherSent>>

\* The one transaction of the other client takes the place of all syncs.
OtherArrives ==
    /\ OtherToken \in Tokens
    /\ ~otherSent /\ otherSent' = TRUE
    /\ calls = 0 /\ calls' = MaxCalls
    /\ QueueTransactionState([token |-> OtherToken, frame |-> 1,
                              barrier |-> 0, callbacks |-> 0,
                              commits |-> 0])
    /\ UNCHANGED <<bbq, producer, lastFrame, held, releaseThread,
                   flingerIdleVars>>

-----------------------------------------------------------------------------
(* SurfaceFlinger.                                                          *)

BinderThread(k) == SetFlushNeeded(k) /\ UNCHANGED <<blastVars, otherSent>>

StartCommit == Commit /\ UNCHANGED <<blastVars, otherSent>>

RetryCommit == SkipCommit /\ UNCHANGED <<blastVars, otherSent>>

ClearFlags == clearTransactionFlags /\ UNCHANGED <<blastVars, otherSent>>

FlushAndLatch == updateLayerSnapshots /\ UNCHANGED <<blastVars, otherSent>>

Present == FinishCommit /\ UNCHANGED <<blastVars, otherSent>>

Background == SendInBackground /\ UNCHANGED <<blastVars, otherSent>>

Signal(buffer) == FenceSignals(buffer) /\ UNCHANGED <<blastVars, otherSent>>

TimeComes(buffer) ==
    PresentTimeComes(buffer) /\ UNCHANGED <<blastVars, otherSent>>

Next ==
    \/ QueueBuffer
    \/ ProducerWakesUp
    \/ \E single \in BOOLEAN : SyncNext(single)
    \/ StopContinuousSync
    \/ ClearSync
    \/ Merge
    \/ ReleaseThreadRuns
    \/ Receive
    \/ OwnArrives
    \/ SyncArrives
    \/ OtherArrives
    \/ \E k \in Tokens : BinderThread(k)
    \/ StartCommit
    \/ RetryCommit
    \/ ClearFlags
    \/ FlushAndLatch
    \/ Present
    \/ Background
    \/ \E buffer \in LateFences : Signal(buffer)
    \/ \E buffer \in TimedFrames : TimeComes(buffer)

Spec == Init /\ [][Next]_vars

\* SurfaceFlinger's main thread has something to do.
MainThreadCanStep == mainThread # "idle" \/ commitScheduled

\* Something else that goes on by itself can step: the threads that run code
\* of this repository, the calls between the processes, fences and time, and
\* the sync consumer, which applies what it was handed.
OthersCanStep ==
    \/ producer.notified
    \/ MutexFree /\ (releaseThread # <<>> \/ inbox # <<>>)
    \/ bbq.sent # <<>> /\ OwnToken \notin settingFlags
    \/ held # <<>> /\ SyncToken \notin settingFlags
    \/ settingFlags # {}
    \/ background # <<>>
    \/ \E buffer \in unsignaled \cup early : Waits(buffer)

\* The main thread gets on with a commit, and does not only skip it.
MainThreadGetsOn ==
    mainThread' # mainThread /\ mainThread' \in {"flush", "latched"}

\* Fairness to the main thread and to the rest taken together, with the
\* conditions under which they can step spelled out.  The main thread does
\* not skip commits for ever: a mode set ends, and so does the presentation
\* of a frame.  For the rest it is weak fairness, less than fairness to each
\* thread, and enough, since each step of the rest uses something up.
\* Nothing makes a producer draw, or an owner start, stop or clear a sync.
FairSpec ==
    /\ Spec
    /\ []<>~MainThreadCanStep \/ []<><<MainThreadGetsOn>>_vars
    /\ []<>~OthersCanStep \/ []<><<mainThread' = mainThread>>_vars

-----------------------------------------------------------------------------
(* Properties.                                                              *)

\* The transactions for the BlastLayer that SurfaceFlinger has not applied.
Underway ==
    Range(bbq.sent) \cup Range(held) \cup Range(bbq.mSyncTransaction)
    \cup Range(mLocklessTransactionQueue)
    \cup UNION {Range(mPendingTransactionQueues[k]) : k \in Tokens}

\* The type of the state, with the two counters tied to what they count:
\* mNumAcquired to the buffers acquired from the BufferQueue, never more
\* than two above the maximum, and mNumFrameAvailable to the frames queued,
\* but for the one whose onFrameAvailable still drains.
TypeOK ==
    /\ bbq.mSubmitted \subseteq Frames
    /\ bbq.mSyncedFrameNumbers \subseteq Frames
    /\ bbq.mNumAcquired = Cardinality(bbq.mSubmitted)
    /\ bbq.mNumAcquired <= mMaxAcquiredBuffers + 2
    /\ bbq.mNumFrameAvailable = Len(bbq.queue)
          - IF producer.at \in {"drain", "spinning"} THEN 1 ELSE 0
    /\ producer.at \in {"idle", "drain", "acquire", "spinning", "crashed"}
    /\ mainThread \in {"idle", "commit", "flush", "latched"}
    /\ \A l \in Layers : layers[l].bufferInfo \in 0 .. MaxFrames
    /\ \A i \in DOMAIN inbox : inbox[i].frame \in Frames

\* A buffer the producer may draw into again is not on the screen, not in
\* the layer's state and not in a transaction under way (releaseBuffer and
\* the stale releases of transactionCallback against Layer::setBuffer).
ReleasedNotInUse ==
    LET owned == bbq.mSubmitted \cup Range(bbq.queue)
        shown == {layers[BlastLayer].frameNumber,
                  layers[BlastLayer].bufferInfo}
        asked == {t.frame : t \in {u \in Underway : u.token # OtherToken}}
    IN producer.at # "crashed" => (shown \cup asked) \ {0} \subseteq owned

\* A layer never gets a frame older than one it has: "Out of order buffers
\* detected" (Layer::setBuffer, RequestedLayerState::merge) is never logged,
\* though frames come on two tokens whose order is only kept by barriers.
LayerFramesInOrder == ~outOfOrder

\* A frame in mSyncedFrameNumbers is with SurfaceFlinger or the sync
\* consumer, or is what the producer waits to acquire: a number left behind
\* would keep onFrameAvailable from acquiring ever again.
SyncedFramesOut ==
    bbq.mSyncedFrameNumbers \subseteq
        bbq.mSubmitted \cup (IF Waiting THEN {producer.frame} ELSE {})

\* A pending transaction never sleeps: while SurfaceFlinger holds one, its
\* flag is set and a commit scheduled, or someone is about to set it
\* (setTransactionState, the check of transactionFlushNeeded in commit and
\* the early returns of commit).
PendingHasCommit ==
    hasPendingTransactions =>
        \/ mTransactionFlags /\ (commitScheduled \/ mainThread = "commit")
        \/ settingFlags # {}
        \/ mainThread \in {"flush", "latched"}

\* The layers that a step gives another frame.
Updated == {l \in Layers : layers'[l].frameNumber # layers[l].frameNumber}

\* A buffer is latched before its fence signals only if nothing else was
\* applied in that commit (applyUnsignaledBufferTransaction).
UnsignaledAlone ==
    [][(\E l \in Updated : <<l, layers'[l].frameNumber>> \in unsignaled)
          => Cardinality(Updated) = 1]_vars

\* States from which the code gives no way on: onFrameAvailable spins with
\* mMutex held, has dereferenced a cleared mSyncTransaction, or waits for a
\* buffer that was rejected; or a sync buffer that a merge dropped is held
\* back, which keeps its number in mSyncedFrameNumbers.
Stuck ==
    \/ producer.at \in {"spinning", "crashed"}
    \/ producer.at = "acquire" /\ bbq.mNumFrameAvailable = 0
    \/ Waiting /\ bbq.mSyncTransaction = <<>>
    \/ bbq.mSyncedFrameNumbers \cap Range(bbq.mPendingRelease) # {}

\* No buffer or transaction is left behind.  Once the producer and the owner
\* do nothing more, every queued frame is acquired, every transaction is
\* applied and every buffer is back with the producer, but for the one on
\* the screen, those held back in mPendingRelease and the one in a
\* continuous sync that was not stopped.  So no barrier, back pressure,
\* fence or present time keeps a transaction in mPendingTransactionQueues,
\* the loop of flushTransactions does not stop too early, a producer in
\* onFrameAvailable wakes up, and no release is lost.
EverythingDelivered ==
    <>[](\/ Stuck
         \/ /\ bbq.queue = <<>> /\ ~Waiting
            /\ Underway \subseteq Range(bbq.mSyncTransaction)
            /\ bbq.mSubmitted \subseteq
                  {layers[BlastLayer].bufferInfo}
                  \cup Range(bbq.mPendingRelease)
                  \cup {t.frame : t \in Range(bbq.mSyncTransaction)})

\* "[mSyncedFrameNumbers not empty] means [there] are still transactions that
\* have sync buffers in them that have not been applied or dropped"
\* (releaseBufferCallbackLocked): when the producer is idle and no thread has
\* anything left to do, a number is there only if the transaction with its
\* buffer is.
DroppedSyncsForgotten ==
    producer.at = "idle" /\ ~MainThreadCanStep /\ ~OthersCanStep =>
        \A f \in bbq.mSyncedFrameNumbers :
            \E t \in Underway : t.token = SyncToken /\ t.frame = f
=============================================================================
