-------------------------- MODULE BLASTBufferQueue --------------------------
(***************************************************************************)
(* The client side of a layer (libs/gui/BLASTBufferQueue.cpp): a consumer   *)
(* of a BufferQueue that turns each queued buffer into a transaction.  The  *)
(* transactions go to SurfaceFlinger on the queue's own apply token, or are *)
(* handed to a sync consumer that applies them, on a token of its own, with *)
(* the transactions of other windows.                                       *)
(*                                                                          *)
(* The state under mMutex is the record bbq, whose fields keep the names of *)
(* the members; what a method does to it is an operator on records.  A      *)
(* buffer is its frame number, as a ReleaseCallbackId is.  `queue` is the   *)
(* BufferQueue's FIFO, and a buffer is acquired as long as it is in         *)
(* mSubmitted.  `sent` are the one-way calls of setTransactionState under   *)
(* way.  mSurfaceControlsWithPendingCallback holds one surface only, so it  *)
(* is its length.  mReleaseBufferCallbacks belongs to the process's         *)
(* TransactionCompletedListener.                                            *)
(***************************************************************************)
EXTENDS Lists, FiniteSetsExt

CONSTANTS mMaxAcquiredBuffers,
          MaxDequeuedBuffers,             \* of the producer
          currentMaxAcquiredBufferCount,  \* what SurfaceFlinger reports
          MaxFrames,                      \* bound: frames queued
          MaxCalls,                       \* bound: calls next to the producer's
          OddSized,                       \* frames rejectBuffer refuses
          OwnToken,                       \* mApplyToken
          SyncToken                       \* the sync consumer's token

ASSUME BlastAssumption ==
    /\ {mMaxAcquiredBuffers, MaxDequeuedBuffers,
        currentMaxAcquiredBufferCount} \subseteq Nat \ {0}
    /\ MaxFrames \in Nat \ {0} /\ MaxCalls \in Nat
    /\ OwnToken # SyncToken

VARIABLES bbq,            \* what mMutex guards
          producer,       \* the thread in queueBuffer and onFrameAvailable
          lastFrame,      \* the number of the last frame queued
          calls,          \* calls so far next to the producer's
          held,           \* transactions the sync consumer has to apply
          releaseThread   \* what ReleaseCallbackThread still has to release

blastVars == <<bbq, producer, lastFrame, calls, held, releaseThread>>

Frames == 1 .. MaxFrames

\* A transaction with no buffer and no callback.
EmptyTransaction == [token |-> SyncToken, frame |-> 0, barrier |-> 0,
                     callbacks |-> 0, commits |-> 0]

Idle == [at |-> "idle", frame |-> 0, notified |-> FALSE]

BlastInit ==
    /\ bbq = [queue                          |-> <<>>,
              mNumFrameAvailable             |-> 0,
              mNumAcquired                   |-> 0,
              mSubmitted                     |-> {},
              mPendingRelease                |-> <<>>,
              mSyncedFrameNumbers            |-> {},
              mLastAppliedFrameNumber        |-> 0,
              mCurrentMaxAcquiredBufferCount |-> mMaxAcquiredBuffers,
              mTransactionReadyCallback      |-> FALSE,
              mAcquireSingleBuffer           |-> TRUE,
              mSyncTransaction               |-> <<>>,   \* or <<transaction>>
              pendingCallbacks               |-> 0,
              mReleaseBufferCallbacks        |-> {},
              sent                           |-> <<>>]
    /\ producer = Idle
    /\ lastFrame = 0 /\ calls = 0
    /\ held = <<>> /\ releaseThread = <<>>

-----------------------------------------------------------------------------
(* Acquiring.                                                               *)

\* BufferQueueConsumer::acquireBuffer with mAllowExtraAcquire: it fails with
\* INVALID_OPERATION above two more than the maximum.
CanAcquire(b) ==
    /\ b.queue # <<>>
    /\ Cardinality(b.mSubmitted) < mMaxAcquiredBuffers + 2

\* acquireAndReleaseBuffer: the oldest queued buffer goes back unused.
acquireAndReleaseBuffer(b) ==
    IF CanAcquire(b)
    THEN [b EXCEPT !.queue = Tail(@), !.mNumFrameAvailable = @ - 1]
    ELSE b

\* The buffers at the head of the queue that rejectBuffer sends back.
Rejected(b) ==
    Min({n \in 0 .. b.mNumFrameAvailable :
            n = b.mNumFrameAvailable \/ b.queue[n + 1] \notin OddSized})

\* The transaction gets the buffer of the head of the queue, with its
\* release and completed callbacks.
AcquireHead(b) ==
    LET f == Head(b.queue)
    IN [b EXCEPT !.queue = Tail(@),
                 !.mNumFrameAvailable = @ - 1,
                 !.mNumAcquired = @ + 1,
                 !.mSubmitted = @ \cup {f},
                 !.mReleaseBufferCallbacks = @ \cup {f},
                 !.pendingCallbacks = @ + 1]

ApplyOwn(b, f) ==
    [b EXCEPT !.sent = Append(@, [token |-> OwnToken, frame |-> f,
                                  barrier |-> 0, callbacks |-> 1,
                                  commits |-> 0]),
              !.mLastAppliedFrameNumber = f]

\* Mutant of FillSync: the buffer has no barrier.
FillSyncNoBarrier(b, f) ==
    [b EXCEPT !.mSyncTransaction =
                  <<[b.mSyncTransaction[1] EXCEPT
                         !.frame = f, !.callbacks = @ + 1]>>]

FillSync(b, f) ==
    [b EXCEPT !.mSyncTransaction =
                  <<[b.mSyncTransaction[1] EXCEPT
                         !.frame = f, !.callbacks = @ + 1,
                         !.barrier = b.mLastAppliedFrameNumber]>>]

\* acquireNextBufferLocked.  In a sync the caller passed mSyncTransaction,
\* which a clear may have set to null by the time it is used.
acquireNextBufferLocked(b, sync) ==
    LET NoBuffer(c)   == [b |-> c, status |-> "NO_BUFFER_AVAILABLE"]
        n         == Rejected(b)
        kept      == [b EXCEPT !.queue = SubSeq(@, n + 1, Len(@)),
                               !.mNumFrameAvailable = @ - n]
        next      == AcquireHead(kept)
        f         == Head(kept.queue)
    IN IF \/ b.mNumFrameAvailable = 0
          \/ b.mNumAcquired >= mMaxAcquiredBuffers + 2
          \/ ~CanAcquire(b)
       THEN NoBuffer(b)
       ELSE IF kept.mNumFrameAvailable = 0 THEN NoBuffer(kept)
       ELSE IF ~sync THEN [b |-> ApplyOwn(next, f), status |-> "OK"]
       ELSE IF b.mSyncTransaction = <<>>
       THEN [b |-> next, status |-> "NULL_TRANSACTION"]
       ELSE [b |-> FillSync(next, f), status |-> "OK"]

AcquireNext(b) == acquireNextBufferLocked(b, FALSE).b

flushShadowQueue(b) ==
    Fold(LAMBDA a, i : AcquireNext(a), b,
         [i \in 1 .. b.mNumFrameAvailable |-> i])

-----------------------------------------------------------------------------
(* Releasing.                                                               *)

\* Mutant of releaseBuffer: a dropped sync buffer stays synced.
releaseBufferStaysSynced(b, f) ==
    IF f \notin b.mSubmitted THEN b
    ELSE [b EXCEPT !.mNumAcquired = @ - 1, !.mSubmitted = @ \ {f}]

\* Mutant of releaseBuffer: a second release of a buffer counts again.
releaseBufferTwice(b, f) ==
    [b EXCEPT !.mNumAcquired = @ - 1,
              !.mSubmitted = @ \ {f},
              !.mSyncedFrameNumbers = @ \ {f}]

releaseBuffer(b, f) ==
    IF f \notin b.mSubmitted THEN b
    ELSE [b EXCEPT !.mNumAcquired = @ - 1,
                   !.mSubmitted = @ \ {f},
                   !.mSyncedFrameNumbers = @ \ {f}]

\* The loop of releaseBufferCallbackLocked releases a buffer and acquires the
\* next one, unless synced frames are on their way.
ReleaseAndAcquire(b, f) ==
    LET released == releaseBuffer(b, f)
    IN IF released.mSyncedFrameNumbers = {} THEN AcquireNext(released)
       ELSE released

\* max is currentMaxAcquiredBufferCount, 0 when it is not given.  The
\* producer is an EGL client, so some released buffers are held back.
releaseBufferCallbackLocked(b, f, max) ==
    LET current == IF max = 0 THEN b.mCurrentMaxAcquiredBufferCount ELSE max
        hold    == IF f \in b.mSubmitted
                   THEN Max({0, mMaxAcquiredBuffers - current}) ELSE 0
        pending == IF f \in Range(b.mPendingRelease) THEN b.mPendingRelease
                   ELSE Append(b.mPendingRelease, f)
        over    == Max({0, Len(pending) - hold})
    IN Fold(ReleaseAndAcquire,
            [b EXCEPT !.mCurrentMaxAcquiredBufferCount = current,
                      !.mPendingRelease =
                          SubSeq(pending, over + 1, Len(pending))],
            SubSeq(pending, 1, over))

\* TransactionCompletedListener runs each release callback once.
onReleaseBuffer(b, f, max) ==
    IF f \notin b.mReleaseBufferCallbacks THEN b
    ELSE releaseBufferCallbackLocked(
             [b EXCEPT !.mReleaseBufferCallbacks = @ \ {f}], f, max)

transactionCommittedCallback(b, f) ==
    LET rest == b.mSyncedFrameNumbers \ {f}
    IN IF b.pendingCallbacks = 0 THEN b
       ELSE IF rest = {}
       THEN flushShadowQueue([b EXCEPT !.mSyncedFrameNumbers = {}])
       ELSE [b EXCEPT !.mSyncedFrameNumbers = rest]

\* Mutant of StaleReleases: the presented buffer is stale too.
ReleasesOfAll(b, f) == Orders({g \in b.mSubmitted : g <= f})

\* The buffers older than the presented one that were not released yet are
\* released now, in the order the unordered map mSubmitted yields them.
StaleReleases(b, f) == Orders({g \in b.mSubmitted : g < f})

transactionCallback(b, stale) ==
    Fold(LAMBDA a, g : releaseBufferCallbackLocked(
                           a, g, currentMaxAcquiredBufferCount),
         [b EXCEPT !.pendingCallbacks = @ - 1], stale)

-----------------------------------------------------------------------------
(* The producer's thread: queueBuffer and then onFrameAvailable, which      *)
(* waits on mCallbackCV at two places.  Only releaseBufferCallbackLocked    *)
(* notifies it.                                                             *)

Waiting == producer.at \in {"drain", "acquire"}

Wait(at, f) == [at |-> at, frame |-> f, notified |-> FALSE]

\* Whoever runs releaseBufferCallbackLocked wakes the waiting producer.
NotifyAll ==
    producer' = IF Waiting THEN [producer EXCEPT !.notified = TRUE]
                ELSE producer

\* The end of a sync: the transaction that holds the buffer is handed over,
\* unless more buffers are to go into it.
FinishSync(b) ==
    LET t == <<[b.mSyncTransaction[1] EXCEPT !.commits = @ + 1]>>
    IN /\ producer' = Idle
       /\ IF b.mAcquireSingleBuffer
          THEN /\ bbq' = [b EXCEPT !.mTransactionReadyCallback = FALSE,
                                   !.mSyncTransaction = <<>>]
               /\ held' = held \o t
          ELSE /\ bbq' = [b EXCEPT !.mSyncTransaction = t]
               /\ held' = held

\* One turn of the loop that acquires the sync buffer.
AcquireForSync(b, f) ==
    LET next == acquireNextBufferLocked(b, TRUE)
    IN CASE next.status = "OK" -> FinishSync(next.b)
         [] next.status = "NO_BUFFER_AVAILABLE" ->
               /\ bbq' = next.b
               /\ producer' = Wait("acquire", f)
               /\ held' = held
         [] next.status = "NULL_TRANSACTION" ->
               /\ bbq' = next.b
               /\ producer' = Wait("crashed", f)
               /\ held' = held

\* onFrameAvailable once the shadow queue is empty enough: the frame counts
\* as available and, if nothing forbids it, is acquired.
Arrive(b, f, syncTransactionSet, waitForTransactionCallback) ==
    LET added == [b EXCEPT !.mNumFrameAvailable = @ + 1]
        shown == IF waitForTransactionCallback
                    /\ added.mNumFrameAvailable >= 2
                 THEN acquireAndReleaseBuffer(added) ELSE added
    IN IF syncTransactionSet
       THEN AcquireForSync(
                [shown EXCEPT !.mSyncedFrameNumbers = @ \cup {f}], f)
       ELSE /\ bbq' = IF waitForTransactionCallback THEN shown
                      ELSE AcquireNext(shown)
            /\ producer' = Idle
            /\ held' = held

\* A continuous sync gives back the buffer its transaction holds.
GetAndClearBuffer(b) ==
    IF b.mAcquireSingleBuffer \/ b.mSyncTransaction[1].frame = 0 THEN b
    ELSE releaseBuffer([b EXCEPT !.mSyncTransaction[1].frame = 0,
                                 !.mReleaseBufferCallbacks =
                                     @ \ {b.mSyncTransaction[1].frame}],
                       b.mSyncTransaction[1].frame)

\* The producer has a free slot when not all buffers are queued or acquired.
FreeSlot == Len(bbq.queue) + Cardinality(bbq.mSubmitted)
                < mMaxAcquiredBuffers + MaxDequeuedBuffers

onFrameAvailable ==
    LET f      == lastFrame + 1
        queued == [bbq EXCEPT !.queue = Append(@, f)]
        wait   == bbq.mSyncedFrameNumbers # {}
        sync   == bbq.mTransactionReadyCallback
        b      == GetAndClearBuffer(queued)
        spins  == b.mNumFrameAvailable > 0 /\ ~CanAcquire(b)
        empty  == [b EXCEPT !.queue = SubSeq(@, b.mNumFrameAvailable + 1,
                                             Len(@)),
                            !.mNumFrameAvailable = 0]
    IN /\ producer = Idle /\ f \in Frames /\ FreeSlot
       /\ lastFrame' = f
       /\ IF ~sync THEN Arrive(queued, f, FALSE, wait)
          ELSE IF wait /\ spins
          THEN bbq' = b /\ producer' = Wait("spinning", f) /\ held' = held
          ELSE IF wait THEN Arrive(empty, f, TRUE, TRUE)
          ELSE IF b.mNumFrameAvailable > 0
          THEN bbq' = b /\ producer' = Wait("drain", f) /\ held' = held
          ELSE Arrive(b, f, TRUE, FALSE)
       /\ UNCHANGED <<calls, releaseThread>>

\* The producer wakes up in "waiting until no queued buffers".
DrainWakesUp ==
    /\ producer.at = "drain" /\ producer.notified
    /\ IF bbq.mNumFrameAvailable > 0
       THEN /\ producer' = [producer EXCEPT !.notified = FALSE]
            /\ UNCHANGED <<bbq, held>>
       ELSE Arrive(bbq, producer.frame, TRUE, FALSE)
    /\ UNCHANGED <<lastFrame, calls, releaseThread>>

\* The producer wakes up in "waiting for available buffer".
AcquireWakesUp ==
    /\ producer.at = "acquire" /\ producer.notified
    /\ AcquireForSync(bbq, producer.frame)
    /\ UNCHANGED <<lastFrame, calls, releaseThread>>

-----------------------------------------------------------------------------
(* The owner of the queue.  mMutex is held while the producer spins.        *)

MutexFree == producer.at \notin {"spinning", "crashed"}

syncNextTransaction(acquireSingleBuffer) ==
    /\ MutexFree /\ calls < MaxCalls /\ ~bbq.mTransactionReadyCallback
    /\ bbq' = [bbq EXCEPT !.mTransactionReadyCallback = TRUE,
                          !.mSyncTransaction = <<EmptyTransaction>>,
                          !.mAcquireSingleBuffer = acquireSingleBuffer]
    /\ calls' = calls + 1
    /\ UNCHANGED <<producer, lastFrame, held, releaseThread>>

\* A transaction without a buffer (the producer still waits to acquire one)
\* is handed over as well; it says nothing about a frame and is left out.
stopContinuousSyncTransaction ==
    /\ MutexFree
    /\ ~bbq.mAcquireSingleBuffer /\ bbq.mTransactionReadyCallback
    /\ bbq' = [bbq EXCEPT !.mTransactionReadyCallback = FALSE,
                          !.mSyncTransaction = <<>>,
                          !.mAcquireSingleBuffer = TRUE]
    /\ held' = IF bbq.mSyncTransaction[1].frame = 0 THEN held
               ELSE held \o bbq.mSyncTransaction
    /\ UNCHANGED <<producer, lastFrame, calls, releaseThread>>

clearSyncTransaction ==
    /\ MutexFree
    /\ bbq.mAcquireSingleBuffer /\ bbq.mTransactionReadyCallback
    /\ bbq' = [bbq EXCEPT !.mTransactionReadyCallback = FALSE,
                          !.mSyncTransaction = <<>>]
    /\ UNCHANGED <<producer, lastFrame, calls, held, releaseThread>>

-----------------------------------------------------------------------------
(* The sync consumer, outside this code: it merges transactions it holds    *)
(* (Transaction::merge) and applies them in order.  The buffer that a merge *)
(* overwrites is released by ReleaseCallbackThread.  merge leaves the       *)
(* present time of the first transaction (mDesiredPresentTime) as it is;    *)
(* here the time goes with the buffer, that of the second.                  *)

\* Mutant of MergeHeld: the buffer that stays in the transaction is released.
MergeReleasesKept ==
    /\ Len(held) >= 2
    /\ LET first == held[1]  second == held[2]
       IN /\ held' = <<[second EXCEPT
                            !.callbacks = @ + first.callbacks,
                            !.commits = @ + first.commits]>>
                     \o SubSeq(held, 3, Len(held))
          /\ releaseThread' = Append(releaseThread, second.frame)
    /\ UNCHANGED <<bbq, producer, lastFrame, calls>>

MergeHeld ==
    /\ Len(held) >= 2
    /\ LET first == held[1]  second == held[2]
       IN /\ held' = <<[second EXCEPT
                            !.callbacks = @ + first.callbacks,
                            !.commits = @ + first.commits]>>
                     \o SubSeq(held, 3, Len(held))
          /\ releaseThread' = Append(releaseThread, first.frame)
    /\ UNCHANGED <<bbq, producer, lastFrame, calls>>

ReleaseOverwritten ==
    /\ MutexFree /\ releaseThread # <<>>
    /\ bbq' = onReleaseBuffer(bbq, Head(releaseThread), 0)
    /\ NotifyAll
    /\ releaseThread' = Tail(releaseThread)
    /\ UNCHANGED <<lastFrame, calls, held>>

-----------------------------------------------------------------------------
(* A call of SurfaceFlinger reaches the client's listener.                  *)

HandleCall(call) ==
    /\ MutexFree
    /\ CASE call.kind = "release" ->
               /\ bbq' = onReleaseBuffer(bbq, call.frame,
                                         currentMaxAcquiredBufferCount)
               /\ IF call.frame \in bbq.mReleaseBufferCallbacks
                  THEN NotifyAll ELSE producer' = producer
         [] call.kind = "commit" ->
               /\ bbq' = transactionCommittedCallback(bbq, call.frame)
               /\ producer' = producer
         [] call.kind = "complete" /\ bbq.pendingCallbacks = 0 ->
               bbq' = bbq /\ producer' = producer
         [] call.kind = "complete" /\ bbq.pendingCallbacks > 0 ->
               \E stale \in StaleReleases(bbq, call.frame) :
                  /\ bbq' = transactionCallback(bbq, stale)
                  /\ IF stale # <<>> THEN NotifyAll
                     ELSE producer' = producer
    /\ UNCHANGED <<lastFrame, calls, held, releaseThread>>
=============================================================================
