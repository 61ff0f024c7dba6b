----------------------- MODULE FrameDeliveryInvariants -----------------------
(***************************************************************************)
(* The inductive invariant of FrameDelivery, from which its safety          *)
(* properties follow.  What it says of the client is stated of a record b,  *)
(* so that it can be followed through the operators of BLASTBufferQueue     *)
(* one after the other:                                                     *)
(*    last    the last frame queued                                         *)
(*    late    how many queued frames do not count as available yet          *)
(*    wanted  the frame the producer waits to acquire, as a set             *)
(*    out     the client's transactions that b does not hold                *)
(*    top     the frame the layer has                                       *)
(***************************************************************************)
EXTENDS FrameDelivery

Transaction == [token : Tokens, frame : Nat, barrier : Nat,
                callbacks : Nat, commits : Nat]

BlastState ==
    [queue                          : Seq(Nat),
     mNumFrameAvailable             : Nat,
     mNumAcquired                   : Nat,
     mSubmitted                     : SUBSET Nat,
     mPendingRelease                : Seq(Nat),
     mSyncedFrameNumbers            : SUBSET Nat,
     mLastAppliedFrameNumber        : Nat,
     mCurrentMaxAcquiredBufferCount : Nat,
     mTransactionReadyCallback      : BOOLEAN,
     mAcquireSingleBuffer           : BOOLEAN,
     mSyncTransaction               : Seq(Transaction),
     pendingCallbacks               : Nat,
     mReleaseBufferCallbacks        : SUBSET Nat,
     sent                           : Seq(Transaction)]

ProducerState ==
    [at       : {"idle", "drain", "acquire", "spinning", "crashed"},
     frame    : Nat,
     notified : BOOLEAN]

Handle == [frame : Nat, releasePreviousBuffer : BOOLEAN,
           callbacks : Nat, commits : Nat]

Layer == [frameNumber             : Nat,
          bufferInfo              : Nat,
          barrierFrameNumber      : Nat,
          previousReleaseCallback : Nat,
          callbackHandles         : Seq(Handle)]

ClientCall == [kind : {"release", "commit", "complete"}, frame : Nat]

Types ==
    /\ bbq \in BlastState
    /\ producer \in ProducerState
    /\ lastFrame \in 0 .. MaxFrames
    /\ held \in Seq(Transaction)
    /\ releaseThread \in Seq(Nat)
    /\ mLocklessTransactionQueue \in Seq(Transaction)
    /\ mPendingTransactionQueues \in [Tokens -> Seq(Transaction)]
    /\ mainThread \in {"idle", "commit", "flush", "latched"}
    /\ layers \in [Layers -> Layer]
    /\ background \in Seq(Seq(ClientCall))
    /\ inbox \in Seq(ClientCall)
    /\ otherSent \in BOOLEAN

-----------------------------------------------------------------------------
(* The client.                                                              *)

\* The frames that have left the BufferQueue's FIFO q.
Before(q, last) == 1 .. (last - Len(q))

\* The FIFO holds the last frames queued.
Fifo(q, available, last, late) ==
    /\ Len(q) <= last
    /\ \A i \in 1 .. Len(q) : q[i] = last - Len(q) + i
    /\ available + late = Len(q)

\* The buffers acquired are counted.
Counted(submitted, acquired, drawn) ==
    /\ submitted \subseteq drawn
    /\ acquired = Cardinality(submitted)
    /\ acquired <= mMaxAcquiredBuffers + 2

\* A synced frame is acquired or about to be.
Synced(synced, submitted, wanted, queued) ==
    /\ synced \subseteq submitted \cup wanted
    /\ wanted \cap queued \subseteq synced

InUse(T, top) == ({top} \cup {t.frame : t \in T}) \ {0}

\* What is in use is acquired, and newer than what the layer has.
Used(T, submitted, top) ==
    /\ InUse(T, top) \subseteq submitted
    /\ \A t \in T : top < t.frame /\ t.token \in {OwnToken, SyncToken}

\* A frame in a sync keeps the frames after it from being acquired, and
\* waits for the frames sent before it.
Barred(T, synced, applied) ==
    \A t \in T :
       /\ t.token = OwnToken => t.frame <= applied
       /\ t.token = SyncToken =>
             /\ t.frame \in synced
             /\ \A o \in T : o.token = OwnToken =>
                                o.frame < t.frame /\ o.frame <= t.barrier

\* On one token frames go in the order of their numbers.
Ahead(S, T) == \A s \in S, t \in T : s.token = t.token => s.frame < t.frame

InOrder(q) ==
    \A i, j \in 1 .. Len(q) :
       i < j /\ q[i].token = q[j].token => q[i].frame < q[j].frame

\* The transactions of b on their way, and the one of a sync.
Sent(sent, filled, out) ==
    /\ InOrder(sent)
    /\ Ahead(out, Range(sent) \cup filled)
    /\ \A t \in Range(sent) : t.token = OwnToken

Syncing(transaction, callback) ==
    /\ \A t \in Range(transaction) : t.token = SyncToken
    /\ Len(transaction) = IF callback THEN 1 ELSE 0

\* The transaction of a sync, if it has a buffer.
Filled(b) == {t \in Range(b.mSyncTransaction) : t.frame # 0}

Transactions(b, out) == out \cup Range(b.sent) \cup Filled(b)

Client(b, last, late, wanted, out, top) ==
    /\ b \in BlastState
    /\ Fifo(b.queue, b.mNumFrameAvailable, last, late)
    /\ Counted(b.mSubmitted, b.mNumAcquired, Before(b.queue, last))
    /\ Synced(b.mSyncedFrameNumbers, b.mSubmitted, wanted, Range(b.queue))
    /\ Used(Transactions(b, out), b.mSubmitted, top)
    /\ Barred(Transactions(b, out), b.mSyncedFrameNumbers,
              b.mLastAppliedFrameNumber)
    /\ Sent(b.sent, Filled(b), out)
    /\ Syncing(b.mSyncTransaction, b.mTransactionReadyCallback)

\* The frames that may be released.
Spare(b, last, out, top) ==
    Before(b.queue, last) \ InUse(Transactions(b, out), top)

\* The frame the producer p has queued and not yet announced, and the one it
\* waits to acquire.
Late(p) == IF p.at \in {"drain", "spinning"} THEN 1 ELSE 0

Wanted(p) == IF p.at = "acquire" THEN {p.frame} ELSE {}

\* The sync consumer's list h comes after what has arrived.
HeldOK(h, arrived) ==
    /\ InOrder(h) /\ Ahead(arrived, Range(h))
    /\ \A t \in Range(h) : t.token = SyncToken

\* The client: the queue b, its producer p, the sync consumer's list h.  The
\* frames of freed are about to be released.
Fits(b, p, h, last, freed, arrived, top) ==
    /\ p \in ProducerState /\ h \in Seq(Transaction)
    /\ Client(b, last, Late(p), Wanted(p), Range(h) \cup arrived, top)
    /\ HeldOK(h, arrived)
    /\ Range(b.mPendingRelease) \cup freed
          \subseteq Spare(b, last, Range(h) \cup arrived, top)
    /\ p.at # "idle" => p.frame = last
    /\ p.at = "acquire" => Len(b.queue) <= 1

-----------------------------------------------------------------------------
(* The client and SurfaceFlinger.                                           *)

Top == layers[BlastLayer].frameNumber

Pending == UNION {Range(mPendingTransactionQueues[k]) : k \in Tokens}

Arrived == Range(mLocklessTransactionQueue) \cup Pending

\* The client's transactions among them.
Taken == {t \in Arrived : t.token # OtherToken}

ClientOK ==
    Fits(bbq, producer, held, lastFrame, Range(releaseThread), Taken, Top)

\* The FIFOs of each token.
FifoOK ==
    /\ InOrder(mLocklessTransactionQueue)
    /\ \A k \in Tokens :
          /\ InOrder(mPendingTransactionQueues[k])
          /\ \A t \in Range(mPendingTransactionQueues[k]) : t.token = k
    /\ Ahead(Pending, Range(mLocklessTransactionQueue))

\* The layers l are behind the transactions of arrived.  The other client has
\* one transaction: it is sent, arrived or applied.
OtherFits(l, arrived, sent) ==
    /\ \A t \in arrived : l[LayerOf[t.token]].frameNumber < t.frame
    /\ OtherToken \in Tokens =>
          /\ l[LayerOf[OtherToken]].frameNumber \in {0, 1}
          /\ \A t \in arrived : t.token = OtherToken => t.frame = 1
          /\ ~sent => /\ l[LayerOf[OtherToken]].frameNumber = 0
                      /\ \A t \in arrived : t.token # OtherToken

OtherOK == OtherFits(layers, Arrived, otherSent)

\* Between two commits every layer shows the newest frame it was given.
LayerOK(layer) ==
    /\ layer.bufferInfo = layer.frameNumber
    /\ layer.barrierFrameNumber = layer.frameNumber
    /\ layer.previousReleaseCallback # 0 =>
          layer.previousReleaseCallback < layer.frameNumber

HandlesOK(layer) ==
    \A h \in Range(layer.callbackHandles) :
       h.frame \in 1 .. layer.frameNumber

LayersOK ==
    /\ \A l \in Layers : LayerOK(layers[l])
    /\ HandlesOK(layers[BlastLayer])
    /\ \A l \in Layers : l \notin {LayerOf[k] : k \in Tokens} =>
          layers[l].frameNumber = 0

\* What a call to the listener may be about when the layer has frame top.
CallOK(call, top) ==
    /\ call.frame \in 1 .. top
    /\ call.kind = "release" => call.frame < top

CallsOK ==
    /\ \A c \in Range(inbox) : CallOK(c, Top)
    /\ \A q \in Range(background) : \A c \in Range(q) : CallOK(c, Top)

DeliveryInvariant ==
    /\ Types /\ ClientOK /\ FifoOK /\ OtherOK /\ LayersOK /\ CallsOK
    /\ outOfOrder = FALSE

\* The producer is in queueBuffer only when it has queued a frame.
Queuing == producer.at # "idle" => lastFrame # 0

\* Why frames arrive in order and only spare buffers are released: what the
\* layer has and every frame under way is acquired, frames under way are
\* newer than the layer's, those of one token are in order, and the sync
\* frame among them is behind its barrier and in mSyncedFrameNumbers, which
\* keeps newer ones back (acquireNextBufferLocked, applyTransaction,
\* Layer::setBuffer); what is about to be released, and what SurfaceFlinger
\* calls the listener about, is older.
InductiveInvariant == DeliveryInvariant /\ Queuing
=============================================================================
