------------------------- MODULE FrameDeliverySteps --------------------------
(***************************************************************************)
(* The steps of the client keep the invariant of FrameDelivery, and so does *)
(* the arrival of a transaction at SurfaceFlinger. Then what a commit does: *)
(* a flush of TransactionHandler takes the frames of each layer in order, the*)
(* lock-free queue is sorted, and transactions are applied to the layers.   *)
(***************************************************************************)
EXTENDS FrameDeliveryClient

USE Zenon

-----------------------------------------------------------------------------
(* The steps of the client keep the invariant.                              *)

\* The tokens and the layers they are for.
LEMMA TokensApart ==
  /\ OwnToken \in Tokens /\ SyncToken \in Tokens /\ OwnToken # SyncToken
  /\ OtherToken \in Tokens => OtherToken # OwnToken /\ OtherToken # SyncToken
  /\ \A k \in Tokens : k \in {OwnToken, SyncToken, OtherToken}
  /\ \A k \in Tokens : LayerOf[k] \in Layers
  /\ \A k \in Tokens : LayerOf[k] = BlastLayer <=> k \in {OwnToken, SyncToken}
<1>1. OtherToken \in Tokens => OtherToken # OwnToken /\ OtherToken # SyncToken
  BY FrameDeliveryAssumption
<1>2. \A k \in Tokens : LayerOf[k] \in Layers BY TokensAssumption
<1> QED BY <1>1, <1>2, BlastAssumption, FrameDeliveryAssumption

\* The types of what has arrived and of what the client looks at.
LEMMA TakenTyped ==
  ASSUME Types PROVE /\ Arrived \in SUBSET Transaction /\ Taken \in SUBSET Transaction
                     /\ Top \in Nat /\ lastFrame \in Nat
                     /\ Range(held) \in SUBSET Transaction
<1>1. Range(mLocklessTransactionQueue) \subseteq Transaction /\ Range(held) \subseteq Transaction
  BY RangeTyped DEF Types
<1>2. ASSUME NEW k \in Tokens PROVE Range(mPendingTransactionQueues[k]) \subseteq Transaction
  <2>1. mPendingTransactionQueues[k] \in Seq(Transaction) BY DEF Types
  <2> QED BY <2>1, RangeTyped
<1>3. Arrived \in SUBSET Transaction BY <1>1, <1>2 DEF Arrived, Pending
<1>4. Top \in Nat
  <2>1. layers[BlastLayer] \in Layer BY LayersAssumption DEF Types
  <2> QED BY <2>1 DEF Layer, Top
<1>5. lastFrame \in Nat
  <2>1. lastFrame \in 0 .. MaxFrames BY DEF Types
  <2> QED BY <2>1, BlastAssumption, SMT
<1> QED BY <1>1, <1>3, <1>4, <1>5 DEF Taken

\* What SurfaceFlinger holds.
FlingerOK ==
    /\ mLocklessTransactionQueue \in Seq(Transaction)
    /\ mPendingTransactionQueues \in [Tokens -> Seq(Transaction)]
    /\ mainThread \in {"idle", "commit", "flush", "latched"}
    /\ layers \in [Layers -> Layer]
    /\ background \in Seq(Seq(ClientCall))
    /\ inbox \in Seq(ClientCall)
    /\ otherSent \in BOOLEAN
    /\ FifoOK /\ OtherOK /\ LayersOK /\ CallsOK /\ outOfOrder = FALSE

\* The invariant in parts: SurfaceFlinger, the client and two variables.
LEMMA InvariantParts ==
  DeliveryInvariant <=> /\ FlingerOK /\ ClientOK
                        /\ lastFrame \in 0 .. MaxFrames /\ releaseThread \in Seq(Nat)
<1>1. DeliveryInvariant => /\ FlingerOK /\ ClientOK
                           /\ lastFrame \in 0 .. MaxFrames /\ releaseThread \in Seq(Nat)
  BY DEF DeliveryInvariant, Types, FlingerOK
<1>2. ASSUME FlingerOK, ClientOK, lastFrame \in 0 .. MaxFrames, releaseThread \in Seq(Nat)
      PROVE  DeliveryInvariant
  <2>1. bbq \in BlastState /\ producer \in ProducerState /\ held \in Seq(Transaction)
    BY <1>2 DEF ClientOK, Fits, Client
  <2> QED BY <1>2, <2>1 DEF DeliveryInvariant, Types, FlingerOK
<1> QED BY <1>1, <1>2

\* The same after a step.
LEMMA InvariantNext ==
  ASSUME FlingerOK', ClientOK', lastFrame' \in 0 .. MaxFrames, releaseThread' \in Seq(Nat)
  PROVE  DeliveryInvariant'
<1>1. (bbq \in BlastState /\ producer \in ProducerState /\ held \in Seq(Transaction))'
  BY DEF ClientOK, Fits, Client
<1> QED BY <1>1 DEF DeliveryInvariant, Types, FlingerOK

\* A step of the client alone keeps the invariant if the client fits.
LEMMA ClientStep ==
  ASSUME DeliveryInvariant, UNCHANGED <<surfaceFlingerVars, otherSent>>,
         lastFrame' \in 0 .. MaxFrames, releaseThread' \in Seq(Nat),
         Fits(bbq', producer', held', lastFrame', Range(releaseThread'), Taken, Top)
  PROVE  DeliveryInvariant'
<1>1. FlingerOK BY InvariantParts
<1>2. FlingerOK'
  <2>1. /\ UNCHANGED <<mLocklessTransactionQueue, mPendingTransactionQueues, mainThread>>
        /\ UNCHANGED <<layers, background, inbox, otherSent, outOfOrder>>
    BY DEF surfaceFlingerVars, handlerVars
  <2>2. FifoOK' BY <1>1, <2>1 DEF FlingerOK, FifoOK, Pending
  <2>3. OtherOK'
    <3>1. Arrived' = Arrived BY <2>1 DEF Arrived, Pending
    <3> QED BY <1>1, <2>1, <3>1 DEF FlingerOK, OtherOK
  <2>4. LayersOK' BY <1>1, <2>1 DEF FlingerOK, LayersOK
  <2>5. CallsOK' BY <1>1, <2>1 DEF FlingerOK, CallsOK, Top
  <2> QED BY <1>1, <2>1, <2>2, <2>3, <2>4, <2>5 DEF FlingerOK
<1>3. Taken' = Taken /\ Top' = Top
  BY DEF surfaceFlingerVars, handlerVars, Taken, Arrived, Pending, Top
<1>4. ClientOK' BY <1>3 DEF ClientOK
<1> QED BY <1>2, <1>4, InvariantNext

\* The steps of the client alone keep the invariant.
LEMMA ClientSteps ==
  ASSUME DeliveryInvariant,
         \/ QueueBuffer \/ ProducerWakesUp \/ \E single \in BOOLEAN : SyncNext(single)
         \/ StopContinuousSync \/ ClearSync \/ Merge \/ ReleaseThreadRuns
  PROVE  DeliveryInvariant'
<1>1. /\ Types /\ Fits(bbq, producer, held, lastFrame, Range(releaseThread), Taken, Top)
      /\ lastFrame \in 0 .. MaxFrames /\ releaseThread \in Seq(Nat)
  BY DEF DeliveryInvariant, ClientOK, Types
<1>2. Taken \in SUBSET Transaction /\ Top \in Nat /\ lastFrame \in Nat
  BY <1>1, TakenTyped
<1> HIDE DEF Taken, Top
<1>3. CASE QueueBuffer
  <2>1. onFrameAvailable /\ UNCHANGED <<surfaceFlingerVars, otherSent>> BY <1>3 DEF QueueBuffer
  <2>2. Fits(bbq', producer', held', lastFrame', Range(releaseThread), Taken, Top)
    BY <1>1, <1>2, <2>1, OnFrameAvailableFits
  <2>3. lastFrame' \in 0 .. MaxFrames /\ releaseThread' = releaseThread
    <3>1. lastFrame' \in 1 .. MaxFrames /\ releaseThread' = releaseThread
      BY <2>1 DEF onFrameAvailable, Frames
    <3> QED BY <3>1, BlastAssumption, SMT
  <2> QED BY <1>1, <2>1, <2>2, <2>3, ClientStep
<1>4. CASE ProducerWakesUp
  <2>1. DrainWakesUp \/ AcquireWakesUp BY <1>4 DEF ProducerWakesUp
  <2>2. Fits(bbq', producer', held', lastFrame', Range(releaseThread), Taken, Top)
    BY <1>1, <1>2, <2>1, DrainWakesUpFits, AcquireWakesUpFits
  <2>3. lastFrame' = lastFrame /\ releaseThread' = releaseThread
    BY <2>1 DEF DrainWakesUp, AcquireWakesUp
  <2>4. UNCHANGED <<surfaceFlingerVars, otherSent>> BY <1>4 DEF ProducerWakesUp
  <2> QED BY <1>1, <2>2, <2>3, <2>4, ClientStep
<1>5. ASSUME NEW single \in BOOLEAN, SyncNext(single) PROVE DeliveryInvariant'
  <2>1. syncNextTransaction(single) /\ UNCHANGED <<surfaceFlingerVars, otherSent>>
    BY <1>5 DEF SyncNext
  <2>2. Fits(bbq', producer', held', lastFrame', Range(releaseThread), Taken, Top)
    BY <1>1, <2>1, SyncNextFits
  <2>3. lastFrame' = lastFrame /\ releaseThread' = releaseThread
    BY <2>1 DEF syncNextTransaction
  <2> QED BY <1>1, <2>1, <2>2, <2>3, ClientStep
<1>6. CASE StopContinuousSync
  <2>1. stopContinuousSyncTransaction /\ UNCHANGED <<surfaceFlingerVars, otherSent>>
    BY <1>6 DEF StopContinuousSync
  <2>2. Fits(bbq', producer', held', lastFrame', Range(releaseThread), Taken, Top)
    BY <1>1, <2>1, StopSyncFits
  <2>3. lastFrame' = lastFrame /\ releaseThread' = releaseThread
    BY <2>1 DEF stopContinuousSyncTransaction
  <2> QED BY <1>1, <2>1, <2>2, <2>3, ClientStep
<1>7. CASE ClearSync
  <2>1. clearSyncTransaction /\ UNCHANGED <<surfaceFlingerVars, otherSent>>
    BY <1>7 DEF ClearSync
  <2>2. Fits(bbq', producer', held', lastFrame', Range(releaseThread), Taken, Top)
    BY <1>1, <2>1, ClearSyncFits
  <2>3. lastFrame' = lastFrame /\ releaseThread' = releaseThread
    BY <2>1 DEF clearSyncTransaction
  <2> QED BY <1>1, <2>1, <2>2, <2>3, ClientStep
<1>8. CASE Merge
  <2>1. MergeHeld /\ UNCHANGED <<surfaceFlingerVars, otherSent>> BY <1>8 DEF Merge
  <2>2. /\ Fits(bbq', producer', held', lastFrame', Range(releaseThread'), Taken, Top)
        /\ releaseThread' \in Seq(Nat)
    BY <1>1, <1>2, <2>1, MergeHeldFits
  <2>3. lastFrame' = lastFrame BY <2>1 DEF MergeHeld
  <2> QED BY <1>1, <2>1, <2>2, <2>3, ClientStep
<1>9. CASE ReleaseThreadRuns
  <2>1. ReleaseOverwritten /\ UNCHANGED <<surfaceFlingerVars, otherSent>>
    BY <1>9 DEF ReleaseThreadRuns
  <2>2. /\ Fits(bbq', producer', held', lastFrame', Range(releaseThread'), Taken, Top)
        /\ releaseThread' \in Seq(Nat)
    BY <1>1, <1>2, <2>1, ReleaseOverwrittenFits
  <2>3. lastFrame' = lastFrame BY <2>1 DEF ReleaseOverwritten
  <2> QED BY <1>1, <2>1, <2>2, <2>3, ClientStep
<1> QED BY <1>3, <1>4, <1>5, <1>6, <1>7, <1>8, <1>9

\* The listener takes a call.
LEMMA ReceiveStep ==
  ASSUME DeliveryInvariant, Receive PROVE DeliveryInvariant'
<1> DEFINE call == Head(inbox)
<1>1. /\ inbox # <<>> /\ HandleCall(call) /\ inbox' = Tail(inbox)
      /\ UNCHANGED <<mLocklessTransactionQueue, mPendingTransactionQueues, mainThread>>
      /\ UNCHANGED <<layers, background, outOfOrder, otherSent>>
  BY DEF Receive, handlerVars
<1>2. /\ Types /\ Fits(bbq, producer, held, lastFrame, Range(releaseThread), Taken, Top)
      /\ lastFrame \in 0 .. MaxFrames /\ releaseThread \in Seq(Nat) /\ inbox \in Seq(ClientCall)
      /\ FlingerOK /\ CallsOK
  BY InvariantParts DEF DeliveryInvariant, ClientOK, Types
<1>3. Taken \in SUBSET Transaction /\ Top \in Nat /\ lastFrame \in Nat
  BY <1>2, TakenTyped
<1>4. /\ call \in ClientCall /\ inbox' \in Seq(ClientCall)
      /\ Range(inbox) = {call} \cup Range(inbox')
  BY <1>1, <1>2, RangeTail, SMT
<1>5. CallOK(call, Top) /\ \A c \in Range(inbox') : CallOK(c, Top)
  BY <1>2, <1>4 DEF CallsOK
<1>6. Taken' = Taken /\ Top' = Top /\ Arrived' = Arrived
  BY <1>1 DEF Taken, Arrived, Pending, Top
<1> HIDE DEF call
<1>7. lastFrame' = lastFrame /\ releaseThread' = releaseThread BY <1>1 DEF HandleCall
<1>8. ClientOK'
  <2>1. Fits(bbq', producer', held', lastFrame', Range(releaseThread), Taken, Top)
    BY <1>1, <1>2, <1>3, <1>4, <1>5, HandleCallFits
  <2> QED BY <1>6, <1>7, <2>1 DEF ClientOK
<1>9. FifoOK' BY <1>1, <1>2 DEF FlingerOK, FifoOK, Pending
<1>10. OtherOK' BY <1>1, <1>2, <1>6 DEF FlingerOK, OtherOK
<1>11. LayersOK' BY <1>1, <1>2 DEF FlingerOK, LayersOK
<1>12. CallsOK' BY <1>1, <1>2, <1>5, <1>6 DEF CallsOK
<1>13. FlingerOK' BY <1>1, <1>2, <1>4, <1>9, <1>10, <1>11, <1>12 DEF FlingerOK
<1> QED BY <1>2, <1>7, <1>8, <1>13, InvariantNext

-----------------------------------------------------------------------------
(* Transactions arrive.                                                     *)

\* Nothing but the lock-free queue of SurfaceFlinger changes.
Arrives(t) ==
    /\ mLocklessTransactionQueue' = Append(mLocklessTransactionQueue, t)
    /\ UNCHANGED <<mPendingTransactionQueues, mainThread, layers>>
    /\ UNCHANGED <<background, inbox, outOfOrder>>

\* setTransactionState queues a transaction newer than those of its token.
LEMMA ArrivesFlinger ==
  ASSUME FlingerOK, NEW t \in Transaction, Arrives(t), otherSent' \in BOOLEAN,
         \A u \in Arrived : u.token = t.token => u.frame < t.frame,
         OtherFits(layers, Arrived \cup {t}, otherSent')
  PROVE  FlingerOK' /\ Arrived' = Arrived \cup {t} /\ Top' = Top
<1> DEFINE q == mLocklessTransactionQueue
<1>1. q \in Seq(Transaction) /\ q' = Append(q, t) BY DEF FlingerOK, Arrives
<1>2. q' \in Seq(Transaction) /\ Range(q') = Range(q) \cup {t}
  <2>1. Append(q, t) \in Seq(Transaction) /\ Range(Append(q, t)) = Range(q) \cup {t}
    BY <1>1, RangeAppend, SMT
  <2> QED BY <1>1, <2>1
<1>3. Pending' = Pending /\ Top' = Top BY DEF Arrives, Pending, Top
<1>4. Arrived' = Arrived \cup {t} BY <1>2, <1>3 DEF Arrived
<1>5. FifoOK'
  <2>1. InOrder(q')
    <3>1. InOrder(q) /\ \A u \in Range(q) : u.token = t.token => u.frame < t.frame
      BY DEF FlingerOK, FifoOK, Arrived
    <3>2. InOrder(Append(q, t)) BY <1>1, <3>1, InOrderAppend
    <3> QED BY <1>1, <3>2
  <2>2. Ahead(Pending, Range(q'))
    <3>1. Ahead(Pending, Range(q)) BY DEF FlingerOK, FifoOK
    <3>2. \A u \in Pending : u.token = t.token => u.frame < t.frame BY DEF Arrived
    <3> QED BY <1>2, <3>1, <3>2 DEF Ahead
  <2>3. mPendingTransactionQueues' = mPendingTransactionQueues BY DEF Arrives
  <2> QED BY <1>3, <2>1, <2>2, <2>3 DEF FlingerOK, FifoOK
<1>6. layers' = layers /\ inbox' = inbox /\ background' = background BY DEF Arrives
<1>7. OtherOK' BY <1>4, <1>6 DEF OtherOK
<1>8. LayersOK' BY <1>6 DEF FlingerOK, LayersOK
<1>9. CallsOK' BY <1>3, <1>6 DEF FlingerOK, CallsOK
<1>10. FlingerOK' BY <1>2, <1>5, <1>6, <1>7, <1>8, <1>9 DEF FlingerOK, Arrives
<1> QED BY <1>3, <1>4, <1>10

\* A transaction of the client that is newer than what has arrived.
LEMMA ClientArrives ==
  ASSUME FlingerOK, NEW t \in Transaction, t.token \in {OwnToken, SyncToken}, Arrives(t),
         otherSent' = otherSent, Top < t.frame,
         \A u \in Taken : u.token = t.token => u.frame < t.frame
  PROVE  FlingerOK' /\ Taken' = Taken \cup {t} /\ Top' = Top
<1>1. t.token \in Tokens /\ t.token # OtherToken /\ LayerOf[t.token] = BlastLayer
  BY TokensApart DEF Transaction
<1>2. \A u \in Arrived : u.token = t.token => u.frame < t.frame BY <1>1 DEF Taken
<1>3. OtherFits(layers, Arrived \cup {t}, otherSent')
  <2>1. layers[LayerOf[t.token]].frameNumber < t.frame BY <1>1 DEF Top
  <2>2. OtherFits(layers, Arrived, otherSent) BY DEF FlingerOK, OtherOK
  <2> QED BY <1>1, <2>1, <2>2 DEF OtherFits
<1>4. otherSent' \in BOOLEAN BY DEF FlingerOK
<1>5. FlingerOK' /\ Arrived' = Arrived \cup {t} /\ Top' = Top
  <2> HIDE DEF Top
  <2> QED BY <1>2, <1>3, <1>4, ArrivesFlinger
<1>6. Taken' = Taken \cup {t} BY <1>1, <1>5 DEF Taken
<1> QED BY <1>5, <1>6

\* The first transaction that b has sent arrives.
Delivers(b, c) == b.sent # <<>> /\ c = [b EXCEPT !.sent = Tail(@)]

\* It is newer than what arrived on its token, and the client fits without it.
LEMMA SentArrives ==
  ASSUME NEW b, NEW p, NEW h, NEW last, NEW freed, NEW arrived, arrived \in SUBSET Transaction,
         NEW top, Fits(b, p, h, last, freed, arrived, top), NEW c, Delivers(b, c)
  PROVE  LET t == Head(b.sent)
         IN /\ t \in Transaction /\ t.token = OwnToken /\ top < t.frame
            /\ \A u \in arrived : u.token = t.token => u.frame < t.frame
            /\ Fits(c, p, h, last, freed, arrived \cup {t}, top)
<1> DEFINE t   == Head(b.sent)
           out == Range(h) \cup arrived
           new == Range(h) \cup (arrived \cup {t})
<1>0. b.sent # <<>> /\ c = [b EXCEPT !.sent = Tail(@)] BY DEF Delivers
<1>1. /\ b \in BlastState /\ Client(b, last, Late(p), Wanted(p), out, top)
      /\ Sent(b.sent, Filled(b), out) /\ p \in ProducerState /\ h \in Seq(Transaction)
      /\ HeldOK(h, arrived)
      /\ Range(b.mPendingRelease) \cup freed \subseteq Spare(b, last, out, top)
      /\ p.at # "idle" => p.frame = last
      /\ p.at = "acquire" => Len(b.queue) <= 1
  BY DEF Fits, Client
<1>2. b.sent \in Seq(Transaction) BY <1>1 DEF BlastState
<1>3. /\ t \in Transaction /\ Tail(b.sent) \in Seq(Transaction)
      /\ Range(b.sent) = {t} \cup Range(Tail(b.sent))
  BY <1>0, <1>2, RangeTail, SMT
<1>4. /\ InOrder(Tail(b.sent))
      /\ \A u \in Range(Tail(b.sent)) : u.token = t.token => t.frame < u.frame
  BY <1>0, <1>1, <1>2, InOrderTail DEF Sent
<1>5. c \in BlastState BY <1>0, <1>1, <1>3 DEF BlastState
<1>6. /\ c.queue = b.queue /\ c.mNumFrameAvailable = b.mNumFrameAvailable
      /\ c.mNumAcquired = b.mNumAcquired /\ c.mSubmitted = b.mSubmitted
      /\ c.mPendingRelease = b.mPendingRelease
      /\ c.mSyncedFrameNumbers = b.mSyncedFrameNumbers
      /\ c.mLastAppliedFrameNumber = b.mLastAppliedFrameNumber
      /\ c.mTransactionReadyCallback = b.mTransactionReadyCallback
      /\ c.sent = Tail(b.sent) /\ c.mSyncTransaction = b.mSyncTransaction
  BY <1>0, <1>1 DEF BlastState
<1> HIDE DEF t
<1>7. Filled(c) = Filled(b) BY <1>6 DEF Filled
<1>8. Transactions(c, new) = Transactions(b, out)
  BY <1>3, <1>6, <1>7 DEF Transactions
<1>9. t \in Range(b.sent) /\ t.token = OwnToken BY <1>1, <1>3 DEF Sent
<1>10. \A u \in out : u.token = t.token => u.frame < t.frame BY <1>1, <1>9 DEF Sent, Ahead
<1>11. top < t.frame BY <1>1, <1>9 DEF Client, Used, Transactions
<1>12. Sent(c.sent, Filled(c), new)
  <2>1. \A u \in Range(c.sent) \cup Filled(c) : u.token = t.token => t.frame < u.frame
    <3>1. \A u \in Filled(c) : u.token = SyncToken BY <1>1, <1>7 DEF Client, Syncing, Filled
    <3> QED BY <1>4, <1>6, <1>9, <3>1, BlastAssumption
  <2>2. Range(c.sent) \subseteq Range(b.sent) BY <1>3, <1>6
  <2> QED BY <1>1, <1>4, <1>6, <1>7, <2>1, <2>2 DEF Sent, Ahead
<1>13. Client(c, last, Late(p), Wanted(p), new, top)
  BY <1>1, <1>5, <1>6, <1>8, <1>12 DEF Client
<1>14. HeldOK(h, arrived \cup {t}) BY <1>1, <1>9, BlastAssumption DEF HeldOK, Ahead
<1>15. Range(c.mPendingRelease) \cup freed \subseteq Spare(c, last, new, top)
  BY <1>1, <1>6, <1>8 DEF Spare
<1>16. Fits(c, p, h, last, freed, arrived \cup {t}, top)
  BY <1>1, <1>6, <1>13, <1>14, <1>15 DEF Fits
<1> QED BY <1>3, <1>9, <1>10, <1>11, <1>16 DEF t

\* The first transaction of the sync consumer arrives.
LEMMA HeldArrives ==
  ASSUME NEW b, NEW p, NEW h, NEW last, NEW freed, NEW arrived, arrived \in SUBSET Transaction,
         NEW top, Fits(b, p, h, last, freed, arrived, top), h # <<>>
  PROVE  LET t == Head(h)
         IN /\ t \in Transaction /\ t.token = SyncToken /\ top < t.frame
            /\ \A u \in arrived : u.token = t.token => u.frame < t.frame
            /\ Fits(b, p, Tail(h), last, freed, arrived \cup {t}, top)
<1> DEFINE t   == Head(h)
           l   == Tail(h)
           out == Range(h) \cup arrived
           new == Range(l) \cup (arrived \cup {t})
<1>1. /\ b \in BlastState /\ Client(b, last, Late(p), Wanted(p), out, top)
      /\ p \in ProducerState /\ h \in Seq(Transaction)
      /\ HeldOK(h, arrived)
      /\ Range(b.mPendingRelease) \cup freed \subseteq Spare(b, last, out, top)
      /\ p.at # "idle" => p.frame = last
      /\ p.at = "acquire" => Len(b.queue) <= 1
  BY DEF Fits, Client
<1>2. t \in Transaction /\ l \in Seq(Transaction) /\ Range(h) = {t} \cup Range(l)
  BY <1>1, RangeTail, SMT
<1>3. InOrder(l) /\ \A u \in Range(l) : u.token = t.token => t.frame < u.frame
  BY <1>1, InOrderTail DEF HeldOK
<1> HIDE DEF t, l
<1>4. new = out BY <1>2
<1>5. t \in Range(h) /\ t.token = SyncToken BY <1>1, <1>2 DEF HeldOK
<1>6. top < t.frame BY <1>1, <1>5 DEF Client, Used, Transactions
<1>7. \A u \in arrived : u.token = t.token => u.frame < t.frame
  BY <1>1, <1>5 DEF HeldOK, Ahead
<1>8. HeldOK(l, arrived \cup {t})
  <2>1. \A u \in Range(l) : u \in Range(h) BY <1>2
  <2>2. Ahead(arrived \cup {t}, Range(l)) BY <1>1, <1>3, <2>1 DEF HeldOK, Ahead
  <2> QED BY <1>1, <1>3, <2>1, <2>2 DEF HeldOK
<1>9. /\ Client(b, last, Late(p), Wanted(p), new, top)
      /\ Range(b.mPendingRelease) \cup freed \subseteq Spare(b, last, new, top)
  BY <1>1, <1>4
<1>10. Fits(b, p, l, last, freed, arrived \cup {t}, top)
  BY <1>1, <1>2, <1>8, <1>9 DEF Fits
<1> QED BY <1>2, <1>5, <1>6, <1>7, <1>10 DEF t, l

\* The arrival of a transaction keeps the invariant.
LEMMA ArrivalSteps ==
  ASSUME DeliveryInvariant, OwnArrives \/ SyncArrives \/ OtherArrives
  PROVE  DeliveryInvariant'
<1>1. /\ Types /\ Fits(bbq, producer, held, lastFrame, Range(releaseThread), Taken, Top)
      /\ lastFrame \in 0 .. MaxFrames /\ releaseThread \in Seq(Nat) /\ FlingerOK
  BY InvariantParts DEF DeliveryInvariant, ClientOK, Types
<1>2. Taken \in SUBSET Transaction BY <1>1, TakenTyped
<1> HIDE DEF Taken, Top
<1>3. CASE OwnArrives
  <2> DEFINE t == Head(bbq.sent)
  <2>1. /\ Delivers(bbq, bbq') /\ Arrives(t)
        /\ UNCHANGED <<producer, lastFrame, held, releaseThread, otherSent>>
    BY <1>3 DEF OwnArrives, Delivers, QueueTransactionState, queueTransaction, flingerIdleVars, Arrives
  <2>2. /\ t \in Transaction /\ t.token = OwnToken /\ Top < t.frame
        /\ \A u \in Taken : u.token = t.token => u.frame < t.frame
        /\ Fits(bbq', producer, held, lastFrame, Range(releaseThread), Taken \cup {t}, Top)
    BY <1>1, <1>2, <2>1, SentArrives
  <2> HIDE DEF t
  <2>3. FlingerOK' /\ Taken' = Taken \cup {t} /\ Top' = Top
    <3>1. t.token \in {OwnToken, SyncToken} BY <2>2
    <3> QED BY <1>1, <2>1, <2>2, <3>1, ClientArrives
  <2>4. ClientOK' BY <2>1, <2>2, <2>3 DEF ClientOK
  <2> QED BY <1>1, <2>1, <2>3, <2>4, InvariantNext
<1>4. CASE SyncArrives
  <2> DEFINE t == Head(held)
  <2>1. /\ held # <<>> /\ held' = Tail(held) /\ Arrives(t)
        /\ UNCHANGED <<bbq, producer, lastFrame, releaseThread, otherSent>>
    BY <1>4 DEF SyncArrives, QueueTransactionState, queueTransaction, flingerIdleVars, Arrives
  <2>2. /\ t \in Transaction /\ t.token = SyncToken /\ Top < t.frame
        /\ \A u \in Taken : u.token = t.token => u.frame < t.frame
        /\ Fits(bbq, producer, held', lastFrame, Range(releaseThread), Taken \cup {t}, Top)
    BY <1>1, <1>2, <2>1, HeldArrives
  <2> HIDE DEF t
  <2>3. FlingerOK' /\ Taken' = Taken \cup {t} /\ Top' = Top
    <3>1. t.token \in {OwnToken, SyncToken} BY <2>2
    <3> QED BY <1>1, <2>1, <2>2, <3>1, ClientArrives
  <2>4. ClientOK' BY <2>1, <2>2, <2>3 DEF ClientOK
  <2> QED BY <1>1, <2>1, <2>3, <2>4, InvariantNext
<1>5. CASE OtherArrives
  <2> DEFINE t == [token |-> OtherToken, frame |-> 1, barrier |-> 0, callbacks |-> 0,
                   commits |-> 0]
  <2>1. /\ OtherToken \in Tokens /\ ~otherSent /\ otherSent' = TRUE /\ Arrives(t)
        /\ UNCHANGED <<bbq, producer, lastFrame, held, releaseThread>>
    BY <1>5 DEF OtherArrives, QueueTransactionState, queueTransaction, flingerIdleVars, Arrives
  <2>2. t \in Transaction /\ t.token = OtherToken /\ t.frame = 1
    <3>1. 0 \in Nat /\ 1 \in Nat BY SMT
    <3> QED BY <2>1, <3>1 DEF Transaction
  <2> HIDE DEF t
  <2>3. OtherFits(layers, Arrived, otherSent) BY <1>1 DEF FlingerOK, OtherOK
  <2>4. /\ layers[LayerOf[OtherToken]].frameNumber = 0
        /\ \A u \in Arrived : u.token # OtherToken
    BY <2>1, <2>3 DEF OtherFits
  <2>5. OtherFits(layers, Arrived \cup {t}, TRUE)
    <3>1. 0 < 1 BY SMT
    <3> QED BY <2>2, <2>3, <2>4, <3>1 DEF OtherFits
  <2>6. FlingerOK' /\ Arrived' = Arrived \cup {t} /\ Top' = Top
    BY <1>1, <2>1, <2>2, <2>4, <2>5, ArrivesFlinger
  <2>7. Taken' = Taken BY <2>2, <2>6 DEF Taken
  <2>8. ClientOK' BY <1>1, <2>1, <2>6, <2>7 DEF ClientOK
  <2> QED BY <1>1, <2>1, <2>6, <2>8, InvariantNext
<1> QED BY <1>3, <1>4, <1>5

\* The head of a list is in its range.
LEMMA HeadInRange ==
  ASSUME NEW T, NEW q \in Seq(T), q # <<>> PROVE Head(q) \in Range(q)
<1>1. Range(q) = {Head(q)} \cup Range(Tail(q)) BY RangeTail
<1> QED BY <1>1

-----------------------------------------------------------------------------
(* A flush: R has arrived, N is still with the client.                      *)

\* All of it is newer than what the layers have, a sync's frame comes after
\* the frames sent on the queue's own token and waits for them, and N comes
\* after R.
Pool(R, N) ==
    /\ R \in SUBSET Transaction /\ N \in SUBSET Transaction
    /\ \A t \in R \cup N : layers[LayerOf[t.token]].barrierFrameNumber < t.frame
    /\ \A l \in Layers : layers[l].barrierFrameNumber \in Nat
    /\ \A t, o \in R \cup N : t.token = SyncToken /\ o.token = OwnToken =>
          o.frame < t.frame /\ o.frame <= t.barrier
    /\ Ahead(R, N)

\* The queues Q hold what of R is not yet in X.
Queued(Q, X, R) ==
    /\ Q \in [Tokens -> Seq(Transaction)]
    /\ \A k \in Tokens : InOrder(Q[k])
    /\ \A k \in Tokens : \A t \in Range(Q[k]) :
          t.token = k /\ t \in R /\ t \notin Range(X)
    /\ \A t \in R : t \in Range(X) \/ t \in Range(Q[t.token])

\* X takes the frames of each layer in order, and none before an older one.
Chosen(X, R, N) ==
    /\ X \in Seq(Transaction) /\ Range(X) \subseteq R
    /\ \A i, j \in 1 .. Len(X) :
          i < j /\ LayerOf[X[i].token] = LayerOf[X[j].token] => X[i].frame < X[j].frame
    /\ \A x \in Range(X), u \in R \cup N :
          u \notin Range(X) /\ LayerOf[x.token] = LayerOf[u.token] => x.frame < u.frame

\* The frames ready to present are in X.
Presents(ready, X) ==
    /\ ready \in [Layers -> Nat]
    /\ \A l \in Layers : ready[l] # 0 =>
          \E x \in Range(X) : LayerOf[x.token] = l /\ x.frame = ready[l]

\* The queue whose head waits for its fence alone.
Lone(k, Q, X) ==
    k # None => /\ k \in Tokens /\ LayerOf[k] # BlastLayer
                /\ X = <<>> => Q[k] # <<>>

\* The state of a flush.
FlushState ==
    [queues                     : [Tokens -> Seq(Transaction)],
     transactions               : Seq(Transaction),
     bufferLayersReadyToPresent : [Layers -> Nat],
     firstTransaction           : BOOLEAN,
     queueWithUnsignaledBuffer  : Tokens \cup {None},
     pendingBarrier             : Nat,
     done                       : BOOLEAN]

\* What a flush of R promises at each point, while N are still to arrive.
Flushed(R, N) ==
    {s \in FlushState :
       /\ Queued(s.queues, s.transactions, R)
       /\ Chosen(s.transactions, R, N)
       /\ Presents(s.bufferLayersReadyToPresent, s.transactions)
       /\ Lone(s.queueWithUnsignaledBuffer, s.queues, s.transactions)}

\* The buffers of X have signaled fences.
Signaled(X) == \A x \in Range(X) : Buffer(x) \notin unsignaled

\* What a flush promises before applyUnsignaledBufferTransaction.
Flushes(R, N) == {s \in Flushed(R, N) : Signaled(s.transactions)}

\* A transaction may join X when nothing older of its layer is left behind.
Eldest(t, X, R, N) ==
    /\ t \in R /\ t \notin Range(X)
    /\ \A u \in R \cup N : u # t /\ u \notin Range(X) /\ LayerOf[t.token] = LayerOf[u.token] =>
          t.frame < u.frame

\* The eldest of a layer may be taken next.
LEMMA ChosenAppend ==
  ASSUME NEW R \in SUBSET Transaction, NEW N, NEW X, Chosen(X, R, N), NEW t,
         Eldest(t, X, R, N)
  PROVE  Chosen(Append(X, t), R, N)
<1> DEFINE Y == Append(X, t)
<1>1. X \in Seq(Transaction) /\ Range(X) \subseteq R BY DEF Chosen
<1>2. t \in Transaction /\ t \in R /\ t \notin Range(X) BY DEF Eldest
<1>3. Y \in Seq(Transaction) /\ Range(Y) = Range(X) \cup {t} BY <1>1, <1>2, RangeAppend, SMT
<1>4. PICK n \in Nat : n = Len(X) BY <1>1, SMT
<1>5. /\ Len(Y) = n + 1 /\ Y[n + 1] = t
      /\ \A i \in 1 .. n : Y[i] = X[i] /\ X[i] \in Range(X)
  <2>1. \A i \in 1 .. n : X[i] \in Range(X) BY <1>1, <1>4, RangeTyped
  <2> QED BY <1>1, <1>2, <1>4, <2>1, SMT
<1> HIDE DEF Y
<1>6. ASSUME NEW i \in 1 .. n + 1, NEW j \in 1 .. n + 1, i < j,
             LayerOf[Y[i].token] = LayerOf[Y[j].token]
      PROVE  Y[i].frame < Y[j].frame
  <2>1. i \in 1 .. n BY <1>6, SMT
  <2>2. j \in 1 .. n \/ j = n + 1 BY SMT
  <2>3. CASE j \in 1 .. n BY <1>4, <1>5, <1>6, <2>1, <2>3 DEF Chosen
  <2>4. CASE j = n + 1
    <3>1. Y[j] = t BY <1>5, <2>4
    <3>2. Y[i] \in Range(X) BY <1>5, <2>1
    <3> QED BY <1>2, <1>6, <3>1, <3>2 DEF Chosen
  <2> QED BY <2>2, <2>3, <2>4
<1>7. \A i, j \in 1 .. Len(Y) :
         i < j /\ LayerOf[Y[i].token] = LayerOf[Y[j].token] => Y[i].frame < Y[j].frame
  BY <1>5, <1>6
<1>8. ASSUME NEW x \in Range(Y), NEW u \in R \cup N, u \notin Range(Y),
             LayerOf[x.token] = LayerOf[u.token]
      PROVE  x.frame < u.frame
  <2>1. u \notin Range(X) /\ u # t BY <1>3, <1>8
  <2>2. CASE x = t BY <1>8, <2>1, <2>2 DEF Eldest
  <2>3. CASE x \in Range(X) BY <1>8, <2>1, <2>3 DEF Chosen
  <2> QED BY <1>3, <2>2, <2>3
<1>9. Chosen(Y, R, N) BY <1>1, <1>2, <1>3, <1>7, <1>8 DEF Chosen
<1> QED BY <1>3, <1>9 DEF Y

\* A sync's frame that need not wait: no older frame of its layer is left.
LEMMA BarrierReached ==
  ASSUME NEW R, NEW N, Pool(R, N), NEW X, Chosen(X, R, N), NEW s,
         Presents(s.bufferLayersReadyToPresent, X),
         NEW t \in R \cup N, t.token = SyncToken, ~WaitsForBarrier(s, t),
         NEW o \in R \cup N, o.token = OwnToken
  PROVE  o \in Range(X)
<1> DEFINE l == BlastLayer
<1>1. LayerOf[t.token] = l /\ LayerOf[o.token] = l /\ l \in Layers BY TokensApart, LayersAssumption
<1>2. /\ layers[l].barrierFrameNumber < o.frame /\ o.frame <= t.barrier
      /\ layers[l].barrierFrameNumber \in Nat /\ o.frame \in Nat /\ t.barrier \in Nat
  BY <1>1 DEF Pool, Transaction
<1>3. SUFFICES ASSUME o \notin Range(X) PROVE FALSE OBVIOUS
<1>4. s.bufferLayersReadyToPresent[l] \in Nat BY <1>1 DEF Presents
<1>5. ~(layers[l].barrierFrameNumber < t.barrier) \/ ~(s.bufferLayersReadyToPresent[l] < t.barrier)
  BY <1>1 DEF WaitsForBarrier
<1>6. t.barrier <= s.bufferLayersReadyToPresent[l] /\ s.bufferLayersReadyToPresent[l] # 0
  BY <1>2, <1>4, <1>5, SMT
<1>7. PICK x \in Range(X) : LayerOf[x.token] = l /\ x.frame = s.bufferLayersReadyToPresent[l]
  BY <1>1, <1>6 DEF Presents
<1>8. x.frame < o.frame BY <1>1, <1>3, <1>7 DEF Chosen
<1> QED BY <1>2, <1>4, <1>6, <1>7, <1>8, SMT

\* The head of a queue is the next one of its layer.
LEMMA HeadIsNext ==
  ASSUME NEW R, NEW N, Pool(R, N), NEW Q, NEW X, Queued(Q, X, R), Chosen(X, R, N),
         NEW k \in Tokens, Q[k] # <<>>,
         k = SyncToken => \A o \in R \cup N : o.token = OwnToken => o \in Range(X)
  PROVE  Head(Q[k]) \in Range(Q[k]) /\ Eldest(Head(Q[k]), X, R, N)
<1> DEFINE q == Q[k]
           t == Head(q)
<1>1. q \in Seq(Transaction) /\ InOrder(q) BY DEF Queued
<1>2. q # <<>> OBVIOUS
<1> HIDE DEF q
<1>3. t \in Range(q) /\ Range(q) = {t} \cup Range(Tail(q)) BY <1>1, <1>2, RangeTail
<1>4. \A u \in Range(Tail(q)) : u.token = t.token => t.frame < u.frame
  BY <1>1, <1>2, InOrderTail
<1> HIDE DEF t
<1>5. \A u \in Range(q) : u.token = k /\ u \in R /\ u \notin Range(X) BY DEF Queued, q
<1>6. ASSUME NEW u \in R \cup N, u # t, u \notin Range(X), LayerOf[t.token] = LayerOf[u.token]
      PROVE  t.frame < u.frame
  <2>1. CASE u.token = k
    <3>1. CASE u \in N BY <1>3, <1>5, <2>1, <3>1 DEF Pool, Ahead
    <3>2. CASE u \in R
      <4>1. u \in Range(q) BY <1>6, <2>1, <3>2 DEF Queued, q
      <4> QED BY <1>3, <1>4, <1>5, <1>6, <4>1
    <3> QED BY <3>1, <3>2
  <2>2. CASE u.token # k
    <3>1. t.token = k /\ t \in R BY <1>3, <1>5
    <3>2. u.token \in Tokens BY DEF Pool, Transaction
    <3>3. {k, u.token} = {OwnToken, SyncToken}
      BY <1>6, <2>2, <3>1, <3>2, TokensApart
    <3>4. ~(u.token = OwnToken /\ k = SyncToken) BY <1>6
    <3>5. u.token = SyncToken /\ k = OwnToken BY <2>2, <3>3, <3>4
    <3> QED BY <3>1, <3>5 DEF Pool
  <2> QED BY <2>1, <2>2
<1>7. Eldest(t, X, R, N) BY <1>3, <1>5, <1>6 DEF Eldest
<1> QED BY <1>3, <1>7 DEF q, t

\* The queues without a head that was taken.
LEMMA QueuedPop ==
  ASSUME NEW R \in SUBSET Transaction, NEW Q, NEW X, Queued(Q, X, R),
         NEW k \in Tokens, Q[k] # <<>>, NEW Y,
         Range(Y) = Range(X) \cup {Head(Q[k])}
  PROVE  Queued([Q EXCEPT ![k] = Tail(@)], Y, R)
<1> DEFINE q == Q[k]
           t == Head(q)
           P == [Q EXCEPT ![k] = Tail(@)]
<1>1. q \in Seq(Transaction) /\ InOrder(q) /\ q # <<>> BY DEF Queued
<1> HIDE DEF q
<1>2. t \in Range(q) /\ Range(q) = {t} \cup Range(Tail(q)) /\ t \in Transaction
  <2>1. t \in Transaction /\ Range(q) = {t} \cup Range(Tail(q)) BY <1>1, RangeTail
  <2> QED BY <2>1
<1>3. /\ Tail(q) \in Seq(Transaction) /\ InOrder(Tail(q))
      /\ \A u \in Range(Tail(q)) : u.token = t.token => t.frame < u.frame
  BY <1>1, InOrderTail
<1> HIDE DEF t
<1>4. P \in [Tokens -> Seq(Transaction)] BY <1>3 DEF Queued, q
<1>5. P[k] = Tail(q) /\ \A j \in Tokens : j # k => P[j] = Q[j] BY DEF Queued, q
<1> HIDE DEF P
<1>6. \A u \in Range(q) : u.token = k /\ u \in R /\ u \notin Range(X) BY DEF Queued, q
<1>7. Range(Y) = Range(X) \cup {t} BY DEF t, q
<1>8. ASSUME NEW j \in Tokens
      PROVE  InOrder(P[j]) /\ \A u \in Range(P[j]) : u.token = j /\ u \in R /\ u \notin Range(Y)
  <2>1. CASE j = k
    <3>1. t.frame \in Nat BY <1>2 DEF Transaction
    <3>2. ~(t.frame < t.frame) BY <3>1, SMT
    <3>3. \A u \in Range(Tail(q)) : u # t BY <1>2, <1>3, <1>6, <3>2
    <3> QED BY <1>2, <1>3, <1>5, <1>6, <1>7, <2>1, <3>3
  <2>2. CASE j # k
    <3>1. P[j] = Q[j] /\ t.token = k BY <1>2, <1>5, <1>6, <2>2
    <3>2. InOrder(P[j]) /\ \A u \in Range(P[j]) : u.token = j /\ u \in R /\ u \notin Range(X)
      BY <3>1 DEF Queued
    <3>3. \A u \in Range(P[j]) : u # t BY <2>2, <3>1, <3>2
    <3> QED BY <1>7, <3>2, <3>3
  <2> QED BY <2>1, <2>2
<1>9. ASSUME NEW u \in R PROVE u \in Range(Y) \/ u \in Range(P[u.token])
  <2>1. CASE u \in Range(X) BY <1>7, <2>1
  <2>2. CASE u \in Range(Q[u.token])
    <3>1. CASE u.token = k BY <1>2, <1>5, <1>7, <2>2, <3>1 DEF q
    <3>2. CASE u.token # k
      <4>1. u.token \in Tokens BY DEF Transaction
      <4> QED BY <1>5, <2>2, <3>2, <4>1
    <3> QED BY <3>1, <3>2
  <2> QED BY <2>1, <2>2 DEF Queued
<1>10. Queued(P, Y, R) BY <1>4, <1>8, <1>9 DEF Queued
<1> QED BY <1>10 DEF P, q

\* The layer's frame ready to present is the one taken last.
LEMMA PresentsPop ==
  ASSUME NEW ready, NEW X, Presents(ready, X), NEW t \in Transaction, NEW Y,
         Range(Y) = Range(X) \cup {t}
  PROVE  Presents([ready EXCEPT ![LayerOf[t.token]] = t.frame], Y)
<1> DEFINE l == LayerOf[t.token]
           new == [ready EXCEPT ![l] = t.frame]
<1>1. t.frame \in Nat BY DEF Transaction
<1>2. new \in [Layers -> Nat] BY <1>1 DEF Presents
<1>3. l \in Layers => new[l] = t.frame BY DEF Presents
<1>4. \A m \in Layers : m # l => new[m] = ready[m] BY DEF Presents
<1> HIDE DEF new
<1>5. ASSUME NEW m \in Layers, new[m] # 0
      PROVE  \E x \in Range(Y) : LayerOf[x.token] = m /\ x.frame = new[m]
  <2>1. CASE m = l BY <1>3, <2>1
  <2>2. CASE m # l BY <1>4, <1>5, <2>2 DEF Presents
  <2> QED BY <2>1, <2>2
<1>6. Presents(new, Y) BY <1>2, <1>5 DEF Presents
<1> QED BY <1>6 DEF new

\* popTransactionFromPending takes a head that need not wait.
LEMMA PopKeeps ==
  ASSUME NEW R, NEW N, Pool(R, N), NEW s \in Flushed(R, N), NEW k \in Tokens,
         s.queues[k] # <<>>, k = SyncToken => ~WaitsForBarrier(s, Head(s.queues[k]))
  PROVE  /\ popTransactionFromPending(s, k) \in Flushed(R, N)
         /\ popTransactionFromPending(s, k).transactions =
               Append(s.transactions, Head(s.queues[k]))
<1> DEFINE Q == s.queues
           X == s.transactions
           t == Head(Q[k])
           Y == Append(X, t)
           next == popTransactionFromPending(s, k)
<1>1. /\ s \in FlushState /\ Queued(Q, X, R) /\ Chosen(X, R, N)
      /\ Presents(s.bufferLayersReadyToPresent, X)
      /\ Lone(s.queueWithUnsignaledBuffer, Q, X)
  BY DEF Flushed
<1>2. Q[k] \in Seq(Transaction) /\ Q[k] # <<>> BY <1>1 DEF Queued
<1>3. t \in Range(Q[k]) BY <1>2, HeadInRange
<1>4. t \in Transaction /\ t \in R /\ t.token = k BY <1>1, <1>3 DEF Queued, Pool
<1>5. k = SyncToken => \A o \in R \cup N : o.token = OwnToken => o \in Range(X)
  <2>1. ASSUME k = SyncToken, NEW o \in R \cup N, o.token = OwnToken PROVE o \in Range(X)
    <3>1. t \in R \cup N /\ t.token = SyncToken /\ ~WaitsForBarrier(s, t) BY <1>4, <2>1
    <3> HIDE DEF t, X
    <3> QED BY <1>1, <2>1, <3>1, BarrierReached
  <2> QED BY <2>1
<1>6. Eldest(t, X, R, N) BY <1>1, <1>2, <1>5, HeadIsNext
<1>7. Chosen(Y, R, N) /\ Range(Y) = Range(X) \cup {t}
  <2>1. R \in SUBSET Transaction BY DEF Pool
  <2>2. X \in Seq(Transaction) BY <1>1 DEF Chosen
  <2>3. Range(Y) = Range(X) \cup {t} BY <1>4, <2>2, RangeAppend, SMT
  <2> QED BY <1>1, <1>6, <2>1, <2>3, ChosenAppend
<1>8. Queued([Q EXCEPT ![k] = Tail(@)], Y, R)
  <2>1. R \in SUBSET Transaction BY DEF Pool
  <2> HIDE DEF Y, Q, X
  <2> QED BY <1>1, <1>2, <1>7, <2>1, QueuedPop
<1>9. Presents([s.bufferLayersReadyToPresent EXCEPT ![LayerOf[k]] = t.frame], Y)
  BY <1>1, <1>4, <1>7, PresentsPop
<1>10. Y # <<>>
  <2>1. X \in Seq(Transaction) BY <1>1 DEF Chosen
  <2> QED BY <1>4, <2>1, SMT
<1>11. /\ next.queues = [Q EXCEPT ![k] = Tail(@)]
       /\ next.transactions = Y
       /\ next.bufferLayersReadyToPresent =
             [s.bufferLayersReadyToPresent EXCEPT ![LayerOf[k]] = t.frame]
       /\ next.firstTransaction = FALSE
       /\ next.queueWithUnsignaledBuffer = s.queueWithUnsignaledBuffer
       /\ next.pendingBarrier = s.pendingBarrier /\ next.done = s.done
  BY <1>1 DEF popTransactionFromPending, FlushState
<1>12. next \in FlushState
  <2>1. /\ Y \in Seq(Transaction) /\ FALSE \in BOOLEAN
        /\ [Q EXCEPT ![k] = Tail(@)] \in [Tokens -> Seq(Transaction)]
        /\ [s.bufferLayersReadyToPresent EXCEPT ![LayerOf[k]] = t.frame] \in [Layers -> Nat]
    BY <1>7, <1>8, <1>9 DEF Queued, Chosen, Presents
  <2> QED BY <1>1, <2>1 DEF popTransactionFromPending, FlushState
<1>13. Lone(next.queueWithUnsignaledBuffer, next.queues, next.transactions)
  <2> HIDE DEF next
  <2> QED BY <1>1, <1>10, <1>11 DEF Lone
<1> HIDE DEF next
<1>14. next \in Flushed(R, N) BY <1>7, <1>8, <1>9, <1>11, <1>12, <1>13 DEF Flushed
<1> QED BY <1>11, <1>14 DEF next

\* If its fence has signaled, only signaled ones are taken.
LEMMA PopSignaled ==
  ASSUME NEW R, NEW N, Pool(R, N), NEW s \in Flushes(R, N), NEW k \in Tokens,
         s.queues[k] # <<>>, ~WaitsForBarrier(s, Head(s.queues[k])),
         Buffer(Head(s.queues[k])) \notin unsignaled
  PROVE  popTransactionFromPending(s, k) \in Flushes(R, N)
<1> DEFINE X == s.transactions
           t == Head(s.queues[k])
           next == popTransactionFromPending(s, k)
<1>1. s \in Flushed(R, N) /\ Signaled(X) BY DEF Flushes
<1>2. next \in Flushed(R, N) /\ next.transactions = Append(X, t) BY <1>1, PopKeeps
<1> HIDE DEF next
<1>3. X \in Seq(Transaction) /\ t \in Transaction
  <2>1. s.queues[k] \in Seq(Transaction) BY <1>1 DEF Flushed, FlushState
  <2>2. t \in Range(s.queues[k]) BY <2>1, HeadInRange
  <2>3. t \in R BY <1>1, <2>2 DEF Flushed, Queued
  <2> QED BY <1>1, <2>3 DEF Flushed, FlushState, Pool
<1>4. Range(Append(X, t)) = Range(X) \cup {t}
  <2> HIDE DEF X, t
  <2> QED BY <1>3, RangeAppend, SMT
<1>5. Signaled(next.transactions)
  <2> HIDE DEF X
  <2> QED BY <1>1, <1>2, <1>4 DEF Signaled
<1>6. next \in Flushes(R, N) BY <1>2, <1>5 DEF Flushes
<1> QED BY <1>6 DEF next

\* Counting a barrier and noting a queue with an unsignaled buffer.
LEMMA MarkKeeps ==
  ASSUME NEW R, NEW N, NEW s \in Flushes(R, N), NEW n \in Nat, NEW k \in Tokens \cup {None},
         Lone(k, s.queues, s.transactions)
  PROVE  [s EXCEPT !.pendingBarrier = n, !.queueWithUnsignaledBuffer = k] \in Flushes(R, N)
<1> DEFINE c == [s EXCEPT !.pendingBarrier = n, !.queueWithUnsignaledBuffer = k]
<1>1. s \in FlushState BY DEF Flushes, Flushed
<1>2. c \in FlushState BY <1>1 DEF FlushState
<1>3. /\ c.queues = s.queues /\ c.transactions = s.transactions
      /\ c.bufferLayersReadyToPresent = s.bufferLayersReadyToPresent
      /\ c.queueWithUnsignaledBuffer = k
  BY <1>1 DEF FlushState
<1> HIDE DEF c
<1>4. c \in Flushes(R, N) BY <1>2, <1>3 DEF Flushes, Flushed
<1> QED BY <1>4 DEF c

\* The end of a pass, and the start of one.
LEMMA DoneKeeps ==
  ASSUME NEW R, NEW N, NEW s \in Flushes(R, N), NEW d \in BOOLEAN
  PROVE  /\ [s EXCEPT !.done = d] \in Flushes(R, N)
         /\ [s EXCEPT !.pendingBarrier = 0] \in Flushes(R, N)
<1> DEFINE c == [s EXCEPT !.done = d]
           e == [s EXCEPT !.pendingBarrier = 0]
<1>1. s \in FlushState BY DEF Flushes, Flushed
<1>2. c \in FlushState BY <1>1 DEF FlushState
<1>3. e \in FlushState
  <2>1. 0 \in Nat BY SMT
  <2> QED BY <1>1, <2>1 DEF FlushState
<1>4. /\ c.queues = s.queues /\ c.transactions = s.transactions
      /\ c.bufferLayersReadyToPresent = s.bufferLayersReadyToPresent
      /\ c.queueWithUnsignaledBuffer = s.queueWithUnsignaledBuffer
  BY <1>1 DEF FlushState
<1>5. /\ e.queues = s.queues /\ e.transactions = s.transactions
      /\ e.bufferLayersReadyToPresent = s.bufferLayersReadyToPresent
      /\ e.queueWithUnsignaledBuffer = s.queueWithUnsignaledBuffer
  BY <1>1 DEF FlushState
<1> HIDE DEF c, e
<1>6. c \in Flushes(R, N) BY <1>2, <1>4 DEF Flushes, Flushed
<1>7. e \in Flushes(R, N) BY <1>3, <1>5 DEF Flushes, Flushed
<1> QED BY <1>6, <1>7 DEF c, e

\* What a verdict of the filters says.
LEMMA FilterVerdicts ==
  ASSUME NEW s, NEW t, NEW configEarly
  PROVE  LET ready == applyFilters(s, t, configEarly)
         IN /\ ready = "Ready" => ~WaitsForBarrier(s, t) /\ Buffer(t) \notin unsignaled
            /\ ready = "NotReadyUnsignaled" => LayerOf[t.token] # BlastLayer
<1>1. CASE transactionReadyTimelineCheck(t) # "Ready" BY <1>1 DEF applyFilters
<1>2. CASE transactionReadyTimelineCheck(t) = "Ready"
  <2>1. applyFilters(s, t, configEarly) = transactionReadyBufferCheck(s, t, configEarly)
    BY <1>2 DEF applyFilters
  <2>2. CASE WaitsForBarrier(s, t) BY <2>1, <2>2 DEF transactionReadyBufferCheck
  <2>3. CASE ~WaitsForBarrier(s, t)
    <3>1. transactionReadyBufferCheck(s, t, configEarly) = "Ready" => Buffer(t) \notin unsignaled
      BY <2>3 DEF transactionReadyBufferCheck
    <3>2. CASE AllowLatchUnsignaled(s, t, configEarly)
      BY <2>1, <2>3, <3>1, <3>2 DEF AllowLatchUnsignaled
    <3>3. CASE ~AllowLatchUnsignaled(s, t, configEarly)
      <4>1. transactionReadyBufferCheck(s, t, configEarly) # "NotReadyUnsignaled"
        BY <2>3, <3>3 DEF transactionReadyBufferCheck
      <4> QED BY <2>1, <2>3, <3>1, <4>1
    <3> QED BY <3>2, <3>3
  <2> QED BY <2>2, <2>3
<1> QED BY <1>1, <1>2

\* The state of the loop over one queue.
Visits(R, N) == [stop : BOOLEAN, state : Flushes(R, N)]

\* One turn of the loop over a queue.
LEMMA FlushHeadKeeps ==
  ASSUME NEW R, NEW N, Pool(R, N), NEW a \in Visits(R, N), NEW k \in Tokens, NEW configEarly
  PROVE  FlushHead(a, k, configEarly) \in Visits(R, N)
<1> DEFINE s == a.state
           t == Head(s.queues[k])
           ready == applyFilters(s, t, configEarly)
           next == FlushHead(a, k, configEarly)
<1>1. a.stop \in BOOLEAN /\ s \in Flushes(R, N) BY DEF Visits
<1>2. /\ ready = "Ready" => ~WaitsForBarrier(s, t) /\ Buffer(t) \notin unsignaled
      /\ ready = "NotReadyUnsignaled" => LayerOf[t.token] # BlastLayer
  BY FilterVerdicts
<1> HIDE DEF ready
<1>3. CASE a.stop \/ s.queues[k] = <<>>
  <2>1. next = a BY <1>3 DEF FlushHead
  <2> QED BY <2>1
<1>4. CASE ~a.stop /\ s.queues[k] # <<>> /\ ready = "Ready"
  <2>1. next = [a EXCEPT !.state = popTransactionFromPending(s, k)]
    BY <1>4 DEF FlushHead, ready
  <2>2. popTransactionFromPending(s, k) \in Flushes(R, N) BY <1>1, <1>2, <1>4, PopSignaled
  <2> QED BY <2>1, <2>2 DEF Visits
<1>5. CASE ~a.stop /\ s.queues[k] # <<>> /\ ready # "Ready"
  <2> DEFINE n == IF ready = "NotReadyBarrier" THEN s.pendingBarrier + 1 ELSE s.pendingBarrier
             j == IF ready = "NotReadyUnsignaled" THEN k ELSE s.queueWithUnsignaledBuffer
  <2>1. next = [stop |-> TRUE,
                state |-> [s EXCEPT !.pendingBarrier = n, !.queueWithUnsignaledBuffer = j]]
    <3>1. s \in FlushState BY <1>1 DEF Flushes, Flushed
    <3> DEFINE m == [s EXCEPT !.pendingBarrier = n]
    <3>2. m.queueWithUnsignaledBuffer = s.queueWithUnsignaledBuffer BY <3>1 DEF FlushState
    <3>3. next = [stop |-> TRUE,
                  state |-> [m EXCEPT !.queueWithUnsignaledBuffer =
                                IF ready = "NotReadyUnsignaled" THEN k
                                ELSE m.queueWithUnsignaledBuffer]]
      BY <1>5 DEF FlushHead, ready
    <3>4. (IF ready = "NotReadyUnsignaled" THEN k ELSE m.queueWithUnsignaledBuffer) = j
      BY <3>2
    <3>5. next = [stop |-> TRUE, state |-> [m EXCEPT !.queueWithUnsignaledBuffer = j]]
      <4> HIDE DEF m, j, ready, next
      <4> QED BY <3>3, <3>4
    <3> HIDE DEF n, j, next
    <3> QED BY <3>5
  <2>2. n \in Nat
    <3>1. s.pendingBarrier \in Nat BY <1>1 DEF Flushes, Flushed, FlushState
    <3> QED BY <3>1, SMT
  <2>3. j \in Tokens \cup {None} BY <1>1 DEF Flushes, Flushed, FlushState
  <2>4. Lone(j, s.queues, s.transactions)
    <3>1. CASE ready = "NotReadyUnsignaled"
      <4>1. s.queues[k] \in Seq(Transaction) BY <1>1 DEF Flushes, Flushed, FlushState
      <4>2. t \in Range(s.queues[k]) BY <1>5, <4>1, HeadInRange
      <4>3. t.token = k BY <1>1, <4>2 DEF Flushes, Flushed, Queued
      <4> QED BY <1>2, <1>5, <3>1, <4>3 DEF Lone
    <3>2. CASE ready # "NotReadyUnsignaled" BY <1>1, <3>2 DEF Flushes, Flushed
    <3> QED BY <3>1, <3>2
  <2> HIDE DEF n, j, s, next
  <2>5. [s EXCEPT !.pendingBarrier = n, !.queueWithUnsignaledBuffer = j] \in Flushes(R, N)
    BY <1>1, <2>2, <2>3, <2>4, MarkKeeps
  <2>6. next \in Visits(R, N) BY <2>1, <2>5 DEF Visits
  <2> QED BY <2>6 DEF next
<1> QED BY <1>3, <1>4, <1>5

\* The loop over a queue.
LEMMA FlushQueueKeeps ==
  ASSUME NEW R, NEW N, Pool(R, N), NEW s \in Flushes(R, N), NEW k \in Tokens, NEW configEarly
  PROVE  FlushQueue(s, k, configEarly) \in Flushes(R, N)
<1> DEFINE q == s.queues[k]
           c == [stop |-> FALSE, state |-> s]
           X == Visits(R, N)
           Op(a, t) == FlushHead(a, k, configEarly)
           F == [p \in X \X Transaction |-> Op(p[1], p[2])]
           Body(g) == [n \in 0 .. Len(q) |-> IF n = 0 THEN c ELSE Op(g[n - 1], q[n])]
           after == CHOOSE g : g = Body(g)
<1>1. q \in Seq(Transaction) BY DEF Flushes, Flushed, FlushState
<1>2. c \in X BY DEF Visits
<1>3. FlushQueue(s, k, configEarly) = after[Len(q)].state
  <2>1. FlushQueue(s, k, configEarly) =
           Fold(LAMBDA a, t : FlushHead(a, k, configEarly), c, q).state
    BY DEF FlushQueue
  <2> HIDE DEF c, q
  <2> QED BY <2>1 DEF Fold
<1> HIDE DEF c, q
<1>5. \A a \in X, t \in Transaction : Op(a, t) \in X BY FlushHeadKeeps
<1> HIDE DEF X, Op
<1>6. /\ F \in [X \X Transaction -> X]
      /\ \A a \in X, t \in Transaction : F[<<a, t>>] = Op(a, t)
  BY <1>5, SMT
<1> HIDE DEF F
<1>7. PICK g : Turns(g, F, X, Transaction, c, q) BY <1>1, <1>2, <1>6, LoopExists
<1>8. g = Body(g)
  <2>1. \A n \in 1 .. Len(q) : g[n] = Op(g[n - 1], q[n]) BY <1>6, <1>7 DEF Turns
  <2>2. g \in [0 .. Len(q) -> X] /\ g[0] = c BY <1>7 DEF Turns
  <2> QED BY <2>1, <2>2, SMT
<1>9. after = Body(after) BY <1>8
<1> HIDE DEF after
<1>10. \A n \in 1 .. Len(q) : after[n] = Op(after[n - 1], q[n]) /\ q[n] \in Transaction
  <2>1. \A n \in 0 .. Len(q) : after[n] = IF n = 0 THEN c ELSE Op(after[n - 1], q[n])
    BY <1>9
  <2> QED BY <1>1, <2>1, Indices
<1>11. after[0] \in X BY <1>1, <1>2, <1>9, SMT
<1>12. \A n \in 1 .. Len(q) : after[n - 1] \in X => after[n] \in X BY <1>5, <1>10
<1>13. after[Len(q)] \in X BY <1>1, <1>11, <1>12, LoopStays
<1> QED BY <1>3, <1>13 DEF X, Visits

\* flushPendingTransactionQueues, in any order of the queues.
LEMMA FlushPendingKeeps ==
  ASSUME NEW R, NEW N, Pool(R, N), NEW s \in Flushes(R, N), NEW q \in Seq(Tokens),
         NEW configEarly
  PROVE  flushPendingTransactionQueues(s, q, configEarly) \in Flushes(R, N)
<1> DEFINE c == [s EXCEPT !.pendingBarrier = 0]
           X == Flushes(R, N)
           Op(a, k) == FlushQueue(a, k, configEarly)
           F == [p \in X \X Tokens |-> Op(p[1], p[2])]
           Body(g) == [n \in 0 .. Len(q) |-> IF n = 0 THEN c ELSE Op(g[n - 1], q[n])]
           after == CHOOSE g : g = Body(g)
<1>2. c \in X
  <2>1. TRUE \in BOOLEAN OBVIOUS
  <2> QED BY <2>1, DoneKeeps
<1>3. flushPendingTransactionQueues(s, q, configEarly) = after[Len(q)]
  <2>1. flushPendingTransactionQueues(s, q, configEarly) =
           Fold(LAMBDA a, k : FlushQueue(a, k, configEarly), c, q)
    BY DEF flushPendingTransactionQueues
  <2> HIDE DEF c
  <2> QED BY <2>1 DEF Fold
<1> HIDE DEF c
<1>5. \A a \in X, k \in Tokens : Op(a, k) \in X BY FlushQueueKeeps
<1> HIDE DEF X, Op
<1>6. F \in [X \X Tokens -> X] /\ \A a \in X, k \in Tokens : F[<<a, k>>] = Op(a, k)
  BY <1>5, SMT
<1> HIDE DEF F
<1>7. PICK g : Turns(g, F, X, Tokens, c, q) BY <1>2, <1>6, LoopExists
<1>8. g = Body(g)
  <2>1. \A n \in 1 .. Len(q) : g[n] = Op(g[n - 1], q[n]) BY <1>6, <1>7 DEF Turns
  <2>2. g \in [0 .. Len(q) -> X] /\ g[0] = c BY <1>7 DEF Turns
  <2> QED BY <2>1, <2>2, SMT
<1>9. after = Body(after) BY <1>8
<1> HIDE DEF after
<1>10. \A n \in 1 .. Len(q) : after[n] = Op(after[n - 1], q[n]) /\ q[n] \in Tokens
  <2>1. \A n \in 0 .. Len(q) : after[n] = IF n = 0 THEN c ELSE Op(after[n - 1], q[n])
    BY <1>9
  <2> QED BY <2>1, Indices
<1>11. after[0] \in X BY <1>2, <1>9, SMT
<1>12. \A n \in 1 .. Len(q) : after[n - 1] \in X => after[n] \in X BY <1>5, <1>10
<1>13. after[Len(q)] \in X BY <1>11, <1>12, LoopStays
<1> QED BY <1>3, <1>13 DEF X

\* One pass of the loop of flushTransactions.
LEMMA FlushPassKeeps ==
  ASSUME NEW R, NEW N, Pool(R, N), NEW s \in Flushes(R, N), NEW q \in Seq(Tokens),
         NEW configEarly
  PROVE  FlushPass(s, q, configEarly) \in Flushes(R, N)
<1> DEFINE next == flushPendingTransactionQueues(s, q, configEarly)
           d == next.pendingBarrier = s.pendingBarrier
<1>1. next \in Flushes(R, N) BY FlushPendingKeeps
<1>2. FlushPass(s, q, configEarly) = IF s.done THEN s ELSE [next EXCEPT !.done = d]
  BY DEF FlushPass
<1>3. d \in BOOLEAN OBVIOUS
<1> HIDE DEF next, d
<1>4. [next EXCEPT !.done = d] \in Flushes(R, N) BY <1>1, <1>3, DoneKeeps
<1> QED BY <1>2, <1>4

\* An order of a finite set lists its elements.
LEMMA OrdersTyped ==
  ASSUME NEW S, IsFiniteSet(S), NEW order \in Orders(S) PROVE order \in Seq(S)
<1>1. Cardinality(S) \in Nat BY FS_CardinalityType
<1> DEFINE n == Cardinality(S)
<1>2. order \in [1 .. n -> S] BY DEF Orders, Injection
<1> HIDE DEF n
<1>3. n \in Nat BY <1>1 DEF n
<1> QED BY <1>2, <1>3, SMT

\* The number of transactions waiting in the queues that q lists.
WaitingIn(Q, q) == Fold(LAMBDA n, k : n + Len(Q[k]), 0, q)

\* It is a number.
LEMMA WaitingCounted ==
  ASSUME NEW Q, \A k \in Tokens : Len(Q[k]) \in Nat, NEW q \in Seq(Tokens)
  PROVE  WaitingIn(Q, q) \in Nat
<1> DEFINE X == Nat
           z == 0
           Op(a, k) == a + Len(Q[k])
           F == [p \in X \X Tokens |-> Op(p[1], p[2])]
           Body(g) == [n \in 0 .. Len(q) |-> IF n = 0 THEN z ELSE Op(g[n - 1], q[n])]
           after == CHOOSE g : g = Body(g)
<1>1. WaitingIn(Q, q) = after[Len(q)] BY DEF WaitingIn, Fold
<1>2. \A a \in X, k \in Tokens : Op(a, k) \in X
  <2>2. ASSUME NEW a \in Nat, NEW k \in Tokens PROVE Op(a, k) \in Nat
    <3>1. PICK l \in Nat : l = Len(Q[k]) OBVIOUS
    <3>2. a + l \in Nat BY SMT
    <3> QED BY <3>1, <3>2
  <2> QED BY <2>2
<1> HIDE DEF X, z, Op
<1>3. F \in [X \X Tokens -> X] /\ \A a \in X, k \in Tokens : F[<<a, k>>] = Op(a, k)
  BY <1>2, SMT
<1> HIDE DEF F
<1>4. PICK g : Turns(g, F, X, Tokens, z, q)
  <2>1. z \in X BY SMT DEF z, X
  <2> QED BY <1>3, <2>1, LoopExists
<1>5. g = Body(g)
  <2>1. \A n \in 1 .. Len(q) : g[n] = Op(g[n - 1], q[n]) BY <1>3, <1>4 DEF Turns
  <2>2. g \in [0 .. Len(q) -> X] /\ g[0] = z BY <1>4 DEF Turns
  <2> QED BY <2>1, <2>2, SMT
<1>6. after = Body(after) BY <1>5
<1> HIDE DEF after
<1>7. \A n \in 1 .. Len(q) : after[n] = Op(after[n - 1], q[n]) /\ q[n] \in Tokens
  <2>1. \A n \in 0 .. Len(q) : after[n] = IF n = 0 THEN z ELSE Op(after[n - 1], q[n])
    BY <1>6
  <2> QED BY <2>1, Indices
<1>8. after[0] \in X
  <2>1. after[0] = z BY <1>6, SMT
  <2>2. z \in X BY SMT DEF z, X
  <2> QED BY <2>1, <2>2
<1>9. \A n \in 1 .. Len(q) : after[n - 1] \in X => after[n] \in X BY <1>2, <1>7
<1>10. after[Len(q)] \in X BY <1>8, <1>9, LoopStays
<1> QED BY <1>1, <1>10 DEF X

\* Passes of flushTransactions, one for each element of q.
Passes(s, order, configEarly, q) ==
    Fold(LAMBDA a, i : FlushPass(a, order, configEarly), s, q)

\* They keep what a flush promises.
LEMMA PassesKeep ==
  ASSUME NEW R, NEW N, Pool(R, N), NEW s \in Flushes(R, N), NEW order \in Seq(Tokens),
         NEW configEarly, NEW q \in Seq(Nat)
  PROVE  Passes(s, order, configEarly, q) \in Flushes(R, N)
<1> DEFINE X == Flushes(R, N)
           Y == Nat
           Op(a, i) == FlushPass(a, order, configEarly)
           F == [p \in X \X Y |-> Op(p[1], p[2])]
           Body(g) == [n \in 0 .. Len(q) |-> IF n = 0 THEN s ELSE Op(g[n - 1], q[n])]
           after == CHOOSE g : g = Body(g)
<1>1. Passes(s, order, configEarly, q) = after[Len(q)] BY DEF Passes, Fold
<1>2. \A a \in X, i \in Y : Op(a, i) \in X BY FlushPassKeeps
<1> HIDE DEF X, Y, Op
<1>3. F \in [X \X Y -> X] /\ \A a \in X, i \in Y : F[<<a, i>>] = Op(a, i) BY <1>2, SMT
<1> HIDE DEF F
<1>4. PICK g : Turns(g, F, X, Y, s, q)
  <2>1. s \in X /\ q \in Seq(Y) BY DEF X, Y
  <2> QED BY <1>3, <2>1, LoopExists
<1>5. g = Body(g)
  <2>1. \A n \in 1 .. Len(q) : g[n] = Op(g[n - 1], q[n]) BY <1>3, <1>4 DEF Turns
  <2>2. g \in [0 .. Len(q) -> X] /\ g[0] = s BY <1>4 DEF Turns
  <2> QED BY <2>1, <2>2, SMT
<1>6. after = Body(after) BY <1>5
<1> HIDE DEF after
<1>7. \A n \in 1 .. Len(q) : after[n] = Op(after[n - 1], q[n]) /\ q[n] \in Y
  <2>1. q \in Seq(Y) BY DEF Y
  <2>2. \A n \in 0 .. Len(q) : after[n] = IF n = 0 THEN s ELSE Op(after[n - 1], q[n])
    BY <1>6
  <2> QED BY <2>1, <2>2, Indices
<1>8. after[0] \in X
  <2>1. after[0] = s BY <1>6, SMT
  <2> QED BY <2>1 DEF X
<1>9. \A n \in 1 .. Len(q) : after[n - 1] \in X => after[n] \in X BY <1>2, <1>7
<1>10. after[Len(q)] \in X BY <1>8, <1>9, LoopStays
<1> QED BY <1>1, <1>10 DEF X

\* Nothing is taken at first.
LEMMA NothingChosen ==
  ASSUME NEW R, NEW N
  PROVE  /\ Range(<<>>) = {} /\ Chosen(<<>>, R, N)
         /\ Presents([l \in Layers |-> 0], <<>>)
<1>1. Range(<<>>) = {} BY SMT DEF Range
<1>2. <<>> \in Seq(Transaction) /\ Len(<<>>) = 0 /\ 1 .. 0 = {} /\ 0 \in Nat BY SMT
<1>3. Chosen(<<>>, R, N) BY <1>1, <1>2 DEF Chosen
<1>4. Presents([l \in Layers |-> 0], <<>>) BY <1>2 DEF Presents
<1> QED BY <1>1, <1>3, <1>4

\* The start of flushTransactions.
LEMMA StartFlushes ==
  ASSUME NEW R, NEW N, NEW Q, Queued(Q, <<>>, R)
  PROVE  FlushStart(Q) \in Flushes(R, N)
<1> DEFINE s == FlushStart(Q)
<1>1. /\ s.queues = Q /\ s.transactions = <<>>
      /\ s.bufferLayersReadyToPresent = [l \in Layers |-> 0]
      /\ s.queueWithUnsignaledBuffer = None
  BY DEF FlushStart
<1>2. s \in FlushState
  <2>1. <<>> \in Seq(Transaction) /\ 0 \in Nat BY SMT
  <2>2. Q \in [Tokens -> Seq(Transaction)] BY DEF Queued
  <2>3. [l \in Layers |-> 0] \in [Layers -> Nat] BY <2>1
  <2> QED BY <2>1, <2>2, <2>3 DEF FlushStart, FlushState
<1>3. Lone(None, Q, <<>>) BY DEF Lone
<1> HIDE DEF s
<1>4. s \in Flushes(R, N)
  BY <1>1, <1>2, <1>3, NothingChosen DEF Flushes, Flushed, Signaled
<1> QED BY <1>4 DEF s

\* An unsignaled buffer is the only one of X.
Alone(X) == Signaled(X) \/ \E x : Range(X) = {x}

\* applyUnsignaledBufferTransaction takes the head of the noted queue.
LEMMA ApplyUnsignaledKeeps ==
  ASSUME NEW R, NEW N, Pool(R, N), NEW s \in Flushes(R, N)
  PROVE  /\ applyUnsignaledBufferTransaction(s) \in Flushed(R, N)
         /\ Alone(applyUnsignaledBufferTransaction(s).transactions)
<1> DEFINE k == s.queueWithUnsignaledBuffer
           t == Head(s.queues[k])
<1>1. s \in Flushed(R, N) /\ Alone(s.transactions) BY DEF Flushes, Alone
<1>2. CASE k = None \/ s.transactions # <<>>
  BY <1>1, <1>2 DEF applyUnsignaledBufferTransaction
<1>3. CASE k # None /\ s.transactions = <<>>
  <2>1. applyUnsignaledBufferTransaction(s) = popTransactionFromPending(s, k)
    BY <1>3 DEF applyUnsignaledBufferTransaction
  <2>2. k \in Tokens /\ LayerOf[k] # BlastLayer /\ s.queues[k] # <<>>
    BY <1>1, <1>3 DEF Flushed, Lone
  <2>3. k # SyncToken BY <2>2, TokensApart
  <2> HIDE DEF k
  <2>4. /\ popTransactionFromPending(s, k) \in Flushed(R, N)
        /\ popTransactionFromPending(s, k).transactions = Append(s.transactions, t)
    BY <1>1, <2>2, <2>3, PopKeeps
  <2>5. t \in Transaction
    <3>1. s.queues[k] \in Seq(Transaction) BY <1>1, <2>2 DEF Flushed, FlushState
    <3>2. t \in Range(s.queues[k]) BY <2>2, <3>1, HeadInRange
    <3> QED BY <1>1, <2>2, <3>2 DEF Flushed, Queued, Pool
  <2> HIDE DEF t
  <2>6. Range(Append(<<>>, t)) = {t}
    <3>1. <<>> \in Seq(Transaction) BY SMT
    <3>2. PICK q \in Seq(Transaction) : q = <<>> BY <3>1
    <3>3. Range(Append(q, t)) = Range(q) \cup {t} BY <2>5, RangeAppend, SMT
    <3> QED BY <3>2, <3>3, NothingChosen
  <2> QED BY <1>3, <2>1, <2>4, <2>6 DEF Alone
<1> QED BY <1>2, <1>3

\* flushTransactions takes the frames of each layer in order, and leaves the
\* others in their queues.
LEMMA FlushTransactionsKeep ==
  ASSUME NEW R, NEW N, Pool(R, N), NEW Q, Queued(Q, <<>>, R), NEW order \in Seq(Tokens),
         NEW configEarly
  PROVE  /\ flushTransactions(Q, order, configEarly) \in Flushed(R, N)
         /\ Alone(flushTransactions(Q, order, configEarly).transactions)
<1> DEFINE w == WaitingIn(Q, order)
           p == [i \in 1 .. (2 * w + 2) |-> i]
           r == Passes(FlushStart(Q), order, configEarly, p)
<1>1. w \in Nat
  <2>1. ASSUME NEW k \in Tokens PROVE Len(Q[k]) \in Nat
    <3> DEFINE q == Q[k]
    <3>1. q \in Seq(Transaction) BY DEF Queued
    <3> HIDE DEF q
    <3>2. Len(q) \in Nat BY <3>1, SMT
    <3> QED BY <3>2 DEF q
  <2> QED BY <2>1, WaitingCounted
<1>2. flushTransactions(Q, order, configEarly) = applyUnsignaledBufferTransaction(r)
  BY DEF flushTransactions, Passes, WaitingIn
<1> HIDE DEF w
<1>3. p \in Seq(Nat) BY <1>1, SMT
<1> HIDE DEF p
<1>4. r \in Flushes(R, N)
  <2>1. FlushStart(Q) \in Flushes(R, N) BY StartFlushes
  <2> QED BY <1>3, <2>1, PassesKeep
<1> HIDE DEF r
<1> QED BY <1>2, <1>4, ApplyUnsignaledKeeps
-----------------------------------------------------------------------------
(* The lock-free queue q is sorted into the queues P.                       *)

\* The queues Q with t behind the others of its token.
Put(Q, t) == [Q EXCEPT ![t.token] = Append(@, t)]

\* The queues P with the transactions of q sorted into them.
SortedInto(P, q) == Fold(LAMBDA queues, t : [queues EXCEPT ![t.token] = Append(@, t)], P, q)

\* Queues and newer transactions, each in order.
Sortable(P, q) ==
    /\ P \in [Tokens -> Seq(Transaction)] /\ q \in Seq(Transaction) /\ InOrder(q)
    /\ \A k \in Tokens : InOrder(P[k])
    /\ \A k \in Tokens : \A t \in Range(P[k]) : t.token = k
    /\ \A k \in Tokens : Ahead(Range(P[k]), Range(q))

\* After n of its transactions.
Sorted(n, Q, P, q) ==
    /\ Q \in [Tokens -> Seq(Transaction)]
    /\ \A k \in Tokens : InOrder(Q[k])
    /\ \A k \in Tokens : \A t \in Range(Q[k]) :
          t.token = k /\ (t \in Range(P[k]) \/ \E i \in 1 .. n : t = q[i])
    /\ \A k \in Tokens : Range(P[k]) \subseteq Range(Q[k])
    /\ \A i \in 1 .. n : q[i] \in Range(Q[q[i].token])

\* One transaction more goes to the queue of its token.
LEMMA SortedStep ==
  ASSUME NEW P, NEW q, Sortable(P, q), NEW n \in Nat, n + 1 \in 1 .. Len(q), NEW Q,
         Sorted(n, Q, P, q)
  PROVE  Sorted(n + 1, Put(Q, q[n + 1]), P, q)
<1> DEFINE t == q[n + 1]
           k == t.token
           A == Append(Q[k], t)
           Z == Put(Q, t)
<1>1. q \in Seq(Transaction) BY DEF Sortable
<1>2. t \in Transaction /\ t \in Range(q) BY <1>1, RangeTyped
<1>3. \A i \in 1 .. n : q[i] \in Range(q) /\ (q[i].token = t.token => q[i].frame < t.frame)
  <2>1. ASSUME NEW i \in 1 .. n
        PROVE  q[i] \in Range(q) /\ (q[i].token = t.token => q[i].frame < t.frame)
    <3>1. i \in 1 .. Len(q) /\ i < n + 1 BY <1>1, SMT
    <3> QED BY <1>1, <3>1, RangeTyped DEF Sortable, InOrder
  <2> QED BY <2>1
<1> HIDE DEF t
<1>4. k \in Tokens BY <1>2 DEF Transaction
<1>5. Q[k] \in Seq(Transaction) /\ InOrder(Q[k]) BY <1>4 DEF Sorted
<1>6. \A u \in Range(Q[k]) : u.token = t.token => u.frame < t.frame
  <2>1. ASSUME NEW u \in Range(Q[k]), u.token = t.token PROVE u.frame < t.frame
    <3>1. u \in Range(P[k]) \/ \E i \in 1 .. n : u = q[i] BY <1>4, ZenonT(30) DEF Sorted
    <3>2. CASE u \in Range(P[k]) BY <1>2, <1>4, <2>1, <3>2 DEF Sortable, Ahead
    <3>3. CASE \E i \in 1 .. n : u = q[i] BY <1>3, <2>1, <3>3
    <3> QED BY <3>1, <3>2, <3>3
  <2> QED BY <2>1
<1>7. A \in Seq(Transaction) /\ InOrder(A)
  <2> DEFINE p == Q[k]
  <2>1. /\ p \in Seq(Transaction) /\ InOrder(p)
        /\ \A u \in Range(p) : u.token = t.token => u.frame < t.frame
    BY <1>5, <1>6
  <2> HIDE DEF p
  <2>2. Append(p, t) \in Seq(Transaction) /\ InOrder(Append(p, t))
    BY <1>2, <2>1, InOrderAppend
  <2> QED BY <2>2 DEF p
<1>8. Range(A) = Range(Q[k]) \cup {t}
  <2> DEFINE p == Q[k]
  <2>1. p \in Seq(Transaction) BY <1>5
  <2> HIDE DEF p
  <2>2. Range(Append(p, t)) = Range(p) \cup {t} BY <1>2, <2>1, RangeAppend, SMTT(30)
  <2> QED BY <2>2 DEF p
<1> HIDE DEF A
<1>9. Z = [Q EXCEPT ![k] = A] BY DEF Put, A
<1>10. Q \in [Tokens -> Seq(Transaction)] BY DEF Sorted
<1>11. /\ Z \in [Tokens -> Seq(Transaction)] /\ Z[k] = A
       /\ \A j \in Tokens : j # k => Z[j] = Q[j]
  BY <1>4, <1>7, <1>9, <1>10
<1> HIDE DEF Z
<1>12. \A j \in Tokens : Range(Q[j]) \subseteq Range(Z[j]) BY <1>8, <1>11
<1>13. \A i \in 1 .. n : i \in 1 .. n + 1 BY SMT
<1>14. n + 1 \in 1 .. n + 1 /\ \A i \in 1 .. n + 1 : i \in 1 .. n \/ i = n + 1 BY SMT
<1>15. \A j \in Tokens : InOrder(Z[j]) BY <1>7, <1>11 DEF Sorted
<1>16. ASSUME NEW j \in Tokens, NEW u \in Range(Z[j])
       PROVE  u.token = j /\ (u \in Range(P[j]) \/ \E i \in 1 .. n + 1 : u = q[i])
  <2>1. CASE u \in Range(Q[j])
    <3>1. u.token = j /\ (u \in Range(P[j]) \/ \E i \in 1 .. n : u = q[i])
      BY <2>1 DEF Sorted
    <3> QED BY <1>13, <3>1
  <2>2. CASE u \notin Range(Q[j])
    <3>1. j = k /\ u = t BY <1>8, <1>11, <1>16, <2>2
    <3> QED BY <1>14, <3>1 DEF t
  <2> QED BY <2>1, <2>2
<1>17. \A j \in Tokens : Range(P[j]) \subseteq Range(Z[j]) BY <1>12 DEF Sorted
<1>18. ASSUME NEW i \in 1 .. n + 1 PROVE q[i] \in Range(Z[q[i].token])
  <2>1. CASE i \in 1 .. n
    <3>1. q[i] \in Transaction BY <1>1, <1>3, <2>1, RangeTyped
    <3>2. q[i].token \in Tokens BY <3>1 DEF Transaction
    <3> QED BY <1>12, <2>1, <3>2 DEF Sorted
  <2>2. CASE i = n + 1
    <3>1. t \in Range(Z[k]) BY <1>8, <1>11
    <3> QED BY <2>2, <3>1 DEF t
  <2> QED BY <1>14, <2>1, <2>2
<1>19. Sorted(n + 1, Z, P, q) BY <1>11, <1>15, <1>16, <1>17, <1>18 DEF Sorted
<1> QED BY <1>19 DEF Z, t

\* The queues hold all of both, in order.
LEMMA SortedFits ==
  ASSUME NEW P, NEW q, Sortable(P, q)
  PROVE  Queued(SortedInto(P, q), <<>>, Range(q) \cup UNION {Range(P[k]) : k \in Tokens})
<1> DEFINE X == [Tokens -> Seq(Transaction)]
           Op(a, t) == [a EXCEPT ![t.token] = Append(@, t)]
           F == [p \in X \X Transaction |-> Op(p[1], p[2])]
           Body(g) == [n \in 0 .. Len(q) |-> IF n = 0 THEN P ELSE Op(g[n - 1], q[n])]
           after == CHOOSE g : g = Body(g)
           R == Range(q) \cup UNION {Range(P[k]) : k \in Tokens}
<1>1. P \in X /\ q \in Seq(Transaction) BY DEF Sortable
<1>2. SortedInto(P, q) = after[Len(q)] BY DEF SortedInto, Fold
<1>3. \A a \in X, t \in Transaction : Op(a, t) \in X
  <2>1. ASSUME NEW a \in X, NEW t \in Transaction PROVE Op(a, t) \in X
    <3>1. t.token \in Tokens BY DEF Transaction
    <3> DEFINE p == a[t.token]
    <3>2. p \in Seq(Transaction) BY <3>1
    <3> HIDE DEF p
    <3>3. Append(p, t) \in Seq(Transaction) BY <3>2, SMT
    <3> QED BY <3>3 DEF p
  <2> QED BY <2>1
<1>4. \A a, t : Op(a, t) = Put(a, t) BY DEF Put
<1> HIDE DEF X, Op
<1>6. /\ F \in [X \X Transaction -> X]
      /\ \A a \in X, t \in Transaction : F[<<a, t>>] = Op(a, t)
  BY <1>3, SMT
<1> HIDE DEF F
<1>7. PICK g : Turns(g, F, X, Transaction, P, q) BY <1>1, <1>6, LoopExists
<1>8. g = Body(g)
  <2>1. \A n \in 1 .. Len(q) : g[n] = Op(g[n - 1], q[n]) BY <1>6, <1>7 DEF Turns
  <2>2. g \in [0 .. Len(q) -> X] /\ g[0] = P BY <1>7 DEF Turns
  <2> QED BY <2>1, <2>2, SMT
<1>9. after = Body(after) BY <1>8
<1> HIDE DEF after
<1>10. PICK m \in Nat : m = Len(q) BY <1>1, SMT
<1>11. \A n \in 0 .. m - 1 : after[n + 1] = Op(after[n], q[n + 1])
  BY <1>9, <1>10, SMT
<1>12. after[0] = P BY <1>9, <1>10, SMTT(30)
<1> DEFINE S == {n \in Nat : Sorted(n, after[n], P, q)}
<1>13. 0 \in S
  <2>1. 0 \in Nat /\ 1 .. 0 = {} BY SMT
  <2>2. Sorted(0, P, P, q) BY <2>1 DEF Sorted, Sortable
  <2> QED BY <1>12, <2>1, <2>2
<1>14. ASSUME NEW n \in 0 .. m - 1, n \in S PROVE n + 1 \in S
  <2>1. n \in Nat /\ n + 1 \in Nat /\ n + 1 \in 1 .. m BY SMT
  <2>2. Sorted(n, after[n], P, q) BY <1>14
  <2>3. Sorted(n + 1, Put(after[n], q[n + 1]), P, q) BY <1>10, <2>1, <2>2, SortedStep
  <2>4. Sorted(n + 1, after[n + 1], P, q) BY <1>4, <1>11, <2>3
  <2> QED BY <2>1, <2>4
<1>15. m \in S
  <2> HIDE DEF S
  <2> QED BY <1>13, <1>14, UpTo
<1>16. Sorted(m, after[m], P, q) BY <1>15
<1> DEFINE Q == after[m]
<1> HIDE DEF Q
<1>17. Sorted(m, Q, P, q) BY <1>16 DEF Q
<1>18. \A i \in 1 .. m : q[i] \in Range(q) BY <1>1, <1>10, RangeTyped
<1>19. \A t \in Range(q) : \E i \in 1 .. m : t = q[i]
  <2>1. DOMAIN q = 1 .. m BY <1>1, <1>10, SMT
  <2> QED BY <2>1, InRange
<1>20. ASSUME NEW t \in R PROVE t \in Range(Q[t.token])
  <2>1. CASE t \in Range(q)
    <3>1. PICK i \in 1 .. m : t = q[i] BY <1>19, <2>1
    <3>2. q[i] \in Range(Q[q[i].token]) BY <1>17 DEF Sorted
    <3> QED BY <3>1, <3>2
  <2>2. CASE \E k \in Tokens : t \in Range(P[k])
    <3>1. PICK k \in Tokens : t \in Range(P[k]) BY <2>2
    <3>2. t.token = k BY <3>1 DEF Sortable
    <3> QED BY <1>17, <3>1, <3>2 DEF Sorted
  <2> QED BY <2>1, <2>2
<1>21. ASSUME NEW k \in Tokens, NEW t \in Range(Q[k])
       PROVE  t.token = k /\ t \in R /\ t \notin Range(<<>>)
  <2>1. Range(<<>>) = {} BY NothingChosen
  <2>2. t.token = k /\ (t \in Range(P[k]) \/ \E i \in 1 .. m : t = q[i])
    BY <1>17 DEF Sorted
  <2>3. CASE t \in Range(P[k]) BY <2>1, <2>2, <2>3
  <2>4. CASE \E i \in 1 .. m : t = q[i] BY <1>18, <2>1, <2>2, <2>4
  <2> QED BY <2>2, <2>3, <2>4
<1>22. Queued(Q, <<>>, R) BY <1>17, <1>20, <1>21 DEF Queued, Sorted
<1> QED BY <1>2, <1>10, <1>22 DEF Q

\* collectTransactions sorts what arrived into the pending queues.
LEMMA CollectedFits ==
  ASSUME FlingerOK PROVE Queued(Collected, <<>>, Arrived)
<1>1. Sortable(mPendingTransactionQueues, mLocklessTransactionQueue)
  BY DEF FlingerOK, FifoOK, Sortable, Pending, Ahead
<1>2. Collected = SortedInto(mPendingTransactionQueues, mLocklessTransactionQueue)
  BY DEF Collected, SortedInto
<1>3. Queued(SortedInto(mPendingTransactionQueues, mLocklessTransactionQueue), <<>>, Arrived)
  BY <1>1, SortedFits DEF Arrived, Pending
<1> QED BY <1>2, <1>3

-----------------------------------------------------------------------------
(* The transactions X are applied to the layers L.                          *)

\* Layers L that are behind the transactions X, which are in order.
Applicable(L, X) ==
    /\ L \in [Layers -> Layer] /\ X \in Seq(Transaction)
    /\ \A l \in Layers : LayerOK(L[l])
    /\ HandlesOK(L[BlastLayer])
    /\ \A i \in 1 .. Len(X) : L[LayerOf[X[i].token]].frameNumber < X[i].frame
    /\ \A i, j \in 1 .. Len(X) :
          i < j /\ LayerOf[X[i].token] = LayerOf[X[j].token] => X[i].frame < X[j].frame

\* A layer that has taken t.
Took(layer, new, t) ==
    /\ new \in Layer
    /\ new.frameNumber = t.frame /\ new.barrierFrameNumber = t.frame
    /\ new.bufferInfo = layer.bufferInfo
    /\ new.previousReleaseCallback = layer.previousReleaseCallback
    /\ HandlesOK(layer) => HandlesOK(new)

\* Layer::setBuffer with a newer frame.
LEMMA SetBufferTakes ==
  ASSUME NEW layer \in Layer, NEW t \in Transaction, layer.frameNumber < t.frame,
         layer.barrierFrameNumber = layer.frameNumber
  PROVE  Took(layer, setBuffer(layer, t), t)
<1> DEFINE h == [frame |-> t.frame, releasePreviousBuffer |-> layer.frameNumber # 0,
                 callbacks |-> t.callbacks, commits |-> t.commits]
           q == layer.callbackHandles
           p == IF t.callbacks = 0 THEN q ELSE Append(q, h)
           m == Max({layer.barrierFrameNumber, t.frame})
           new == setBuffer(layer, t)
<1>1. /\ layer.frameNumber \in Nat /\ layer.bufferInfo \in Nat
      /\ layer.previousReleaseCallback \in Nat /\ q \in Seq(Handle)
  BY DEF Layer
<1>2. t.frame \in Nat /\ t.callbacks \in Nat /\ t.commits \in Nat BY DEF Transaction
<1>3. h \in Handle BY <1>2 DEF Handle
<1>4. m = t.frame
  <2>1. PICK x \in Nat, y \in Nat : x = layer.barrierFrameNumber /\ y = t.frame /\ x < y
    BY <1>1, <1>2
  <2>2. x \in Int /\ y \in Int BY SMT
  <2>3. Max({x, y}) = IF x >= y THEN x ELSE y BY <2>2, MaxOfTwo, SMTT(30)
  <2>4. ~(x >= y) BY <2>1, SMT
  <2> QED BY <2>1, <2>3, <2>4
<1>5. p \in Seq(Handle) /\ \A g \in Range(p) : g \in Range(q) \/ g = h
  <2>1. Append(q, h) \in Seq(Handle) /\ Range(Append(q, h)) = Range(q) \cup {h}
    <3> HIDE DEF q, h
    <3> QED BY <1>1, <1>3, RangeAppend, SMT
  <2> HIDE DEF h, q
  <2> QED BY <1>1, <2>1
<1>6. h.frame = t.frame OBVIOUS
<1>7. new = [layer EXCEPT !.frameNumber = t.frame, !.barrierFrameNumber = m,
                          !.callbackHandles = p]
  BY DEF setBuffer, Layer
<1> HIDE DEF h, p, m, new
<1>8. /\ new \in Layer /\ new.frameNumber = t.frame /\ new.barrierFrameNumber = t.frame
      /\ new.bufferInfo = layer.bufferInfo
      /\ new.previousReleaseCallback = layer.previousReleaseCallback
      /\ new.callbackHandles = p
  BY <1>2, <1>4, <1>5, <1>7 DEF Layer
<1>9. ASSUME HandlesOK(layer) PROVE HandlesOK(new)
  <2>1. \A f \in 1 .. layer.frameNumber : f \in 1 .. t.frame BY <1>1, <1>2, SMT
  <2>2. t.frame \in 1 .. t.frame BY <1>1, <1>2, SMT
  <2>3. ASSUME NEW g \in Range(p) PROVE g.frame \in 1 .. t.frame
    <3>1. CASE g = h BY <1>6, <2>2, <3>1
    <3>2. CASE g \in Range(q) BY <1>9, <2>1, <3>2 DEF HandlesOK
    <3> QED BY <1>5, <3>1, <3>2
  <2> QED BY <1>8, <2>3 DEF HandlesOK
<1> QED BY <1>8, <1>9 DEF Took, new

\* The state of the loop that applies transactions.
Applying == [layers : [Layers -> Layer], released : Seq(ClientCall), outOfOrder : BOOLEAN]

\* How a layer differs from the one of L while X is applied.
Kept(layer, was) ==
    /\ layer.bufferInfo = was.bufferInfo
    /\ layer.barrierFrameNumber = layer.frameNumber
    /\ layer.previousReleaseCallback = was.previousReleaseCallback
    /\ was.frameNumber <= layer.frameNumber

\* After n of the transactions.
Applied(n, a, L, X) ==
    /\ a \in Applying /\ ~a.outOfOrder
    /\ \A l \in Layers : Kept(a.layers[l], L[l])
    /\ \A l \in Layers : a.layers[l].frameNumber # L[l].frameNumber =>
          \E x \in Range(X) : LayerOf[x.token] = l /\ x.frame = a.layers[l].frameNumber
    /\ \A j \in 1 .. Len(X) : n < j => a.layers[LayerOf[X[j].token]].frameNumber < X[j].frame
    /\ HandlesOK(a.layers[BlastLayer])
    /\ \A c \in Range(a.released) : CallOK(c, a.layers[BlastLayer].frameNumber)

\* A call that is right stays right when the layer gets a newer frame.
LEMMA CallStaysOK ==
  ASSUME NEW c, NEW top \in Nat, NEW new \in Nat, top <= new, CallOK(c, top)
  PROVE  CallOK(c, new)
<1>1. PICK f \in 1 .. top : f = c.frame BY DEF CallOK
<1>2. f \in 1 .. new /\ (f < top => f < new) BY SMT
<1> QED BY <1>1, <1>2 DEF CallOK

\* Applying the next transaction: its frame is newer than what its layer has.
LEMMA AppliedStep ==
  ASSUME NEW L, NEW X, Applicable(L, X), NEW n \in Nat, n + 1 \in 1 .. Len(X), NEW a,
         Applied(n, a, L, X)
  PROVE  Applied(n + 1, ApplyTransaction(a, X[n + 1]), L, X)
<1> DEFINE t == X[n + 1]
           l == LayerOf[t.token]
           layer == a.layers[l]
           new == setBuffer(layer, t)
           call == Call("release", layer.frameNumber)
           calls2 == IF Dropped(layer) /\ l = BlastLayer THEN Append(a.released, call)
                     ELSE a.released
           late == a.outOfOrder \/ layer.frameNumber > t.frame
           b == ApplyTransaction(a, t)
<1>1. X \in Seq(Transaction) /\ L \in [Layers -> Layer] BY DEF Applicable
<1>2. t \in Transaction /\ t \in Range(X) BY <1>1, RangeTyped
<1>3. layer.frameNumber < t.frame
  <2>1. n < n + 1 BY SMT
  <2> QED BY <2>1 DEF Applied
<1>4. ASSUME NEW j \in 1 .. Len(X), n + 1 < j
      PROVE  /\ n < j /\ (LayerOf[X[j].token] = l => t.frame < X[j].frame)
  <2>1. n < j
    <3>1. PICK m \in Nat : m = Len(X) BY <1>1, SMT
    <3>2. j \in Nat BY <3>1, SMT
    <3> QED BY <1>4, <3>2, SMT
  <2> QED BY <1>4, <2>1 DEF Applicable
<1> HIDE DEF t
<1>5. l \in Layers /\ t.frame \in Nat BY <1>2, TokensApart DEF Transaction
<1> HIDE DEF l
<1>6. /\ a \in Applying /\ ~a.outOfOrder /\ a.layers \in [Layers -> Layer]
      /\ a.released \in Seq(ClientCall) /\ layer \in Layer
      /\ Kept(layer, L[l])
  BY <1>5 DEF Applied, Applying
<1>7. layer.barrierFrameNumber = layer.frameNumber /\ layer.frameNumber \in Nat
  BY <1>6 DEF Kept, Layer
<1>8. Took(layer, new, t) BY <1>2, <1>3, <1>6, <1>7, SetBufferTakes
<1>9. b = [layers |-> [a.layers EXCEPT ![l] = new], released |-> calls2, outOfOrder |-> late]
  BY DEF ApplyTransaction, t, l
<1>10. late = FALSE
  <2>1. PICK x \in Nat, y \in Nat : x = layer.frameNumber /\ y = t.frame /\ x < y
    BY <1>3, <1>5, <1>7
  <2>2. ~(x > y) BY <2>1, SMT
  <2> QED BY <1>6, <2>1, <2>2
<1>11. calls2 \in Seq(ClientCall) /\ \A c \in Range(calls2) : CallOK(c, IF l = BlastLayer
                              THEN t.frame ELSE a.layers[BlastLayer].frameNumber)
  <2>1. CASE l # BlastLayer BY <1>6, <2>1 DEF Applied
  <2>2. CASE l = BlastLayer
    <3>1. \A c \in Range(a.released) : CallOK(c, t.frame)
      <4>1. layer.frameNumber <= t.frame BY <1>3, <1>5, <1>7, SMTT(30)
      <4>2. \A c \in Range(a.released) : CallOK(c, layer.frameNumber) BY <2>2 DEF Applied
      <4> HIDE DEF layer
      <4> QED BY <1>5, <1>7, <4>1, <4>2, CallStaysOK
    <3>2. CASE ~Dropped(layer) BY <1>6, <2>2, <3>1, <3>2
    <3>3. CASE Dropped(layer)
      <4>1. layer.frameNumber # 0 BY <3>3 DEF Dropped
      <4>2. layer.frameNumber \in 1 .. t.frame BY <1>3, <1>5, <1>7, <4>1, SMTT(30)
      <4>3. call \in ClientCall /\ call.frame = layer.frameNumber BY <1>7 DEF Call, ClientCall
      <4>4. CallOK(call, t.frame) BY <1>3, <4>2, <4>3 DEF CallOK
      <4> DEFINE r == a.released
      <4>5. r \in Seq(ClientCall) BY <1>6
      <4>6. calls2 = Append(r, call) BY <2>2, <3>3
      <4> HIDE DEF r, call
      <4>7. Append(r, call) \in Seq(ClientCall) /\ Range(Append(r, call)) = Range(r) \cup {call}
        BY <4>3, <4>5, RangeAppend, SMTT(30)
      <4>8. \A c \in Range(Append(r, call)) : CallOK(c, t.frame) BY <3>1, <4>4, <4>7 DEF r
      <4> QED BY <2>2, <4>6, <4>7, <4>8
    <3> QED BY <3>2, <3>3
  <2> QED BY <2>1, <2>2
<1> HIDE DEF late, calls2, new, b
<1>12. new \in Layer /\ new.frameNumber = t.frame BY <1>8 DEF Took
<1>13. /\ b.layers \in [Layers -> Layer] /\ b.layers[l] = new
       /\ \A m \in Layers : m # l => b.layers[m] = a.layers[m]
       /\ b.released = calls2 /\ b.outOfOrder = FALSE
  <2>1. b.layers = [a.layers EXCEPT ![l] = new] /\ b.released = calls2 /\ b.outOfOrder = late
    BY <1>9
  <2> QED BY <1>5, <1>6, <1>10, <1>12, <2>1
<1>14. b \in Applying
  <2>1. [a.layers EXCEPT ![l] = new] \in [Layers -> Layer] BY <1>6, <1>12
  <2> QED BY <1>9, <1>10, <1>11, <2>1 DEF Applying
<1>15. ASSUME NEW m \in Layers PROVE Kept(b.layers[m], L[m])
  <2>1. CASE m # l BY <1>13, <2>1 DEF Applied
  <2>2. CASE m = l
    <3>1. L[l].frameNumber <= t.frame
      <4>1. L[l].frameNumber \in Nat BY <1>1, <1>5 DEF Layer
      <4>2. L[l].frameNumber <= layer.frameNumber BY <1>6 DEF Kept
      <4>3. PICK x \in Nat, y \in Nat, z \in Nat :
               x = L[l].frameNumber /\ y = layer.frameNumber /\ z = t.frame /\ x <= y /\ y < z
        BY <1>3, <1>5, <1>7, <4>1, <4>2
      <4>4. x <= z BY <4>3, SMT
      <4> QED BY <4>3, <4>4
    <3> QED BY <1>6, <1>8, <1>13, <2>2, <3>1 DEF Kept, Took
  <2> QED BY <2>1, <2>2
<1>16. ASSUME NEW m \in Layers, b.layers[m].frameNumber # L[m].frameNumber
       PROVE  \E x \in Range(X) : LayerOf[x.token] = m /\ x.frame = b.layers[m].frameNumber
  <2>1. CASE m # l BY <1>13, <1>16, <2>1, ZenonT(30) DEF Applied
  <2>2. CASE m = l BY <1>2, <1>12, <1>13, <2>2 DEF l
  <2> QED BY <2>1, <2>2
<1>17. ASSUME NEW j \in 1 .. Len(X), n + 1 < j
       PROVE  b.layers[LayerOf[X[j].token]].frameNumber < X[j].frame
  <2>1. LayerOf[X[j].token] \in Layers
    <3>1. X[j] \in Transaction BY <1>1, RangeTyped
    <3> QED BY <3>1, TokensApart DEF Transaction
  <2>2. CASE LayerOf[X[j].token] # l BY <1>4, <1>13, <1>17, <2>1, <2>2 DEF Applied
  <2>3. CASE LayerOf[X[j].token] = l BY <1>4, <1>12, <1>13, <1>17, <2>3
  <2> QED BY <2>2, <2>3
<1>18. /\ HandlesOK(b.layers[BlastLayer])
       /\ \A c \in Range(b.released) : CallOK(c, b.layers[BlastLayer].frameNumber)
  <2>1. CASE l # BlastLayer
    <3>1. b.layers[BlastLayer] = a.layers[BlastLayer] BY <1>13, <2>1, LayersAssumption
    <3> QED BY <1>11, <1>13, <2>1, <3>1 DEF Applied
  <2>2. CASE l = BlastLayer
    <3>1. HandlesOK(layer) BY <2>2 DEF Applied
    <3> QED BY <1>8, <1>11, <1>12, <1>13, <2>2, <3>1 DEF Took
  <2> QED BY <2>1, <2>2
<1>19. Applied(n + 1, b, L, X) BY <1>13, <1>14, <1>15, <1>16, <1>17, <1>18 DEF Applied
<1> QED BY <1>19 DEF b, t

\* Applying a transaction keeps the types.
LEMMA ApplyTyped ==
  ASSUME NEW a \in Applying, NEW t \in Transaction
  PROVE  ApplyTransaction(a, t) \in Applying
<1> DEFINE l == LayerOf[t.token]
           layer == a.layers[l]
           new == setBuffer(layer, t)
           call == Call("release", layer.frameNumber)
           r == a.released
<1>1. l \in Layers /\ t.frame \in Nat /\ t.callbacks \in Nat /\ t.commits \in Nat
  BY TokensApart DEF Transaction
<1>2. layer \in Layer /\ a.layers \in [Layers -> Layer] /\ r \in Seq(ClientCall)
  BY <1>1 DEF Applying
<1> HIDE DEF l
<1>3. new \in Layer
  <2> DEFINE h == [frame |-> t.frame, releasePreviousBuffer |-> layer.frameNumber # 0,
                   callbacks |-> t.callbacks, commits |-> t.commits]
             q == layer.callbackHandles
             p == IF t.callbacks = 0 THEN q ELSE Append(q, h)
             m == Max({layer.barrierFrameNumber, t.frame})
  <2>1. h \in Handle /\ q \in Seq(Handle) /\ layer.barrierFrameNumber \in Nat
    BY <1>1, <1>2 DEF Handle, Layer
  <2>2. m \in Nat
    <3>1. PICK x \in Nat, y \in Nat : x = layer.barrierFrameNumber /\ y = t.frame
      BY <1>1, <2>1
    <3>2. x \in Int /\ y \in Int BY SMT
    <3>3. Max({x, y}) = IF x >= y THEN x ELSE y BY <3>2, MaxOfTwo, SMT
    <3>4. (IF x >= y THEN x ELSE y) \in Nat OBVIOUS
    <3> QED BY <3>1, <3>3, <3>4
  <2>3. p \in Seq(Handle)
    <3>1. Append(q, h) \in Seq(Handle)
      <4> HIDE DEF q, h
      <4> QED BY <2>1, SMT
    <3> HIDE DEF q, h
    <3> QED BY <2>1, <3>1
  <2>4. new = [layer EXCEPT !.frameNumber = t.frame, !.barrierFrameNumber = m,
                            !.callbackHandles = p]
    BY <1>2 DEF setBuffer, Layer
  <2> HIDE DEF h, p, m, new, layer
  <2> QED BY <1>1, <1>2, <2>2, <2>3, <2>4 DEF Layer
<1>4. Append(r, call) \in Seq(ClientCall)
  <2>1. call \in ClientCall BY <1>2 DEF Layer, Call, ClientCall
  <2> HIDE DEF r, call
  <2> QED BY <1>2, <2>1, SMT
<1> DEFINE calls2 == IF Dropped(layer) /\ l = BlastLayer THEN Append(r, call) ELSE r
           late == a.outOfOrder \/ layer.frameNumber > t.frame
           b == ApplyTransaction(a, t)
<1>5. b = [layers |-> [a.layers EXCEPT ![l] = new], released |-> calls2, outOfOrder |-> late]
  BY DEF ApplyTransaction, l
<1>6. calls2 \in Seq(ClientCall) BY <1>2, <1>4
<1>7. late \in BOOLEAN OBVIOUS
<1>8. [a.layers EXCEPT ![l] = new] \in [Layers -> Layer] BY <1>2, <1>3
<1> HIDE DEF b, late, calls2
<1>9. b \in Applying BY <1>5, <1>6, <1>7, <1>8 DEF Applying
<1> QED BY <1>9 DEF b

\* Applying all of them: no buffer is out of order.
LEMMA AppliedAll ==
  ASSUME NEW L, NEW X, Applicable(L, X), NEW o, o = FALSE
  PROVE  Applied(Len(X), Fold(ApplyTransaction, [layers |-> L, released |-> <<>>,
                                                 outOfOrder |-> o], X), L, X)
<1> DEFINE c == [layers |-> L, released |-> <<>>, outOfOrder |-> o]
           F == [p \in Applying \X Transaction |-> ApplyTransaction(p[1], p[2])]
           Body(g) == [n \in 0 .. Len(X) |->
                          IF n = 0 THEN c ELSE ApplyTransaction(g[n - 1], X[n])]
           after == CHOOSE g : g = Body(g)
<1>1. L \in [Layers -> Layer] /\ X \in Seq(Transaction) BY DEF Applicable
<1>2. c \in Applying /\ c.layers = L /\ c.released = <<>> /\ c.outOfOrder = FALSE
  <2>1. <<>> \in Seq(ClientCall) BY SMT
  <2> QED BY <1>1, <2>1 DEF Applying
<1>3. Fold(ApplyTransaction, c, X) = after[Len(X)] BY DEF Fold
<1> HIDE DEF c
<1>4. Applied(0, c, L, X)
  <2>1. ASSUME NEW l \in Layers PROVE Kept(c.layers[l], L[l])
    <3>1. LayerOK(L[l]) /\ L[l].frameNumber \in Nat BY <1>1 DEF Applicable, Layer
    <3>2. L[l].frameNumber <= L[l].frameNumber BY <3>1, SMT
    <3> QED BY <1>2, <3>1, <3>2 DEF Kept, LayerOK
  <2>2. Range(<<>>) = {} BY NothingChosen
  <2> QED BY <1>2, <2>1, <2>2 DEF Applied, Applicable
<1>5. \A a \in Applying, t \in Transaction : ApplyTransaction(a, t) \in Applying BY ApplyTyped
<1>6. /\ F \in [Applying \X Transaction -> Applying]
      /\ \A a \in Applying, t \in Transaction : F[<<a, t>>] = ApplyTransaction(a, t)
  BY <1>5, SMT
<1> HIDE DEF F
<1>7. PICK g : Turns(g, F, Applying, Transaction, c, X) BY <1>1, <1>2, <1>6, LoopExists
<1>8. g = Body(g)
  <2>1. \A n \in 1 .. Len(X) : g[n] = ApplyTransaction(g[n - 1], X[n]) BY <1>6, <1>7 DEF Turns
  <2>2. g \in [0 .. Len(X) -> Applying] /\ g[0] = c BY <1>7 DEF Turns
  <2> QED BY <2>1, <2>2, SMT
<1>9. after = Body(after) BY <1>8
<1> HIDE DEF after
<1>10. PICK m \in Nat : m = Len(X) BY <1>1, SMT
<1>11. \A n \in 0 .. m - 1 : after[n + 1] = ApplyTransaction(after[n], X[n + 1])
  BY <1>9, <1>10, SMT
<1>12. after[0] = c BY <1>9, <1>10, SMT
<1> DEFINE S == {n \in Nat : Applied(n, after[n], L, X)}
<1>13. 0 \in S
  <2>1. 0 \in Nat BY SMT
  <2> QED BY <1>4, <1>12, <2>1
<1>14. ASSUME NEW n \in 0 .. m - 1, n \in S PROVE n + 1 \in S
  <2>1. n \in Nat /\ n + 1 \in Nat /\ n + 1 \in 1 .. m BY SMT
  <2>2. Applied(n, after[n], L, X) BY <1>14
  <2>3. Applied(n + 1, ApplyTransaction(after[n], X[n + 1]), L, X)
    BY <1>10, <2>1, <2>2, AppliedStep
  <2>4. Applied(n + 1, after[n + 1], L, X) BY <1>11, <2>3
  <2> QED BY <2>1, <2>4
<1>15. m \in S
  <2> HIDE DEF S
  <2> QED BY <1>13, <1>14, UpTo
<1> QED BY <1>3, <1>10, <1>15 DEF c

\* Latching shows what was applied.
LEMMA LatchShows ==
  ASSUME NEW layer \in Layer, NEW was \in Layer, LayerOK(was), Kept(layer, was)
  PROVE  /\ latchBuffer(layer) \in Layer /\ LayerOK(latchBuffer(layer))
         /\ latchBuffer(layer).frameNumber = layer.frameNumber
         /\ HandlesOK(layer) => HandlesOK(latchBuffer(layer))
<1> DEFINE new == latchBuffer(layer)
           x == was.frameNumber
           y == layer.frameNumber
<1>1. x \in Nat /\ y \in Nat /\ x <= y /\ layer.bufferInfo = x /\ layer.barrierFrameNumber = y
  BY DEF Layer, Kept, LayerOK
<1>2. layer.previousReleaseCallback # 0 => layer.previousReleaseCallback < x
  BY DEF Kept, LayerOK
<1>3. CASE y = x
  <2>1. new = layer BY <1>1, <1>3 DEF latchBuffer
  <2>2. LayerOK(layer) BY <1>1, <1>2, <1>3 DEF LayerOK
  <2> QED BY <2>1, <2>2
<1>4. CASE y # x
  <2>1. new = [layer EXCEPT !.previousReleaseCallback = x, !.bufferInfo = y]
    BY <1>1, <1>4 DEF latchBuffer
  <2>2. x < y
    <3> HIDE DEF x, y
    <3> QED BY <1>1, <1>4, SMT
  <2> HIDE DEF new
  <2>3. /\ new \in Layer /\ new.frameNumber = y /\ new.bufferInfo = y
        /\ new.barrierFrameNumber = y /\ new.previousReleaseCallback = x
        /\ new.callbackHandles = layer.callbackHandles
    BY <1>1, <2>1 DEF Layer
  <2>4. LayerOK(new) BY <2>2, <2>3 DEF LayerOK
  <2>5. HandlesOK(layer) => HandlesOK(new) BY <2>3 DEF HandlesOK
  <2> QED BY <2>3, <2>4, <2>5 DEF new
<1> QED BY <1>3, <1>4

=============================================================================
