------------------------ MODULE FrameDeliveryProofs --------------------------
(***************************************************************************)
(* The theorems about frame delivery, for any layers, limits and numbers of *)
(* frames and calls: that no transaction sleeps in SurfaceFlinger, and what *)
(* follows from the invariant, with the proof that the steps of             *)
(* SurfaceFlinger keep it.                                                  *)
(***************************************************************************)
EXTENDS FrameDeliverySteps

-----------------------------------------------------------------------------
(* Flags and commits.                                                       *)

\* setTransactionFlags only schedules a commit when the flag was clear, so a
\* flag that is set must have a commit to come that clears it.
FlagHasCommit ==
    mTransactionFlags => commitScheduled \/ mainThread = "commit"

CommitInvariant == FlagHasCommit /\ PendingHasCommit

\* An action that leaves the queues, the flags and the main thread alone
\* keeps the invariant.
LEMMA ElsewhereKeeps ==
    ASSUME CommitInvariant,
           UNCHANGED <<handlerVars, mTransactionFlags, settingFlags,
                       commitScheduled, mainThread>>
    PROVE  CommitInvariant'
BY DEF CommitInvariant, FlagHasCommit, PendingHasCommit,
       hasPendingTransactions, handlerVars

\* A binder thread that has queued a transaction will set the flag.
LEMMA ArrivalKeeps ==
    ASSUME CommitInvariant, NEW t, QueueTransactionState(t),
           UNCHANGED flingerIdleVars
    PROVE  CommitInvariant'
BY DEF CommitInvariant, FlagHasCommit, PendingHasCommit,
       QueueTransactionState, flingerIdleVars

\* Setting the flag: the commit is scheduled, or was when it was set first.
LEMMA SetFlushNeededKeeps ==
    ASSUME CommitInvariant, NEW k, SetFlushNeeded(k)
    PROVE  CommitInvariant'
BY Zenon DEF CommitInvariant, FlagHasCommit, PendingHasCommit, SetFlushNeeded,
       setTransactionFlags

\* The main thread takes up the commit it was asked for.
LEMMA CommitKeeps ==
    ASSUME CommitInvariant, Commit
    PROVE  CommitInvariant'
BY DEF CommitInvariant, FlagHasCommit, PendingHasCommit, Commit,
       hasPendingTransactions, handlerVars

\* A commit given up leaves everything to the one it schedules.
LEMMA SkipCommitKeeps ==
    ASSUME CommitInvariant, SkipCommit
    PROVE  CommitInvariant'
BY DEF CommitInvariant, FlagHasCommit, PendingHasCommit, SkipCommit,
       hasPendingTransactions, handlerVars

\* The main thread clears the flag, and flushes if it was set.
LEMMA ClearTransactionFlagsKeeps ==
    ASSUME CommitInvariant, clearTransactionFlags
    PROVE  CommitInvariant'
BY DEF CommitInvariant, FlagHasCommit, PendingHasCommit,
       clearTransactionFlags

\* Whatever the flush leaves, the end of the commit looks at it.
LEMMA UpdateLayerSnapshotsKeeps ==
    ASSUME CommitInvariant, updateLayerSnapshots
    PROVE  CommitInvariant'
BY Zenon DEF CommitInvariant, FlagHasCommit, PendingHasCommit,
       updateLayerSnapshots

\* The end of the commit sets the flag again for what is left.
LEMMA FinishCommitKeeps ==
    ASSUME CommitInvariant, FinishCommit
    PROVE  CommitInvariant'
BY Zenon DEF CommitInvariant, FlagHasCommit, PendingHasCommit, FinishCommit,
       ResetFlushNeeded, setTransactionFlags, hasPendingTransactions,
       handlerVars

\* A pending transaction never sleeps: while SurfaceFlinger holds one, its
\* flag is set and a commit scheduled, or a thread is about to set it
\* (setTransactionState, clearTransactionFlags, transactionFlushNeeded).
THEOREM NoTransactionSleeps == Spec => []PendingHasCommit
<1>1. Init => CommitInvariant
  BY DEF Init, SurfaceFlingerInit, TransactionHandlerInit, CommitInvariant,
         FlagHasCommit, PendingHasCommit, hasPendingTransactions
<1>2. CommitInvariant /\ [Next]_vars => CommitInvariant'
  <2> SUFFICES ASSUME CommitInvariant, [Next]_vars
               PROVE  CommitInvariant'
    OBVIOUS
  <2>1. CASE UNCHANGED surfaceFlingerVars
    BY <2>1, ElsewhereKeeps DEF surfaceFlingerVars
  <2>2. CASE Receive
    BY <2>2, ElsewhereKeeps DEF Receive
  <2>3. CASE OwnArrives \/ SyncArrives \/ OtherArrives
    BY <2>3, ArrivalKeeps DEF OwnArrives, SyncArrives, OtherArrives
  <2>4. CASE \E k \in Tokens : BinderThread(k)
    BY <2>4, SetFlushNeededKeeps DEF BinderThread
  <2>5. CASE StartCommit
    BY <2>5, CommitKeeps DEF StartCommit
  <2>12. CASE RetryCommit
    BY <2>12, SkipCommitKeeps, Zenon DEF RetryCommit
  <2>6. CASE ClearFlags
    BY <2>6, ClearTransactionFlagsKeeps, SMTT(30) DEF ClearFlags
  <2>7. CASE FlushAndLatch
    BY <2>7, UpdateLayerSnapshotsKeeps DEF FlushAndLatch
  <2>8. CASE Present
    BY <2>8, FinishCommitKeeps DEF Present
  <2>9. CASE Background
    BY <2>9, ElsewhereKeeps DEF Background, SendInBackground
  <2>10. CASE \E buffer \in LateFences : Signal(buffer)
    BY <2>10, ElsewhereKeeps DEF Signal, FenceSignals
  <2>11. CASE \E buffer \in TimedFrames : TimeComes(buffer)
    BY <2>11, ElsewhereKeeps DEF TimeComes, PresentTimeComes
  <2> QED
    BY <2>1, <2>2, <2>3, <2>4, <2>5, <2>6, <2>7, <2>8, <2>9, <2>10, <2>11,
       <2>12, SMTT(30)
       DEF Next, vars, QueueBuffer, ProducerWakesUp, SyncNext,
           StopContinuousSync, ClearSync, Merge, ReleaseThreadRuns
<1>3. CommitInvariant => PendingHasCommit
  BY DEF CommitInvariant
<1> QED
  BY <1>1, <1>2, <1>3, PTL DEF Spec

USE Zenon

-----------------------------------------------------------------------------
(* A commit.                                                                *)

\* What the client still holds.
Unsent == Range(held) \cup Range(bbq.sent) \cup Filled(bbq)

\* The invariant says what a flush relies on.
LEMMA PoolFits ==
  ASSUME FlingerOK, ClientOK PROVE Pool(Arrived, Unsent)
<1> DEFINE out == Range(held) \cup Taken
           T == Transactions(bbq, out)
<1>1. /\ held \in Seq(Transaction) /\ HeldOK(held, Taken) /\ bbq \in BlastState
      /\ Used(T, bbq.mSubmitted, Top)
      /\ Barred(T, bbq.mSyncedFrameNumbers, bbq.mLastAppliedFrameNumber)
      /\ Sent(bbq.sent, Filled(bbq), out)
  BY DEF ClientOK, Fits, Client
<1>2. Arrived \in SUBSET Transaction
  <2>1. Range(mLocklessTransactionQueue) \subseteq Transaction BY RangeTyped DEF FlingerOK
  <2>2. ASSUME NEW k \in Tokens PROVE Range(mPendingTransactionQueues[k]) \subseteq Transaction
    <3>1. mPendingTransactionQueues[k] \in Seq(Transaction) BY DEF FlingerOK
    <3> QED BY <3>1, RangeTyped
  <2> QED BY <2>1, <2>2 DEF Arrived, Pending
<1>3. out \in SUBSET Transaction
  <2>1. Range(held) \subseteq Transaction BY <1>1, RangeTyped
  <2> QED BY <1>2, <2>1 DEF Taken
<1>4. Unsent \in SUBSET Transaction
  <2>1. T \in SUBSET Transaction BY <1>1, <1>3, TransactionsTyped
  <2> QED BY <2>1 DEF Unsent, Transactions
<1>5. Unsent \subseteq T BY DEF Unsent, Transactions
<1>6. \A t \in Arrived : t.token \in {OwnToken, SyncToken} => t \in T
  BY <1>2, TokensApart DEF Taken, Transactions, Transaction
<1>7. \A l \in Layers : layers[l] \in Layer /\ LayerOK(layers[l]) BY DEF FlingerOK, LayersOK
<1>8. \A l \in Layers : layers[l].barrierFrameNumber = layers[l].frameNumber
                        /\ layers[l].barrierFrameNumber \in Nat
  BY <1>7 DEF LayerOK, Layer
<1>9. ASSUME NEW t \in Arrived \cup Unsent
      PROVE  layers[LayerOf[t.token]].barrierFrameNumber < t.frame
  <2>1. t.token \in Tokens BY <1>2, <1>4 DEF Transaction
  <2>2. LayerOf[t.token] \in Layers BY <2>1, TokensApart
  <2>3. CASE t \in Arrived
    <3>1. layers[LayerOf[t.token]].frameNumber < t.frame
      BY <2>3 DEF FlingerOK, OtherOK, OtherFits
    <3> QED BY <1>8, <2>2, <3>1
  <2>4. CASE t \in Unsent
    <3>1. Top < t.frame /\ t.token \in {OwnToken, SyncToken} BY <1>1, <1>5, <2>4 DEF Used
    <3>2. LayerOf[t.token] = BlastLayer BY <2>1, <3>1, TokensApart
    <3> QED BY <1>8, <2>2, <3>1, <3>2 DEF Top
  <2> QED BY <2>3, <2>4
<1>10. ASSUME NEW t \in Arrived \cup Unsent, NEW o \in Arrived \cup Unsent,
              t.token = SyncToken, o.token = OwnToken
       PROVE  o.frame < t.frame /\ o.frame <= t.barrier
  <2>1. t \in T /\ o \in T BY <1>5, <1>6, <1>10
  <2> HIDE DEF T
  <2> QED BY <1>1, <1>10, <2>1 DEF Barred
<1>11. Ahead(Arrived, Unsent)
  <2>1. ASSUME NEW u \in Arrived, NEW t \in Unsent, u.token = t.token PROVE u.frame < t.frame
    <3>1. t.token \in {OwnToken, SyncToken} BY <1>1, <1>5 DEF Used
    <3>2. t.token \in Tokens BY <1>4 DEF Transaction
    <3>3. u \in Taken BY <2>1, <3>1, <3>2, TokensApart DEF Taken
    <3>4. CASE t \in Range(held) BY <1>1, <2>1, <3>3, <3>4 DEF HeldOK, Ahead
    <3>5. CASE t \in Range(bbq.sent) \cup Filled(bbq)
      BY <1>1, <2>1, <3>3, <3>5 DEF Sent, Ahead
    <3> QED BY <3>4, <3>5 DEF Unsent
  <2> QED BY <2>1 DEF Ahead
<1> QED BY <1>2, <1>4, <1>8, <1>9, <1>10, <1>11 DEF Pool

\* The client when some of arrived has been applied.
LEMMA AppliedFits ==
  ASSUME NEW b, NEW p, NEW h, NEW last, NEW freed, NEW arrived, NEW top,
         Fits(b, p, h, last, freed, arrived, top), NEW rest, rest \subseteq arrived, NEW new,
         new # top => \E x \in arrived : x.frame = new,
         \A t \in Transactions(b, Range(h) \cup rest) : new < t.frame
  PROVE  Fits(b, p, h, last, freed, rest, new)
<1> DEFINE out == Range(h) \cup arrived
           left == Range(h) \cup rest
           T == Transactions(b, out)
           U == Transactions(b, left)
<1>1. /\ p \in ProducerState /\ h \in Seq(Transaction)
      /\ Client(b, last, Late(p), Wanted(p), out, top)
      /\ HeldOK(h, arrived)
      /\ Range(b.mPendingRelease) \cup freed \subseteq Spare(b, last, out, top)
      /\ p.at # "idle" => p.frame = last
      /\ p.at = "acquire" => Len(b.queue) <= 1
  BY DEF Fits
<1>2. U \subseteq T /\ left \subseteq out /\ arrived \subseteq T BY DEF Transactions
<1>3. \A t \in U : new < t.frame OBVIOUS
<1>4. InUse(U, new) \subseteq InUse(T, top)
  <2> HIDE DEF U, T
  <2> QED BY <1>2 DEF InUse
<1>5. Used(U, b.mSubmitted, new)
  <2>1. Used(T, b.mSubmitted, top) BY <1>1 DEF Client
  <2> HIDE DEF U, T
  <2> QED BY <1>2, <1>3, <1>4, <2>1 DEF Used
<1>6. Barred(U, b.mSyncedFrameNumbers, b.mLastAppliedFrameNumber)
  <2>1. Barred(T, b.mSyncedFrameNumbers, b.mLastAppliedFrameNumber) BY <1>1 DEF Client
  <2> HIDE DEF U, T
  <2> QED BY <1>2, <2>1 DEF Barred
<1>7. Sent(b.sent, Filled(b), left)
  <2>1. Sent(b.sent, Filled(b), out) BY <1>1 DEF Client
  <2> HIDE DEF left, out
  <2> QED BY <1>2, <2>1 DEF Sent, Ahead
<1>8. Client(b, last, Late(p), Wanted(p), left, new)
  BY <1>1, <1>5, <1>6, <1>7 DEF Client
<1>9. HeldOK(h, rest) BY <1>1 DEF HeldOK, Ahead
<1>10. Range(b.mPendingRelease) \cup freed \subseteq Spare(b, last, left, new)
  <2> HIDE DEF left, out
  <2> QED BY <1>1, <1>4 DEF Spare, U, T
<1> QED BY <1>1, <1>8, <1>9, <1>10 DEF Fits

\* The state after a flush s whose transactions led to a.
Latches(s, a) ==
    /\ mPendingTransactionQueues' = s.queues
    /\ layers' = [l \in Layers |-> latchBuffer(a.layers[l])]
    /\ inbox' = inbox \o a.released
    /\ outOfOrder' = a.outOfOrder
    /\ mLocklessTransactionQueue' = <<>>
    /\ mainThread' = "latched"
    /\ UNCHANGED <<bbq, producer, lastFrame, held, releaseThread>>
    /\ UNCHANGED <<background, otherSent>>

\* What a commit of SurfaceFlinger does, in these terms.
LEMMA FlushEffect ==
  ASSUME DeliveryInvariant, FlushAndLatch
  PROVE  \E s \in Flushed(Arrived, Unsent) : \E a :
            /\ Alone(s.transactions) /\ Applicable(layers, s.transactions)
            /\ Applied(Len(s.transactions), a, layers, s.transactions)
            /\ Latches(s, a)
<1>1. FlingerOK /\ ClientOK BY InvariantParts
<1>2. Pool(Arrived, Unsent) BY <1>1, PoolFits
<1>3. Queued(Collected, <<>>, Arrived) BY <1>1, CollectedFits
<1> DEFINE full == {k \in Tokens : Collected[k] # <<>>}
<1>4. PICK order \in Orders(full), configEarly \in BOOLEAN :
         LET s == flushTransactions(Collected, order, configEarly)
             a == Fold(ApplyTransaction, [layers |-> layers, released |-> <<>>,
                                          outOfOrder |-> outOfOrder], s.transactions)
         IN Latches(s, a)
  BY DEF FlushAndLatch, updateLayerSnapshots, Latches, blastVars
<1> DEFINE s == flushTransactions(Collected, order, configEarly)
           X == s.transactions
           a == Fold(ApplyTransaction, [layers |-> layers, released |-> <<>>,
                                        outOfOrder |-> outOfOrder], X)
<1>5. order \in Seq(Tokens)
  <2>1. full \subseteq Tokens /\ IsFiniteSet(Tokens) BY TokensAssumption
  <2> HIDE DEF full
  <2>2. IsFiniteSet(full) BY <2>1, FS_Subset
  <2>3. order \in Seq(full) BY <2>2, OrdersTyped
  <2> QED BY <2>1, <2>3, SMT
<1>6. s \in Flushed(Arrived, Unsent) /\ Alone(X) BY <1>2, <1>3, <1>5, FlushTransactionsKeep
<1>7. Latches(s, a) BY <1>4
<1> HIDE DEF s
<1>8. Chosen(X, Arrived, Unsent) BY <1>6 DEF Flushed
<1>9. Applicable(layers, X)
  <2>1. X \in Seq(Transaction) /\ Range(X) \subseteq Arrived BY <1>8 DEF Chosen
  <2>2. \A i \in 1 .. Len(X) : layers[LayerOf[X[i].token]].frameNumber < X[i].frame
    <3>1. \A i \in 1 .. Len(X) : X[i] \in Arrived BY <2>1, RangeTyped
    <3> QED BY <1>1, <3>1 DEF FlingerOK, OtherOK, OtherFits
  <2>3. /\ layers \in [Layers -> Layer] /\ \A l \in Layers : LayerOK(layers[l])
        /\ HandlesOK(layers[BlastLayer])
    BY <1>1 DEF FlingerOK, LayersOK
  <2>4. \A i, j \in 1 .. Len(X) :
           i < j /\ LayerOf[X[i].token] = LayerOf[X[j].token] => X[i].frame < X[j].frame
    BY <1>8 DEF Chosen
  <2> HIDE DEF X
  <2> QED BY <2>1, <2>2, <2>3, <2>4 DEF Applicable
<1>10. outOfOrder = FALSE BY <1>1 DEF FlingerOK
<1> HIDE DEF X
<1>11. Applied(Len(X), a, layers, X) BY <1>9, <1>10, AppliedAll
<1> HIDE DEF a
<1> QED BY <1>6, <1>7, <1>9, <1>11 DEF X

\* Flushing, applying and latching keep the invariant.
LEMMA FlushStep ==
  ASSUME DeliveryInvariant, FlushAndLatch PROVE DeliveryInvariant'
<1>1. /\ FlingerOK /\ ClientOK /\ lastFrame \in 0 .. MaxFrames /\ releaseThread \in Seq(Nat)
  BY InvariantParts
<1>2. Pool(Arrived, Unsent) BY <1>1, PoolFits
<1>3a. PICK s \in Flushed(Arrived, Unsent) : \E a :
         /\ Alone(s.transactions) /\ Applicable(layers, s.transactions)
         /\ Applied(Len(s.transactions), a, layers, s.transactions)
         /\ Latches(s, a)
  BY FlushEffect
<1>3. PICK a : /\ Applicable(layers, s.transactions)
               /\ Applied(Len(s.transactions), a, layers, s.transactions)
               /\ Latches(s, a)
  BY <1>3a
<1> DEFINE X == s.transactions
           Q == s.queues
           R == Arrived
           N == Unsent
<1>4. /\ Queued(Q, X, R) /\ Chosen(X, R, N) /\ Applicable(layers, X)
      /\ Applied(Len(X), a, layers, X) /\ a \in Applying
  BY <1>3a, <1>3 DEF Flushed, Applied
<1>5. /\ mPendingTransactionQueues' = Q /\ mLocklessTransactionQueue' = <<>>
      /\ layers' = [l \in Layers |-> latchBuffer(a.layers[l])]
      /\ inbox' = inbox \o a.released /\ outOfOrder' = a.outOfOrder /\ mainThread' = "latched"
      /\ bbq' = bbq /\ producer' = producer /\ lastFrame' = lastFrame /\ held' = held
      /\ releaseThread' = releaseThread /\ background' = background /\ otherSent' = otherSent
  BY <1>3 DEF Latches
<1> HIDE DEF X, Q, R, N
<1>6. a.layers \in [Layers -> Layer] /\ a.released \in Seq(ClientCall) /\ a.outOfOrder = FALSE
  BY <1>4 DEF Applied, Applying
<1>7. ASSUME NEW l \in Layers
      PROVE  /\ layers'[l] \in Layer /\ LayerOK(layers'[l])
             /\ layers'[l].frameNumber = a.layers[l].frameNumber
             /\ HandlesOK(a.layers[l]) => HandlesOK(layers'[l])
             /\ layers[l].frameNumber <= a.layers[l].frameNumber
             /\ layers[l].frameNumber \in Nat /\ a.layers[l].frameNumber \in Nat
  <2> DEFINE layer == a.layers[l]
             was == layers[l]
  <2>1. layer \in Layer /\ was \in Layer /\ LayerOK(was) /\ Kept(layer, was)
    BY <1>1, <1>4, <1>6 DEF Applied, FlingerOK, LayersOK
  <2>2. layers'[l] = latchBuffer(layer) BY <1>5
  <2>3. was.frameNumber <= layer.frameNumber /\ was.frameNumber \in Nat /\ layer.frameNumber \in Nat
    BY <2>1 DEF Kept, Layer
  <2> HIDE DEF layer, was
  <2>4. /\ latchBuffer(layer) \in Layer /\ LayerOK(latchBuffer(layer))
        /\ latchBuffer(layer).frameNumber = layer.frameNumber
        /\ HandlesOK(layer) => HandlesOK(latchBuffer(layer))
    BY <2>1, LatchShows
  <2> QED BY <2>2, <2>3, <2>4 DEF layer, was
<1>8. layers' \in [Layers -> Layer] BY <1>5, <1>7
<1>9. ASSUME NEW u \in R \cup N, u \notin Range(X)
      PROVE  layers'[LayerOf[u.token]].frameNumber < u.frame
  <2> DEFINE l == LayerOf[u.token]
  <2>1. l \in Layers BY <1>2, TokensApart DEF Pool, Transaction, R, N
  <2>2. layers'[l].frameNumber = a.layers[l].frameNumber BY <1>7, <2>1
  <2>3. CASE a.layers[l].frameNumber = layers[l].frameNumber
    <3>1. layers[l].barrierFrameNumber < u.frame BY <1>2 DEF Pool, R, N
    <3>2. layers[l].barrierFrameNumber = layers[l].frameNumber
      BY <1>1, <2>1 DEF FlingerOK, LayersOK, LayerOK
    <3> QED BY <2>2, <2>3, <3>1, <3>2
  <2>4. CASE a.layers[l].frameNumber # layers[l].frameNumber
    <3>1. PICK x \in Range(X) : LayerOf[x.token] = l /\ x.frame = a.layers[l].frameNumber
      BY <1>4, <2>1, <2>4 DEF Applied
    <3>2. x.frame < u.frame BY <1>4, <1>9, <3>1 DEF Chosen
    <3> QED BY <2>2, <3>1, <3>2
  <2> QED BY <2>3, <2>4
<1>10. Pending' = UNION {Range(Q[k]) : k \in Tokens} BY <1>5 DEF Pending
<1>11. Arrived' = Pending'
  <2>1. Range(<<>>) = {} BY NothingChosen
  <2>2. Arrived' = Range(mLocklessTransactionQueue') \cup Pending' BY DEF Arrived
  <2> QED BY <1>5, <2>1, <2>2
<1>12. \A u \in Arrived' : u \in R /\ u \notin Range(X)
  BY <1>4, <1>10, <1>11 DEF Queued
<1>13. FifoOK'
  <2>1. Range(<<>>) = {} /\ InOrder(<<>>)
    <3>1. Len(<<>>) = 0 /\ 1 .. 0 = {} BY SMT
    <3> QED BY <3>1, NothingChosen DEF InOrder
  <2>2. \A k \in Tokens : InOrder(Q[k]) /\ \A t \in Range(Q[k]) : t.token = k
    BY <1>4 DEF Queued
  <2> QED BY <1>5, <2>1, <2>2 DEF FifoOK, Ahead
<1>14. \A t \in Arrived' : layers'[LayerOf[t.token]].frameNumber < t.frame BY <1>9, <1>12
<1>15. OtherFits(layers', Arrived', otherSent)
  <2>1. OtherFits(layers, R, otherSent) BY <1>1 DEF FlingerOK, OtherOK, R
  <2>2. ASSUME OtherToken \in Tokens
        PROVE  /\ layers'[LayerOf[OtherToken]].frameNumber \in {0, 1}
               /\ ~otherSent => layers'[LayerOf[OtherToken]].frameNumber = 0
    <3> DEFINE l == LayerOf[OtherToken]
    <3>1. l \in Layers /\ layers'[l].frameNumber = a.layers[l].frameNumber
      BY <1>7, <2>2, TokensApart
    <3>2. CASE a.layers[l].frameNumber = layers[l].frameNumber
      BY <2>1, <2>2, <3>1, <3>2 DEF OtherFits
    <3>3. CASE a.layers[l].frameNumber # layers[l].frameNumber
      <4>1. PICK x \in Range(X) : LayerOf[x.token] = l /\ x.frame = a.layers[l].frameNumber
        BY <1>4, <3>1, <3>3 DEF Applied
      <4>2. x \in R /\ x.token \in Tokens
        BY <1>2, <1>4 DEF Chosen, Pool, Transaction, R, N
      <4>3. x.token = OtherToken BY <2>2, <4>1, <4>2, TokensApart
      <4> QED BY <2>1, <2>2, <3>1, <4>1, <4>2, <4>3 DEF OtherFits
    <3> QED BY <3>2, <3>3
  <2> QED BY <1>12, <1>14, <2>1, <2>2 DEF OtherFits
<1>16. OtherOK' BY <1>5, <1>15 DEF OtherOK
<1>17. LayersOK'
  <2>1. HandlesOK(layers'[BlastLayer]) BY <1>4, <1>7, LayersAssumption DEF Applied
  <2>2. ASSUME NEW l \in Layers, l \notin {LayerOf[k] : k \in Tokens}
        PROVE  layers'[l].frameNumber = 0
    <3>1. layers[l].frameNumber = 0 BY <1>1, <2>2 DEF FlingerOK, LayersOK
    <3>2. ~\E x \in Range(X) : LayerOf[x.token] = l
      BY <1>2, <1>4, <2>2 DEF Chosen, Pool, Transaction, R, N
    <3>3. a.layers[l].frameNumber = layers[l].frameNumber BY <1>4, <3>2 DEF Applied
    <3> QED BY <1>7, <3>1, <3>3
  <2> QED BY <1>7, <2>1, <2>2 DEF LayersOK
<1>18. /\ Top' = a.layers[BlastLayer].frameNumber /\ Top <= Top' /\ Top \in Nat /\ Top' \in Nat
  BY <1>7, LayersAssumption DEF Top
<1>19. inbox' \in Seq(ClientCall) /\ Range(inbox') = Range(inbox) \cup Range(a.released)
  <2> DEFINE r == a.released
  <2>1. r \in Seq(ClientCall) /\ inbox \in Seq(ClientCall) BY <1>1, <1>6 DEF FlingerOK
  <2> HIDE DEF r
  <2>2. inbox \o r \in Seq(ClientCall) /\ Range(inbox \o r) = Range(inbox) \cup Range(r)
    BY <2>1, RangeCat, SMT
  <2> QED BY <1>5, <2>2 DEF r
<1>20. CallsOK'
  <2>1. \A c \in Range(a.released) : CallOK(c, Top') BY <1>4, <1>18 DEF Applied
  <2>2. /\ \A c \in Range(inbox) : CallOK(c, Top)
        /\ \A q \in Range(background) : \A c \in Range(q) : CallOK(c, Top)
    BY <1>1 DEF FlingerOK, CallsOK
  <2>3. \A c : CallOK(c, Top) => CallOK(c, Top')
    <3> HIDE DEF Top
    <3> QED BY <1>18, CallStaysOK
  <2>4. background' = background BY <1>5
  <2> HIDE DEF Top
  <2> QED BY <1>19, <2>1, <2>2, <2>3, <2>4 DEF CallsOK
<1>21. FlingerOK'
  <2>1. /\ mLocklessTransactionQueue' \in Seq(Transaction)
        /\ mPendingTransactionQueues' \in [Tokens -> Seq(Transaction)]
    <3>1. <<>> \in Seq(Transaction) BY SMT
    <3> QED BY <1>4, <1>5, <3>1 DEF Queued
  <2>2. background' \in Seq(Seq(ClientCall)) /\ otherSent' \in BOOLEAN
    BY <1>1, <1>5 DEF FlingerOK
  <2>3. outOfOrder' = FALSE /\ mainThread' \in {"idle", "commit", "flush", "latched"}
    BY <1>5, <1>6
  <2> QED BY <1>8, <1>13, <1>16, <1>17, <1>19, <1>20, <2>1, <2>2, <2>3 DEF FlingerOK
<1>22. ClientOK'
  <2>1. Taken' \subseteq Taken BY <1>12 DEF Taken, R
  <2>2. ASSUME Top' # Top PROVE \E x \in Taken : x.frame = Top'
    <3>1. a.layers[BlastLayer].frameNumber # layers[BlastLayer].frameNumber
      BY <1>18, <2>2 DEF Top
    <3>2. PICK x \in Range(X) : LayerOf[x.token] = BlastLayer
                                /\ x.frame = a.layers[BlastLayer].frameNumber
      BY <1>4, <3>1, LayersAssumption DEF Applied
    <3>3. x \in Arrived /\ x.token \in Tokens
      BY <1>2, <1>4 DEF Chosen, Pool, Transaction, R, N
    <3>4. x \in Taken BY <3>2, <3>3, TokensApart DEF Taken
    <3> QED BY <1>18, <3>2, <3>4
  <2>3. ASSUME NEW t \in Transactions(bbq, Range(held) \cup Taken') PROVE Top' < t.frame
    <3>1. t \in R \cup N /\ t \notin Range(X)
      <4>1. CASE t \in Taken' BY <1>12, <4>1 DEF Taken
      <4>2. CASE t \in N
        <5>1. t \notin R
          <6>1. t.frame \in Nat BY <1>2, <4>2 DEF Pool, Transaction, N
          <6>2. ~(t.frame < t.frame) BY <6>1, SMT
          <6> QED BY <1>2, <4>2, <6>2 DEF Pool, Ahead, N, R
        <5> QED BY <1>4, <4>2, <5>1 DEF Chosen
      <4> QED BY <4>1, <4>2 DEF Transactions, N, Unsent
    <3>2. t.token \in {OwnToken, SyncToken}
      <4>1. t \in Transactions(bbq, Range(held) \cup Taken) BY <2>1 DEF Transactions
      <4> QED BY <1>1, <4>1 DEF ClientOK, Fits, Client, Used
    <3>3. LayerOf[t.token] = BlastLayer BY <3>2, TokensApart
    <3> QED BY <1>9, <3>1, <3>3 DEF Top
  <2>4. Fits(bbq, producer, held, lastFrame, Range(releaseThread), Taken, Top)
    BY <1>1 DEF ClientOK
  <2> HIDE DEF Taken, Top
  <2>5. Fits(bbq, producer, held, lastFrame, Range(releaseThread), Taken', Top')
    BY <2>1, <2>2, <2>3, <2>4, AppliedFits
  <2> QED BY <1>5, <2>5 DEF ClientOK
<1> QED BY <1>1, <1>5, <1>21, <1>22, InvariantNext

-----------------------------------------------------------------------------
(* The calls to the listener.                                               *)

\* Lists of calls that are right when the layer has frame top.
GoodCalls(top) == {q \in Seq(ClientCall) : \A c \in Range(q) : CallOK(c, top)}

\* Two lists of right calls.
LEMMA CatGood ==
  ASSUME NEW top, NEW p \in GoodCalls(top), NEW q \in GoodCalls(top)
  PROVE  p \o q \in GoodCalls(top)
<1>1. p \in Seq(ClientCall) /\ q \in Seq(ClientCall) BY DEF GoodCalls
<1>2. p \o q \in Seq(ClientCall) /\ Range(p \o q) = Range(p) \cup Range(q)
  BY <1>1, RangeCat, SMT
<1> QED BY <1>2 DEF GoodCalls

\* A right call several times over.
LEMMA RepeatGood ==
  ASSUME NEW top, NEW call \in ClientCall, CallOK(call, top), NEW n \in Nat
  PROVE  Repeat(call, n) \in GoodCalls(top)
<1> DEFINE q == [i \in 1 .. n |-> call]
<1>1. q \in Seq(ClientCall) /\ DOMAIN q = 1 .. n /\ \A i \in 1 .. n : q[i] = call BY SMT
<1> HIDE DEF q
<1>2. \A c \in Range(q) : c = call BY <1>1, InRange
<1>3. q \in GoodCalls(top) BY <1>1, <1>2 DEF GoodCalls
<1> QED BY <1>3 DEF q, Repeat

\* No call.
LEMMA NoCallsGood == ASSUME NEW top PROVE <<>> \in GoodCalls(top)
<1>1. <<>> \in Seq(ClientCall) BY SMT
<1> QED BY <1>1, NothingChosen DEF GoodCalls

\* One right call.
LEMMA OneCallGood ==
  ASSUME NEW top, NEW call \in ClientCall, CallOK(call, top) PROVE <<call>> \in GoodCalls(top)
<1> DEFINE q == <<call>>
<1>1. q \in Seq(ClientCall) /\ DOMAIN q = {1} /\ q[1] = call BY SMT
<1> HIDE DEF q
<1>2. \A c \in Range(q) : c = call BY <1>1, InRange
<1>3. q \in GoodCalls(top) BY <1>1, <1>2 DEF GoodCalls
<1> QED BY <1>3 DEF q

\* The committed callbacks are about frames the layer has or had.
LEMMA CommitCallsGood ==
  ASSUME NEW top, NEW q \in Seq(Handle), \A h \in Range(q) : h.frame \in 1 .. top
  PROVE  CommitCalls(q) \in GoodCalls(top)
<1> DEFINE X == GoodCalls(top)
           Y == {h \in Handle : h.frame \in 1 .. top}
           Op(a, h) == a \o Repeat(Call("commit", h.frame), h.commits)
           F == [p \in X \X Y |-> Op(p[1], p[2])]
           Body(g) == [n \in 0 .. Len(q) |-> IF n = 0 THEN <<>> ELSE Op(g[n - 1], q[n])]
           after == CHOOSE g : g = Body(g)
<1>1. CommitCalls(q) = after[Len(q)] BY DEF CommitCalls, Fold
<1>2. \A a \in X, h \in Y : Op(a, h) \in X
  <2>1. ASSUME NEW a \in X, NEW h \in Y PROVE Op(a, h) \in X
    <3> DEFINE c == Call("commit", h.frame)
    <3>1. h.frame \in Nat /\ h.commits \in Nat /\ h.frame \in 1 .. top BY DEF Handle
    <3>2. c \in ClientCall /\ c.frame = h.frame /\ c.kind # "release"
      BY <3>1 DEF Call, ClientCall
    <3>3. CallOK(c, top) BY <3>1, <3>2 DEF CallOK
    <3> HIDE DEF c
    <3>4. Repeat(c, h.commits) \in GoodCalls(top) BY <3>1, <3>2, <3>3, RepeatGood
    <3> QED BY <3>4, CatGood DEF c
  <2> QED BY <2>1
<1>3. <<>> \in X BY NoCallsGood
<1>4. q \in Seq(Y)
  <2>1. \A i \in 1 .. Len(q) : q[i] \in Y
    <3>1. \A i \in 1 .. Len(q) : q[i] \in Range(q) /\ q[i] \in Handle BY RangeTyped
    <3> QED BY <3>1
  <2> HIDE DEF Y
  <2> QED BY <2>1, SMT
<1> HIDE DEF X, Y, Op
<1>6. F \in [X \X Y -> X] /\ \A a \in X, h \in Y : F[<<a, h>>] = Op(a, h) BY <1>2, SMT
<1> HIDE DEF F
<1>7. PICK g : Turns(g, F, X, Y, <<>>, q) BY <1>3, <1>4, <1>6, LoopExists
<1>8. g = Body(g)
  <2>1. \A n \in 1 .. Len(q) : g[n] = Op(g[n - 1], q[n]) BY <1>6, <1>7 DEF Turns
  <2>2. g \in [0 .. Len(q) -> X] /\ g[0] = <<>> BY <1>7 DEF Turns
  <2> QED BY <2>1, <2>2, SMT
<1>9. after = Body(after) BY <1>8
<1> HIDE DEF after
<1>10. \A n \in 1 .. Len(q) : after[n] = Op(after[n - 1], q[n]) /\ q[n] \in Y
  <2>1. \A n \in 0 .. Len(q) : after[n] = IF n = 0 THEN <<>> ELSE Op(after[n - 1], q[n])
    BY <1>9
  <2> QED BY <1>4, <2>1, Indices
<1>11. after[0] \in X BY <1>3, <1>4, <1>9, SMTT(30)
<1>12. \A n \in 1 .. Len(q) : after[n - 1] \in X => after[n] \in X BY <1>2, <1>10
<1>13. after[Len(q)] \in X BY <1>4, <1>11, <1>12, LoopStays
<1> QED BY <1>1, <1>13 DEF X

\* The calls for the i-th of a layer's handles.
CallsAt(layer, i) ==
    LET handles == layer.callbackHandles
        first   == /\ handles[i].releasePreviousBuffer
                   /\ \A j \in 1 .. i - 1 : ~handles[j].releasePreviousBuffer
    IN (IF first /\ layer.previousReleaseCallback # 0
        THEN <<Call("release", layer.previousReleaseCallback)>>
        ELSE <<>>)
       \o Repeat(Call("complete", handles[i].frame), handles[i].callbacks)

\* They are about frames the layer has or had, the release about an older one.
LEMMA CallsAtGood ==
  ASSUME NEW layer \in Layer, LayerOK(layer), HandlesOK(layer),
         NEW i \in 1 .. Len(layer.callbackHandles)
  PROVE  CallsAt(layer, i) \in GoodCalls(layer.frameNumber)
<1> DEFINE q == layer.callbackHandles
           h == q[i]
           top == layer.frameNumber
           last == layer.previousReleaseCallback
           call == Call("release", last)
           c == Call("complete", h.frame)
<1>1. q \in Seq(Handle) /\ top \in Nat /\ last \in Nat BY DEF Layer
<1>2. h \in Range(q) /\ h \in Handle BY <1>1, RangeTyped
<1>3. h.frame \in 1 .. top /\ h.frame \in Nat /\ h.callbacks \in Nat
  BY <1>2 DEF HandlesOK, Handle
<1>4. c \in ClientCall /\ CallOK(c, top)
  <2>1. c \in ClientCall /\ c.frame = h.frame /\ c.kind # "release" BY <1>3 DEF Call, ClientCall
  <2> QED BY <1>3, <2>1 DEF CallOK
<1>5. ASSUME last # 0 PROVE <<call>> \in GoodCalls(top)
  <2>1. last < top BY <1>5 DEF LayerOK
  <2>2. last \in 1 .. top
    <3> HIDE DEF last, top
    <3> QED BY <1>1, <1>5, <2>1, SMTT(30)
  <2>3. call \in ClientCall /\ call.frame = last BY <1>1 DEF Call, ClientCall
  <2>4. CallOK(call, top) BY <2>1, <2>2, <2>3 DEF CallOK
  <2> HIDE DEF call, top
  <2> QED BY <2>3, <2>4, OneCallGood
<1>6. Repeat(c, h.callbacks) \in GoodCalls(top)
  <2> HIDE DEF c, top
  <2> QED BY <1>3, <1>4, RepeatGood
<1> DEFINE first == /\ q[i].releasePreviousBuffer
                    /\ \A j \in 1 .. i - 1 : ~q[j].releasePreviousBuffer
           p == IF first /\ last # 0 THEN <<call>> ELSE <<>>
<1>7. p \in GoodCalls(top) BY <1>5, NoCallsGood
<1>8. CallsAt(layer, i) = p \o Repeat(c, h.callbacks) BY DEF CallsAt
<1> HIDE DEF p, c, h, top
<1>9. p \o Repeat(c, h.callbacks) \in GoodCalls(top) BY <1>6, <1>7, CatGood
<1> QED BY <1>8, <1>9 DEF top

\* So are all calls of Layer::releasePendingBuffer.
LEMMA ReleasePendingGood ==
  ASSUME NEW layer \in Layer, LayerOK(layer), HandlesOK(layer)
  PROVE  releasePendingBuffer(layer) \in GoodCalls(layer.frameNumber)
<1> DEFINE h == layer.callbackHandles
           q == [i \in DOMAIN h |-> i]
           X == GoodCalls(layer.frameNumber)
           Y == 1 .. Len(h)
           Op(a, i) == a \o CallsAt(layer, i)
           F == [p \in X \X Y |-> Op(p[1], p[2])]
           Body(g) == [n \in 0 .. Len(q) |-> IF n = 0 THEN <<>> ELSE Op(g[n - 1], q[n])]
           after == CHOOSE g : g = Body(g)
<1>1. releasePendingBuffer(layer) = after[Len(q)]
  BY DEF releasePendingBuffer, Fold, CallsAt
<1>2. \A a \in X, i \in Y : Op(a, i) \in X
  <2>1. ASSUME NEW a \in X, NEW i \in Y PROVE Op(a, i) \in X
    <3>1. CallsAt(layer, i) \in X BY CallsAtGood
    <3> QED BY <3>1, CatGood
  <2> QED BY <2>1
<1>3. <<>> \in X BY NoCallsGood
<1>4. q \in Seq(Y)
  <2>1. h \in Seq(Handle) BY DEF Layer
  <2> HIDE DEF h
  <2> QED BY <2>1, SMT
<1> HIDE DEF X, Y, Op, q
<1>6. F \in [X \X Y -> X] /\ \A a \in X, i \in Y : F[<<a, i>>] = Op(a, i) BY <1>2, SMT
<1> HIDE DEF F
<1>7. PICK g : Turns(g, F, X, Y, <<>>, q) BY <1>3, <1>4, <1>6, LoopExists
<1>8. g = Body(g)
  <2>1. \A n \in 1 .. Len(q) : g[n] = Op(g[n - 1], q[n]) BY <1>6, <1>7 DEF Turns
  <2>2. g \in [0 .. Len(q) -> X] /\ g[0] = <<>> BY <1>7 DEF Turns
  <2> QED BY <2>1, <2>2, SMT
<1>9. after = Body(after) BY <1>8
<1> HIDE DEF after
<1>10. \A n \in 1 .. Len(q) : after[n] = Op(after[n - 1], q[n]) /\ q[n] \in Y
  <2>1. \A n \in 0 .. Len(q) : after[n] = IF n = 0 THEN <<>> ELSE Op(after[n - 1], q[n])
    BY <1>9
  <2> QED BY <1>4, <2>1, Indices
<1>11. after[0] \in X BY <1>3, <1>4, <1>9, SMT
<1>12. \A n \in 1 .. Len(q) : after[n - 1] \in X => after[n] \in X BY <1>2, <1>10
<1>13. after[Len(q)] \in X BY <1>4, <1>11, <1>12, LoopStays
<1> QED BY <1>1, <1>13 DEF X

\* What the background thread may hold then.
GoodTasks(top) == {q \in Seq(Seq(ClientCall)) :
                      \A p \in Range(q) : \A c \in Range(p) : CallOK(c, top)}

\* sendCallbacks hands right calls to the background thread.
LEMMA SendKeeps ==
  ASSUME NEW top, NEW tasks \in GoodTasks(top), NEW q \in GoodCalls(top)
  PROVE  sendCallbacks(tasks, q) \in GoodTasks(top)
<1>1. tasks \in Seq(Seq(ClientCall)) /\ q \in Seq(ClientCall) BY DEF GoodTasks, GoodCalls
<1> DEFINE T == Seq(ClientCall)
<1>2. tasks \in Seq(T) /\ q \in T BY <1>1
<1> HIDE DEF T
<1>3. Append(tasks, q) \in Seq(T) /\ Range(Append(tasks, q)) = Range(tasks) \cup {q}
  BY <1>2, RangeAppend, SMT
<1>4. Append(tasks, q) \in Seq(Seq(ClientCall)) BY <1>3 DEF T
<1>5. Append(tasks, q) \in GoodTasks(top) BY <1>3, <1>4 DEF GoodTasks, GoodCalls
<1> QED BY <1>5 DEF sendCallbacks

-----------------------------------------------------------------------------
(* The other steps of SurfaceFlinger.                                       *)

\* The end of a commit keeps the invariant.
LEMMA PresentStep ==
  ASSUME DeliveryInvariant, Present PROVE DeliveryInvariant'
<1> DEFINE layer == layers[BlastLayer]
           commits == CommitCalls(layer.callbackHandles)
           stats == releasePendingBuffer(layer)
<1>1. /\ FlingerOK /\ ClientOK /\ lastFrame \in 0 .. MaxFrames /\ releaseThread \in Seq(Nat)
  BY InvariantParts
<1>2. /\ background' = sendCallbacks(sendCallbacks(background, commits), stats)
      /\ layers' = [l \in Layers |-> [layers[l] EXCEPT !.callbackHandles = <<>>]]
      /\ mainThread' = "idle"
      /\ UNCHANGED <<mLocklessTransactionQueue, mPendingTransactionQueues, inbox, outOfOrder>>
      /\ UNCHANGED <<bbq, producer, lastFrame, held, releaseThread, otherSent>>
  BY DEF Present, FinishCommit, handlerVars, blastVars
<1>3. layer \in Layer /\ LayerOK(layer) /\ HandlesOK(layer)
  BY <1>1, LayersAssumption DEF FlingerOK, LayersOK
<1>4. commits \in GoodCalls(Top) /\ stats \in GoodCalls(Top)
  <2>1. stats \in GoodCalls(layer.frameNumber) BY <1>3, ReleasePendingGood
  <2>2. /\ layer.callbackHandles \in Seq(Handle)
        /\ \A h \in Range(layer.callbackHandles) : h.frame \in 1 .. layer.frameNumber
    BY <1>3 DEF Layer, HandlesOK
  <2>3. commits \in GoodCalls(layer.frameNumber) BY <2>2, CommitCallsGood
  <2> QED BY <2>1, <2>3 DEF Top
<1>5. background' \in GoodTasks(Top)
  <2> HIDE DEF commits, stats, Top
  <2>1. background \in GoodTasks(Top) BY <1>1 DEF FlingerOK, CallsOK, GoodTasks
  <2>2. sendCallbacks(background, commits) \in GoodTasks(Top) BY <1>4, <2>1, SendKeeps
  <2>3. sendCallbacks(sendCallbacks(background, commits), stats) \in GoodTasks(Top)
    BY <1>4, <2>2, SendKeeps
  <2> QED BY <1>2, <2>3
<1>6. ASSUME NEW l \in Layers
      PROVE  /\ layers'[l] \in Layer /\ LayerOK(layers'[l])
             /\ layers'[l].frameNumber = layers[l].frameNumber
             /\ layers'[l].callbackHandles = <<>>
  <2>1. layers'[l] = [layers[l] EXCEPT !.callbackHandles = <<>>] BY <1>2
  <2>2. layers[l] \in Layer /\ LayerOK(layers[l]) BY <1>1 DEF FlingerOK, LayersOK
  <2>3. <<>> \in Seq(Handle) BY SMT
  <2>4. /\ layers'[l] \in Layer
        /\ layers'[l].frameNumber = layers[l].frameNumber
        /\ layers'[l].callbackHandles = <<>>
        /\ layers'[l].bufferInfo = layers[l].bufferInfo
        /\ layers'[l].barrierFrameNumber = layers[l].barrierFrameNumber
        /\ layers'[l].previousReleaseCallback = layers[l].previousReleaseCallback
    BY <2>1, <2>2, <2>3 DEF Layer
  <2> QED BY <2>2, <2>4 DEF LayerOK
<1>7. layers' \in [Layers -> Layer] BY <1>2, <1>6
<1>8. Top' = Top BY <1>6, LayersAssumption DEF Top
<1>9. Arrived' = Arrived /\ Taken' = Taken BY <1>2 DEF Taken, Arrived, Pending
<1>10. FifoOK' BY <1>1, <1>2 DEF FlingerOK, FifoOK, Pending
<1>11. OtherOK'
  <2>1. OtherFits(layers, Arrived, otherSent) BY <1>1 DEF FlingerOK, OtherOK
  <2>2. OtherToken \in Tokens => LayerOf[OtherToken] \in Layers BY TokensApart
  <2>3. \A t \in Arrived : LayerOf[t.token] \in Layers
    <3>1. Arrived \in SUBSET Transaction BY TakenTyped DEF DeliveryInvariant
    <3> QED BY <3>1, TokensApart DEF Transaction
  <2>4. OtherFits(layers', Arrived, otherSent) BY <1>6, <2>1, <2>2, <2>3 DEF OtherFits
  <2> QED BY <1>2, <1>9, <2>4 DEF OtherOK
<1>12. LayersOK'
  <2>1. HandlesOK(layers'[BlastLayer]) BY <1>6, LayersAssumption, NothingChosen DEF HandlesOK
  <2>2. \A l \in Layers : l \notin {LayerOf[k] : k \in Tokens} => layers'[l].frameNumber = 0
    BY <1>1, <1>6 DEF FlingerOK, LayersOK
  <2> QED BY <1>6, <2>1, <2>2 DEF LayersOK
<1>13. CallsOK'
  <2>1. \A c \in Range(inbox) : CallOK(c, Top) BY <1>1 DEF FlingerOK, CallsOK
  <2>2. \A q \in Range(background') : \A c \in Range(q) : CallOK(c, Top) BY <1>5 DEF GoodTasks
  <2>3. inbox' = inbox BY <1>2
  <2> HIDE DEF Top
  <2> QED BY <1>8, <2>1, <2>2, <2>3 DEF CallsOK
<1>14. FlingerOK'
  <2>1. background' \in Seq(Seq(ClientCall)) BY <1>5 DEF GoodTasks
  <2> QED BY <1>1, <1>2, <1>7, <1>10, <1>11, <1>12, <1>13, <2>1 DEF FlingerOK
<1>15. ClientOK' BY <1>1, <1>2, <1>8, <1>9 DEF ClientOK
<1> QED BY <1>1, <1>2, <1>14, <1>15, InvariantNext

\* The background thread keeps the invariant.
LEMMA BackgroundStep ==
  ASSUME DeliveryInvariant, Background PROVE DeliveryInvariant'
<1> DEFINE q == Head(background)
           T == Seq(ClientCall)
<1>1. /\ FlingerOK /\ ClientOK /\ lastFrame \in 0 .. MaxFrames /\ releaseThread \in Seq(Nat)
  BY InvariantParts
<1>2. /\ background # <<>> /\ inbox' = inbox \o q /\ background' = Tail(background)
      /\ UNCHANGED <<mLocklessTransactionQueue, mPendingTransactionQueues, mainThread>>
      /\ UNCHANGED <<layers, outOfOrder, otherSent>>
      /\ UNCHANGED <<bbq, producer, lastFrame, held, releaseThread>>
  BY DEF Background, SendInBackground, handlerVars, blastVars
<1>3. background \in Seq(T) /\ inbox \in T BY <1>1 DEF FlingerOK
<1> HIDE DEF T
<1>4. q \in T /\ background' \in Seq(T) /\ Range(background) = {q} \cup Range(background')
  BY <1>2, <1>3, RangeTail, SMTT(30)
<1> HIDE DEF q
<1>5. inbox' \in Seq(ClientCall) /\ Range(inbox') = Range(inbox) \cup Range(q)
  <2>1. inbox \o q \in Seq(ClientCall) /\ Range(inbox \o q) = Range(inbox) \cup Range(q)
    BY <1>3, <1>4, RangeCat, SMTT(30) DEF T
  <2> QED BY <1>2, <2>1
<1>6. Top' = Top /\ Arrived' = Arrived /\ Taken' = Taken
  BY <1>2 DEF Top, Taken, Arrived, Pending
<1>7. FifoOK' BY <1>1, <1>2 DEF FlingerOK, FifoOK, Pending
<1>8. OtherOK' BY <1>1, <1>2, <1>6 DEF FlingerOK, OtherOK
<1>9. LayersOK' BY <1>1, <1>2 DEF FlingerOK, LayersOK
<1>10. CallsOK' BY <1>1, <1>4, <1>5, <1>6 DEF FlingerOK, CallsOK
<1>11. FlingerOK'
  <2>1. background' \in Seq(Seq(ClientCall)) BY <1>4 DEF T
  <2> QED BY <1>1, <1>2, <1>5, <1>7, <1>8, <1>9, <1>10, <2>1 DEF FlingerOK
<1>12. ClientOK' BY <1>1, <1>2, <1>6 DEF ClientOK
<1> QED BY <1>1, <1>2, <1>11, <1>12, InvariantNext

\* Steps that only concern flags, fences and present times.
LEMMA OtherSteps ==
  ASSUME DeliveryInvariant,
         mainThread' \in {"idle", "commit", "flush", "latched"},
         UNCHANGED <<blastVars, handlerVars, layers, background, inbox, outOfOrder, otherSent>>
  PROVE  DeliveryInvariant'
<1>1. /\ FlingerOK /\ ClientOK /\ lastFrame \in 0 .. MaxFrames /\ releaseThread \in Seq(Nat)
  BY InvariantParts
<1>2. /\ UNCHANGED <<mLocklessTransactionQueue, mPendingTransactionQueues>>
      /\ UNCHANGED <<layers, background, inbox, outOfOrder, otherSent>>
      /\ UNCHANGED <<bbq, producer, lastFrame, held, releaseThread>>
  BY DEF handlerVars, blastVars
<1>3. Top' = Top /\ Arrived' = Arrived /\ Taken' = Taken
  BY <1>2 DEF Top, Taken, Arrived, Pending
<1>4. FifoOK' BY <1>1, <1>2 DEF FlingerOK, FifoOK, Pending
<1>5. OtherOK' BY <1>1, <1>2, <1>3 DEF FlingerOK, OtherOK
<1>6. LayersOK' BY <1>1, <1>2 DEF FlingerOK, LayersOK
<1>7. CallsOK' BY <1>1, <1>2, <1>3 DEF FlingerOK, CallsOK
<1>8. FlingerOK' BY <1>1, <1>2, <1>4, <1>5, <1>6, <1>7 DEF FlingerOK
<1>9. ClientOK' BY <1>1, <1>2, <1>3 DEF ClientOK
<1> QED BY <1>1, <1>2, <1>8, <1>9, InvariantNext

\* Binder threads setting flags, fences signaling, present times coming and
\* the start of a commit keep the invariant.
LEMMA FlagSteps ==
  ASSUME DeliveryInvariant,
         \/ \E k \in Tokens : BinderThread(k)
         \/ StartCommit \/ RetryCommit \/ ClearFlags
         \/ \E buffer \in LateFences : Signal(buffer)
         \/ \E buffer \in TimedFrames : TimeComes(buffer)
         \/ UNCHANGED vars
  PROVE  DeliveryInvariant'
<1>1. mainThread \in {"idle", "commit", "flush", "latched"} BY DEF DeliveryInvariant, Types
<1>2. ASSUME NEW k, BinderThread(k) PROVE DeliveryInvariant'
  BY <1>1, <1>2, OtherSteps DEF BinderThread, SetFlushNeeded
<1>3. CASE StartCommit \/ RetryCommit
  BY <1>3, OtherSteps DEF StartCommit, Commit, RetryCommit, SkipCommit
<1>4. CASE ClearFlags
  <2>1. mainThread' \in {"idle", "commit", "flush", "latched"}
    BY <1>4 DEF ClearFlags, clearTransactionFlags
  <2> QED BY <1>4, <2>1, OtherSteps DEF ClearFlags, clearTransactionFlags
<1>5. ASSUME NEW buffer, Signal(buffer) PROVE DeliveryInvariant'
  BY <1>1, <1>5, OtherSteps DEF Signal, FenceSignals
<1>6. ASSUME NEW buffer, TimeComes(buffer) PROVE DeliveryInvariant'
  BY <1>1, <1>6, OtherSteps DEF TimeComes, PresentTimeComes
<1>7. CASE UNCHANGED vars BY <1>1, <1>7, OtherSteps DEF vars, surfaceFlingerVars
<1> QED BY <1>2, <1>3, <1>4, <1>5, <1>6, <1>7

-----------------------------------------------------------------------------
(* The theorems.                                                            *)

\* The invariant holds initially.
LEMMA InitHolds == ASSUME Init PROVE DeliveryInvariant
<1>1. /\ mLocklessTransactionQueue = <<>> /\ mainThread = "idle"
      /\ mPendingTransactionQueues = [k \in Tokens |-> <<>>]
      /\ layers = [l \in Layers |-> NewLayer]
      /\ background = <<>> /\ inbox = <<>> /\ outOfOrder = FALSE /\ otherSent = FALSE
      /\ producer = Idle /\ lastFrame = 0 /\ held = <<>> /\ releaseThread = <<>>
  BY DEF Init, BlastInit, SurfaceFlingerInit, TransactionHandlerInit
<1>2. /\ Range(<<>>) = {} /\ 0 \in Nat /\ Len(<<>>) = 0 /\ 1 .. 0 = {} /\ \A S : <<>> \in Seq(S)
      /\ 0 \in 0 .. MaxFrames
  <2>1. 0 \in Nat /\ Len(<<>>) = 0 /\ 1 .. 0 = {} /\ \A S : <<>> \in Seq(S) BY SMT
  <2>2. 0 \in 0 .. MaxFrames BY BlastAssumption, SMT
  <2> QED BY <2>1, <2>2, NothingChosen
<1>3. Arrived = {}
  <2>1. \A k \in Tokens : mPendingTransactionQueues[k] = <<>> BY <1>1
  <2> QED BY <1>1, <1>2, <2>1 DEF Arrived, Pending
<1>4. Taken = {} BY <1>3 DEF Taken
<1>5. \A l \in Layers : /\ layers[l] = NewLayer /\ layers[l] \in Layer
                        /\ layers[l].frameNumber = 0
                        /\ layers[l].callbackHandles = <<>> /\ LayerOK(layers[l])
  <2>1. NewLayer \in Layer BY <1>2 DEF NewLayer, Layer
  <2>2. LayerOK(NewLayer) /\ NewLayer.frameNumber = 0 /\ NewLayer.callbackHandles = <<>>
    BY DEF NewLayer, LayerOK
  <2> QED BY <1>1, <2>1, <2>2
<1>6. Top = 0 BY <1>5, LayersAssumption DEF Top
<1>7. FifoOK
  <2>1. InOrder(<<>>) BY <1>2 DEF InOrder
  <2>2. \A k \in Tokens : mPendingTransactionQueues[k] = <<>> BY <1>1
  <2> QED BY <1>1, <1>2, <2>1, <2>2 DEF FifoOK, Ahead
<1>8. OtherFits(layers, Arrived, otherSent)
  <2>1. OtherToken \in Tokens => LayerOf[OtherToken] \in Layers BY TokensApart
  <2> QED BY <1>1, <1>3, <1>5, <2>1 DEF OtherFits
<1>9. LayersOK
  <2>1. HandlesOK(layers[BlastLayer]) BY <1>2, <1>5, LayersAssumption DEF HandlesOK
  <2> QED BY <1>5, <2>1 DEF LayersOK
<1>10. CallsOK BY <1>1, <1>2 DEF CallsOK
<1>11. FlingerOK
  <2>1. layers \in [Layers -> Layer] BY <1>1, <1>5
  <2>2. mPendingTransactionQueues \in [Tokens -> Seq(Transaction)] BY <1>1, <1>2
  <2>3. background \in Seq(Seq(ClientCall)) /\ inbox \in Seq(ClientCall)
        /\ mLocklessTransactionQueue \in Seq(Transaction)
    BY <1>1, <1>2
  <2> QED BY <1>1, <1>7, <1>8, <1>9, <1>10, <2>1, <2>2, <2>3 DEF FlingerOK, OtherOK
<1>12. bbq \in BlastState
  <2>1. mMaxAcquiredBuffers \in Nat BY BlastAssumption
  <2> QED BY <1>2, <2>1 DEF Init, BlastInit, BlastState
<1>13. /\ bbq.queue = <<>> /\ bbq.mNumFrameAvailable = 0 /\ bbq.mNumAcquired = 0
       /\ bbq.mSubmitted = {} /\ bbq.mPendingRelease = <<>> /\ bbq.mSyncedFrameNumbers = {}
       /\ bbq.mTransactionReadyCallback = FALSE /\ bbq.mSyncTransaction = <<>> /\ bbq.sent = <<>>
  BY DEF Init, BlastInit
<1>14. Transactions(bbq, {}) = {} /\ Filled(bbq) = {}
  BY <1>2, <1>13 DEF Transactions, Filled
<1>15. Late(producer) = 0 /\ Wanted(producer) = {} /\ producer.at = "idle"
       /\ producer \in ProducerState
  BY <1>1, <1>2 DEF Late, Wanted, Idle, ProducerState
<1>16. Client(bbq, 0, 0, {}, {}, 0)
  <2>1. Fifo(<<>>, 0, 0, 0)
    <3>1. Len(<<>>) <= 0 /\ 0 + 0 = Len(<<>>) BY SMT
    <3> QED BY <1>2, <3>1 DEF Fifo
  <2>2. Counted({}, 0, Before(<<>>, 0))
    <3>1. 0 = Cardinality({}) BY FS_EmptySet
    <3>2. 0 <= mMaxAcquiredBuffers + 2 BY BlastAssumption, SMT
    <3> QED BY <3>1, <3>2 DEF Counted
  <2>3. Synced({}, {}, {}, Range(<<>>)) BY DEF Synced
  <2>4. Used({}, {}, 0) /\ Barred({}, {}, bbq.mLastAppliedFrameNumber) BY DEF Used, Barred, InUse
  <2>5. Sent(<<>>, {}, {}) BY <1>2 DEF Sent, InOrder, Ahead
  <2>6. Syncing(<<>>, FALSE)
    <3>1. Len(<<>>) = IF FALSE THEN 1 ELSE 0 BY SMT
    <3> QED BY <1>2, <3>1 DEF Syncing
  <2> QED BY <1>12, <1>13, <1>14, <2>1, <2>2, <2>3, <2>4, <2>5, <2>6 DEF Client
<1>17. ClientOK
  <2>1. HeldOK(<<>>, {}) BY <1>2 DEF HeldOK, InOrder, Ahead
  <2>2. Fits(bbq, producer, <<>>, 0, {}, {}, 0)
    <3>1. Range(<<>>) \cup {} = {} BY <1>2
    <3>2. Client(bbq, 0, Late(producer), Wanted(producer), Range(<<>>) \cup {}, 0)
      BY <1>15, <1>16, <3>1
    <3>3. Range(bbq.mPendingRelease) \cup {} = {} BY <1>2, <1>13
    <3>4. <<>> \in Seq(Transaction) BY <1>2
    <3> QED BY <1>15, <2>1, <3>2, <3>3, <3>4 DEF Fits
  <2> QED BY <1>1, <1>2, <1>4, <1>6, <2>2 DEF ClientOK
<1> QED BY <1>1, <1>2, <1>11, <1>17, InvariantParts

\* The producer enters queueBuffer with a frame.
LEMMA QueuingKept ==
  ASSUME DeliveryInvariant, Queuing, [Next]_vars PROVE Queuing'
<1>1. CASE QueueBuffer
  <2>1. lastFrame' \in 1 .. MaxFrames BY <1>1 DEF QueueBuffer, onFrameAvailable, Frames
  <2>2. lastFrame' # 0
    <3>1. PICK f \in 1 .. MaxFrames : f = lastFrame' BY <2>1
    <3>2. f # 0 BY SMT
    <3> QED BY <3>1, <3>2
  <2> QED BY <2>2 DEF Queuing
<1>2. CASE ~QueueBuffer
  <2>1. lastFrame' = lastFrame /\ (producer.at = "idle" => producer' = producer)
    <3>1. CASE ProducerWakesUp
      BY <3>1 DEF ProducerWakesUp, DrainWakesUp, AcquireWakesUp
    <3>2. CASE \E single \in BOOLEAN : SyncNext(single) BY <3>2 DEF SyncNext, syncNextTransaction
    <3>3. CASE StopContinuousSync \/ ClearSync \/ Merge
      BY <3>3 DEF StopContinuousSync, stopContinuousSyncTransaction, ClearSync,
                  clearSyncTransaction, Merge, MergeHeld
    <3>4. CASE ReleaseThreadRuns
      BY <3>4 DEF ReleaseThreadRuns, ReleaseOverwritten, NotifyAll, Waiting
    <3>5. CASE Receive
      <4>1. HandleCall(Head(inbox)) BY <3>5 DEF Receive
      <4>2. producer.at = "idle" /\ NotifyAll => producer' = producer BY DEF NotifyAll, Waiting
      <4>3. NotifyAll \/ producer' = producer
        <5> DEFINE call == Head(inbox)
        <5>1. CASE call.kind = "release" BY <4>1, <5>1 DEF HandleCall
        <5>2. CASE call.kind # "release"
          <6>2. CASE call.kind = "commit" BY <4>1, <6>2 DEF HandleCall
          <6>3. CASE call.kind = "complete" /\ bbq.pendingCallbacks = 0
            BY <4>1, <6>3 DEF HandleCall
          <6>4. CASE call.kind = "complete" /\ bbq.pendingCallbacks > 0
            BY <4>1, <6>4 DEF HandleCall
          <6>5. call.kind \in {"release", "commit", "complete"}
            <7>1. inbox \in Seq(ClientCall) BY DEF DeliveryInvariant, Types
            <7>2. call \in ClientCall
              <8> HIDE DEF ClientCall
              <8> QED BY <3>5, <7>1, SMTT(30) DEF Receive
            <7> QED BY <7>2 DEF ClientCall
          <6>6. bbq.pendingCallbacks = 0 \/ bbq.pendingCallbacks > 0
            <7>1. PICK n \in Nat : n = bbq.pendingCallbacks
              BY DEF DeliveryInvariant, Types, BlastState
            <7>2. n = 0 \/ n > 0 BY SMT
            <7> QED BY <7>1, <7>2
          <6> QED BY <5>2, <6>2, <6>3, <6>4, <6>5, <6>6
        <5> QED BY <5>1, <5>2
      <4> QED BY <4>1, <4>2, <4>3 DEF HandleCall
    <3>6. CASE OwnArrives \/ SyncArrives \/ OtherArrives
      BY <3>6 DEF OwnArrives, SyncArrives, OtherArrives
    <3>7. CASE UNCHANGED blastVars BY <3>7 DEF blastVars
    <3>8. CASE UNCHANGED vars BY <3>8 DEF vars, blastVars
    <3> QED BY <1>2, <3>1, <3>2, <3>3, <3>4, <3>5, <3>6, <3>7, <3>8
            DEF Next, BinderThread, StartCommit, RetryCommit, ClearFlags, FlushAndLatch,
                Present, Background, Signal, TimeComes
  <2> QED BY <2>1 DEF Queuing
<1> QED BY <1>1, <1>2

\* Every step keeps the invariant.
LEMMA StepHolds == ASSUME DeliveryInvariant, [Next]_vars PROVE DeliveryInvariant'
<1>1. CASE Next
  BY <1>1, ClientSteps, ReceiveStep, ArrivalSteps, FlagSteps, FlushStep, PresentStep,
     BackgroundStep DEF Next
<1>2. CASE UNCHANGED vars BY <1>2, FlagSteps
<1> QED BY <1>1, <1>2

\* The invariant of the client and SurfaceFlinger holds in every reachable
\* state (BLASTBufferQueue, TransactionHandler, Layer).
THEOREM DeliveryInvariantHolds == Spec => []InductiveInvariant
<1>1. Init => InductiveInvariant
  <2>1. Init => DeliveryInvariant BY InitHolds
  <2>2. Init => producer = Idle BY DEF Init, BlastInit
  <2>3. Idle.at = "idle" BY DEF Idle
  <2>4. Init => Queuing BY <2>2, <2>3 DEF Queuing
  <2> QED BY <2>1, <2>4 DEF InductiveInvariant
<1>2. InductiveInvariant /\ [Next]_vars => InductiveInvariant'
  BY StepHolds, QueuingKept DEF InductiveInvariant
<1> QED BY <1>1, <1>2, PTL DEF Spec

\* "Out of order buffers detected" (Layer::setBuffer) is never logged, though
\* the frames of a layer come on two tokens: the barrier of a sync buffer and
\* mSyncedFrameNumbers together keep them in order.
THEOREM FramesInOrder == Spec => []LayerFramesInOrder
<1>1. DeliveryInvariant => LayerFramesInOrder BY DEF DeliveryInvariant, LayerFramesInOrder
<1> QED BY <1>1, DeliveryInvariantHolds, PTL DEF InductiveInvariant

\* What the invariant says of the client.
LEMMA ClientFacts ==
  ASSUME DeliveryInvariant
  PROVE  /\ Fifo(bbq.queue, bbq.mNumFrameAvailable, lastFrame, Late(producer))
         /\ Counted(bbq.mSubmitted, bbq.mNumAcquired, Before(bbq.queue, lastFrame))
         /\ bbq.mSyncedFrameNumbers \subseteq bbq.mSubmitted \cup Wanted(producer)
         /\ InUse(Transactions(bbq, Range(held) \cup Taken), Top) \subseteq bbq.mSubmitted
         /\ producer.at # "idle" => producer.frame = lastFrame
         /\ bbq \in BlastState /\ producer \in ProducerState
         /\ lastFrame \in 0 .. MaxFrames
BY DEF DeliveryInvariant, Types, ClientOK, Fits, Client, Synced, Used

\* A number in mSyncedFrameNumbers is that of a buffer acquired or about to
\* be: none is left behind to keep onFrameAvailable from acquiring again.
THEOREM SyncsAreOut == Spec => []SyncedFramesOut
<1>1. DeliveryInvariant => SyncedFramesOut
  BY ClientFacts DEF Wanted, Waiting, SyncedFramesOut
<1> QED BY <1>1, DeliveryInvariantHolds, PTL DEF InductiveInvariant

\* A buffer that went back to the producer (releaseBuffer, by a release
\* callback, a stale release of transactionCallback or ReleaseCallbackThread)
\* is not on the screen, not in the layer and in no transaction under way.
THEOREM ReleasedBuffersAreFree == Spec => []ReleasedNotInUse
<1>1. ASSUME DeliveryInvariant PROVE ReleasedNotInUse
  <2> DEFINE T == Transactions(bbq, Range(held) \cup Taken)
             shown == {layers[BlastLayer].frameNumber, layers[BlastLayer].bufferInfo}
             asked == {t.frame : t \in {u \in Underway : u.token # OtherToken}}
  <2>1. InUse(T, Top) \subseteq bbq.mSubmitted BY <1>1, ClientFacts
  <2>2. shown \ {0} \subseteq InUse(T, Top)
    <3>1. layers[BlastLayer].bufferInfo = Top /\ layers[BlastLayer].frameNumber = Top
      BY <1>1, LayersAssumption DEF DeliveryInvariant, LayersOK, LayerOK, Top
    <3> HIDE DEF T, Top
    <3> QED BY <3>1 DEF InUse
  <2>3. ASSUME NEW u \in Underway, u.token # OtherToken, u.frame # 0 PROVE u \in T
    BY <2>3 DEF Underway, Transactions, Filled, Taken, Arrived, Pending
  <2>4. asked \ {0} \subseteq InUse(T, Top)
    <3> HIDE DEF T, Top
    <3> QED BY <2>3 DEF InUse
  <2> QED BY <2>1, <2>2, <2>4 DEF ReleasedNotInUse
<1> QED BY <1>1, DeliveryInvariantHolds, PTL DEF InductiveInvariant

\* mNumAcquired counts the buffers acquired and stays within two of the
\* maximum, mNumFrameAvailable counts the frames queued, and every number a
\* layer or a callback holds is that of a frame that was queued.
THEOREM TypesAndCounters == Spec => []TypeOK
<1>1. ASSUME DeliveryInvariant, Queuing PROVE TypeOK
  <2>1. /\ Fifo(bbq.queue, bbq.mNumFrameAvailable, lastFrame, Late(producer))
        /\ Counted(bbq.mSubmitted, bbq.mNumAcquired, Before(bbq.queue, lastFrame))
        /\ bbq.mSyncedFrameNumbers \subseteq bbq.mSubmitted \cup Wanted(producer)
        /\ InUse(Transactions(bbq, Range(held) \cup Taken), Top) \subseteq bbq.mSubmitted
        /\ producer.at # "idle" => producer.frame = lastFrame
        /\ bbq \in BlastState /\ producer \in ProducerState
        /\ lastFrame \in 0 .. MaxFrames
    BY <1>1, ClientFacts
  <2>2. bbq.queue \in Seq(Nat) /\ bbq.mNumFrameAvailable \in Nat
    BY <2>1 DEF BlastState
  <2>3. PICK n \in Nat : n = Len(bbq.queue) BY <2>2, SMT
  <2>4. bbq.mSubmitted \subseteq Frames
    <3>1. 1 .. (lastFrame - n) \subseteq 1 .. MaxFrames BY <2>1, BlastAssumption, SMT
    <3> QED BY <2>1, <2>3, <3>1 DEF Counted, Before, Frames
  <2>5. bbq.mSyncedFrameNumbers \subseteq Frames
    <3>1. lastFrame # 0 => lastFrame \in Frames BY <2>1, BlastAssumption, SMTT(30) DEF Frames
    <3>2. Wanted(producer) \subseteq Frames
      BY <1>1, <2>1, <3>1 DEF Queuing, Wanted
    <3> QED BY <2>1, <2>4, <3>2
  <2>6. bbq.mNumFrameAvailable
           = Len(bbq.queue) - IF producer.at \in {"drain", "spinning"} THEN 1 ELSE 0
    <3>1. PICK a \in Nat : a = bbq.mNumFrameAvailable BY <2>2
    <3>2. a + Late(producer) = n BY <2>1, <2>3, <3>1 DEF Fifo
    <3>3. Late(producer) \in {0, 1} BY DEF Late
    <3>4. PICK l \in {0, 1} : l = Late(producer) BY <3>3
    <3>5. a + l = n BY <3>2, <3>4
    <3>6. a = n - l BY <3>5, SMT
    <3> QED BY <2>3, <3>1, <3>4, <3>6 DEF Late
  <2>7. ASSUME NEW l \in Layers PROVE layers[l].bufferInfo \in 0 .. MaxFrames
    <3>1. layers[l].bufferInfo = layers[l].frameNumber
      BY <1>1 DEF DeliveryInvariant, LayersOK, LayerOK
    <3>2. 0 \in 0 .. MaxFrames /\ 1 \in 0 .. MaxFrames /\ Frames \subseteq 0 .. MaxFrames
      BY BlastAssumption, SMT DEF Frames
    <3>3. CASE l = BlastLayer
      <4>1. Top \in {0} \cup InUse(Transactions(bbq, Range(held) \cup Taken), Top)
        BY DEF InUse
      <4> QED BY <2>1, <2>4, <3>1, <3>2, <3>3, <4>1 DEF Top
    <3>4. CASE l \in {LayerOf[k] : k \in Tokens} /\ l # BlastLayer
      <4>1. PICK k \in Tokens : l = LayerOf[k] BY <3>4
      <4>2. k = OtherToken BY <3>4, <4>1, TokensApart
      <4>3. layers[l].frameNumber \in {0, 1}
        BY <1>1, <4>1, <4>2 DEF DeliveryInvariant, OtherOK, OtherFits
      <4> QED BY <3>1, <3>2, <4>3
    <3>5. CASE l \notin {LayerOf[k] : k \in Tokens}
      <4>1. layers[l].frameNumber = 0 BY <1>1, <3>5 DEF DeliveryInvariant, LayersOK
      <4> QED BY <3>1, <3>2, <4>1
    <3> QED BY <3>3, <3>4, <3>5
  <2>8. ASSUME NEW i \in DOMAIN inbox PROVE inbox[i].frame \in Frames
    <3>1. inbox[i].frame \in 1 .. Top
      <4>1. inbox[i] \in Range(inbox) BY DEF Range
      <4> QED BY <1>1, <4>1 DEF DeliveryInvariant, CallsOK, CallOK
    <3>2. layers[BlastLayer].bufferInfo \in 0 .. MaxFrames BY <2>7, LayersAssumption
    <3>3. Top \in 0 .. MaxFrames
      BY <1>1, <3>2, LayersAssumption DEF DeliveryInvariant, LayersOK, LayerOK, Top
    <3>4. PICK t \in 0 .. MaxFrames : t = Top BY <3>3
    <3>5. 1 .. t \subseteq Frames BY BlastAssumption, SMT DEF Frames
    <3> QED BY <3>1, <3>4, <3>5
  <2>9. producer.at \in {"idle", "drain", "acquire", "spinning", "crashed"}
    BY <2>1 DEF ProducerState
  <2>10. mainThread \in {"idle", "commit", "flush", "latched"}
    BY <1>1 DEF DeliveryInvariant, Types
  <2>11. bbq.mNumAcquired = Cardinality(bbq.mSubmitted)
         /\ bbq.mNumAcquired <= mMaxAcquiredBuffers + 2
    BY <2>1 DEF Counted
  <2> QED BY <2>4, <2>5, <2>6, <2>7, <2>8, <2>9, <2>10, <2>11 DEF TypeOK
<1> QED BY <1>1, DeliveryInvariantHolds, PTL DEF InductiveInvariant

\* A flush gives layers frames whose fences have signaled, or one frame.
LEMMA FlushAlone ==
  ASSUME DeliveryInvariant, FlushAndLatch,
         NEW l \in Updated, <<l, layers'[l].frameNumber>> \in unsignaled
  PROVE  Cardinality(Updated) = 1
<1>1. FlingerOK BY InvariantParts
<1>2. PICK s \in Flushed(Arrived, Unsent) : \E a :
         /\ Alone(s.transactions) /\ Applicable(layers, s.transactions)
         /\ Applied(Len(s.transactions), a, layers, s.transactions)
         /\ Latches(s, a)
  BY FlushEffect
<1> DEFINE X == s.transactions
<1>3. PICK a : Alone(X) /\ Applied(Len(X), a, layers, X) /\ Latches(s, a) BY <1>2
<1> HIDE DEF X
<1>4. ASSUME NEW m \in Updated
      PROVE  \E x \in Range(X) : LayerOf[x.token] = m /\ x.frame = layers'[m].frameNumber
  <2>1. m \in Layers /\ layers'[m].frameNumber # layers[m].frameNumber BY DEF Updated
  <2>2. a.layers[m] \in Layer /\ layers[m] \in Layer /\ LayerOK(layers[m])
        /\ Kept(a.layers[m], layers[m])
    BY <1>1, <1>3, <2>1 DEF Applied, Applying, FlingerOK, LayersOK
  <2>3. layers'[m] = latchBuffer(a.layers[m]) BY <1>3, <2>1 DEF Latches
  <2>4. layers'[m].frameNumber = a.layers[m].frameNumber BY <2>2, <2>3, LatchShows
  <2> QED BY <1>3, <2>1, <2>4 DEF Applied
<1>5. PICK x \in Range(X) : LayerOf[x.token] = l /\ x.frame = layers'[l].frameNumber BY <1>4
<1>6. Buffer(x) \in unsignaled BY <1>5 DEF Buffer
<1>7. PICK y : Range(X) = {y} BY <1>3, <1>6 DEF Alone, Signaled
<1>8. Updated = {l}
  <2>1. \A m \in Updated : LayerOf[y.token] = m BY <1>4, <1>7
  <2> QED BY <2>1
<1> QED BY <1>8, FS_Singleton

\* The other steps leave every layer its frame.
LEMMA NoneUpdated ==
  ASSUME DeliveryInvariant, [Next]_vars, ~FlushAndLatch PROVE Updated = {}
<1> SUFFICES ASSUME NEW l \in Layers PROVE layers'[l].frameNumber = layers[l].frameNumber
  BY DEF Updated
<1>1. CASE Present
  <2>1. layers[l] \in Layer BY InvariantParts DEF FlingerOK
  <2>2. layers'[l] = [layers[l] EXCEPT !.callbackHandles = <<>>]
    BY <1>1 DEF Present, FinishCommit
  <2> QED BY <2>1, <2>2 DEF Layer
<1>2. CASE ~Present
  <2>1. CASE Next
    <3>1. CASE QueueBuffer \/ ProducerWakesUp \/ StopContinuousSync \/ ClearSync \/ Merge
               \/ ReleaseThreadRuns \/ \E single \in BOOLEAN : SyncNext(single)
      BY <3>1 DEF QueueBuffer, ProducerWakesUp, StopContinuousSync, ClearSync, Merge,
                  ReleaseThreadRuns, SyncNext, surfaceFlingerVars
    <3>2. CASE Receive \/ OwnArrives \/ SyncArrives \/ OtherArrives
      BY <3>2 DEF Receive, OwnArrives, SyncArrives, OtherArrives, flingerIdleVars
    <3>3. CASE (\E k \in Tokens : BinderThread(k)) \/ StartCommit \/ RetryCommit
               \/ ClearFlags \/ Background
      BY <3>3 DEF BinderThread, SetFlushNeeded, StartCommit, Commit, RetryCommit,
                  SkipCommit, ClearFlags, clearTransactionFlags, Background, SendInBackground
    <3>4. CASE \/ \E buffer \in LateFences : Signal(buffer)
               \/ \E buffer \in TimedFrames : TimeComes(buffer)
      BY <3>4 DEF Signal, FenceSignals, TimeComes, PresentTimeComes
    <3> QED BY <1>2, <2>1, <3>1, <3>2, <3>3, <3>4 DEF Next
  <2>2. CASE UNCHANGED vars BY <2>2 DEF vars, surfaceFlingerVars
  <2> QED BY <2>1, <2>2
<1> QED BY <1>1, <1>2

\* A buffer is latched before its fence signals only if nothing else was
\* applied in that commit (applyUnsignaledBufferTransaction).
THEOREM UnsignaledIsAlone == Spec => UnsignaledAlone
<1>1. DeliveryInvariant /\ [Next]_vars =>
         [(\E l \in Updated : <<l, layers'[l].frameNumber>> \in unsignaled)
             => Cardinality(Updated) = 1]_vars
  BY FlushAlone, NoneUpdated
<1> QED BY <1>1, DeliveryInvariantHolds, PTL DEF Spec, InductiveInvariant, UnsignaledAlone
=============================================================================
