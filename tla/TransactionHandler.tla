------------------------- MODULE TransactionHandler -------------------------
(***************************************************************************)
(* SurfaceFlinger's queues of transactions                                  *)
(* (services/surfaceflinger/FrontEnd/TransactionHandler.cpp).  A binder     *)
(* thread pushes a transaction on a lock-free queue.  The main thread sorts *)
(* that queue into one FIFO per apply token and flushes the heads that its  *)
(* filters find ready.                                                      *)
(*                                                                          *)
(* A transaction holds at most one buffer here: `token` is its apply token, *)
(* `frame` the frame number of its buffer, `barrier` the frame that must    *)
(* reach the layer first (0: none), `callbacks` and `commits` the numbers   *)
(* of on-complete and on-commit callbacks it carries.                       *)
(* mPendingTransactionCount only feeds a trace and is left out, as is the   *)
(* table of stalled transactions.                                           *)
(***************************************************************************)
EXTENDS TransactionReadiness

VARIABLES mLocklessTransactionQueue,   \* transactions no one has collected
          mPendingTransactionQueues    \* one FIFO per token; empty: erased

handlerVars == <<mLocklessTransactionQueue, mPendingTransactionQueues>>

TransactionHandlerInit ==
    /\ mLocklessTransactionQueue = <<>>
    /\ mPendingTransactionQueues = [k \in Tokens |-> <<>>]

queueTransaction(t) ==
    mLocklessTransactionQueue' = Append(mLocklessTransactionQueue, t)

\* mPendingTransactionQueues after collectTransactions.
Collected ==
    Fold(LAMBDA queues, t : [queues EXCEPT ![t.token] = Append(@, t)],
         mPendingTransactionQueues, mLocklessTransactionQueue)

hasPendingTransactions ==
    \/ mLocklessTransactionQueue # <<>>
    \/ \E k \in Tokens : mPendingTransactionQueues[k] # <<>>

-----------------------------------------------------------------------------
(* One flush.  Its state is TransactionFlushState with the queues, the      *)
(* transactions taken so far and the number that wait for a barrier.        *)

FlushStart(queues) ==
    [queues                     |-> queues,
     transactions               |-> <<>>,
     bufferLayersReadyToPresent |-> [l \in Layers |-> 0],
     firstTransaction           |-> TRUE,
     queueWithUnsignaledBuffer  |-> None,
     pendingBarrier             |-> 0,
     done                       |-> FALSE]

popTransactionFromPending(s, k) ==
    LET t == Head(s.queues[k])
    IN [s EXCEPT !.queues[k] = Tail(@),
                 !.transactions = Append(@, t),
                 !.firstTransaction = FALSE,
                 !.bufferLayersReadyToPresent[LayerOf[k]] = t.frame]

\* One turn of the inner loop of flushPendingTransactionQueues: the head of
\* queue k is taken if it is ready, else the loop stops.
FlushHead(a, k, configEarly) ==
    LET ready == applyFilters(a.state, Head(a.state.queues[k]), configEarly)
    IN IF a.stop \/ a.state.queues[k] = <<>> THEN a
       ELSE IF ready = "Ready"
       THEN [a EXCEPT !.state = popTransactionFromPending(@, k)]
       ELSE [stop  |-> TRUE,
             state |-> [a.state EXCEPT
                           !.pendingBarrier =
                               IF ready = "NotReadyBarrier" THEN @ + 1 ELSE @,
                           !.queueWithUnsignaledBuffer =
                               IF ready = "NotReadyUnsignaled" THEN k ELSE @]]

FlushQueue(s, k, configEarly) ==
    Fold(LAMBDA a, t : FlushHead(a, k, configEarly),
         [stop |-> FALSE, state |-> s], s.queues[k]).state

\* `order` is the order in which the unordered map yields its queues.
flushPendingTransactionQueues(s, order, configEarly) ==
    Fold(LAMBDA a, k : FlushQueue(a, k, configEarly),
         [s EXCEPT !.pendingBarrier = 0], order)

\* Mutant of applyUnsignaledBufferTransaction: also next to others.
applyUnsignaledAlways(s) ==
    IF \/ s.queueWithUnsignaledBuffer = None
       \/ s.queues[s.queueWithUnsignaledBuffer] = <<>>
    THEN s
    ELSE popTransactionFromPending(s, s.queueWithUnsignaledBuffer)

applyUnsignaledBufferTransaction(s) ==
    IF s.queueWithUnsignaledBuffer = None \/ s.transactions # <<>>
    THEN s
    ELSE popTransactionFromPending(s, s.queueWithUnsignaledBuffer)

FlushPass(s, order, configEarly) ==
    LET next == flushPendingTransactionQueues(s, order, configEarly)
    IN IF s.done THEN s
       ELSE [next EXCEPT !.done = (next.pendingBarrier = s.pendingBarrier)]

\* Passes over the queues go on while the number of transactions that wait
\* for a barrier changes; every pass but the last two takes a transaction.
flushTransactions(queues, order, configEarly) ==
    LET waiting == Fold(LAMBDA n, k : n + Len(queues[k]), 0, order)
        passes  == [i \in 1 .. (2 * waiting + 2) |-> i]
    IN applyUnsignaledBufferTransaction(
           Fold(LAMBDA s, i : FlushPass(s, order, configEarly),
                FlushStart(queues), passes))
=============================================================================
