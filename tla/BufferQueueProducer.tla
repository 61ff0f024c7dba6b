------------------------- MODULE BufferQueueProducer -------------------------
(***************************************************************************)
(* The handlers of libs/gui/BufferQueueProducer.cpp. A thread that is      *)
(* inside a handler while mMutex is free has an entry in call:             *)
(*   dequeue       between the two critical sections of dequeueBuffer      *)
(*   dequeueAlloc  waiting there for another thread's allocation           *)
(*   dequeueLoop   holding mMutex, about to look for another free buffer   *)
(*   attach        in attachBuffer, waiting for an allocation              *)
(*   wait, timedWait   in mDequeueCondition (with a buffer: attachBuffer)  *)
(*   alloc         allocating the buffer of call[t].slot                   *)
(*   detachNext    in detachNextBuffer, waiting for an allocation          *)
(*   prealloc      in allocateBuffers, allocating                          *)
(*   yield         in allocateBuffers, letting a waiting dequeueBuffer go  *)
(*   retry         in allocateBuffers, about to allocate the next buffer   *)
(*   callback      in queueBuffer, about to announce frame call[t].frame   *)
(* A call that fails without changing anything is not a step.              *)
(***************************************************************************)
EXTENDS BufferQueueCore

Idle == [op |-> "idle", slot |-> NoSlot, buf |-> NoBuffer, frame |-> 0]
UnknownApi == "unknown api"

isIdle(t) == call[t].op = "idle"
SomeThreadIdle == \E t \in Threads : isIdle(t)
Goto(t, op) == call' = [call EXCEPT ![t] = [@ EXCEPT !.op = op]]
Return(t) == call' = [call EXCEPT ![t] = Idle]

Connected == ~mIsAbandoned /\ mConnectedApi # NoApi

\* The producer uses a slot from the return of dequeueBuffer or attachBuffer.
ProducerOwns(s) ==
  /\ isDequeued(mSlots[s])
  /\ \A t \in Threads : ~(call[t].op = "alloc" /\ call[t].slot = s)

-----------------------------------------------------------------------------
(* waitForFreeSlotThenRelock *)

SharedFound == cfg.sharedMode /\ mSharedBufferSlot # NoSlot
TooManyBuffers == Len(mQueue) > getMaxBufferCountLocked(cfg)

\* mIsAbandoned, or the producer would exceed mMaxDequeuedBufferCount.
Refused ==
  mIsAbandoned \/ (mBufferHasBeenQueued /\ DequeuedCount >= cfg.maxDequeued)

\* The search finds slot s and takes it off its list.
Found(attach, s) ==
  /\ ~TooManyBuffers
  /\ \/ SharedFound /\ s = mSharedBufferSlot /\ UNCHANGED <<mFreeSlots, mFreeBuffers>>
     \/ /\ ~SharedFound /\ ~attach
        /\ \/ TakeFreeBuffer(s)
           \/ mFreeBuffers = <<>> /\ cfg.allowAllocation /\ TakeFreeSlot(s)
     \/ /\ ~SharedFound /\ attach
        /\ \/ TakeFreeSlot(s)
           \/ mFreeSlots = {} /\ TakeFreeBuffer(s)

NoneFound(attach) ==
  \/ TooManyBuffers
  \/ /\ ~SharedFound /\ mFreeBuffers = <<>>
     /\ mFreeSlots = {} \/ (~attach /\ ~cfg.allowAllocation)

\* WOULD_BLOCK in the non-blocking modes.
WouldBlock ==
  (cfg.cannotBlock \/ cfg.async) /\ AcquiredCount <= cfg.maxAcquired

\* One pass of the loop that does not find a slot: return an error or wait.
GiveUpOrWait(t, attach) ==
  /\ \/ (Refused \/ (NoneFound(attach) /\ WouldBlock)) /\ Return(t) /\ UNCHANGED parked
     \/ /\ ~Refused /\ NoneFound(attach) /\ ~WouldBlock
        /\ Goto(t, IF cfg.timeout >= 0 THEN "timedWait" ELSE "wait")
        /\ parked' = parked \cup {t}
  /\ UNCHANGED slotVars

\* mDequeueCondition.wait_for times out.
WaitTimesOut(t) ==
  /\ Unlocked /\ call[t].op = "timedWait" /\ Return(t) /\ parked' = parked \ {t}
  /\ UNCHANGED <<slotVars, queueVars, connVars, allocVars, consumerVars, cfg,
                 mSharedBufferSlot, mCurrentCallbackTicket>>

-----------------------------------------------------------------------------
(* dequeueBuffer and requestBuffer *)

dequeueBuffer(t) ==
  /\ Unlocked /\ "dequeueBuffer" \in Calls /\ isIdle(t) /\ Connected
  /\ Goto(t, "dequeue")
  /\ UNCHANGED <<slotVars, queueVars, connVars, allocVars, consumerVars, cfg,
                 mSharedBufferSlot, parked, mCurrentCallbackTicket>>

DequeueWaitsForAllocation(t) ==
  /\ Unlocked /\ call[t].op = "dequeue" /\ mFreeBuffers = <<>> /\ mIsAllocating
  /\ Goto(t, "dequeueAlloc")
  /\ mDequeueWaitingForAllocation' = TRUE
  /\ UNCHANGED <<slotVars, queueVars, connVars, consumerVars, cfg, mIsAllocating,
                 mSharedBufferSlot, parked, mCurrentCallbackTicket>>

\* Thread t is at the top of the search loop of dequeueBuffer: it takes the
\* lock, or has kept it since the last time around.
DequeueSearches(t) ==
  /\ Unlocked \/ call[t].op = "dequeueLoop"
  /\ \/ /\ call[t].op = "dequeue" /\ ~(mFreeBuffers = <<>> /\ mIsAllocating)
        /\ UNCHANGED mDequeueWaitingForAllocation
     \/ /\ call[t].op = "dequeueAlloc" /\ ~mIsAllocating
        /\ mDequeueWaitingForAllocation' = FALSE
     \/ /\ call[t].op = "dequeueLoop" \/ (call[t].op \in {"wait", "timedWait"}
                                          /\ call[t].buf = NoBuffer /\ t \notin parked)
        /\ UNCHANGED mDequeueWaitingForAllocation

\* The first buffer dequeued in shared buffer mode becomes the shared buffer.
BecomesShared == cfg.sharedMode /\ mSharedBufferSlot = NoSlot

\* Whether a buffer fails to meet the requested size, format and usage.
Mismatches == IF "resize" \in Calls THEN BOOLEAN ELSE {FALSE}

\* Slot s is handed out with the buffer it has, or is to get a new one.
TakeForDequeue(t, s, mismatch) ==
  LET realloc == mSlots[s].buf = NoBuffer \/ mismatch
      r == [dequeue(mSlots[s]) EXCEPT !.needsRealloc = FALSE,
                                      !.shared = IF BecomesShared THEN TRUE ELSE @]
  IN  /\ mActiveBuffers' = mActiveBuffers \cup ({s} \ {mSharedBufferSlot})
      /\ mSharedBufferSlot' = IF BecomesShared THEN s ELSE mSharedBufferSlot
      /\ IF realloc
           THEN /\ mSlots' = [mSlots EXCEPT ![s] = [r EXCEPT
                     !.buf = NoBuffer, !.acquireCalled = FALSE, !.requested = FALSE]]
                /\ mIsAllocating' = TRUE
                /\ call' = [call EXCEPT ![t] = [Idle EXCEPT !.op = "alloc", !.slot = s]]
           ELSE /\ mSlots' = [mSlots EXCEPT ![s] = r]
                /\ Return(t)
                /\ UNCHANGED mIsAllocating

\* A slot was found. A shared buffer is never reallocated (BAD_VALUE), and
\* one that is still being allocated is a null pointer the code dereferences.
DequeueFound(t, s, mismatch) ==
  /\ ~Refused /\ Found(FALSE, s) /\ UNCHANGED mUnusedSlots
  /\ \/ /\ s = mSharedBufferSlot /\ mSlots[s].buf = NoBuffer
        /\ Goto(t, "undefined")
        /\ UNCHANGED <<mSlots, mActiveBuffers, mSharedBufferSlot, mIsAllocating>>
     \/ /\ s = mSharedBufferSlot /\ mSlots[s].buf # NoBuffer /\ mismatch
        /\ Return(t)
        /\ UNCHANGED <<mSlots, mActiveBuffers, mSharedBufferSlot, mIsAllocating>>
     \/ /\ s = mSharedBufferSlot => (mSlots[s].buf # NoBuffer /\ ~mismatch)
        /\ mismatch => cfg.allowAllocation
        /\ mSlots[s].deq < MaxCount
        /\ TakeForDequeue(t, s, mismatch)

\* Without permission to allocate, a buffer that does not fit is freed and
\* the search goes on with the lock held.
DequeueDiscards(t) ==
  /\ ~Refused /\ ~TooManyBuffers /\ ~SharedFound
  /\ ~cfg.allowAllocation /\ TRUE \in Mismatches /\ mFreeBuffers # <<>>
  /\ mSlots' = clearBufferSlotLocked({Head(mFreeBuffers)})
  /\ mFreeSlots' = mFreeSlots \cup {Head(mFreeBuffers)}
  /\ mFreeBuffers' = Tail(mFreeBuffers)
  /\ Goto(t, "dequeueLoop")
  /\ UNCHANGED <<mActiveBuffers, mUnusedSlots, mSharedBufferSlot, mIsAllocating>>

\* The second critical section of dequeueBuffer.
DequeueLocked(t) ==
  /\ DequeueSearches(t)
  /\ \/ /\ GiveUpOrWait(t, FALSE)
        /\ UNCHANGED <<mSharedBufferSlot, mIsAllocating>>
     \/ /\ \/ \E s \in Slot, m \in Mismatches : DequeueFound(t, s, m)
           \/ DequeueDiscards(t)
        /\ UNCHANGED parked
  /\ UNCHANGED <<queueVars, connVars, consumerVars, cfg, mCurrentCallbackTicket>>

\* The allocation made without the lock has ended: the buffer goes into the
\* slot, unless the allocation failed or the queue was abandoned meanwhile.
DequeueAllocated(t) ==
  LET s == call[t].slot
  IN  /\ Unlocked /\ call[t].op = "alloc"
      /\ \/ /\ ~mIsAbandoned
            /\ \E b \in FreshBuffers : mSlots' = [mSlots EXCEPT ![s].buf = b]
            /\ UNCHANGED mFreeSlots
         \/ /\ mIsAbandoned \/ "allocationFails" \in Calls
            /\ mFreeSlots' = mFreeSlots \cup {s}
            /\ mSlots' = clearBufferSlotLocked({s})
      /\ mIsAllocating' = FALSE
      /\ Return(t)
      /\ UNCHANGED <<mFreeBuffers, mActiveBuffers, mUnusedSlots, queueVars, connVars,
                     consumerVars, cfg, mSharedBufferSlot, parked,
                     mDequeueWaitingForAllocation, mCurrentCallbackTicket>>

requestBuffer(s) ==
  /\ Unlocked /\ "dequeueBuffer" \in Calls /\ SomeThreadIdle /\ Connected /\ ProducerOwns(s)
  /\ mSlots' = [mSlots EXCEPT ![s].requested = TRUE]
  /\ UNCHANGED <<mFreeSlots, mFreeBuffers, mActiveBuffers, mUnusedSlots, queueVars,
                 connVars, allocVars, threadVars, consumerVars, cfg, mSharedBufferSlot>>

-----------------------------------------------------------------------------
(* queueBuffer and cancelBuffer *)

mIsDroppable(s) ==
  \/ cfg.async
  \/ cfg.canDrop /\ (ConsumerIsSurfaceFlinger \/ cfg.legacyDrop)
  \/ cfg.sharedMode /\ (mSharedBufferSlot = s \/ BecomesShared)

QueueAllowed(t, s) ==
  /\ Unlocked /\ "queueBuffer" \in Calls /\ isIdle(t) /\ Connected
  /\ ProducerOwns(s) /\ mSlots[s].requested

\* What the slots and the new frame are after queueBuffer(s).
QueuedSlot(s) ==
  [queue(mSlots[s]) EXCEPT !.frame = mFrameCounter + 1,
                           !.shared = IF BecomesShared THEN TRUE ELSE @]
QueuedSlots(s) == [mSlots EXCEPT ![s] = QueuedSlot(s)]
QueuedItem(s) ==
  [slot |-> s, frame |-> mFrameCounter + 1, buf |-> mSlots[s].buf,
   droppable |-> mIsDroppable(s), stale |-> FALSE,
   acquireCalled |-> mSlots[s].acquireCalled]

\* The last frame of the queue is replaced if it is droppable.
LastItem == mQueue[Len(mQueue)]
\* Mutant of Replaces: every frame is kept.
NeverReplaces == FALSE

Replaces == mQueue # <<>> /\ LastItem.droppable

\* Mutant of Enqueued: push_front.
EnqueuedInFront(item) == <<item>> \o mQueue

Enqueued(item) ==
  IF Replaces THEN [mQueue EXCEPT ![Len(mQueue)] = item] ELSE Append(mQueue, item)

\* The frame goes to the end of the queue, or replaces the last frame if that
\* one is droppable; the slot of a replaced frame is given back unless the
\* frame is stale. The thread takes a ticket for the callback.
queueBuffer(t, s) ==
  /\ QueueAllowed(t, s) /\ mFrameCounter < MaxFrames
  /\ mFrameCounter' = mFrameCounter + 1
  /\ mQueue' = Enqueued(QueuedItem(s))
  /\ IF Replaces /\ ~LastItem.stale
       THEN GiveBack([QueuedSlots(s) EXCEPT ![LastItem.slot] = freeQueued(@)], LastItem.slot)
       ELSE /\ mSlots' = QueuedSlots(s)
            /\ UNCHANGED <<mFreeSlots, mFreeBuffers, mActiveBuffers, mUnusedSlots>>
  /\ mSharedBufferSlot' = IF BecomesShared THEN s ELSE mSharedBufferSlot
  /\ mBufferHasBeenQueued' = TRUE
  /\ NotifyDequeue
  /\ call' = [call EXCEPT ![t] =
                [Idle EXCEPT !.op = "callback", !.frame = mFrameCounter + 1]]
  /\ UNCHANGED <<connVars, allocVars, consumerVars, cfg, mCurrentCallbackTicket>>

\* The crop rectangle is refused only after the slot was marked shared.
QueueBadCrop(t, s) ==
  /\ "badCrop" \in Calls /\ QueueAllowed(t, s) /\ BecomesShared
  /\ mSlots' = [mSlots EXCEPT ![s].shared = TRUE]
  /\ mSharedBufferSlot' = s
  /\ UNCHANGED <<mFreeSlots, mFreeBuffers, mActiveBuffers, mUnusedSlots, queueVars,
                 connVars, allocVars, threadVars, consumerVars, cfg>>

\* Mutant of Ticket: off by one.
NextTicket(t) == call[t].frame

\* A call's ticket is one less than the number of the frame it queued.
Ticket(t) == call[t].frame - 1

\* onFrameAvailable or onFrameReplaced, in the order of the tickets.
FrameCallback(t) ==
  /\ call[t].op = "callback" /\ Ticket(t) = mCurrentCallbackTicket
  /\ mCurrentCallbackTicket' = mCurrentCallbackTicket + 1
  /\ Return(t)
  /\ UNCHANGED <<slotVars, queueVars, connVars, allocVars, consumerVars, cfg,
                 mSharedBufferSlot, parked>>

cancelBuffer(s) ==
  /\ Unlocked /\ "cancelBuffer" \in Calls /\ SomeThreadIdle /\ Connected /\ ~cfg.sharedMode
  /\ ProducerOwns(s)
  /\ GiveBack([mSlots EXCEPT ![s] = cancel(@)], s)
  /\ NotifyDequeue
  /\ UNCHANGED <<queueVars, connVars, allocVars, call, mCurrentCallbackTicket,
                 consumerVars, cfg, mSharedBufferSlot>>

-----------------------------------------------------------------------------
(* detachBuffer, detachNextBuffer and attachBuffer *)

detachBuffer(s) ==
  /\ Unlocked /\ "detachBuffer" \in Calls /\ SomeThreadIdle /\ Connected
  /\ ~cfg.sharedMode /\ mSharedBufferSlot # s
  /\ ProducerOwns(s) /\ mSlots[s].requested
  /\ Detach(s)
  /\ NotifyDequeue
  /\ UNCHANGED <<queueVars, connVars, allocVars, call, mCurrentCallbackTicket,
                 consumerVars, cfg, mSharedBufferSlot>>

\* Checked before the wait for an allocation, and not again after it.
detachNextBuffer(t) ==
  /\ Unlocked /\ "detachNextBuffer" \in Calls /\ isIdle(t) /\ Connected /\ ~cfg.sharedMode
  /\ Goto(t, "detachNext")
  /\ UNCHANGED <<slotVars, queueVars, connVars, allocVars, consumerVars, cfg,
                 mSharedBufferSlot, parked, mCurrentCallbackTicket>>

DetachNextLocked(t) ==
  /\ Unlocked /\ call[t].op = "detachNext" /\ ~mIsAllocating
  /\ IF mFreeBuffers = <<>>
       THEN UNCHANGED slotVars
       ELSE /\ mSlots' = clearBufferSlotLocked({Head(mFreeBuffers)})
            /\ mFreeSlots' = mFreeSlots \cup {Head(mFreeBuffers)}
            /\ mFreeBuffers' = Tail(mFreeBuffers)
            /\ UNCHANGED <<mActiveBuffers, mUnusedSlots>>
  /\ Return(t)
  /\ UNCHANGED <<queueVars, connVars, allocVars, consumerVars, cfg,
                 mSharedBufferSlot, parked, mCurrentCallbackTicket>>

attachBuffer(t, b) ==
  /\ Unlocked /\ "attachBuffer" \in Calls /\ isIdle(t) /\ Connected /\ ~cfg.sharedMode
  /\ b \in FreshBuffers
  /\ call' = [call EXCEPT ![t] = [Idle EXCEPT !.op = "attach", !.buf = b]]
  /\ UNCHANGED <<slotVars, queueVars, connVars, allocVars, consumerVars, cfg,
                 mSharedBufferSlot, parked, mCurrentCallbackTicket>>

AttachFound(t, s) ==
  /\ ~Refused /\ Found(TRUE, s) /\ mSlots[s].deq < MaxCount
  /\ mSlots' = [mSlots EXCEPT ![s] = [dequeue(@) EXCEPT !.buf = call[t].buf,
        !.requested = TRUE, !.acquireCalled = FALSE, !.needsRealloc = FALSE]]
  /\ mActiveBuffers' = mActiveBuffers \cup {s}
  /\ Return(t)
  /\ UNCHANGED <<mUnusedSlots, parked>>

AttachLocked(t) ==
  /\ Unlocked
  /\ \/ call[t].op = "attach" /\ ~mIsAllocating
     \/ call[t].op \in {"wait", "timedWait"} /\ call[t].buf # NoBuffer /\ t \notin parked
  /\ GiveUpOrWait(t, TRUE) \/ \E s \in Slot : AttachFound(t, s)
  /\ UNCHANGED <<queueVars, connVars, allocVars, consumerVars, cfg,
                 mSharedBufferSlot, mCurrentCallbackTicket>>

-----------------------------------------------------------------------------
(* connect, disconnect and binderDied *)

\* Mutant of ConnectedApi: an unknown API is connected.
AnyApi(api) == api

ConnectedApi(api) == IF api \in Apis THEN api ELSE NoApi

\* An unknown API is refused after the slots and the flags were changed.
connect(api, byApp) ==
  LET cannotBlock == cfg.consumerByApp /\ byApp /\ cfg.timeout < 0
      canDrop == cfg.consumerByApp /\ byApp /\ cfg.timeout <= 0
      c == [cfg EXCEPT !.cannotBlock = cannotBlock, !.canDrop = canDrop,
                       !.legacyDrop = TRUE, !.allowAllocation = TRUE]
  IN  /\ Unlocked /\ "connect" \in Calls /\ SomeThreadIdle /\ connects < MaxConnects
      /\ ~mIsAbandoned /\ mConsumerListener /\ mConnectedApi = NoApi
      /\ adjustAvailableSlotsLocked(Delta(c))
      /\ mConnectedApi' = ConnectedApi(api)
      /\ connects' = connects + 1
      /\ mBufferHasBeenQueued' = FALSE
      /\ cfg' = c
      /\ UNCHANGED <<mActiveBuffers, mQueue, mFrameCounter, mIsAbandoned, obituary,
                     mConsumerListener, allocVars, threadVars, consumerVars,
                     mSharedBufferSlot>>

\* The critical section of disconnect for the connected API.
Disconnect ==
  /\ Unlocked /\ ~mIsAllocating /\ Connected
  /\ freeAllBuffersLocked
  /\ mQueue' = StaleItems(mQueue)
  /\ mSharedBufferSlot' = NoSlot
  /\ mConnectedApi' = NoApi
  /\ NotifyDequeue
  /\ UNCHANGED <<mFrameCounter, mBufferHasBeenQueued, mIsAbandoned, mConsumerListener,
                 connects, allocVars, call, mCurrentCallbackTicket, consumerVars, cfg>>

disconnect == "disconnect" \in Calls /\ SomeThreadIdle /\ Disconnect /\ UNCHANGED obituary

\* The process of the connected producer dies and the binder driver reports
\* it; from here on unlinkToDeath cannot take the notification back.
ProducerDies ==
  /\ "binderDied" \in Calls /\ Connected /\ obituary.stage = "none"
  /\ obituary' = [stage |-> "sent", api |-> NoApi, of |-> connects]
  /\ UNCHANGED <<slotVars, queueVars, mIsAbandoned, mConsumerListener, mConnectedApi,
                 connects, allocVars, threadVars, consumerVars, cfg, mSharedBufferSlot>>

\* binderDied reads mConnectedApi without the lock ...
binderDied ==
  /\ obituary.stage = "sent"
  /\ obituary' = [obituary EXCEPT !.stage = "read", !.api = mConnectedApi]
  /\ UNCHANGED <<slotVars, queueVars, mIsAbandoned, mConsumerListener, mConnectedApi,
                 connects, allocVars, threadVars, consumerVars, cfg, mSharedBufferSlot>>

\* ... and calls disconnect for that API.
BinderDiedDisconnect ==
  /\ Unlocked /\ obituary.stage = "read" /\ ~mIsAllocating
  /\ obituary' = [stage |-> "none", api |-> NoApi, of |-> 0]
  /\ \/ obituary.api = mConnectedApi /\ Disconnect
     \/ /\ obituary.api # mConnectedApi \/ ~Connected
        /\ UNCHANGED <<slotVars, queueVars, mIsAbandoned, mConsumerListener, connects,
                 mConnectedApi, allocVars, threadVars, consumerVars, cfg, mSharedBufferSlot>>

-----------------------------------------------------------------------------
(* allocateBuffers *)

\* The top of the loop; it ends when there is no free slot to fill.
PreallocStart(t) ==
  /\ Unlocked
  /\ \/ "allocateBuffers" \in Calls /\ isIdle(t)
     \/ call[t].op = "retry"
  /\ ~mIsAllocating
  /\ IF cfg.allowAllocation /\ mFreeSlots # {}
       THEN Goto(t, "prealloc") /\ mIsAllocating' = TRUE
       ELSE Return(t) /\ UNCHANGED mIsAllocating
  /\ UNCHANGED <<slotVars, queueVars, connVars, mDequeueWaitingForAllocation,
                 consumerVars, cfg, mSharedBufferSlot, parked, mCurrentCallbackTicket>>

\* The allocation has ended: it failed, or the default size changed meanwhile,
\* or the buffer goes to the front of mFreeBuffers if a slot is still free.
PreallocEnd(t) ==
  /\ Unlocked /\ call[t].op = "prealloc"
  /\ mIsAllocating' = FALSE
  /\ \/ "allocationFails" \in Calls /\ Return(t) /\ UNCHANGED slotVars
     \/ "resize" \in Calls /\ Goto(t, "retry") /\ UNCHANGED slotVars
     \/ /\ Goto(t, "yield")
        /\ \/ mFreeSlots = {} /\ UNCHANGED slotVars
           \/ \E s \in mFreeSlots, b \in FreshBuffers :
                /\ \A u \in mFreeSlots : s <= u
                /\ mSlots' = [mSlots EXCEPT ![s] = [Cleared EXCEPT !.buf = b]]
                /\ mFreeBuffers' = <<s>> \o mFreeBuffers
                /\ mFreeSlots' = mFreeSlots \ {s}
                /\ UNCHANGED <<mActiveBuffers, mUnusedSlots>>
  /\ UNCHANGED <<queueVars, connVars, mDequeueWaitingForAllocation,
                 consumerVars, cfg, mSharedBufferSlot, parked, mCurrentCallbackTicket>>

\* A dequeueBuffer that waited for the buffer goes first.
PreallocYields(t) ==
  /\ Unlocked /\ call[t].op = "yield" /\ ~mDequeueWaitingForAllocation
  /\ Goto(t, "retry")
  /\ UNCHANGED <<slotVars, queueVars, connVars, allocVars, consumerVars, cfg,
                 mSharedBufferSlot, parked, mCurrentCallbackTicket>>

-----------------------------------------------------------------------------
(* Limits and modes *)

\* delta is the difference of the two limits, not of the two buffer counts.
setMaxDequeuedBufferCount(n) ==
  LET bufferCount == getMinUndequeuedBufferCountLocked(cfg) + n
  IN  /\ Unlocked /\ "setMaxDequeuedBufferCount" \in Calls /\ SomeThreadIdle
      /\ ~mIsAllocating /\ ~mIsAbandoned /\ n # cfg.maxDequeued
      /\ DequeuedCount <= n /\ n >= 1
      /\ bufferCount <= NumSlots /\ bufferCount <= cfg.maxBuffers
      /\ adjustAvailableSlotsLocked(n - cfg.maxDequeued)
      /\ cfg' = [cfg EXCEPT !.maxDequeued = n]
      /\ NotifyDequeue
      /\ UNCHANGED <<mActiveBuffers, queueVars, connVars, allocVars, call,
                     mCurrentCallbackTicket, consumerVars, mSharedBufferSlot>>

setAsyncMode(async) ==
  LET c == [cfg EXCEPT !.async = async]
  IN  /\ Unlocked /\ "setAsyncMode" \in Calls /\ SomeThreadIdle
      /\ ~mIsAllocating /\ ~mIsAbandoned /\ async # cfg.async
      /\ c.maxAcquired + c.maxDequeued + ExtraBuffer(c) <= c.maxBuffers
      /\ adjustAvailableSlotsLocked(Delta(c))
      /\ cfg' = c
      /\ NotifyDequeue
      /\ UNCHANGED <<mActiveBuffers, queueVars, connVars, allocVars, call,
                     mCurrentCallbackTicket, consumerVars, mSharedBufferSlot>>

setDequeueTimeout(timeout) ==
  LET c == [cfg EXCEPT !.timeout = timeout,
                       !.cannotBlock = @ /\ timeout < 0,
                       !.canDrop = @ /\ timeout <= 0]
  IN  /\ Unlocked /\ "setDequeueTimeout" \in Calls /\ SomeThreadIdle
      /\ adjustAvailableSlotsLocked(Delta(c))
      /\ cfg' = c
      /\ UNCHANGED <<mActiveBuffers, queueVars, connVars, allocVars, threadVars,
                     consumerVars, mSharedBufferSlot>>

setSharedBufferMode(on) ==
  /\ Unlocked /\ "setSharedBufferMode" \in Calls /\ SomeThreadIdle
  /\ cfg' = [cfg EXCEPT !.sharedMode = on]
  /\ mSharedBufferSlot' = IF on THEN mSharedBufferSlot ELSE NoSlot
  /\ UNCHANGED <<slotVars, queueVars, connVars, allocVars, threadVars, consumerVars>>

\* setAutoRefresh, allowAllocation and setLegacyBufferDrop set one flag.
SetProducerFlag(f, on) ==
  /\ Unlocked /\ f \in Calls /\ SomeThreadIdle
  /\ cfg' = CASE f = "setAutoRefresh" -> [cfg EXCEPT !.autoRefresh = on]
               [] f = "allowAllocation" -> [cfg EXCEPT !.allowAllocation = on]
               [] f = "setLegacyBufferDrop" -> [cfg EXCEPT !.legacyDrop = on]
  /\ UNCHANGED <<slotVars, queueVars, connVars, allocVars, threadVars, consumerVars,
                 mSharedBufferSlot>>

=============================================================================
