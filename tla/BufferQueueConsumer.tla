------------------------- MODULE BufferQueueConsumer -------------------------
(***************************************************************************)
(* The handlers of libs/gui/BufferQueueConsumer.cpp, called by the one     *)
(* consumer thread. held lists the buffers that thread works with, each    *)
(* with the slot and frame number it will pass to releaseBuffer. consumer  *)
(* is "idle", "drop" (in acquireBuffer, holding mMutex, after a frame was  *)
(* dropped), "sharedWait" (in acquireBuffer, waiting for an allocation) or *)
(* "undefined" (acquireBuffer has read mSlots[-1]).                        *)
(***************************************************************************)
EXTENDS BufferQueueCore

Held == [slot : Slot, frame : Nat, buf : Buffers \cup {NoBuffer}]
Without(q, i) == SubSeq(q, 1, i - 1) \o SubSeq(q, i + 1, Len(q))

-----------------------------------------------------------------------------
(* acquireBuffer *)

\* One buffer beyond mMaxAcquiredBufferCount may be acquired, and with
\* mAllowExtraAcquire a second one if it is not droppable.
NonDroppableOnly == cfg.extraAcquire /\ AcquiredCount = cfg.maxAcquired + 1
CanAcquire == AcquiredCount < cfg.maxAcquired + 1 \/ NonDroppableOnly

\* The consumer takes the lock, or has kept it after dropping a frame.
AcquireSearches == (Unlocked /\ consumer = "idle") \/ consumer = "drop"

\* The next frame is timely, so the front frame is dropped; the lock is kept.
AcquireDrop ==
  LET front == Head(mQueue)
  IN  /\ "expectedPresent" \in Calls /\ AcquireSearches
      /\ CanAcquire /\ Len(mQueue) > 1
      /\ IF front.stale
           THEN UNCHANGED slotVars
           ELSE GiveBack([mSlots EXCEPT ![front.slot] = freeQueued(@)], front.slot)
      /\ mQueue' = Tail(mQueue)
      /\ consumer' = "drop"
      /\ UNCHANGED <<mFrameCounter, mBufferHasBeenQueued, connVars, allocVars,
                     threadVars, held, cfg, mSharedBufferSlot>>

\* The front frame is handed to the consumer.
AcquireFront ==
  LET front == Head(mQueue)
  IN  /\ "acquireBuffer" \in Calls /\ AcquireSearches
      /\ CanAcquire /\ mQueue # <<>>
      /\ ~(NonDroppableOnly /\ front.droppable)
      /\ IF front.stale
           THEN UNCHANGED mSlots
           ELSE /\ mSlots[front.slot].acq < MaxCount
                /\ mSlots' = [mSlots EXCEPT ![front.slot] =
                                [acquire(@) EXCEPT !.acquireCalled = TRUE]]
      /\ held' = Append(held, [slot |-> front.slot, frame |-> front.frame, buf |-> front.buf])
      /\ mQueue' = Tail(mQueue)
      /\ NotifyDequeue
      /\ consumer' = "idle"
      /\ UNCHANGED <<mFreeSlots, mFreeBuffers, mActiveBuffers, mUnusedSlots,
                     mFrameCounter, mBufferHasBeenQueued, connVars, allocVars, call,
                     mCurrentCallbackTicket, cfg, mSharedBufferSlot>>

\* Frames were dropped, and then the front frame turns out to be droppable
\* while only a non-droppable one may be acquired: returns without notifying.
AcquireRefused ==
  /\ consumer = "drop" /\ NonDroppableOnly /\ Head(mQueue).droppable
  /\ consumer' = "idle"
  /\ UNCHANGED <<slotVars, queueVars, connVars, allocVars, threadVars, held, cfg,
                 mSharedBufferSlot>>

\* With auto refresh the shared buffer is acquired although nothing is queued.
SharedAvailable ==
  cfg.sharedMode /\ cfg.autoRefresh /\ mSharedBufferSlot # NoSlot /\ mQueue = <<>>

AcquireSharedWaits ==
  /\ Unlocked /\ "acquireBuffer" \in Calls /\ consumer = "idle"
  /\ CanAcquire /\ SharedAvailable /\ mIsAllocating
  /\ consumer' = "sharedWait"
  /\ UNCHANGED <<slotVars, queueVars, connVars, allocVars, threadVars, held, cfg,
                 mSharedBufferSlot>>

\* What was checked before the wait is not checked again: the slot may be gone,
\* or frames may have arrived, and then the iterator to the front of the queue
\* that is erased is one from before they did.
AcquireShared ==
  LET s == mSharedBufferSlot
  IN  /\ Unlocked /\ "acquireBuffer" \in Calls /\ ~mIsAllocating
      /\ consumer = "sharedWait" \/ (consumer = "idle" /\ CanAcquire /\ SharedAvailable)
      /\ IF s = NoSlot
           THEN consumer' = "undefined" /\ UNCHANGED <<mSlots, held, mQueue, parked>>
           ELSE /\ mSlots[s].acq < MaxCount
                /\ mSlots' = [mSlots EXCEPT ![s] =
                     [IF mQueue = <<>> THEN acquireNotInQueue(@) ELSE acquire(@)
                        EXCEPT !.acquireCalled = TRUE]]
                /\ held' = Append(held, [slot |-> s, frame |-> mFrameCounter,
                                         buf |-> mSlots[s].buf])
                /\ mQueue' \in {mQueue} \cup (IF mQueue = <<>> THEN {} ELSE {Tail(mQueue)})
                /\ NotifyDequeue
                /\ consumer' = "idle"
      /\ UNCHANGED <<mFreeSlots, mFreeBuffers, mActiveBuffers, mUnusedSlots,
                     mFrameCounter, mBufferHasBeenQueued, connVars, allocVars, call,
                     mCurrentCallbackTicket, cfg, mSharedBufferSlot>>

-----------------------------------------------------------------------------
(* releaseBuffer, detachBuffer, attachBuffer *)

\* Mutant of ReleaseIsCurrent: the frame number is not compared.
ReleaseIfAcquired(h) == isAcquired(mSlots[h.slot])

\* A release whose frame number is out of date (unless the slot is shared), or
\* of a slot that is not acquired, changes nothing.
ReleaseIsCurrent(h) ==
  (h.frame = mSlots[h.slot].frame \/ mSlots[h.slot].shared) /\ isAcquired(mSlots[h.slot])

releaseBuffer(i) ==
  LET h == held[i]
  IN  /\ Unlocked /\ "releaseBuffer" \in Calls /\ consumer = "idle"
      /\ held' = Without(held, i)
      /\ IF ReleaseIsCurrent(h)
           THEN /\ GiveBack([mSlots EXCEPT ![h.slot] = release(@)], h.slot)
                /\ NotifyDequeue
           ELSE UNCHANGED <<slotVars, parked>>
      /\ UNCHANGED <<queueVars, connVars, allocVars, call, mCurrentCallbackTicket,
                     consumer, cfg, mSharedBufferSlot>>

\* The consumer detaches the slot of a buffer it has. Only the state of the slot
\* is looked at: after a disconnect it may be another buffer, acquired since.
ConsumerDetachBuffer(i) ==
  LET s == held[i].slot
  IN  /\ Unlocked /\ "consumerDetachBuffer" \in Calls /\ consumer = "idle" /\ ~mIsAbandoned
      /\ ~cfg.sharedMode /\ s # mSharedBufferSlot
      /\ isAcquired(mSlots[s])
      /\ Detach(s)
      /\ held' = Without(held, i)
      /\ NotifyDequeue
      /\ UNCHANGED <<queueVars, connVars, allocVars, call, mCurrentCallbackTicket,
                     consumer, cfg, mSharedBufferSlot>>

\* What the slot is once buffer b was attached to it.
AttachedSlot(s, b) ==
  [acquireNotInQueue(mSlots[s]) EXCEPT !.buf = b, !.needsRealloc = TRUE, !.frame = 0,
                                       !.acquireCalled = FALSE]

ConsumerAttachBuffer(b) ==
  /\ Unlocked /\ "consumerAttachBuffer" \in Calls /\ consumer = "idle"
  /\ ~cfg.sharedMode /\ AcquiredCount < cfg.maxAcquired + 1 /\ b \in FreshBuffers
  /\ \E s \in Slot :
       /\ TakeFreeSlot(s) \/ (mFreeSlots = {} /\ TakeFreeBuffer(s))
       /\ mSlots[s].acq < MaxCount
       /\ mSlots' = [mSlots EXCEPT ![s] = AttachedSlot(s, b)]
       /\ mActiveBuffers' = mActiveBuffers \cup {s}
       /\ held' = Append(held, [slot |-> s, frame |-> 0, buf |-> b])
  /\ UNCHANGED <<mUnusedSlots, queueVars, connVars, allocVars, threadVars, consumer,
                 cfg, mSharedBufferSlot>>

-----------------------------------------------------------------------------
(* connect, disconnect, limits and modes *)

ConsumerConnect(byApp) ==
  /\ Unlocked /\ "consumerConnect" \in Calls /\ consumer = "idle" /\ ~mIsAbandoned
  /\ mConsumerListener' = TRUE
  /\ cfg' = [cfg EXCEPT !.consumerByApp = byApp]
  /\ UNCHANGED <<slotVars, queueVars, mIsAbandoned, mConnectedApi, connects, obituary,
                 allocVars, threadVars, consumerVars, mSharedBufferSlot>>

\* The queue is abandoned; an allocation in progress is not waited for.
ConsumerDisconnect ==
  /\ Unlocked /\ "consumerDisconnect" \in Calls /\ consumer = "idle" /\ mConsumerListener
  /\ mIsAbandoned' = TRUE /\ mConsumerListener' = FALSE
  /\ mQueue' = <<>>
  /\ freeAllBuffersLocked
  /\ mSharedBufferSlot' = NoSlot
  /\ NotifyDequeue
  /\ UNCHANGED <<mFrameCounter, mBufferHasBeenQueued, mConnectedApi, connects, obituary,
                 allocVars, call, mCurrentCallbackTicket, consumerVars, cfg>>

setMaxBufferCount(n) ==
  LET c == [cfg EXCEPT !.maxBuffers = n]
  IN  /\ Unlocked /\ "setMaxBufferCount" \in Calls /\ consumer = "idle"
      /\ n \in 1 .. NumSlots /\ mConnectedApi = NoApi /\ n >= cfg.maxAcquired
      /\ adjustAvailableSlotsLocked(Delta(c))
      /\ cfg' = c
      /\ UNCHANGED <<mActiveBuffers, queueVars, connVars, allocVars, threadVars,
                     consumerVars, mSharedBufferSlot>>

\* delta is the difference of the two limits, and nobody is notified. That n is
\* at most MAX_MAX_ACQUIRED_BUFFERS (62 of 64 slots) is not asked for here.
setMaxAcquiredBufferCount(n) ==
  /\ Unlocked /\ "setMaxAcquiredBufferCount" \in Calls /\ consumer = "idle" /\ n >= 1
  /\ ~mIsAllocating /\ ~mIsAbandoned /\ n # cfg.maxAcquired /\ AcquiredCount <= n
  /\ n + cfg.maxDequeued + ExtraBuffer(cfg) <= cfg.maxBuffers
  /\ adjustAvailableSlotsLocked(n - cfg.maxAcquired)
  /\ cfg' = [cfg EXCEPT !.maxAcquired = n]
  /\ UNCHANGED <<mActiveBuffers, queueVars, connVars, allocVars, threadVars,
                 consumerVars, mSharedBufferSlot>>

discardFreeBuffers ==
  /\ Unlocked /\ "discardFreeBuffers" \in Calls /\ consumer = "idle"
  /\ discardFreeBuffersLocked
  /\ UNCHANGED <<queueVars, connVars, allocVars, threadVars, consumerVars, cfg,
                 mSharedBufferSlot>>

setAllowExtraAcquire(allow) ==
  /\ Unlocked /\ "setAllowExtraAcquire" \in Calls /\ consumer = "idle"
  /\ cfg' = [cfg EXCEPT !.extraAcquire = allow]
  /\ UNCHANGED <<slotVars, queueVars, connVars, allocVars, threadVars, consumerVars,
                 mSharedBufferSlot>>

=============================================================================
