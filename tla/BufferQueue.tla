----------------------------- MODULE BufferQueue -----------------------------
(***************************************************************************)
(* A BufferQueue with its producer threads and its consumer: the initial   *)
(* state, the next-state relation and the properties.                      *)
(***************************************************************************)
EXTENDS BufferQueueProducer, BufferQueueConsumer

CONSTANTS
  Configs,  \* what may have been set up before the producer connects
  Limits    \* the arguments of the setters of limits that are tried

DefaultConfig ==
  [maxAcquired |-> 1, maxDequeued |-> 1, maxBuffers |-> NumSlots, async |-> FALSE,
   cannotBlock |-> FALSE, canDrop |-> FALSE, legacyDrop |-> TRUE,
   allowAllocation |-> TRUE, sharedMode |-> FALSE, autoRefresh |-> FALSE,
   extraAcquire |-> FALSE, timeout |-> -1, consumerByApp |-> FALSE]

\* Only connect sets cannotBlock and canDrop; the setters keep the limits
\* within mMaxBufferCount.
ASSUME ConfigsAssumption ==
  /\ Limits \subseteq Nat
  /\ \A c \in Configs :
       /\ c \in Config /\ c.maxAcquired >= 1 /\ c.maxDequeued >= 1
       /\ ~c.cannotBlock /\ ~c.canDrop
       /\ c.maxAcquired + c.maxDequeued + ExtraBuffer(c) <= c.maxBuffers
       /\ c.maxBuffers <= NumSlots

\* The constructor, followed by the calls that lead to cfg.
Init ==
  /\ cfg \in Configs
  /\ mSlots = [s \in Slot |-> NewSlot]
  /\ mFreeSlots = 0 .. getMaxBufferCountLocked(cfg) - 1
  /\ mUnusedSlots = getMaxBufferCountLocked(cfg) .. NumSlots - 1
  /\ mFreeBuffers = <<>> /\ mActiveBuffers = {}
  /\ mQueue = <<>> /\ mFrameCounter = 0 /\ mBufferHasBeenQueued = FALSE
  /\ mIsAbandoned = FALSE /\ mConsumerListener = TRUE /\ mConnectedApi = NoApi
  /\ connects = 0 /\ obituary = [stage |-> "none", api |-> NoApi, of |-> 0]
  /\ mSharedBufferSlot = NoSlot
  /\ mIsAllocating = FALSE /\ mDequeueWaitingForAllocation = FALSE
  /\ call = [t \in Threads |-> Idle] /\ parked = {} /\ mCurrentCallbackTicket = 0
  /\ consumer = "idle" /\ held = <<>>

-----------------------------------------------------------------------------
(* The next-state relation *)

DequeueStep(t) ==
  \/ dequeueBuffer(t) \/ DequeueWaitsForAllocation(t) \/ DequeueLocked(t)
  \/ DequeueAllocated(t) \/ WaitTimesOut(t)

AttachDetachStep(t) ==
  \/ detachNextBuffer(t) \/ DetachNextLocked(t) \/ AttachLocked(t)
  \/ \E b \in Buffers : attachBuffer(t, b)
  \/ \E s \in Slot : detachBuffer(s)

QueueStep(t) ==
  \/ \E s \in Slot : queueBuffer(t, s) \/ QueueBadCrop(t, s)
  \/ \E s \in Slot : requestBuffer(s) \/ cancelBuffer(s)
  \/ FrameCallback(t)

ThreadStep(t) ==
  \/ DequeueStep(t) \/ AttachDetachStep(t) \/ QueueStep(t)
  \/ PreallocStart(t) \/ PreallocEnd(t) \/ PreallocYields(t)

ProducerConfigStep ==
  \/ \E n \in Limits : setMaxDequeuedBufferCount(n)
  \/ \E b \in BOOLEAN : setAsyncMode(b) \/ setSharedBufferMode(b)
  \/ \E f \in {"setAutoRefresh", "allowAllocation", "setLegacyBufferDrop"}, b \in BOOLEAN :
       SetProducerFlag(f, b)
  \/ \E timeout \in {-1, 0, 1} : setDequeueTimeout(timeout)

ConnectionStep ==
  \/ \E api \in Apis \cup {UnknownApi}, byApp \in BOOLEAN : connect(api, byApp)
  \/ disconnect \/ ProducerDies \/ binderDied \/ BinderDiedDisconnect
  \/ ConsumerDisconnect \/ \E byApp \in BOOLEAN : ConsumerConnect(byApp)

AcquireStep ==
  AcquireDrop \/ AcquireFront \/ AcquireRefused \/ AcquireSharedWaits \/ AcquireShared

ReleaseStep ==
  \E i \in 1 .. Len(held) : releaseBuffer(i) \/ ConsumerDetachBuffer(i)

ConsumerConfigStep ==
  \/ \E n \in Limits : setMaxBufferCount(n) \/ setMaxAcquiredBufferCount(n)
  \/ discardFreeBuffers
  \/ \E b \in BOOLEAN : setAllowExtraAcquire(b)

ConsumerStep ==
  AcquireStep \/ ReleaseStep \/ ConsumerConfigStep
  \/ \E b \in Buffers : ConsumerAttachBuffer(b)

Next ==
  \/ \E t \in Threads : ThreadStep(t)
  \/ ProducerConfigStep \/ ConnectionStep \/ ConsumerStep

Spec == Init /\ [][Next]_vars

\* A thread inside a producer handler goes on when it can: it is scheduled, an
\* allocation ends, a notified waiter gets the lock.
Proceeds(t) ==
  /\ ~isIdle(t)
  /\ \/ DequeueWaitsForAllocation(t) \/ DequeueLocked(t) \/ DequeueAllocated(t)
     \/ DetachNextLocked(t) \/ AttachLocked(t) \/ FrameCallback(t)
     \/ PreallocStart(t) \/ PreallocEnd(t) \/ PreallocYields(t)

\* onFrameAvailable makes the consumer acquire what is queued; it gives a
\* buffer back when it has more than mMaxAcquiredBufferCount, as it must
\* before it can acquire the next one.
ReleasesExtraBuffer ==
  AcquiredCount > cfg.maxAcquired /\ \E i \in 1 .. Len(held) : releaseBuffer(i)

Fairness ==
  /\ \A t \in Threads : WF_vars(Proceeds(t))
  /\ WF_vars(AcquireFront)
  /\ WF_vars(ReleasesExtraBuffer)

FairSpec == Spec /\ Fairness

-----------------------------------------------------------------------------
(* Type correctness *)

ThreadOps ==
  {"idle", "dequeue", "dequeueAlloc", "dequeueLoop", "attach", "wait", "timedWait",
   "alloc", "detachNext", "prealloc", "yield", "retry", "callback", "undefined"}

\* Every variable has its type: the lists hold slots, the counts are Nat, and a
\* thread that dequeueBuffer let go to allocate does so for a slot.
TypeOK ==
  /\ mSlots \in [Slot -> BufferSlot]
  /\ mQueue \in Seq(BufferItem) /\ held \in Seq(Held)
  /\ mFreeSlots \subseteq Slot /\ mActiveBuffers \subseteq Slot
  /\ mUnusedSlots \subseteq Slot /\ mFreeBuffers \in Seq(Slot)
  /\ cfg \in Config
  /\ mIsAbandoned \in BOOLEAN /\ mConsumerListener \in BOOLEAN
  /\ mConnectedApi \in Apis \cup {NoApi}
  /\ mBufferHasBeenQueued \in BOOLEAN /\ mFrameCounter \in Nat
  /\ mSharedBufferSlot \in Slot \cup {NoSlot}
  /\ mIsAllocating \in BOOLEAN /\ mDequeueWaitingForAllocation \in BOOLEAN
  /\ call \in [Threads -> [op : ThreadOps, slot : Slot \cup {NoSlot},
                            buf : Buffers \cup {NoBuffer}, frame : Nat]]
  /\ \A t \in Threads : call[t].op = "alloc" => call[t].slot \in Slot
  /\ parked \subseteq Threads /\ mCurrentCallbackTicket \in Nat
  /\ consumer \in {"idle", "drop", "sharedWait", "undefined"}
  /\ connects \in Nat
  /\ obituary \in [stage : {"none", "sent", "read"}, api : Apis \cup {NoApi}, of : Nat]

-----------------------------------------------------------------------------
(* The slot lists: the checks of validateConsistencyLocked *)

\* Every slot is in exactly one of the four lists, and mFreeBuffers names no
\* slot twice (validateConsistencyLocked: "Slot %d is in ... and in ...",
\* "Slot %d isn't in any of ...").
ListsPartitionSlots ==
  /\ mFreeSlots \cup FreeBufferSet \cup mActiveBuffers \cup mUnusedSlots = Slot
  /\ mFreeSlots \cap (FreeBufferSet \cup mActiveBuffers \cup mUnusedSlots) = {}
  /\ FreeBufferSet \cap (mActiveBuffers \cup mUnusedSlots) = {}
  /\ mActiveBuffers \cap mUnusedSlots = {}
  /\ \A i, j \in 1 .. Len(mFreeBuffers) : mFreeBuffers[i] = mFreeBuffers[j] => i = j

\* A slot of a free list has no owner, and has a buffer exactly in
\* mFreeBuffers; an active slot has an owner or is shared, and it has a buffer
\* unless dequeueBuffer is allocating one for it ("Slot %d is in mFreeSlots but is not FREE",
\* "... but has a buffer", "Slot %d is in mActiveBuffers but has no buffer").
ListsMatchSlotStates ==
  /\ \A s \in mFreeSlots \cup mUnusedSlots :
       isFree(mSlots[s]) /\ mSlots[s].buf = NoBuffer
  /\ \A s \in FreeBufferSet : isFree(mSlots[s]) /\ mSlots[s].buf # NoBuffer
  /\ \A s \in mActiveBuffers :
       /\ ~isFree(mSlots[s]) \/ mSlots[s].shared
       /\ mSlots[s].buf # NoBuffer
            \/ \E t \in Threads : call[t].op = "alloc" /\ call[t].slot = s

\* While a thread allocates a buffer without the lock, mIsAllocating says so
\* (BufferQueueCore.h: "mIsAllocating indicates whether a producer is currently
\* trying to allocate buffers"), which is what disconnect and the setters of
\* limits rely on when they wait for the slots to be stable.
AllocationIsAnnounced ==
  (\E t \in Threads : call[t].op \in {"alloc", "prealloc"}) => mIsAllocating

\* As many slots are in use as the limits allow ("Number of allocated slots is
\* incorrect"): neither a mode change nor a new limit gains or loses a slot.
AllocatedSlotsMatchLimit ==
  NumSlots - Cardinality(mUnusedSlots) = getMaxBufferCountLocked(cfg)

-----------------------------------------------------------------------------
(* Ownership of buffers and order of frames *)

\* A queued frame that is not stale carries the buffer of its slot and the
\* slot counts it as queued: replacing, dropping, disconnecting and detaching
\* keep mQueue and mSlots in step.
QueueMatchesSlots ==
  /\ \A s \in Slot :
       mSlots[s].que = Cardinality({i \in 1 .. Len(mQueue) :
                                     mQueue[i].slot = s /\ ~mQueue[i].stale})
  /\ \A i \in 1 .. Len(mQueue) :
       mQueue[i].buf # NoBuffer
       /\ (~mQueue[i].stale => mQueue[i].buf = mSlots[mQueue[i].slot].buf)

\* A buffer the consumer works with is in no slot the producer may write to or
\* the queue may hand out, also when the frame outlived a disconnect and its
\* slot number was reused: a release for an old frame has no effect on the
\* slot's new buffer. Not so for the buffers the consumer attached itself, which
\* all carry frame number 0.
ConsumerBufferIsAcquired ==
  \A i \in 1 .. Len(held), s \in Slot :
    (/\ mSlots[s].buf = held[i].buf /\ held[i].buf # NoBuffer /\ held[i].frame > 0
     /\ ~mSlots[s].shared)
      => s = held[i].slot /\ isAcquired(mSlots[s])

\* Frames leave the queue in the order they were queued, each at most once.
FramesInOrder ==
  /\ \A i, j \in 1 .. Len(mQueue) : i < j => mQueue[i].frame < mQueue[j].frame
  /\ \A i \in 1 .. Len(held), j \in 1 .. Len(mQueue) : held[i].frame < mQueue[j].frame
  /\ \A i \in 1 .. Len(mQueue) : mQueue[i].frame <= mFrameCounter

\* Active slots have exactly one owner, the others none.
ActiveHasOneOwner ==
  \A s \in Slot : mSlots[s].deq + mSlots[s].que + mSlots[s].acq
                    = IF s \in mActiveBuffers THEN 1 ELSE 0

\* Frames that are not stale stand for different slots, which the queue owns.
FramesClaimSlots ==
  \A i \in 1 .. Len(mQueue) :
    ~mQueue[i].stale =>
      /\ mSlots[mQueue[i].slot].que = 1
      /\ \A j \in 1 .. Len(mQueue) :
           (~mQueue[j].stale /\ mQueue[j].slot = mQueue[i].slot) => i = j

\* Shared buffer mode is off and has left nothing behind.
NothingShared ==
  /\ ~cfg.sharedMode /\ mSharedBufferSlot = NoSlot /\ consumer # "sharedWait"
  /\ \A s \in Slot : ~mSlots[s].shared

\* Why the lists stay a partition outside shared buffer mode: a slot is active
\* exactly as long as it has its one owner, and the frames in the queue that are
\* not stale stand for different slots, each owned by the queue. So whoever
\* gives a slot back (release, cancel, drop, replace) or detaches it moves it
\* between two lists and leaves no other claim on it.
SlotInvariant ==
  ListsPartitionSlots /\ ActiveHasOneOwner /\ FramesClaimSlots /\ NothingShared

\* The shared buffer stays out of the free lists as long as it is the shared
\* buffer, whoever has it, so that every dequeueBuffer and acquireBuffer of the
\* mode returns the same slot.
SharedSlotStaysActive ==
  mSharedBufferSlot # NoSlot =>
    mSharedBufferSlot \in mActiveBuffers /\ mSlots[mSharedBufferSlot].shared

-----------------------------------------------------------------------------
(* Waiting producers *)

\* A thread that sleeps in mDequeueCondition has no reason to wake up: what it
\* would find now would make it sleep again, as every change of mSlots and mQueue
\* is broadcast. Not so where setMaxAcquiredBufferCount adds slots or
\* allowAllocation admits them: they notify nobody, although BufferQueueCore.h
\* asks for a broadcast "any time" the first changes what the buffer count
\* depends on "while a producer is connected".
NoLostWakeup ==
  Unlocked => \A t \in parked :
    ~Refused /\ NoneFound(call[t].buf # NoBuffer) /\ ~WouldBlock

\* A producer thread that waits for a buffer gets an answer once frames have
\* been queued: the limits leave a buffer that the consumer must give back.
WaitingThreadReturns ==
  \A t \in Threads :
    (call[t].op = "wait" /\ mBufferHasBeenQueued) ~> (call[t].op # "wait")

\* Every queueBuffer call returns: the tickets let each thread announce its
\* frame, in the order in which the frames were queued.
QueueBufferReturns ==
  \A t \in Threads : (call[t].op = "callback") ~> isIdle(t)

\* In the modes in which dequeueBuffer must not block (asynchronous mode, or
\* producer and consumer in apps) there is a free slot for a producer that keeps
\* to its limit while the consumer keeps to its own: the limits leave a slot for
\* the one droppable frame the queue then holds. Frames that were queued before
\* setAsyncMode(true) are not droppable and take slots of their own; as long as
\* one of them is in the queue dequeueBuffer may find nothing (WOULD_BLOCK).
AsyncHasFreeSlot ==
  (/\ cfg.async \/ cfg.cannotBlock
   /\ ~mIsAbandoned /\ \A i \in 1 .. Len(mQueue) : mQueue[i].droppable
   /\ DequeuedCount < cfg.maxDequeued /\ AcquiredCount <= cfg.maxAcquired)
    => mFreeSlots # {} \/ mFreeBuffers # <<>>

-----------------------------------------------------------------------------
(* The promise to producer and consumer *)

HeldFrames == {[frame |-> held[i].frame, buf |-> held[i].buf] : i \in 1 .. Len(held)}
Owned == {mSlots[s].buf : s \in {u \in Slot : ProducerOwns(u)}}
Pending == [i \in 1 .. Len(mQueue) |-> [frame |-> mQueue[i].frame, buf |-> mQueue[i].buf]]

Stream == INSTANCE FrameStream
            WITH writing <- Owned, pending <- Pending, reading <- HeldFrames,
                 submitted <- mFrameCounter

\* Every step of dequeueBuffer, queueBuffer, acquireBuffer, releaseBuffer and
\* the rest is a step of FrameStream or changes nothing there: a buffer the
\* producer gets from dequeueBuffer or attachBuffer is neither pending nor with
\* the consumer, and frames are acquired in the order they were queued.
ImplementsFrameStream == Stream!StreamSpec

=============================================================================
