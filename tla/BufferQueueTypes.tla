-------------------------- MODULE BufferQueueTypes --------------------------
(***************************************************************************)
(* Type correctness of BufferQueue, proved for any number of slots,        *)
(* threads, buffers and frames, and what follows from types alone: with    *)
(* one thread allocations are announced, and limits that fit stay so.      *)
(***************************************************************************)
EXTENDS BufferQueue, TLAPS

USE Zenon

-----------------------------------------------------------------------------
(* Sequences *)

\* The empty list has any type.
LEMMA EmptyIsSeq == \A S : <<>> \in Seq(S)
BY SMT

\* A list has a length, and its indices count up to it.
LEMMA SeqLength ==
  \A S : \A q \in Seq(S) : Len(q) \in Nat /\ DOMAIN q = 1 .. Len(q)
BY SMT

\* A list with one element replaced.
LEMMA ExceptIsSeq ==
  ASSUME NEW S, NEW q \in Seq(S), NEW i \in 1 .. Len(q), NEW e \in S
  PROVE  /\ [q EXCEPT ![i] = e] \in Seq(S) /\ Len([q EXCEPT ![i] = e]) = Len(q)
         /\ \A j \in 1 .. Len(q) : [q EXCEPT ![i] = e][j] = IF j = i THEN e ELSE q[j]
BY SMT

\* Lists of the same length with the same elements are the same.
LEMMA SameElements ==
  ASSUME NEW S, NEW q \in Seq(S), NEW r \in Seq(S), Len(q) = Len(r),
         \A i \in 1 .. Len(q) : q[i] = r[i]
  PROVE  q = r
BY SMT

-----------------------------------------------------------------------------
(* TypeOK by groups of variables *)

SlotTypes ==
  /\ mSlots \in [Slot -> BufferSlot]
  /\ mFreeSlots \subseteq Slot /\ mActiveBuffers \subseteq Slot
  /\ mUnusedSlots \subseteq Slot /\ mFreeBuffers \in Seq(Slot)

QueueTypes ==
  mQueue \in Seq(BufferItem) /\ mFrameCounter \in Nat /\ mBufferHasBeenQueued \in BOOLEAN

ConnTypes ==
  /\ mIsAbandoned \in BOOLEAN /\ mConsumerListener \in BOOLEAN
  /\ mConnectedApi \in Apis \cup {NoApi} /\ connects \in Nat
  /\ obituary \in [stage : {"none", "sent", "read"}, api : Apis \cup {NoApi}, of : Nat]

AllocTypes == mIsAllocating \in BOOLEAN /\ mDequeueWaitingForAllocation \in BOOLEAN

CallTypes ==
  /\ call \in [Threads -> [op : ThreadOps, slot : Slot \cup {NoSlot},
                            buf : Buffers \cup {NoBuffer}, frame : Nat]]
  /\ \A t \in Threads : call[t].op = "alloc" => call[t].slot \in Slot

ThreadTypes == CallTypes /\ parked \subseteq Threads /\ mCurrentCallbackTicket \in Nat

ConsumerTypes ==
  consumer \in {"idle", "drop", "sharedWait", "undefined"} /\ held \in Seq(Held)

ModeTypes == cfg \in Config /\ mSharedBufferSlot \in Slot \cup {NoSlot}

\* The type invariant in groups of variables that change together.
LEMMA TypeGroups ==
  TypeOK <=> /\ SlotTypes /\ QueueTypes /\ ConnTypes /\ AllocTypes
             /\ ThreadTypes /\ ConsumerTypes /\ ModeTypes
BY DEF TypeOK, SlotTypes, QueueTypes, ConnTypes, AllocTypes, CallTypes, ThreadTypes,
       ConsumerTypes, ModeTypes

\* The same after a step.
LEMMA TypeGroupsPrime ==
  TypeOK' <=> /\ SlotTypes' /\ QueueTypes' /\ ConnTypes' /\ AllocTypes'
              /\ ThreadTypes' /\ ConsumerTypes' /\ ModeTypes'
BY DEF TypeOK, SlotTypes, QueueTypes, ConnTypes, AllocTypes, CallTypes, ThreadTypes,
       ConsumerTypes, ModeTypes

\* A group of variables that a step leaves alone keeps its type.
LEMMA SameTypes ==
  ASSUME TypeOK
  PROVE  /\ UNCHANGED slotVars => SlotTypes'
         /\ UNCHANGED queueVars => QueueTypes'
         /\ UNCHANGED connVars => ConnTypes'
         /\ UNCHANGED allocVars => AllocTypes'
         /\ UNCHANGED call => CallTypes'
         /\ UNCHANGED threadVars => ThreadTypes'
         /\ UNCHANGED consumerVars => ConsumerTypes'
         /\ UNCHANGED <<cfg, mSharedBufferSlot>> => ModeTypes'
BY TypeGroups DEF SlotTypes, QueueTypes, ConnTypes, AllocTypes, CallTypes, ThreadTypes,
   ConsumerTypes, ModeTypes, slotVars, queueVars, connVars, allocVars, threadVars,
   consumerVars

\* A cleared slot and a new one are slots.
LEMMA ClearedType == Cleared \in BufferSlot /\ NewSlot \in BufferSlot
BY DEF Cleared, NewSlot, BufferSlot

\* The changes of a slot's ownership counts.
LEMMA SlotOps ==
  ASSUME NEW r \in BufferSlot
  PROVE  /\ dequeue(r) \in BufferSlot /\ queue(r) \in BufferSlot /\ cancel(r) \in BufferSlot
         /\ freeQueued(r) \in BufferSlot /\ acquire(r) \in BufferSlot
         /\ acquireNotInQueue(r) \in BufferSlot /\ release(r) \in BufferSlot
<1>1. \A n \in Nat : Less1(n) \in Nat /\ n + 1 \in Nat BY SMT DEF Less1
<1>2. r.deq \in Nat /\ r.que \in Nat /\ r.acq \in Nat BY DEF BufferSlot
<1>3. \A d, q, a \in Nat : [r EXCEPT !.deq = d, !.que = q] \in BufferSlot
        /\ [r EXCEPT !.deq = d] \in BufferSlot /\ [r EXCEPT !.que = q] \in BufferSlot
        /\ [r EXCEPT !.acq = a] \in BufferSlot /\ [r EXCEPT !.que = q, !.acq = a] \in BufferSlot
  BY DEF BufferSlot
<1> QED BY <1>1, <1>2, <1>3 DEF dequeue, queue, cancel, freeQueued, acquire,
                              acquireNotInQueue, release

\* clearBufferSlotLocked leaves well-typed slots.
LEMMA ClearType ==
  ASSUME SlotTypes, NEW S PROVE clearBufferSlotLocked(S) \in [Slot -> BufferSlot]
BY ClearedType DEF SlotTypes, clearBufferSlotLocked

\* A thread that goes on to another place of its call.
LEMMA GotoType ==
  ASSUME CallTypes, NEW t \in Threads, NEW op \in ThreadOps \ {"alloc"}, Goto(t, op)
  PROVE  CallTypes'
BY DEF CallTypes, Goto

\* A thread that returns.
LEMMA ReturnType ==
  ASSUME CallTypes, NEW t \in Threads, Return(t)
  PROVE  CallTypes'
BY DEF CallTypes, Return, Idle, ThreadOps

\* adjustAvailableSlotsLocked keeps the types.
LEMMA AdjustType ==
  ASSUME SlotTypes, NEW delta, adjustAvailableSlotsLocked(delta), UNCHANGED mActiveBuffers
  PROVE  SlotTypes'
<1>1. CASE /\ \E S \in SUBSET mUnusedSlots :
                /\ mFreeSlots' = mFreeSlots \cup S /\ mUnusedSlots' = mUnusedSlots \ S
           /\ UNCHANGED <<mSlots, mFreeBuffers>>
  BY <1>1 DEF SlotTypes
<1>2. CASE \E S \in SUBSET mFreeSlots, n \in 0 .. Len(mFreeBuffers) :
             LET retired == S \cup {mFreeBuffers[i] : i \in (n + 1) .. Len(mFreeBuffers)}
             IN  /\ mSlots' = clearBufferSlotLocked(retired)
                 /\ mFreeSlots' = mFreeSlots \ S
                 /\ mFreeBuffers' = SubSeq(mFreeBuffers, 1, n)
                 /\ mUnusedSlots' = mUnusedSlots \cup retired
  <2>1. PICK S \in SUBSET mFreeSlots, n \in 0 .. Len(mFreeBuffers) :
          LET retired == S \cup {mFreeBuffers[i] : i \in (n + 1) .. Len(mFreeBuffers)}
          IN  /\ mSlots' = clearBufferSlotLocked(retired)
              /\ mFreeSlots' = mFreeSlots \ S
              /\ mFreeBuffers' = SubSeq(mFreeBuffers, 1, n)
              /\ mUnusedSlots' = mUnusedSlots \cup retired
    BY <1>2
  <2>2. mFreeBuffers' \in Seq(Slot) BY <2>1, SMT DEF SlotTypes
  <2>3. mUnusedSlots' \subseteq Slot BY <2>1, SMT DEF SlotTypes
  <2> QED BY <2>1, <2>2, <2>3, ClearType DEF SlotTypes
<1> QED BY <1>1, <1>2 DEF adjustAvailableSlotsLocked

\* A slot that goes back to the free lists keeps the types.
LEMMA GiveBackType ==
  ASSUME SlotTypes, NEW slots \in [Slot -> BufferSlot], NEW s \in Slot, GiveBack(slots, s)
  PROVE  SlotTypes'
<1>1. Unshared(slots[s]) \in BufferSlot
  BY DEF Unshared, BufferSlot
<1> QED BY <1>1, SMT DEF GiveBack, SlotTypes

\* freeAllBuffersLocked keeps the types.
LEMMA FreeAllType ==
  ASSUME SlotTypes, freeAllBuffersLocked PROVE SlotTypes'
BY ClearType, SMT DEF freeAllBuffersLocked, SlotTypes, FreeBufferSet, Elems

\* A slot that loses its buffer keeps the types.
LEMMA DetachType ==
  ASSUME SlotTypes, NEW s \in Slot, Detach(s) PROVE SlotTypes'
BY ClearType DEF Detach, SlotTypes

\* The consumer's list without one buffer.
LEMMA WithoutType ==
  ASSUME NEW q \in Seq(Held), NEW i \in 1 .. Len(q) PROVE Without(q, i) \in Seq(Held)
<1>1. SubSeq(q, 1, i - 1) \in Seq(Held) BY SMT
<1>2. SubSeq(q, i + 1, Len(q)) \in Seq(Held) BY SMT
<1> QED BY <1>1, <1>2, SMT DEF Without

\* The queue with every item marked stale.
LEMMA StaleType ==
  ASSUME NEW q \in Seq(BufferItem) PROVE StaleItems(q) \in Seq(BufferItem)
<1>1. \A r \in BufferItem : [r EXCEPT !.stale = TRUE, !.acquireCalled = FALSE] \in BufferItem
  BY DEF BufferItem
<1>2. \A i \in 1 .. Len(q) : q[i] \in BufferItem BY SMT
<1>3. StaleItems(q) \in [1 .. Len(q) -> BufferItem] BY <1>1, <1>2 DEF StaleItems
<1> QED BY <1>3, SMT

-----------------------------------------------------------------------------
(* Type correctness of the producer's steps *)

\* Steps that move a thread and leave slots, queue and modes alone.
LEMMA ControlSteps ==
  ASSUME TypeOK, NEW t \in Threads,
         \/ dequeueBuffer(t) \/ DequeueWaitsForAllocation(t) \/ WaitTimesOut(t)
         \/ detachNextBuffer(t) \/ FrameCallback(t) \/ PreallocStart(t) \/ PreallocYields(t)
         \/ \E b \in Buffers : attachBuffer(t, b)
  PROVE  TypeOK'
<1> USE TypeGroups, TypeGroupsPrime, SameTypes, GotoType, ReturnType
<1>1. CASE dequeueBuffer(t) BY <1>1 DEF dequeueBuffer, ThreadTypes, ThreadOps
<1>2. CASE DequeueWaitsForAllocation(t)
  BY <1>2 DEF DequeueWaitsForAllocation, ThreadTypes, AllocTypes, ThreadOps
<1>3. CASE WaitTimesOut(t) BY <1>3 DEF WaitTimesOut, ThreadTypes
<1>4. CASE detachNextBuffer(t) BY <1>4 DEF detachNextBuffer, ThreadTypes, ThreadOps
<1>5. CASE FrameCallback(t) BY <1>5, SMT DEF FrameCallback, ThreadTypes
<1>6. CASE PreallocStart(t) BY <1>6 DEF PreallocStart, ThreadTypes, AllocTypes, ThreadOps
<1>7. CASE PreallocYields(t) BY <1>7 DEF PreallocYields, ThreadTypes, ThreadOps
<1>8. CASE \E b \in Buffers : attachBuffer(t, b)
  <2>1. PICK b \in Buffers : attachBuffer(t, b) BY <1>8
  <2>2. CallTypes' BY <2>1 DEF attachBuffer, ThreadTypes, CallTypes, Idle, ThreadOps
  <2> QED BY <2>1, <2>2 DEF attachBuffer, ThreadTypes
<1> QED BY <1>1, <1>2, <1>3, <1>4, <1>5, <1>6, <1>7, <1>8

\* A slot taken from the free lists keeps their types.
LEMMA TakeType ==
  ASSUME SlotTypes, NEW s \in Slot, TakeFreeBuffer(s) \/ TakeFreeSlot(s)
  PROVE  mFreeSlots' \subseteq Slot /\ mFreeBuffers' \in Seq(Slot)
<1>1. CASE TakeFreeBuffer(s) BY <1>1, SMT DEF SlotTypes, TakeFreeBuffer
<1>2. CASE TakeFreeSlot(s) BY <1>2 DEF SlotTypes, TakeFreeSlot
<1> QED BY <1>1, <1>2

\* So does the slot that waitForFreeSlotThenRelock finds.
LEMMA FoundType ==
  ASSUME TypeOK, NEW s \in Slot, NEW a \in BOOLEAN, Found(a, s)
  PROVE  mFreeSlots' \subseteq Slot /\ mFreeBuffers' \in Seq(Slot)
<1>1. CASE TakeFreeBuffer(s) \/ TakeFreeSlot(s) BY <1>1, TakeType, TypeGroups
<1>2. CASE UNCHANGED <<mFreeSlots, mFreeBuffers>> BY <1>2, TypeGroups DEF SlotTypes
<1> QED BY <1>1, <1>2 DEF Found

\* A thread that finds no slot and waits, or gives up.
LEMMA GiveUpType ==
  ASSUME TypeOK, NEW t \in Threads, NEW a \in BOOLEAN, GiveUpOrWait(t, a)
  PROVE  SlotTypes' /\ CallTypes' /\ parked' \subseteq Threads
<1> USE TypeGroups, SameTypes
<1>1. CASE Return(t) /\ UNCHANGED parked
  BY <1>1, ReturnType DEF GiveUpOrWait, ThreadTypes
<1>2. CASE Goto(t, IF cfg.timeout >= 0 THEN "timedWait" ELSE "wait") /\ parked' = parked \cup {t}
  BY <1>2, GotoType DEF GiveUpOrWait, ThreadTypes, ThreadOps
<1> QED BY <1>1, <1>2 DEF GiveUpOrWait

\* The slot that dequeueBuffer takes.
LEMMA TakeForDequeueType ==
  ASSUME TypeOK, NEW t \in Threads, NEW s \in Slot, NEW m \in BOOLEAN,
         TakeForDequeue(t, s, m)
  PROVE  /\ mSlots' \in [Slot -> BufferSlot] /\ mActiveBuffers' \subseteq Slot
         /\ CallTypes' /\ mIsAllocating' \in BOOLEAN
         /\ mSharedBufferSlot' \in Slot \cup {NoSlot}
<1> DEFINE r == [dequeue(mSlots[s]) EXCEPT !.needsRealloc = FALSE,
                                           !.shared = IF BecomesShared THEN TRUE ELSE @]
           e == [r EXCEPT !.buf = NoBuffer, !.acquireCalled = FALSE, !.requested = FALSE]
<1> USE TypeGroups
<1>1. r \in BufferSlot /\ e \in BufferSlot
  <2>1. dequeue(mSlots[s]) \in BufferSlot BY SlotOps DEF SlotTypes
  <2>2. \A v \in BufferSlot :
          /\ [v EXCEPT !.needsRealloc = FALSE,
                       !.shared = IF BecomesShared THEN TRUE ELSE @] \in BufferSlot
          /\ [v EXCEPT !.buf = NoBuffer, !.acquireCalled = FALSE,
                       !.requested = FALSE] \in BufferSlot
    BY DEF BufferSlot
  <2> QED BY <2>1, <2>2
<1>2. mSlots' \in {[mSlots EXCEPT ![s] = r], [mSlots EXCEPT ![s] = e]}
  BY DEF TakeForDequeue
<1>3. mSlots' \in [Slot -> BufferSlot]
  <2> HIDE DEF r, e
  <2> QED BY <1>1, <1>2 DEF SlotTypes
<1>4. CallTypes' /\ mIsAllocating' \in BOOLEAN
  <2>1. CASE Return(t) /\ UNCHANGED mIsAllocating
    BY <2>1, ReturnType DEF ThreadTypes, AllocTypes
  <2>2. CASE /\ call' = [call EXCEPT ![t] = [Idle EXCEPT !.op = "alloc", !.slot = s]]
             /\ mIsAllocating' = TRUE
    BY <2>2 DEF ThreadTypes, CallTypes, Idle, ThreadOps
  <2> QED BY <2>1, <2>2 DEF TakeForDequeue
<1> QED BY <1>3, <1>4 DEF TakeForDequeue, SlotTypes, ModeTypes

\* dequeueBuffer under mMutex keeps the types.
LEMMA DequeueLockedType ==
  ASSUME TypeOK, NEW t \in Threads, DequeueLocked(t) PROVE TypeOK'
<1> USE TypeGroups, TypeGroupsPrime, SameTypes
<1>1. QueueTypes' /\ ConnTypes' /\ ConsumerTypes' /\ cfg' \in Config
      /\ mCurrentCallbackTicket' \in Nat
  BY DEF DequeueLocked, ModeTypes, ThreadTypes
<1>2. mDequeueWaitingForAllocation' \in BOOLEAN
  BY DEF DequeueLocked, DequeueSearches, AllocTypes
<1>3. CASE GiveUpOrWait(t, FALSE) /\ UNCHANGED <<mSharedBufferSlot, mIsAllocating>>
  BY <1>1, <1>2, <1>3, GiveUpType DEF ThreadTypes, AllocTypes, ModeTypes
<1>4. CASE (\E s \in Slot, m \in Mismatches : DequeueFound(t, s, m)) /\ UNCHANGED parked
  <2>1. PICK s \in Slot, m \in BOOLEAN : DequeueFound(t, s, m)
    BY <1>4 DEF Mismatches
  <2>2. mFreeSlots' \subseteq Slot /\ mFreeBuffers' \in Seq(Slot)
    BY <2>1, FoundType DEF DequeueFound
  <2>3. /\ mSlots' \in [Slot -> BufferSlot] /\ mActiveBuffers' \subseteq Slot
        /\ CallTypes' /\ mIsAllocating' \in BOOLEAN
        /\ mSharedBufferSlot' \in Slot \cup {NoSlot}
    <3>1. CASE TakeForDequeue(t, s, m) BY <3>1, TakeForDequeueType
    <3>2. CASE /\ Goto(t, "undefined") \/ Return(t)
               /\ UNCHANGED <<mSlots, mActiveBuffers, mSharedBufferSlot, mIsAllocating>>
      <4>1. CallTypes' BY <3>2, GotoType, ReturnType DEF ThreadTypes, ThreadOps
      <4> QED BY <3>2, <4>1 DEF SlotTypes, AllocTypes, ModeTypes
    <3> QED BY <2>1, <3>1, <3>2 DEF DequeueFound
  <2>4. mUnusedSlots' \subseteq Slot BY <2>1 DEF DequeueFound, SlotTypes
  <2> QED BY <1>1, <1>2, <1>4, <2>2, <2>3, <2>4
         DEF SlotTypes, ThreadTypes, AllocTypes, ModeTypes
<1>5. CASE DequeueDiscards(t) /\ UNCHANGED parked
  <2>1. mSlots' \in [Slot -> BufferSlot] BY <1>5, ClearType DEF DequeueDiscards
  <2>2. mFreeSlots' \subseteq Slot /\ mFreeBuffers' \in Seq(Slot)
    BY <1>5, SMT DEF DequeueDiscards, SlotTypes
  <2>3. CallTypes' BY <1>5, GotoType DEF DequeueDiscards, ThreadTypes, ThreadOps
  <2>4. /\ mActiveBuffers' \subseteq Slot /\ mUnusedSlots' \subseteq Slot
        /\ mSharedBufferSlot' \in Slot \cup {NoSlot} /\ mIsAllocating' \in BOOLEAN
    BY <1>5 DEF DequeueDiscards, SlotTypes, AllocTypes, ModeTypes
  <2> QED BY <1>1, <1>2, <1>5, <2>1, <2>2, <2>3, <2>4
         DEF SlotTypes, ThreadTypes, AllocTypes, ModeTypes
<1> QED BY <1>3, <1>4, <1>5 DEF DequeueLocked

\* The end of dequeueBuffer after an allocation keeps the types.
LEMMA DequeueAllocatedType ==
  ASSUME TypeOK, NEW t \in Threads, DequeueAllocated(t) PROVE TypeOK'
<1> USE TypeGroups, TypeGroupsPrime, SameTypes
<1>1. call[t].slot \in Slot BY DEF DequeueAllocated, ThreadTypes, CallTypes
<1>2. \A b \in Buffers, v \in BufferSlot : [v EXCEPT !.buf = b] \in BufferSlot
  BY DEF BufferSlot
<1>3. mSlots' \in [Slot -> BufferSlot] /\ mFreeSlots' \subseteq Slot
  <2>1. CASE /\ \E b \in FreshBuffers : mSlots' = [mSlots EXCEPT ![call[t].slot].buf = b]
             /\ UNCHANGED mFreeSlots
    BY <1>1, <1>2, <2>1, SMT DEF FreshBuffers, SlotTypes
  <2>2. CASE /\ mFreeSlots' = mFreeSlots \cup {call[t].slot}
             /\ mSlots' = clearBufferSlotLocked({call[t].slot})
    BY <1>1, <2>2, ClearType DEF SlotTypes
  <2> QED BY <2>1, <2>2 DEF DequeueAllocated
<1>4. CallTypes' BY ReturnType DEF DequeueAllocated, ThreadTypes
<1> QED BY <1>3, <1>4 DEF DequeueAllocated, SlotTypes, ThreadTypes, AllocTypes, ModeTypes

\* The slot and the item of a queued buffer.
LEMMA QueuedTypes ==
  ASSUME TypeOK, NEW s \in Slot
  PROVE  QueuedSlots(s) \in [Slot -> BufferSlot] /\ QueuedItem(s) \in BufferItem
<1> USE TypeGroups
<1>1. mFrameCounter + 1 \in Nat /\ mSlots[s] \in BufferSlot BY SMT DEF QueueTypes, SlotTypes
<1>2. QueuedSlots(s) \in [Slot -> BufferSlot]
  <2>1. queue(mSlots[s]) \in BufferSlot BY <1>1, SlotOps
  <2>2. \A u \in BufferSlot, n \in Nat :
          [u EXCEPT !.frame = n, !.shared = IF BecomesShared THEN TRUE ELSE @] \in BufferSlot
    BY DEF BufferSlot
  <2>3. QueuedSlot(s) \in BufferSlot BY <1>1, <2>1, <2>2 DEF QueuedSlot
  <2>4. mSlots \in [Slot -> BufferSlot] BY DEF SlotTypes
  <2> QED BY <2>3, <2>4 DEF QueuedSlots
<1>3. QueuedItem(s) \in BufferItem
  <2>1. mIsDroppable(s) \in BOOLEAN BY DEF mIsDroppable
  <2> QED BY <1>1, <2>1 DEF QueuedItem, BufferItem, BufferSlot
<1> QED BY <1>2, <1>3

\* queueBuffer keeps the types.
LEMMA QueueBufferType ==
  ASSUME TypeOK, NEW t \in Threads, NEW s \in Slot, queueBuffer(t, s) PROVE TypeOK'
<1> USE TypeGroups, TypeGroupsPrime, SameTypes
<1>1. QueuedSlots(s) \in [Slot -> BufferSlot] /\ QueuedItem(s) \in BufferItem
  BY QueuedTypes
<1>2. mQueue' \in Seq(BufferItem)
  <2>1. mQueue \in Seq(BufferItem) BY DEF QueueTypes
  <2>2. Append(mQueue, QueuedItem(s)) \in Seq(BufferItem) BY <1>1, <2>1, SMT
  <2>3. Replaces => Len(mQueue) \in 1 .. Len(mQueue) BY <2>1, SMT DEF Replaces
  <2>4. Replaces => [mQueue EXCEPT ![Len(mQueue)] = QueuedItem(s)] \in Seq(BufferItem)
    BY <1>1, <2>1, <2>3, ExceptIsSeq
  <2> QED BY <2>2, <2>4 DEF queueBuffer, Enqueued
<1>3. SlotTypes'
  <2>1. CASE Replaces /\ ~LastItem.stale
    <3>1. LastItem \in BufferItem BY <2>1, SMT DEF LastItem, Replaces, QueueTypes
    <3>2. LastItem.slot \in Slot BY <3>1 DEF BufferItem
    <3>3. \A u \in BufferSlot : freeQueued(u) \in BufferSlot BY SlotOps
    <3>4. [QueuedSlots(s) EXCEPT ![LastItem.slot] = freeQueued(@)] \in [Slot -> BufferSlot]
      BY <1>1, <3>2, <3>3
    <3> QED BY <2>1, <3>2, <3>4, GiveBackType DEF queueBuffer
  <2>2. CASE ~(Replaces /\ ~LastItem.stale) BY <1>1, <2>2 DEF queueBuffer, SlotTypes
  <2> QED BY <2>1, <2>2
<1>4. CallTypes'
  <2>1. mFrameCounter + 1 \in Nat BY SMT DEF QueueTypes
  <2>2. call' = [call EXCEPT ![t] = [Idle EXCEPT !.op = "callback", !.frame = mFrameCounter + 1]]
    BY DEF queueBuffer
  <2> QED BY <2>1, <2>2 DEF CallTypes, ThreadTypes, Idle, ThreadOps
<1>5. QueueTypes' BY <1>2, SMT DEF queueBuffer, QueueTypes
<1>6. ModeTypes' BY DEF queueBuffer, ModeTypes
<1> QED BY <1>3, <1>4, <1>5, <1>6 DEF queueBuffer, ThreadTypes, NotifyDequeue

\* Steps of the producer that change one slot.
LEMMA ProducerSlotSteps ==
  ASSUME TypeOK, NEW t \in Threads, NEW s \in Slot,
         \/ QueueBadCrop(t, s) \/ requestBuffer(s) \/ cancelBuffer(s) \/ detachBuffer(s)
  PROVE  TypeOK'
<1> USE TypeGroups, TypeGroupsPrime, SameTypes
<1>1. \A v \in BufferSlot :
        [v EXCEPT !.shared = TRUE] \in BufferSlot /\ [v EXCEPT !.requested = TRUE] \in BufferSlot
  BY DEF BufferSlot
<1>2. CASE QueueBadCrop(t, s)
  <2>1. mSlots' \in [Slot -> BufferSlot] BY <1>1, <1>2 DEF QueueBadCrop, SlotTypes
  <2> QED BY <1>2, <2>1 DEF QueueBadCrop, SlotTypes, ModeTypes
<1>3. CASE requestBuffer(s)
  <2>1. mSlots' \in [Slot -> BufferSlot] BY <1>1, <1>3 DEF requestBuffer, SlotTypes
  <2> QED BY <1>3, <2>1 DEF requestBuffer, SlotTypes
<1>4. CASE cancelBuffer(s)
  <2>1. [mSlots EXCEPT ![s] = cancel(@)] \in [Slot -> BufferSlot] BY SlotOps DEF SlotTypes
  <2>2. SlotTypes' BY <1>4, <2>1, GiveBackType DEF cancelBuffer
  <2> QED BY <1>4, <2>2 DEF cancelBuffer, ThreadTypes, NotifyDequeue
<1>5. CASE detachBuffer(s)
  <2>1. SlotTypes' BY <1>5, DetachType DEF detachBuffer
  <2> QED BY <1>5, <2>1 DEF detachBuffer, ThreadTypes, NotifyDequeue
<1> QED BY <1>2, <1>3, <1>4, <1>5

\* detachNextBuffer under mMutex keeps the types.
LEMMA DetachNextType ==
  ASSUME TypeOK, NEW t \in Threads, DetachNextLocked(t) PROVE TypeOK'
<1> USE TypeGroups, TypeGroupsPrime, SameTypes
<1>1. SlotTypes'
  <2>1. CASE mFreeBuffers = <<>> BY <2>1 DEF DetachNextLocked
  <2>2. CASE mFreeBuffers # <<>>
    <3>1. mSlots' \in [Slot -> BufferSlot] BY <2>2, ClearType DEF DetachNextLocked
    <3>2. Head(mFreeBuffers) \in Slot /\ Tail(mFreeBuffers) \in Seq(Slot)
      BY <2>2, SMT DEF SlotTypes
    <3> QED BY <2>2, <3>1, <3>2 DEF DetachNextLocked, SlotTypes
  <2> QED BY <2>1, <2>2
<1>2. CallTypes' BY ReturnType DEF DetachNextLocked, ThreadTypes
<1> QED BY <1>1, <1>2 DEF DetachNextLocked, ThreadTypes

\* attachBuffer under mMutex keeps the types.
LEMMA AttachLockedType ==
  ASSUME TypeOK, NEW t \in Threads, AttachLocked(t) PROVE TypeOK'
<1> USE TypeGroups, TypeGroupsPrime, SameTypes
<1>1. SlotTypes' /\ CallTypes' /\ parked' \subseteq Threads
  <2>1. CASE GiveUpOrWait(t, TRUE) BY <2>1, GiveUpType
  <2>2. CASE \E s \in Slot : AttachFound(t, s)
    <3>1. PICK s \in Slot : AttachFound(t, s) BY <2>2
    <3>2. mFreeSlots' \subseteq Slot /\ mFreeBuffers' \in Seq(Slot)
      BY <3>1, FoundType DEF AttachFound
    <3>3. \A v \in BufferSlot, b \in Buffers \cup {NoBuffer} :
            [v EXCEPT !.buf = b, !.requested = TRUE, !.acquireCalled = FALSE,
                      !.needsRealloc = FALSE] \in BufferSlot
      BY DEF BufferSlot
    <3>4. dequeue(mSlots[s]) \in BufferSlot BY SlotOps DEF SlotTypes
    <3>5. call[t].buf \in Buffers \cup {NoBuffer} BY DEF ThreadTypes, CallTypes
    <3>6. mSlots' \in [Slot -> BufferSlot]
      BY <3>1, <3>3, <3>4, <3>5 DEF AttachFound, SlotTypes
    <3>7. CallTypes' BY <3>1, ReturnType DEF AttachFound, ThreadTypes
    <3> QED BY <3>1, <3>2, <3>6, <3>7 DEF AttachFound, SlotTypes, ThreadTypes
  <2> QED BY <2>1, <2>2 DEF AttachLocked
<1> QED BY <1>1 DEF AttachLocked, ThreadTypes

\* The end of a turn of allocateBuffers keeps the types.
LEMMA PreallocEndType ==
  ASSUME TypeOK, NEW t \in Threads, PreallocEnd(t) PROVE TypeOK'
<1> USE TypeGroups, TypeGroupsPrime, SameTypes
<1>1. CallTypes' BY GotoType, ReturnType DEF PreallocEnd, ThreadTypes, ThreadOps
<1>2. SlotTypes'
  <2>1. CASE UNCHANGED slotVars BY <2>1
  <2>2. CASE \E s \in mFreeSlots, b \in FreshBuffers :
               /\ mSlots' = [mSlots EXCEPT ![s] = [Cleared EXCEPT !.buf = b]]
               /\ mFreeBuffers' = <<s>> \o mFreeBuffers
               /\ mFreeSlots' = mFreeSlots \ {s}
               /\ UNCHANGED <<mActiveBuffers, mUnusedSlots>>
    <3>1. PICK s \in Slot, b \in Buffers :
            /\ mSlots' = [mSlots EXCEPT ![s] = [Cleared EXCEPT !.buf = b]]
            /\ mFreeBuffers' = <<s>> \o mFreeBuffers
            /\ mFreeSlots' = mFreeSlots \ {s}
            /\ UNCHANGED <<mActiveBuffers, mUnusedSlots>>
      BY <2>2 DEF SlotTypes, FreshBuffers
    <3>2. [Cleared EXCEPT !.buf = b] \in BufferSlot BY ClearedType DEF BufferSlot
    <3>3. mSlots' \in [Slot -> BufferSlot] BY <3>1, <3>2 DEF SlotTypes
    <3>4. <<s>> \o mFreeBuffers \in Seq(Slot) BY SMT DEF SlotTypes
    <3> QED BY <3>1, <3>3, <3>4 DEF SlotTypes
  <2> QED BY <2>1, <2>2 DEF PreallocEnd
<1> QED BY <1>1, <1>2 DEF PreallocEnd, ThreadTypes, AllocTypes

-----------------------------------------------------------------------------
(* Type correctness of the connection, the modes and the consumer *)

\* disconnect keeps the types of what it changes.
LEMMA DisconnectType ==
  ASSUME TypeOK, Disconnect
  PROVE  /\ SlotTypes' /\ QueueTypes' /\ AllocTypes' /\ ThreadTypes' /\ ConsumerTypes'
         /\ ModeTypes' /\ mIsAbandoned' \in BOOLEAN /\ mConsumerListener' \in BOOLEAN
         /\ mConnectedApi' \in Apis \cup {NoApi} /\ connects' \in Nat
<1> USE TypeGroups, SameTypes
<1>1. SlotTypes' BY FreeAllType DEF Disconnect
<1>2. QueueTypes' BY StaleType DEF Disconnect, QueueTypes
<1> QED BY <1>1, <1>2 DEF Disconnect, ThreadTypes, ModeTypes, ConnTypes, NotifyDequeue

\* connect, disconnect and their counterparts of the consumer keep the types.
LEMMA ConnectionType == ASSUME TypeOK, ConnectionStep PROVE TypeOK'
<1> USE TypeGroups, TypeGroupsPrime, SameTypes
<1>1. ASSUME NEW api \in Apis \cup {UnknownApi}, NEW byApp \in BOOLEAN, connect(api, byApp)
      PROVE  TypeOK'
  <2>1. SlotTypes' BY <1>1, AdjustType DEF connect
  <2>2. ConnTypes' BY <1>1, SMT DEF connect, ConnTypes, ConnectedApi
  <2>3. QueueTypes' BY <1>1 DEF connect, QueueTypes
  <2>4. ModeTypes'
    <3>1. \A c \in Config, x, y \in BOOLEAN :
            [c EXCEPT !.cannotBlock = x, !.canDrop = y, !.legacyDrop = TRUE,
                      !.allowAllocation = TRUE] \in Config
      BY DEF Config
    <3>2. /\ (cfg.consumerByApp /\ byApp /\ cfg.timeout < 0) \in BOOLEAN
          /\ (cfg.consumerByApp /\ byApp /\ cfg.timeout <= 0) \in BOOLEAN
      OBVIOUS
    <3> QED BY <1>1, <3>1, <3>2 DEF connect, ModeTypes
  <2> QED BY <1>1, <2>1, <2>2, <2>3, <2>4 DEF connect
<1>2. CASE disconnect BY <1>2, DisconnectType DEF disconnect, ConnTypes
<1>3. CASE ProducerDies BY <1>3 DEF ProducerDies, ConnTypes
<1>4. CASE binderDied BY <1>4 DEF binderDied, ConnTypes
<1>5. CASE BinderDiedDisconnect
  <2>1. CASE Disconnect BY <1>5, <2>1, DisconnectType DEF BinderDiedDisconnect, ConnTypes
  <2>2. CASE ~Disconnect BY <1>5, <2>2 DEF BinderDiedDisconnect, ConnTypes
  <2> QED BY <2>1, <2>2
<1>6. CASE ConsumerDisconnect
  <2>1. SlotTypes' BY <1>6, FreeAllType DEF ConsumerDisconnect
  <2>2. QueueTypes' BY <1>6, SMT DEF ConsumerDisconnect, QueueTypes
  <2> QED BY <1>6, <2>1, <2>2
         DEF ConsumerDisconnect, ThreadTypes, ModeTypes, ConnTypes, NotifyDequeue
<1>7. ASSUME NEW byApp \in BOOLEAN, ConsumerConnect(byApp) PROVE TypeOK'
  <2>1. ModeTypes' BY <1>7 DEF ConsumerConnect, ModeTypes, Config
  <2> QED BY <1>7, <2>1 DEF ConsumerConnect, ConnTypes
<1> QED BY <1>1, <1>2, <1>3, <1>4, <1>5, <1>6, <1>7 DEF ConnectionStep

\* The setters of the producer keep the types.
LEMMA ProducerConfigType == ASSUME TypeOK, ProducerConfigStep PROVE TypeOK'
<1> USE TypeGroups, TypeGroupsPrime, SameTypes
<1>1. ASSUME NEW n \in Limits, setMaxDequeuedBufferCount(n) PROVE TypeOK'
  <2>1. SlotTypes' BY <1>1, AdjustType DEF setMaxDequeuedBufferCount
  <2>2. ModeTypes'
    BY <1>1, ConfigsAssumption DEF setMaxDequeuedBufferCount, ModeTypes, Config
  <2> QED BY <1>1, <2>1, <2>2 DEF setMaxDequeuedBufferCount, ThreadTypes, NotifyDequeue
<1>2. ASSUME NEW b \in BOOLEAN, setAsyncMode(b) PROVE TypeOK'
  <2>1. SlotTypes' BY <1>2, AdjustType DEF setAsyncMode
  <2>2. ModeTypes' BY <1>2 DEF setAsyncMode, ModeTypes, Config
  <2> QED BY <1>2, <2>1, <2>2 DEF setAsyncMode, ThreadTypes, NotifyDequeue
<1>3. ASSUME NEW b \in BOOLEAN, setSharedBufferMode(b) PROVE TypeOK'
  <2>1. ModeTypes' BY <1>3 DEF setSharedBufferMode, ModeTypes, Config
  <2> QED BY <1>3, <2>1 DEF setSharedBufferMode
<1>4. ASSUME NEW f \in {"setAutoRefresh", "allowAllocation", "setLegacyBufferDrop"},
             NEW b \in BOOLEAN, SetProducerFlag(f, b)
      PROVE  TypeOK'
  <2>1. ModeTypes' BY <1>4 DEF SetProducerFlag, ModeTypes, Config
  <2> QED BY <1>4, <2>1 DEF SetProducerFlag
<1>5. ASSUME NEW timeout \in {-1, 0, 1}, setDequeueTimeout(timeout) PROVE TypeOK'
  <2>1. SlotTypes' BY <1>5, AdjustType DEF setDequeueTimeout
  <2>2. ModeTypes'
    <3>1. \A c \in Config, x, y \in BOOLEAN :
            [c EXCEPT !.timeout = timeout, !.cannotBlock = x, !.canDrop = y] \in Config
      BY DEF Config
    <3>2. /\ (cfg.cannotBlock /\ timeout < 0) \in BOOLEAN
          /\ (cfg.canDrop /\ timeout <= 0) \in BOOLEAN
      OBVIOUS
    <3> QED BY <1>5, <3>1, <3>2 DEF setDequeueTimeout, ModeTypes
  <2> QED BY <1>5, <2>1, <2>2 DEF setDequeueTimeout
<1> QED BY <1>1, <1>2, <1>3, <1>4, <1>5 DEF ProducerConfigStep

\* acquireBuffer keeps the types.
LEMMA AcquireType == ASSUME TypeOK, AcquireStep PROVE TypeOK'
<1> USE TypeGroups, TypeGroupsPrime, SameTypes
<1>0. ASSUME mQueue # <<>> PROVE Head(mQueue) \in BufferItem /\ Tail(mQueue) \in Seq(BufferItem)
  BY <1>0, SMT DEF QueueTypes
<1>1. CASE AcquireDrop
  <2>1. Head(mQueue) \in BufferItem /\ Tail(mQueue) \in Seq(BufferItem)
    BY <1>0, <1>1, SMT DEF AcquireDrop
  <2>2. Head(mQueue).slot \in Slot BY <2>1 DEF BufferItem
  <2>3. [mSlots EXCEPT ![Head(mQueue).slot] = freeQueued(@)] \in [Slot -> BufferSlot]
    BY <2>2, SlotOps DEF SlotTypes
  <2>4. SlotTypes' BY <1>1, <2>2, <2>3, GiveBackType DEF AcquireDrop
  <2>5. QueueTypes' BY <1>1, <2>1 DEF AcquireDrop, QueueTypes
  <2> QED BY <1>1, <2>4, <2>5 DEF AcquireDrop, ConsumerTypes
<1>2. CASE AcquireFront
  <2> DEFINE front == Head(mQueue)
             h == [slot |-> front.slot, frame |-> front.frame, buf |-> front.buf]
  <2>1. front \in BufferItem /\ Tail(mQueue) \in Seq(BufferItem)
    BY <1>0, <1>2 DEF AcquireFront
  <2>2. front.slot \in Slot /\ h \in Held BY <2>1 DEF BufferItem, Held
  <2>3. acquire(mSlots[front.slot]) \in BufferSlot BY <2>2, SlotOps DEF SlotTypes
  <2>4. \A v \in BufferSlot : [v EXCEPT !.acquireCalled = TRUE] \in BufferSlot BY DEF BufferSlot
  <2>5. [acquire(mSlots[front.slot]) EXCEPT !.acquireCalled = TRUE] \in BufferSlot
    BY <2>3, <2>4
  <2>6. mSlots' \in [Slot -> BufferSlot] BY <1>2, <2>2, <2>5 DEF AcquireFront, SlotTypes
  <2>7. SlotTypes' BY <1>2, <2>6 DEF AcquireFront, SlotTypes
  <2>8. held' = Append(held, h) BY <1>2 DEF AcquireFront
  <2>9. ConsumerTypes'
    <3> HIDE DEF h
    <3> QED BY <1>2, <2>2, <2>8, SMT DEF AcquireFront, ConsumerTypes
  <2>10. QueueTypes' BY <1>2, <2>1 DEF AcquireFront, QueueTypes
  <2> QED BY <1>2, <2>7, <2>9, <2>10 DEF AcquireFront, ThreadTypes, NotifyDequeue
<1>3. CASE AcquireRefused BY <1>3 DEF AcquireRefused, ConsumerTypes
<1>4. CASE AcquireSharedWaits BY <1>4 DEF AcquireSharedWaits, ConsumerTypes
<1>5. CASE AcquireShared /\ mSharedBufferSlot = NoSlot
  BY <1>5 DEF AcquireShared, ConsumerTypes, SlotTypes, QueueTypes, ThreadTypes
<1>6. CASE AcquireShared /\ mSharedBufferSlot # NoSlot
  <2> DEFINE s == mSharedBufferSlot
             h == [slot |-> s, frame |-> mFrameCounter, buf |-> mSlots[s].buf]
             v == IF mQueue = <<>> THEN acquireNotInQueue(mSlots[s]) ELSE acquire(mSlots[s])
  <2>1. s \in Slot BY <1>6 DEF ModeTypes
  <2>2. mSlots[s] \in BufferSlot BY <2>1 DEF SlotTypes
  <2>3. v \in BufferSlot BY <2>2, SlotOps
  <2>4. [v EXCEPT !.acquireCalled = TRUE] \in BufferSlot BY <2>3 DEF BufferSlot
  <2>5. h \in Held BY <2>1, <2>2 DEF Held, QueueTypes, BufferSlot
  <2>6. mSlots' = [mSlots EXCEPT ![s] = [v EXCEPT !.acquireCalled = TRUE]]
    BY <1>6 DEF AcquireShared
  <2>7. held' = Append(held, h) BY <1>6 DEF AcquireShared
  <2> HIDE DEF v, h
  <2>8. SlotTypes' BY <1>6, <2>1, <2>4, <2>6 DEF AcquireShared, SlotTypes
  <2>9. ConsumerTypes' BY <1>6, <2>5, <2>7, SMT DEF AcquireShared, ConsumerTypes
  <2>10. QueueTypes' BY <1>0, <1>6 DEF AcquireShared, QueueTypes
  <2> QED BY <1>6, <2>8, <2>9, <2>10 DEF AcquireShared, ThreadTypes, NotifyDequeue
<1> QED BY <1>1, <1>2, <1>3, <1>4, <1>5, <1>6 DEF AcquireStep

\* releaseBuffer and the consumer's detachBuffer keep the types.
LEMMA ReleaseType ==
  ASSUME TypeOK, NEW i \in 1 .. Len(held), releaseBuffer(i) \/ ConsumerDetachBuffer(i)
  PROVE  TypeOK'
<1> USE TypeGroups, TypeGroupsPrime, SameTypes
<1>1. held[i] \in Held /\ Without(held, i) \in Seq(Held) BY WithoutType, SMT DEF ConsumerTypes
<1>2. held[i].slot \in Slot BY <1>1 DEF Held
<1>3. CASE releaseBuffer(i)
  <2>1. [mSlots EXCEPT ![held[i].slot] = release(@)] \in [Slot -> BufferSlot]
    BY <1>2, SlotOps DEF SlotTypes
  <2>2. SlotTypes' /\ parked' \subseteq Threads
    BY <1>2, <1>3, <2>1, GiveBackType DEF releaseBuffer, NotifyDequeue, ThreadTypes
  <2> QED BY <1>1, <1>3, <2>2 DEF releaseBuffer, ThreadTypes, ConsumerTypes
<1>4. CASE ConsumerDetachBuffer(i)
  <2>1. SlotTypes' BY <1>2, <1>4, DetachType DEF ConsumerDetachBuffer
  <2> QED BY <1>1, <1>4, <2>1 DEF ConsumerDetachBuffer, ThreadTypes, ConsumerTypes, NotifyDequeue
<1> QED BY <1>3, <1>4

\* The consumer's attachBuffer keeps the types.
LEMMA ConsumerAttachType ==
  ASSUME TypeOK, NEW b \in Buffers, ConsumerAttachBuffer(b) PROVE TypeOK'
<1>1. PICK s \in Slot :
        /\ TakeFreeSlot(s) \/ TakeFreeBuffer(s)
        /\ mSlots' = [mSlots EXCEPT ![s] = AttachedSlot(s, b)]
        /\ mActiveBuffers' = mActiveBuffers \cup {s}
        /\ held' = Append(held, [slot |-> s, frame |-> 0, buf |-> b])
  BY DEF ConsumerAttachBuffer
<1> USE TypeGroups, TypeGroupsPrime, SameTypes
<1>2. acquireNotInQueue(mSlots[s]) \in BufferSlot BY SlotOps DEF SlotTypes
<1>3. AttachedSlot(s, b) \in BufferSlot BY <1>2 DEF BufferSlot, AttachedSlot
<1>4. [slot |-> s, frame |-> 0, buf |-> b] \in Held BY DEF Held
<1>5. mFreeSlots' \subseteq Slot /\ mFreeBuffers' \in Seq(Slot)
  BY <1>1, TakeType
<1>6. SlotTypes' BY <1>1, <1>3, <1>5 DEF SlotTypes, ConsumerAttachBuffer
<1>7. ConsumerTypes' BY <1>1, <1>4, SMT DEF ConsumerTypes, ConsumerAttachBuffer
<1> QED BY <1>6, <1>7 DEF ConsumerAttachBuffer

\* The setters of the consumer keep the types.
LEMMA ConsumerConfigType == ASSUME TypeOK, ConsumerConfigStep PROVE TypeOK'
<1> USE TypeGroups, TypeGroupsPrime, SameTypes
<1>1. ASSUME NEW n \in Limits, setMaxBufferCount(n) PROVE TypeOK'
  <2>1. SlotTypes' BY <1>1, AdjustType DEF setMaxBufferCount
  <2>2. ModeTypes' BY <1>1, ConfigsAssumption DEF setMaxBufferCount, ModeTypes, Config
  <2> QED BY <1>1, <2>1, <2>2 DEF setMaxBufferCount
<1>2. ASSUME NEW n \in Limits, setMaxAcquiredBufferCount(n) PROVE TypeOK'
  <2>1. SlotTypes' BY <1>2, AdjustType DEF setMaxAcquiredBufferCount
  <2>2. ModeTypes'
    BY <1>2, ConfigsAssumption DEF setMaxAcquiredBufferCount, ModeTypes, Config
  <2> QED BY <1>2, <2>1, <2>2 DEF setMaxAcquiredBufferCount
<1>3. CASE discardFreeBuffers
  <2>1. mSlots' \in [Slot -> BufferSlot]
    BY <1>3, ClearType DEF discardFreeBuffers, discardFreeBuffersLocked
  <2>2. FreeBufferSet \subseteq Slot BY SMT DEF FreeBufferSet, Elems, SlotTypes
  <2>3. SlotTypes'
    BY <1>3, <2>1, <2>2, SMT DEF discardFreeBuffers, discardFreeBuffersLocked, SlotTypes
  <2> QED BY <1>3, <2>3 DEF discardFreeBuffers
<1>4. ASSUME NEW b \in BOOLEAN, setAllowExtraAcquire(b) PROVE TypeOK'
  <2>1. ModeTypes' BY <1>4 DEF setAllowExtraAcquire, ModeTypes, Config
  <2> QED BY <1>4, <2>1 DEF setAllowExtraAcquire
<1> QED BY <1>1, <1>2, <1>3, <1>4 DEF ConsumerConfigStep

-----------------------------------------------------------------------------
(* The theorem *)

\* The types hold initially.
LEMMA TypeInit == Init => TypeOK
<1> SUFFICES ASSUME Init PROVE TypeOK OBVIOUS
<1> USE TypeGroups, CoreAssumption, ConfigsAssumption
<1>1. cfg \in Config /\ getMaxBufferCountLocked(cfg) \in 0 .. NumSlots
  <2>1. cfg \in Config /\ cfg.maxBuffers <= NumSlots BY DEF Init
  <2>2. cfg.maxBuffers \in Nat /\ cfg.maxAcquired \in Nat /\ cfg.maxDequeued \in Nat
    BY <2>1 DEF Config
  <2>3. ExtraBuffer(cfg) \in {0, 1} BY DEF ExtraBuffer
  <2> QED BY <2>1, <2>2, <2>3, SMT DEF getMaxBufferCountLocked
<1>2. SlotTypes BY <1>1, ClearedType, SMT DEF Init, SlotTypes, Slot
<1>0. <<>> \in Seq(BufferItem) /\ <<>> \in Seq(Held) /\ <<>> \in Seq(Slot)
  BY EmptyIsSeq
<1>3. QueueTypes BY <1>0 DEF Init, QueueTypes
<1>6. ConnTypes BY DEF Init, ConnTypes
<1>7. AllocTypes /\ ConsumerTypes BY <1>0 DEF Init, AllocTypes, ConsumerTypes
<1>4. ThreadTypes BY DEF Init, ThreadTypes, CallTypes, Idle, ThreadOps
<1>5. ModeTypes BY <1>1 DEF Init, ModeTypes
<1> QED BY <1>2, <1>3, <1>4, <1>5, <1>6, <1>7

\* Every step keeps the types.
LEMMA TypeNext == ASSUME TypeOK, Next PROVE TypeOK'
<1>1. ASSUME NEW t \in Threads, ThreadStep(t) PROVE TypeOK'
  <2>1. CASE DequeueStep(t)
    BY <2>1, ControlSteps, DequeueLockedType, DequeueAllocatedType DEF DequeueStep
  <2>2. CASE AttachDetachStep(t)
    BY <2>2, ControlSteps, DetachNextType, AttachLockedType, ProducerSlotSteps
       DEF AttachDetachStep
  <2>3. CASE QueueStep(t)
    BY <2>3, ControlSteps, QueueBufferType, ProducerSlotSteps DEF QueueStep
  <2>4. CASE PreallocStart(t) \/ PreallocEnd(t) \/ PreallocYields(t)
    BY <2>4, ControlSteps, PreallocEndType
  <2> QED BY <1>1, <2>1, <2>2, <2>3, <2>4 DEF ThreadStep
<1>2. ASSUME ConsumerStep PROVE TypeOK'
  BY <1>2, AcquireType, ReleaseType, ConsumerAttachType, ConsumerConfigType
     DEF ConsumerStep, ReleaseStep
<1> QED BY <1>1, <1>2, ProducerConfigType, ConnectionType DEF Next

\* Whatever calls producer and consumer make, in whatever order, the lists of
\* BufferQueueCore hold slots, the counts of BufferState never go below zero,
\* and a thread that dequeueBuffer let go to allocate has a slot to fill.
THEOREM TypeCorrect == Spec => []TypeOK
<1>1. TypeOK /\ UNCHANGED vars => TypeOK'
  BY TypeGroups, TypeGroupsPrime, SameTypes DEF vars
<1> QED BY <1>1, TypeInit, TypeNext, PTL DEF Spec

-----------------------------------------------------------------------------
(* Announced allocations *)

\* Thread t has let the lock go to allocate.
Busy(t) == call[t].op \in {"alloc", "prealloc"}

OneProducerThread == \A t, u \in Threads : t = u

\* The steps outside of the loops that allocate.
LEMMA OthersDoNotAllocate ==
  ASSUME ProducerConfigStep \/ ConnectionStep \/ ConsumerStep
  PROVE  UNCHANGED <<call, mIsAllocating>>
<1>1. CASE ProducerConfigStep
  BY <1>1 DEF ProducerConfigStep, setMaxDequeuedBufferCount, setAsyncMode,
     setSharedBufferMode, SetProducerFlag, setDequeueTimeout, allocVars, threadVars
<1>2. CASE ConnectionStep
  BY <1>2 DEF ConnectionStep, connect, disconnect, Disconnect, ProducerDies, binderDied,
     BinderDiedDisconnect, ConsumerDisconnect, ConsumerConnect, allocVars, threadVars
<1>3. CASE AcquireStep
  BY <1>3 DEF AcquireStep, AcquireDrop, AcquireFront, AcquireRefused,
     AcquireSharedWaits, AcquireShared, allocVars, threadVars
<1>4. CASE ReleaseStep
  BY <1>4 DEF ReleaseStep, releaseBuffer, ConsumerDetachBuffer, allocVars, threadVars
<1>5. CASE ConsumerConfigStep
  BY <1>5 DEF ConsumerConfigStep, setMaxBufferCount, setMaxAcquiredBufferCount,
     discardFreeBuffers, setAllowExtraAcquire, allocVars, threadVars
<1>6. CASE \E b \in Buffers : ConsumerAttachBuffer(b)
  BY <1>6 DEF ConsumerAttachBuffer, allocVars, threadVars
<1> QED BY <1>1, <1>2, <1>3, <1>4, <1>5, <1>6 DEF ConsumerStep

\* The only thread announces what it begins, and ends it before it takes it back.
LEMMA ThreadAnnounces ==
  ASSUME TypeOK, AllocationIsAnnounced, NEW t \in Threads, ThreadStep(t)
  PROVE  Busy(t)' => mIsAllocating'
<1>1. /\ CallTypes
      /\ Busy(t) => mIsAllocating
  BY DEF TypeOK, CallTypes, AllocationIsAnnounced, Busy
<1>2. ASSUME NEW op, Goto(t, op) PROVE call'[t].op = op
  BY <1>1, <1>2 DEF Goto, CallTypes
<1>3. ASSUME NEW r, call' = [call EXCEPT ![t] = r] PROVE call'[t] = r
  BY <1>1, <1>3 DEF CallTypes
<1>4. ASSUME Return(t) PROVE ~Busy(t)'
  <2>1. call'[t] = Idle BY <1>3, <1>4 DEF Return
  <2> QED BY <2>1, SMT DEF Idle, Busy
<1>5. ASSUME NEW attach, GiveUpOrWait(t, attach) PROVE ~Busy(t)'
  BY <1>2, <1>4, <1>5 DEF GiveUpOrWait, Busy
<1>6. CASE DequeueStep(t)
  <2>1. CASE dequeueBuffer(t) \/ DequeueWaitsForAllocation(t) \/ WaitTimesOut(t)
                \/ DequeueAllocated(t)
    BY <1>2, <1>4, <2>1
       DEF dequeueBuffer, DequeueWaitsForAllocation, WaitTimesOut, DequeueAllocated, Busy
  <2>2. ASSUME NEW s, NEW m, DequeueFound(t, s, m) PROVE Busy(t)' => mIsAllocating'
    <3>1. CASE TakeForDequeue(t, s, m) BY <1>4, <3>1 DEF TakeForDequeue
    <3> QED BY <1>2, <1>4, <2>2, <3>1 DEF DequeueFound, Busy
  <2>3. CASE DequeueLocked(t)
    BY <1>2, <1>5, <2>2, <2>3 DEF DequeueLocked, DequeueDiscards, Busy
  <2> QED BY <1>6, <2>1, <2>3 DEF DequeueStep
<1>7. CASE AttachDetachStep(t)
  <2>1. CASE detachNextBuffer(t) \/ DetachNextLocked(t)
    BY <1>2, <1>4, <2>1 DEF detachNextBuffer, DetachNextLocked, Busy
  <2>2. CASE AttachLocked(t)
    BY <1>4, <1>5, <2>2 DEF AttachLocked, AttachFound
  <2>3. ASSUME NEW b, attachBuffer(t, b) PROVE ~Busy(t)'
    <3>1. call'[t] = [Idle EXCEPT !.op = "attach", !.buf = b] BY <1>3, <2>3 DEF attachBuffer
    <3> QED BY <3>1 DEF Idle, Busy
  <2>4. ASSUME NEW s, detachBuffer(s) PROVE Busy(t)' => mIsAllocating'
    BY <1>1, <2>4 DEF detachBuffer, allocVars, Busy
  <2> QED BY <1>7, <2>1, <2>2, <2>3, <2>4 DEF AttachDetachStep
<1>8. CASE QueueStep(t)
  <2>1. CASE FrameCallback(t) BY <1>4, <2>1 DEF FrameCallback
  <2>2. ASSUME NEW s, queueBuffer(t, s) PROVE ~Busy(t)'
    <3>1. call'[t] = [Idle EXCEPT !.op = "callback", !.frame = mFrameCounter + 1]
      BY <1>3, <2>2 DEF queueBuffer
    <3> QED BY <3>1 DEF Idle, Busy
  <2>3. ASSUME NEW s, QueueBadCrop(t, s) \/ requestBuffer(s) \/ cancelBuffer(s)
        PROVE  Busy(t)' => mIsAllocating'
    BY <1>1, <2>3 DEF QueueBadCrop, requestBuffer, cancelBuffer, allocVars, threadVars, Busy
  <2> QED BY <1>8, <2>1, <2>2, <2>3 DEF QueueStep
<1>9. CASE PreallocStart(t) \/ PreallocEnd(t) \/ PreallocYields(t)
  BY <1>2, <1>4, <1>9 DEF PreallocStart, PreallocEnd, PreallocYields, Busy
<1> QED BY <1>6, <1>7, <1>8, <1>9 DEF ThreadStep

\* With one producer thread mIsAllocating is never taken back under a thread that
\* is still allocating: what disconnect and the setters of limits wait for is
\* the end of the allocation. (The run overlapping_allocation shows how a second thread
\* that dequeueBuffer lets wake up in between takes it back.)
THEOREM AllocationsAnnounced ==
  ASSUME OneProducerThread PROVE Spec => []AllocationIsAnnounced
<1>1. Init => AllocationIsAnnounced BY SMT DEF Init, Idle, AllocationIsAnnounced
<1>2. TypeOK /\ AllocationIsAnnounced /\ [Next]_vars => AllocationIsAnnounced'
  <2> SUFFICES ASSUME TypeOK, AllocationIsAnnounced, [Next]_vars PROVE AllocationIsAnnounced'
    OBVIOUS
  <2>1. CASE \E t \in Threads : ThreadStep(t)
    <3>1. PICK t \in Threads : ThreadStep(t) BY <2>1
    <3>2. Busy(t)' => mIsAllocating' BY <3>1, ThreadAnnounces
    <3> QED BY <3>2 DEF OneProducerThread, AllocationIsAnnounced, Busy
  <2>2. CASE UNCHANGED <<call, mIsAllocating>> BY <2>2 DEF AllocationIsAnnounced
  <2>3. CASE UNCHANGED vars BY <2>2, <2>3 DEF vars, allocVars, threadVars
  <2> QED BY <2>1, <2>2, <2>3, OthersDoNotAllocate DEF Next
<1> QED BY <1>1, <1>2, TypeCorrect, PTL DEF Spec

-----------------------------------------------------------------------------
(* Owners of slots and the frames that claim them *)

Owners(r) == r.deq + r.que + r.acq

\* The counters of a slot's BufferState are numbers.
LEMMA OwnersAreNat ==
  ASSUME NEW r \in BufferSlot
  PROVE  /\ r.deq \in Nat /\ r.que \in Nat /\ r.acq \in Nat
         /\ Owners(r) \in Nat
BY SMT DEF BufferSlot, Owners

\* Operations on other fields leave the owners alone.
SameOwners(r, v) ==
  r.deq = v.deq /\ r.que = v.que /\ r.acq = v.acq /\ r.shared = v.shared

\* The frames of q claim their slots, see FramesClaimSlots.
Claims(q, slots) ==
  \A i \in 1 .. Len(q) :
    ~q[i].stale =>
      /\ slots[q[i].slot].que = 1
      /\ \A j \in 1 .. Len(q) : (~q[j].stale /\ q[j].slot = q[i].slot) => i = j

\* Which slots the items of the queue stand for, before and after a step.
LEMMA FramesClaims ==
  /\ FramesClaimSlots <=> Claims(mQueue, mSlots)
  /\ FramesClaimSlots' <=> Claims(mQueue', mSlots')
BY DEF FramesClaimSlots, Claims

\* The items of a queue have slots.
LEMMA ItemSlots ==
  ASSUME NEW q \in Seq(BufferItem) PROVE \A i \in 1 .. Len(q) : q[i].slot \in Slot
<1>1. \A i \in 1 .. Len(q) : q[i] \in BufferItem BY SMT
<1> QED BY <1>1 DEF BufferItem

\* The use of the queue that the theorem is about: no shared buffer mode, no
\* failing allocation and a consumer that stays.
PlainUse ==
  /\ Calls \cap {"setSharedBufferMode", "allocationFails", "consumerDisconnect"} = {}
  /\ \A c \in Configs : ~c.sharedMode

IInv == TypeOK /\ SlotInvariant /\ ~mIsAbandoned

\* A slot outside shared buffer mode has one owner if it is active and none
\* otherwise.
LEMMA SlotFacts ==
  ASSUME TypeOK, SlotInvariant, NEW s \in Slot
  PROVE  /\ mSlots[s] \in BufferSlot /\ ~mSlots[s].shared
         /\ Owners(mSlots[s]) = IF s \in mActiveBuffers THEN 1 ELSE 0
         /\ isDequeued(mSlots[s]) \/ isQueued(mSlots[s]) \/ isAcquired(mSlots[s])
              => s \in mActiveBuffers
<1>1. mSlots[s] \in BufferSlot BY DEF TypeOK
<1>2. Owners(mSlots[s]) = IF s \in mActiveBuffers THEN 1 ELSE 0
  BY DEF SlotInvariant, ActiveHasOneOwner, Owners
<1>3. ~mSlots[s].shared BY DEF SlotInvariant, NothingShared
<1>4. isDequeued(mSlots[s]) \/ isQueued(mSlots[s]) \/ isAcquired(mSlots[s])
        => s \in mActiveBuffers
  BY <1>1, <1>2, OwnersAreNat, SMT DEF isDequeued, isQueued, isAcquired, Owners
<1> QED BY <1>1, <1>2, <1>3, <1>4

\* What the invariant says of the mode of the queue.
LEMMA Modes ==
  ASSUME IInv
  PROVE  /\ TypeOK /\ SlotInvariant /\ ListsPartitionSlots /\ ~cfg.sharedMode
         /\ mSharedBufferSlot = NoSlot /\ consumer # "sharedWait" /\ ~SharedFound
         /\ ~BecomesShared /\ NoSlot \notin Slot
BY CoreAssumption, SMT DEF IInv, SlotInvariant, NothingShared, SharedFound, BecomesShared, NoSlot, Slot

\* Who owns a slot, in numbers.
LEMMA OneOwnerEach ==
  ASSUME IInv, NEW s \in Slot
  PROVE  /\ mSlots[s].deq \in Nat /\ mSlots[s].que \in Nat /\ mSlots[s].acq \in Nat
         /\ s \notin mActiveBuffers =>
              mSlots[s].deq = 0 /\ mSlots[s].que = 0 /\ mSlots[s].acq = 0
         /\ s \in mActiveBuffers =>
              \/ mSlots[s].deq = 1 /\ mSlots[s].que = 0 /\ mSlots[s].acq = 0
              \/ mSlots[s].deq = 0 /\ mSlots[s].que = 1 /\ mSlots[s].acq = 0
              \/ mSlots[s].deq = 0 /\ mSlots[s].que = 0 /\ mSlots[s].acq = 1
<1>1. mSlots[s] \in BufferSlot /\ Owners(mSlots[s]) = IF s \in mActiveBuffers THEN 1 ELSE 0
  BY Modes, SlotFacts
<1>2. mSlots[s].deq \in Nat /\ mSlots[s].que \in Nat /\ mSlots[s].acq \in Nat
  BY <1>1, OwnersAreNat
<1>3. mSlots[s].deq + mSlots[s].que + mSlots[s].acq = IF s \in mActiveBuffers THEN 1 ELSE 0
  BY <1>1 DEF Owners
<1> QED BY <1>2, <1>3, SMT

-----------------------------------------------------------------------------
(* The elements of a list *)

NoDuplicates(q) == \A i, j \in 1 .. Len(q) : q[i] = q[j] => i = j

\* The elements of a list with one more at its end.
LEMMA ElemsOfAppend ==
  ASSUME NEW S, NEW q \in Seq(S), NEW x \in S
  PROVE  /\ Elems(Append(q, x)) = Elems(q) \cup {x}
         /\ NoDuplicates(q) /\ x \notin Elems(q) => NoDuplicates(Append(q, x))
<1>1. /\ Len(Append(q, x)) = Len(q) + 1
      /\ \A i \in 1 .. Len(q) : Append(q, x)[i] = q[i]
      /\ Append(q, x)[Len(q) + 1] = x
  BY SMT
<1>2. 1 .. Len(q) + 1 = (1 .. Len(q)) \cup {Len(q) + 1} BY SMT
<1>3. Elems(Append(q, x)) = Elems(q) \cup {x} BY <1>1, <1>2 DEF Elems
<1>4. ASSUME NoDuplicates(q), x \notin Elems(q) PROVE NoDuplicates(Append(q, x))
  BY <1>1, <1>2, <1>4 DEF NoDuplicates, Elems
<1> QED BY <1>3, <1>4

-----------------------------------------------------------------------------
(* Limits that fit *)

\* The limits leave room for each other within mMaxBufferCount.
Unclipped(c) == c.maxAcquired + c.maxDequeued + ExtraBuffer(c) <= c.maxBuffers

LimitsFit == Unclipped(cfg)

\* Then the buffer count is their sum.
LEMMA CountOfLimits ==
  ASSUME NEW c \in Config, Unclipped(c)
  PROVE  /\ getMaxBufferCountLocked(c) = c.maxAcquired + c.maxDequeued + ExtraBuffer(c)
         /\ c.maxAcquired \in Nat /\ c.maxDequeued \in Nat /\ ExtraBuffer(c) \in {0, 1}
<1>1. c.maxAcquired \in Nat /\ c.maxDequeued \in Nat /\ c.maxBuffers \in Nat
  BY DEF Config
<1>2. ExtraBuffer(c) \in {0, 1} BY DEF ExtraBuffer
<1>3. getMaxBufferCountLocked(c) =
        IF c.maxBuffers < c.maxAcquired + c.maxDequeued + ExtraBuffer(c)
          THEN c.maxBuffers ELSE c.maxAcquired + c.maxDequeued + ExtraBuffer(c)
  BY DEF getMaxBufferCountLocked
<1> QED BY <1>1, <1>2, <1>3, SMT DEF Unclipped

\* The fields of cfg that the buffer count depends on.
SameLimits(c, d) ==
  /\ c.maxAcquired = d.maxAcquired /\ c.maxDequeued = d.maxDequeued
  /\ c.maxBuffers = d.maxBuffers /\ c.async = d.async /\ c.cannotBlock = d.cannotBlock

\* It depends on no other.
LEMMA SameCount ==
  ASSUME NEW c, NEW d, SameLimits(c, d)
  PROVE  getMaxBufferCountLocked(c) = getMaxBufferCountLocked(d) /\ (Unclipped(c) <=> Unclipped(d))
BY DEF SameLimits, getMaxBufferCountLocked, ExtraBuffer, Unclipped

\* Setters of flags that say nothing about the limits.
LEMMA FlagSetters ==
  ASSUME cfg \in Config, NEW b,
         \/ ConsumerConnect(b) \/ setAllowExtraAcquire(b)
         \/ \E f \in {"setAutoRefresh", "allowAllocation", "setLegacyBufferDrop"} :
              SetProducerFlag(f, b)
  PROVE  SameLimits(cfg', cfg) /\ UNCHANGED mUnusedSlots
<1>1. \/ cfg' = [cfg EXCEPT !.consumerByApp = b] \/ cfg' = [cfg EXCEPT !.extraAcquire = b]
      \/ cfg' = [cfg EXCEPT !.autoRefresh = b] \/ cfg' = [cfg EXCEPT !.allowAllocation = b]
      \/ cfg' = [cfg EXCEPT !.legacyDrop = b]
  BY DEF ConsumerConnect, setAllowExtraAcquire, SetProducerFlag
<1>2. UNCHANGED mUnusedSlots
  BY DEF ConsumerConnect, setAllowExtraAcquire, SetProducerFlag, slotVars
<1> QED BY <1>1, <1>2 DEF SameLimits, Config

\* The threads of the producer leave the limits and the unused slots alone.
LEMMA ThreadsKeepLimits ==
  ASSUME NEW t \in Threads, ThreadStep(t) PROVE UNCHANGED <<mUnusedSlots, cfg>>
<1>1. CASE DequeueStep(t)
  BY <1>1 DEF DequeueStep, dequeueBuffer, DequeueWaitsForAllocation, DequeueLocked,
     DequeueAllocated, WaitTimesOut, DequeueFound, DequeueDiscards, GiveUpOrWait, slotVars
<1>2. CASE AttachDetachStep(t)
  BY <1>2 DEF AttachDetachStep, detachNextBuffer, DetachNextLocked, AttachLocked, attachBuffer,
     detachBuffer, Detach, AttachFound, GiveUpOrWait, slotVars
<1>3. CASE QueueStep(t)
  BY <1>3 DEF QueueStep, queueBuffer, QueueBadCrop, requestBuffer, cancelBuffer, GiveBack,
     FrameCallback, slotVars
<1>4. CASE PreallocStart(t) \/ PreallocEnd(t) \/ PreallocYields(t)
  BY <1>4 DEF PreallocStart, PreallocEnd, PreallocYields, slotVars
<1> QED BY <1>1, <1>2, <1>3, <1>4 DEF ThreadStep

\* So does the consumer, except for the setters.
LEMMA ConsumerKeepsLimits ==
  ASSUME AcquireStep \/ ReleaseStep \/ \E b \in Buffers : ConsumerAttachBuffer(b)
  PROVE  UNCHANGED <<mUnusedSlots, cfg>>
<1>1. CASE AcquireStep
  BY <1>1 DEF AcquireStep, AcquireDrop, AcquireFront, AcquireRefused, AcquireSharedWaits,
     AcquireShared, GiveBack, slotVars
<1>2. CASE ReleaseStep
  BY <1>2 DEF ReleaseStep, releaseBuffer, ConsumerDetachBuffer, Detach, GiveBack, slotVars
<1>3. CASE \E b \in Buffers : ConsumerAttachBuffer(b) BY <1>3 DEF ConsumerAttachBuffer
<1> QED BY <1>1, <1>2, <1>3

\* Initially they fit.
LEMMA FitsInit == ASSUME Init PROVE cfg \in Config /\ Unclipped(cfg) /\ cfg.maxBuffers <= NumSlots
BY ConfigsAssumption DEF Init, Unclipped

\* The use of the queue in which nothing cuts the limits off: nobody lowers
\* mMaxBufferCount, and the consumer is not controlled by the application, so that
\* connect adds no slot of its own.
UnclippedUse ==
  /\ Calls \cap {"setMaxBufferCount", "consumerConnect"} = {}
  /\ \A c \in Configs : ~c.consumerByApp

\* What keeps connect from adding a slot.
FixedExtra == LimitsFit /\ ~cfg.consumerByApp /\ ~cfg.cannotBlock

\* A step that sets flags other than these.
LEMMA FixedAlone ==
  ASSUME FixedExtra, SameLimits(cfg', cfg), cfg'.consumerByApp = cfg.consumerByApp
  PROVE  FixedExtra'
BY SameCount DEF FixedExtra, LimitsFit, SameLimits

\* The setters of limits refuse what does not fit.
LEMMA SettersFit ==
  ASSUME TypeOK, FixedExtra, NEW n \in Nat,
         setMaxDequeuedBufferCount(n) \/ setMaxAcquiredBufferCount(n)
  PROVE  FixedExtra'
<1>1. cfg \in Config BY DEF TypeOK
<1>2. cfg.maxAcquired \in Nat /\ cfg.maxDequeued \in Nat /\ ExtraBuffer(cfg) \in {0, 1}
      /\ cfg.maxBuffers \in Nat
  BY <1>1 DEF Config, ExtraBuffer
<1>3. CASE setMaxDequeuedBufferCount(n)
  <2>1. /\ cfg' = [cfg EXCEPT !.maxDequeued = n]
        /\ cfg.maxAcquired + ExtraBuffer(cfg) + n <= cfg.maxBuffers
    BY <1>3 DEF setMaxDequeuedBufferCount, getMinUndequeuedBufferCountLocked
  <2>2. /\ cfg'.maxAcquired = cfg.maxAcquired /\ cfg'.maxDequeued = n
        /\ cfg'.maxBuffers = cfg.maxBuffers /\ ExtraBuffer(cfg') = ExtraBuffer(cfg)
        /\ cfg'.consumerByApp = cfg.consumerByApp /\ cfg'.cannotBlock = cfg.cannotBlock
    BY <1>1, <2>1 DEF Config, ExtraBuffer
  <2>3. cfg'.maxAcquired + cfg'.maxDequeued + ExtraBuffer(cfg') <= cfg'.maxBuffers
    BY <1>2, <2>1, <2>2, SMT
  <2> QED BY <2>2, <2>3 DEF FixedExtra, LimitsFit, Unclipped
<1>4. CASE setMaxAcquiredBufferCount(n)
  <2>1. /\ cfg' = [cfg EXCEPT !.maxAcquired = n]
        /\ n + cfg.maxDequeued + ExtraBuffer(cfg) <= cfg.maxBuffers
    BY <1>4 DEF setMaxAcquiredBufferCount
  <2>2. /\ cfg'.maxAcquired = n /\ cfg'.maxDequeued = cfg.maxDequeued
        /\ cfg'.maxBuffers = cfg.maxBuffers /\ ExtraBuffer(cfg') = ExtraBuffer(cfg)
        /\ cfg'.consumerByApp = cfg.consumerByApp /\ cfg'.cannotBlock = cfg.cannotBlock
    BY <1>1, <2>1 DEF Config, ExtraBuffer
  <2> QED BY <2>1, <2>2 DEF FixedExtra, LimitsFit, Unclipped
<1> QED BY <1>3, <1>4

\* So do the setters of modes, and connect leaves cannotBlock off.
LEMMA ModesFit ==
  ASSUME TypeOK, FixedExtra,
         \/ \E b \in BOOLEAN : setAsyncMode(b)
         \/ \E d \in {-1, 0, 1} : setDequeueTimeout(d)
         \/ \E api, byApp : connect(api, byApp)
         \/ \E b \in BOOLEAN : setSharedBufferMode(b)
  PROVE  FixedExtra'
<1>1. cfg \in Config BY DEF TypeOK
<1>2. ASSUME NEW b, setAsyncMode(b) PROVE FixedExtra'
  <2>1. /\ cfg' = [cfg EXCEPT !.async = b] /\ Unclipped(cfg')
    BY <1>2 DEF setAsyncMode, Unclipped
  <2>2. cfg'.consumerByApp = cfg.consumerByApp /\ cfg'.cannotBlock = cfg.cannotBlock
    BY <1>1, <2>1 DEF Config
  <2> QED BY <2>1, <2>2 DEF FixedExtra, LimitsFit
<1>3. ASSUME NEW d, setDequeueTimeout(d) PROVE FixedExtra'
  <2>1. cfg' = [cfg EXCEPT !.timeout = d, !.cannotBlock = @ /\ d < 0, !.canDrop = @ /\ d <= 0]
    BY <1>3 DEF setDequeueTimeout
  <2>2. cfg.cannotBlock = FALSE /\ cfg'.cannotBlock = FALSE BY <1>1, <2>1 DEF FixedExtra, Config
  <2>3. SameLimits(cfg', cfg) /\ cfg'.consumerByApp = cfg.consumerByApp
    BY <1>1, <2>1, <2>2 DEF SameLimits, Config
  <2> QED BY <2>3, FixedAlone
<1>4. ASSUME NEW api, NEW byApp, connect(api, byApp) PROVE FixedExtra'
  <2>1. PICK canDrop : cfg' = [cfg EXCEPT !.cannotBlock = cfg.consumerByApp /\ byApp /\ cfg.timeout < 0,
                                          !.canDrop = canDrop,
                                          !.legacyDrop = TRUE, !.allowAllocation = TRUE]
    BY <1>4 DEF connect
  <2>2. cfg.cannotBlock = FALSE /\ cfg'.cannotBlock = FALSE BY <1>1, <2>1 DEF FixedExtra, Config
  <2>3. SameLimits(cfg', cfg) /\ cfg'.consumerByApp = cfg.consumerByApp
    BY <1>1, <2>1, <2>2 DEF SameLimits, Config
  <2> QED BY <2>3, FixedAlone
<1>5. ASSUME NEW b, setSharedBufferMode(b) PROVE FixedExtra'
  <2>1. cfg' = [cfg EXCEPT !.sharedMode = b] BY <1>5 DEF setSharedBufferMode
  <2>2. SameLimits(cfg', cfg) /\ cfg'.consumerByApp = cfg.consumerByApp
    BY <1>1, <2>1 DEF SameLimits, Config
  <2> QED BY <2>2, FixedAlone
<1> QED BY <1>2, <1>3, <1>4, <1>5

\* Every step leaves room for the limits.
LEMMA FixedNext ==
  ASSUME UnclippedUse, TypeOK, FixedExtra, [Next]_vars PROVE FixedExtra'
<1>1. cfg \in Config BY DEF TypeOK
<1>2. ASSUME UNCHANGED cfg PROVE FixedExtra' BY <1>2, FixedAlone DEF SameLimits
<1>3. CASE \E t \in Threads : ThreadStep(t) BY <1>2, <1>3, ThreadsKeepLimits
<1>4. CASE AcquireStep \/ ReleaseStep \/ \E b \in Buffers : ConsumerAttachBuffer(b)
  BY <1>2, <1>4, ConsumerKeepsLimits
<1>5. ASSUME NEW n \in Limits, setMaxDequeuedBufferCount(n) \/ setMaxAcquiredBufferCount(n)
      PROVE  FixedExtra'
  <2>1. n \in Nat BY ConfigsAssumption
  <2> QED BY <1>5, <2>1, SettersFit
<1>6. ASSUME NEW b, \/ setAllowExtraAcquire(b)
                    \/ \E f \in {"setAutoRefresh", "allowAllocation", "setLegacyBufferDrop"} :
                         SetProducerFlag(f, b)
      PROVE  FixedExtra'
  <2>1. SameLimits(cfg', cfg) BY <1>1, <1>6, FlagSetters
  <2>2. \/ cfg' = [cfg EXCEPT !.extraAcquire = b] \/ cfg' = [cfg EXCEPT !.autoRefresh = b]
        \/ cfg' = [cfg EXCEPT !.allowAllocation = b] \/ cfg' = [cfg EXCEPT !.legacyDrop = b]
    BY <1>6 DEF setAllowExtraAcquire, SetProducerFlag
  <2>3. cfg'.consumerByApp = cfg.consumerByApp BY <1>1, <2>2 DEF Config
  <2> QED BY <2>1, <2>3, FixedAlone
<1>7. (\A n : ~setMaxBufferCount(n)) /\ \A b : ~ConsumerConnect(b)
  BY DEF setMaxBufferCount, ConsumerConnect, UnclippedUse
<1>8. CASE disconnect \/ ProducerDies \/ binderDied \/ BinderDiedDisconnect
           \/ ConsumerDisconnect \/ discardFreeBuffers
  <2>1. UNCHANGED cfg
    BY <1>8 DEF disconnect, ProducerDies, binderDied, BinderDiedDisconnect, Disconnect,
       ConsumerDisconnect, discardFreeBuffers
  <2> QED BY <1>2, <2>1
<1>9. CASE ProducerConfigStep BY <1>5, <1>6, <1>9, ModesFit DEF ProducerConfigStep
<1>10. CASE ConnectionStep BY <1>7, <1>8, <1>10, ModesFit DEF ConnectionStep
<1>11. CASE ConsumerConfigStep BY <1>5, <1>6, <1>7, <1>8, <1>11 DEF ConsumerConfigStep
<1>12. CASE UNCHANGED vars BY <1>2, <1>12 DEF vars
<1> QED BY <1>3, <1>4, <1>9, <1>10, <1>11, <1>12 DEF Next, ConsumerStep

\* The limits fit into mMaxBufferCount as long as only setters that check it change
\* them: setMaxDequeuedBufferCount, setMaxAcquiredBufferCount and setAsyncMode refuse
\* what does not fit, in any order and any number of calls.
THEOREM LimitsStayFit == ASSUME UnclippedUse PROVE Spec => []LimitsFit
<1>1. Init => FixedExtra
  <2>1. ASSUME Init PROVE ~cfg.consumerByApp /\ ~cfg.cannotBlock
    BY <2>1, ConfigsAssumption DEF Init, UnclippedUse
  <2> QED BY <2>1, FitsInit DEF FixedExtra, LimitsFit
<1>2. TypeOK /\ FixedExtra /\ [Next]_vars => FixedExtra' BY FixedNext
<1>3. FixedExtra => LimitsFit BY DEF FixedExtra
<1> QED BY <1>1, <1>2, <1>3, TypeCorrect, PTL DEF Spec

=============================================================================
