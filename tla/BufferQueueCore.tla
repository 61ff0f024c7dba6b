--------------------------- MODULE BufferQueueCore ---------------------------
(***************************************************************************)
(* The state of a libs/gui BufferQueue (class BufferQueueCore) and the     *)
(* operations on it that the producer and the consumer interface share.    *)
(* Producer and consumer run in different threads or processes; every      *)
(* handler takes the one lock mMutex, so a critical section is one step,   *)
(* and the places where a handler lets go of the lock (the condition       *)
(* variables, the allocation of a buffer, the callbacks) separate steps.   *)
(*                                                                         *)
(* Data kept abstract: a GraphicBuffer is a member of Buffers (its         *)
(* identity); sizes, formats, usage bits, crops, timestamps and fences are *)
(* left out, and what the code decides from them (does this buffer need    *)
(* reallocation, is the next frame timely) is chosen freely.               *)
(***************************************************************************)
EXTENDS Integers, Sequences, FiniteSets

CONSTANTS
  NumSlots,     \* BufferQueueDefs::NUM_BUFFER_SLOTS (64 in the code)
  Threads,      \* threads that call into the BufferQueueProducer
  Buffers,      \* GraphicBuffer identities
  NoBuffer,     \* nullptr
  Apis,         \* NATIVE_WINDOW_API_* values
  Calls,        \* the interface calls and outside events of this instance
  ConsumerIsSurfaceFlinger,
  MaxFrames,    \* bound on mFrameCounter
  MaxCount,     \* bound on the dequeue and acquire counts of one slot
  MaxConnects   \* bound on the number of connect calls

NoSlot == -1                    \* INVALID_BUFFER_SLOT
NoApi == "no api"               \* NO_CONNECTED_API
Slot == 0 .. NumSlots - 1

\* The default configuration needs two slots; NoBuffer is no buffer.
ASSUME CoreAssumption ==
  /\ NumSlots \in Nat /\ NumSlots >= 2
  /\ NoBuffer \notin Buffers
  /\ NoApi \notin Apis /\ ConsumerIsSurfaceFlinger \in BOOLEAN
  /\ MaxFrames \in Nat /\ MaxCount \in Nat /\ MaxConnects \in Nat

VARIABLES
  mSlots,           \* Slot -> BufferSlot
  mQueue,           \* the FIFO of queued BufferItems
  mFreeSlots,       \* FREE slots without a buffer (a std::set)
  mFreeBuffers,     \* FREE slots with a buffer, least recently used first
  mActiveBuffers,   \* slots that are not FREE
  mUnusedSlots,     \* slots beyond the current buffer count
  cfg,              \* the limits and mode flags, see Config
  mIsAbandoned, mConsumerListener, mConnectedApi,
  mBufferHasBeenQueued, mFrameCounter, mSharedBufferSlot, mIsAllocating,
  mDequeueWaitingForAllocation,
  call,             \* Threads -> what the thread is doing in the producer
  parked,           \* threads in mDequeueCondition that nobody has notified
  mCurrentCallbackTicket,
  consumer,         \* what the consumer thread is doing in acquireBuffer
  held,             \* buffers the consumer has acquired and not given back
  connects,         \* number of connections made so far
  obituary          \* death notification of a producer on its way

slotVars == <<mSlots, mFreeSlots, mFreeBuffers, mActiveBuffers, mUnusedSlots>>
queueVars == <<mQueue, mFrameCounter, mBufferHasBeenQueued>>
connVars == <<mIsAbandoned, mConsumerListener, mConnectedApi, connects, obituary>>
allocVars == <<mIsAllocating, mDequeueWaitingForAllocation>>
threadVars == <<call, parked, mCurrentCallbackTicket>>
consumerVars == <<consumer, held>>
vars == <<slotVars, queueVars, connVars, allocVars, threadVars, consumerVars,
          cfg, mSharedBufferSlot>>

-----------------------------------------------------------------------------
(* BufferState and BufferSlot (BufferSlot.h) *)

BufferSlot ==
  [buf : Buffers \cup {NoBuffer}, deq : Nat, que : Nat, acq : Nat,
   shared : BOOLEAN, requested : BOOLEAN, frame : Nat,
   acquireCalled : BOOLEAN, needsRealloc : BOOLEAN]

isDequeued(r) == r.deq > 0
isQueued(r) == r.que > 0
isAcquired(r) == r.acq > 0
isFree(r) == ~isAcquired(r) /\ ~isDequeued(r) /\ ~isQueued(r)

Less1(n) == IF n > 0 THEN n - 1 ELSE n

dequeue(r) == [r EXCEPT !.deq = @ + 1]
queue(r) == [r EXCEPT !.deq = Less1(@), !.que = @ + 1]
cancel(r) == [r EXCEPT !.deq = Less1(@)]
freeQueued(r) == [r EXCEPT !.que = Less1(@)]
\* Mutant of acquire: the queue stays an owner.
acquireKeepsQueued(r) == [r EXCEPT !.acq = @ + 1]
acquire(r) == [r EXCEPT !.que = Less1(@), !.acq = @ + 1]
acquireNotInQueue(r) == [r EXCEPT !.acq = @ + 1]
release(r) == [r EXCEPT !.acq = Less1(@)]

NewSlot ==
  [buf |-> NoBuffer, deq |-> 0, que |-> 0, acq |-> 0, shared |-> FALSE,
   requested |-> FALSE, frame |-> 0, acquireCalled |-> FALSE,
   needsRealloc |-> FALSE]

\* What clearBufferSlotLocked leaves in the slot.
Cleared == [NewSlot EXCEPT !.needsRealloc = TRUE]

\* Mutant of clearBufferSlotLocked: the slot keeps its buffer.
clearKeepsBuffer(S) ==
  [s \in Slot |-> IF s \in S THEN [Cleared EXCEPT !.buf = mSlots[s].buf] ELSE mSlots[s]]

clearBufferSlotLocked(S) == [s \in Slot |-> IF s \in S THEN Cleared ELSE mSlots[s]]

BufferItem ==
  [slot : Slot, frame : Nat, buf : Buffers \cup {NoBuffer},
   droppable : BOOLEAN, stale : BOOLEAN, acquireCalled : BOOLEAN]

-----------------------------------------------------------------------------
(* Limits and counts *)

Config ==
  [maxAcquired : Nat, maxDequeued : Nat, maxBuffers : Nat, async : BOOLEAN,
   cannotBlock : BOOLEAN, canDrop : BOOLEAN, legacyDrop : BOOLEAN,
   allowAllocation : BOOLEAN, sharedMode : BOOLEAN, autoRefresh : BOOLEAN,
   extraAcquire : BOOLEAN, timeout : {-1, 0, 1}, consumerByApp : BOOLEAN]

\* Mutant of ExtraBuffer: asynchronous mode is forgotten.
ExtraIfCannotBlock(c) == IF c.cannotBlock THEN 1 ELSE 0

ExtraBuffer(c) == IF c.async \/ c.cannotBlock THEN 1 ELSE 0

getMinUndequeuedBufferCountLocked(c) == c.maxAcquired + ExtraBuffer(c)

getMaxBufferCountLocked(c) ==
  LET n == c.maxAcquired + c.maxDequeued + ExtraBuffer(c)
  IN  IF c.maxBuffers < n THEN c.maxBuffers ELSE n

\* Mutant of Delta: the slots are not adjusted to the new configuration.
NoDelta(c) == 0

\* By how many slots a change to configuration c changes the buffer count.
Delta(c) == getMaxBufferCountLocked(c) - getMaxBufferCountLocked(cfg)

DequeuedCount == Cardinality({s \in mActiveBuffers : isDequeued(mSlots[s])})
AcquiredCount == Cardinality({s \in mActiveBuffers : isAcquired(mSlots[s])})

Elems(q) == {q[i] : i \in 1 .. Len(q)}
FreeBufferSet == Elems(mFreeBuffers)

\* Buffers somebody still refers to; allocation and attaching bring in others.
LiveBuffers ==
  {mSlots[s].buf : s \in Slot} \cup {mQueue[i].buf : i \in 1 .. Len(mQueue)}
  \cup {held[i].buf : i \in 1 .. Len(held)} \cup {call[t].buf : t \in Threads}
FreshBuffers == Buffers \ LiveBuffers

-----------------------------------------------------------------------------
(* Operations on the slot lists *)

\* Move mUnusedSlots to mFreeSlots (delta > 0) or empty and retire FREE slots,
\* the lowest of mFreeSlots first, then the back of mFreeBuffers. Not enabled
\* when the code fails before it modifies anything. Unused slots are all
\* alike, so the order of mUnusedSlots is left open.
adjustAvailableSlotsLocked(delta) ==
  \/ /\ delta >= 0
     /\ \E S \in SUBSET mUnusedSlots :
          /\ Cardinality(S) = delta
          /\ mFreeSlots' = mFreeSlots \cup S
          /\ mUnusedSlots' = mUnusedSlots \ S
     /\ UNCHANGED <<mSlots, mFreeBuffers>>
  \/ /\ delta < 0
     /\ \E S \in SUBSET mFreeSlots, n \in 0 .. Len(mFreeBuffers) :
          LET retired == S \cup {mFreeBuffers[i] : i \in (n + 1) .. Len(mFreeBuffers)}
          IN  /\ \A s \in S, u \in mFreeSlots \ S : s < u
              /\ n < Len(mFreeBuffers) => S = mFreeSlots
              /\ Cardinality(S) + Len(mFreeBuffers) - n = -delta
              /\ mSlots' = clearBufferSlotLocked(retired)
              /\ mFreeSlots' = mFreeSlots \ S
              /\ mFreeBuffers' = SubSeq(mFreeBuffers, 1, n)
              /\ mUnusedSlots' = mUnusedSlots \cup retired

\* Every slot that is in use becomes an empty free slot; the frames still in
\* the queue keep their buffers but no longer stand for a slot.
freeAllBuffersLocked ==
  /\ mSlots' = clearBufferSlotLocked(mFreeSlots \cup FreeBufferSet \cup mActiveBuffers)
  /\ mFreeSlots' = mFreeSlots \cup FreeBufferSet \cup mActiveBuffers
  /\ mFreeBuffers' = <<>>
  /\ mActiveBuffers' = {}
  /\ UNCHANGED mUnusedSlots

\* Mutant of StaleItems: queued frames go on standing for their slots.
KeepItems(q) == q

StaleItems(q) ==
  [i \in 1 .. Len(q) |-> [q[i] EXCEPT !.stale = TRUE, !.acquireCalled = FALSE]]

discardFreeBuffersLocked ==
  /\ mSlots' = clearBufferSlotLocked(FreeBufferSet)
  /\ mFreeSlots' = mFreeSlots \cup FreeBufferSet
  /\ mFreeBuffers' = <<>>
  /\ UNCHANGED <<mActiveBuffers, mUnusedSlots>>

\* Mutants of Unshared and GiveBack: the mode, the flag, is not looked at.
UnsharedIfFree(r) == IF isFree(r) THEN [r EXCEPT !.shared = FALSE] ELSE r

GiveBackShared(slots, s) ==
  /\ mSlots' = slots
  /\ mActiveBuffers' = mActiveBuffers \ {s}
  /\ mFreeBuffers' = Append(mFreeBuffers, s)
  /\ UNCHANGED <<mFreeSlots, mUnusedSlots>>

\* Slot s has lost one of its owners in slots: if it became free after shared
\* buffer mode was left it is no longer shared, and if it is not shared it goes
\* to the back of mFreeBuffers.
Unshared(r) ==
  IF ~cfg.sharedMode /\ isFree(r) THEN [r EXCEPT !.shared = FALSE] ELSE r

GiveBack(slots, s) ==
  LET r == Unshared(slots[s])
  IN  /\ mSlots' = [slots EXCEPT ![s] = r]
      /\ mActiveBuffers' = IF r.shared THEN mActiveBuffers ELSE mActiveBuffers \ {s}
      /\ mFreeBuffers' = IF r.shared THEN mFreeBuffers ELSE Append(mFreeBuffers, s)
      /\ UNCHANGED <<mFreeSlots, mUnusedSlots>>

\* A slot's buffer leaves the queue with its owner (detach).
Detach(s) ==
  /\ mSlots' = clearBufferSlotLocked({s})
  /\ mActiveBuffers' = mActiveBuffers \ {s}
  /\ mFreeSlots' = mFreeSlots \cup {s}
  /\ UNCHANGED <<mFreeBuffers, mUnusedSlots>>

\* Mutants of NotifyDequeue: no notification, and notify_one.
NotifyNobody == UNCHANGED parked
NotifyOne == IF parked = {} THEN parked' = {} ELSE \E t \in parked : parked' = parked \ {t}

\* mDequeueCondition.notify_all()
NotifyDequeue == parked' = {}

\* mMutex is free: nobody is inside a loop that keeps it between two steps. A
\* conjunct of every action that takes the lock.
Unlocked ==
  consumer # "drop" /\ \A t \in Threads : call[t].op # "dequeueLoop"

\* Mutant of TakeFreeSlot: the slot is not erased from mFreeSlots.
PeekFreeSlot(s) ==
  /\ s \in mFreeSlots /\ \A u \in mFreeSlots : s <= u
  /\ UNCHANGED <<mFreeSlots, mFreeBuffers>>

TakeFreeSlot(s) ==
  /\ s \in mFreeSlots /\ \A u \in mFreeSlots : s <= u
  /\ mFreeSlots' = mFreeSlots \ {s}
  /\ UNCHANGED mFreeBuffers

TakeFreeBuffer(s) ==
  /\ mFreeBuffers # <<>> /\ s = Head(mFreeBuffers)
  /\ mFreeBuffers' = Tail(mFreeBuffers)
  /\ UNCHANGED mFreeSlots

=============================================================================
