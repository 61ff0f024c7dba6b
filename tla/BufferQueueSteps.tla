-------------------------- MODULE BufferQueueSteps ---------------------------
(***************************************************************************)
(* The handlers of the two interfaces of BufferQueue, reduced to what they *)
(* do to slots, queue and the buffers somebody holds: Effect lists the     *)
(* sixteen things a step can do. And the invariants that are shown for     *)
(* each effect, whichever handler it comes from.                           *)
(***************************************************************************)
EXTENDS BufferQueueTypes

-----------------------------------------------------------------------------
(* What a step does *)

\* The slots without a buffer: in mFreeSlots or unused.
EmptySlots == mFreeSlots \cup mUnusedSlots

\* Thread t allocates the buffer of slot s.
Allocates(t, s) == call[t].op = "alloc" /\ call[t].slot = s

SameContent(r, v) == r.buf = v.buf /\ r.frame = v.frame

SameSlot(r, v) == SameContent(r, v) /\ SameOwners(r, v)

OthersSame(S) == \A u \in Slot \ S : SameSlot(mSlots'[u], mSlots[u])

SameLists == UNCHANGED <<mActiveBuffers, mUnusedSlots, mFreeSlots, mFreeBuffers>>

\* Slot s becomes active.
Activates(s) ==
  /\ s \in Slot \ mActiveBuffers /\ mActiveBuffers' = mActiveBuffers \cup {s}
  /\ EmptySlots' = EmptySlots \ {s} /\ FreeBufferSet' = FreeBufferSet \ {s}

\* Slot s goes to mFreeBuffers, with its buffer.
Frees(s) ==
  /\ mActiveBuffers' = mActiveBuffers \ {s}
  /\ EmptySlots' = EmptySlots /\ FreeBufferSet' = FreeBufferSet \cup {s}

\* Slot s loses its buffer and goes to mFreeSlots.
Empties(s) ==
  /\ mSlots'[s] = Cleared /\ mActiveBuffers' = mActiveBuffers \ {s}
  /\ EmptySlots' = EmptySlots \cup {s} /\ FreeBufferSet' = FreeBufferSet

SameFrames == UNCHANGED <<mQueue, mFrameCounter>>

\* No thread begins or ends an allocation, or gets a buffer to attach.
QuietThread(t) ==
  /\ call'[t].buf \in {call[t].buf, NoBuffer}
  /\ call'[t].op = "attach" => call'[t] = call[t]
  /\ \A s \in Slot : Allocates(t, s)' <=> Allocates(t, s)

QuietExcept(t) == \A u \in Threads \ {t} : call'[u] = call[u]

QuietCalls == \A t \in Threads : QuietThread(t)

\* A buffer is waiting or being read in no slot and with nobody.
Fresh(b) == b \in FreshBuffers /\ b # NoBuffer

Quiet ==
  /\ \E R \in SUBSET (Slot \ mActiveBuffers) :
       /\ \A s \in R : mSlots'[s] = Cleared
       /\ OthersSame(R)
       /\ EmptySlots' \subseteq EmptySlots \cup R /\ FreeBufferSet' \subseteq FreeBufferSet \ R
  /\ SameFrames /\ UNCHANGED <<held, mActiveBuffers>> /\ QuietCalls

AttachBegins(t) ==
  /\ OthersSame({}) /\ SameLists /\ SameFrames /\ UNCHANGED held
  /\ QuietExcept(t) /\ Fresh(call'[t].buf)
  /\ call[t].op # "alloc" /\ call'[t].op # "alloc"

Takes(s) ==
  /\ Activates(s) /\ mSlots[s].buf # NoBuffer
  /\ SameContent(mSlots'[s], mSlots[s]) /\ mSlots'[s].deq = 1
  /\ OthersSame({s}) /\ SameFrames /\ UNCHANGED held /\ QuietCalls

AllocationBegins(t, s) ==
  /\ Activates(s) /\ mSlots'[s].buf = NoBuffer /\ mSlots'[s].deq = 1
  /\ OthersSame({s}) /\ SameFrames /\ UNCHANGED held
  /\ QuietExcept(t) /\ call[t].op # "alloc" /\ Allocates(t, s)' /\ call'[t].buf = NoBuffer

AllocationEnds(t, s) ==
  /\ Allocates(t, s) /\ SameLists
  /\ Fresh(mSlots'[s].buf) /\ SameOwners(mSlots'[s], mSlots[s])
  /\ mSlots'[s].frame = mSlots[s].frame
  /\ OthersSame({s}) /\ SameFrames /\ UNCHANGED held
  /\ QuietExcept(t) /\ call'[t] = Idle

Attaches(t, s) ==
  /\ Activates(s) /\ mSlots'[s].buf = call[t].buf /\ call[t].buf # NoBuffer
  /\ mSlots'[s].frame = mSlots[s].frame /\ mSlots'[s].deq = 1
  /\ OthersSame({s}) /\ SameFrames /\ UNCHANGED held
  /\ QuietExcept(t) /\ call[t].op # "alloc" /\ call'[t] = Idle

Fills(s) ==
  /\ s \in mFreeSlots /\ Fresh(mSlots'[s].buf) /\ Owners(mSlots'[s]) = 0
  /\ OthersSame({s}) /\ SameFrames /\ UNCHANGED <<held, mActiveBuffers>> /\ QuietCalls
  /\ EmptySlots' = EmptySlots \ {s} /\ FreeBufferSet' = FreeBufferSet \cup {s}

\* The slot of a frame that leaves the queue without being acquired.
GivesUp(item) ==
  IF item.stale THEN SameLists ELSE Frees(item.slot)

Queues(s) ==
  /\ s \in Slot /\ ProducerOwns(s) /\ SameContent(mSlots'[s], QueuedSlot(s))
  /\ mSlots'[s].que = 1
  /\ mFrameCounter' = mFrameCounter + 1 /\ mQueue' = Enqueued(QueuedItem(s))
  /\ \A u \in Slot \ {s} :
       /\ SameContent(mSlots'[u], mSlots[u])
       /\ \/ Replaces /\ ~LastItem.stale /\ u = LastItem.slot
          \/ SameOwners(mSlots'[u], mSlots[u])
  /\ IF Replaces THEN GivesUp(LastItem) ELSE SameLists
  /\ UNCHANGED held /\ QuietCalls

Cancels(s) ==
  /\ s \in Slot /\ ProducerOwns(s) /\ Frees(s) /\ SameContent(mSlots'[s], mSlots[s])
  /\ OthersSame({s}) /\ SameFrames /\ UNCHANGED held /\ QuietCalls

Detaches(s) ==
  /\ s \in Slot /\ ProducerOwns(s) /\ Empties(s)
  /\ OthersSame({s}) /\ SameFrames /\ UNCHANGED held /\ QuietCalls

Drops ==
  /\ mQueue # <<>> /\ mQueue' = Tail(mQueue) /\ GivesUp(Head(mQueue))
  /\ \A u \in Slot : SameContent(mSlots'[u], mSlots[u])
  /\ OthersSame(IF Head(mQueue).stale THEN {} ELSE {Head(mQueue).slot})
  /\ UNCHANGED <<mFrameCounter, held>> /\ QuietCalls

Acquires ==
  LET front == Head(mQueue)
  IN  /\ mQueue # <<>> /\ mQueue' = Tail(mQueue) /\ SameLists
      /\ held' = Append(held, [slot |-> front.slot, frame |-> front.frame,
                               buf |-> front.buf])
      /\ \A u \in Slot : SameContent(mSlots'[u], mSlots[u])
      /\ OthersSame(IF front.stale THEN {} ELSE {front.slot})
      /\ ~front.stale => mSlots'[front.slot].acq = 1
      /\ UNCHANGED mFrameCounter /\ QuietCalls

\* A release that is out of date changes no slot.
Releases(i) ==
  LET h == held[i]
  IN  /\ i \in 1 .. Len(held) /\ held' = Without(held, i)
      /\ \A u \in Slot : SameContent(mSlots'[u], mSlots[u])
      /\ \/ OthersSame({}) /\ SameLists
         \/ /\ h.frame = mSlots[h.slot].frame /\ isAcquired(mSlots[h.slot])
            /\ OthersSame({h.slot}) /\ Frees(h.slot)
      /\ SameFrames /\ QuietCalls

ConsumerDetaches(i) ==
  LET s == held[i].slot
  IN  /\ i \in 1 .. Len(held) /\ held' = Without(held, i)
      /\ isAcquired(mSlots[s])
      /\ Empties(s) /\ OthersSame({s}) /\ SameFrames /\ QuietCalls

ConsumerAttaches(s) ==
  /\ Activates(s) /\ Fresh(mSlots'[s].buf) /\ mSlots'[s].frame = 0 /\ mSlots'[s].acq = 1
  /\ held' = Append(held, [slot |-> s, frame |-> 0, buf |-> mSlots'[s].buf])
  /\ OthersSame({s}) /\ SameFrames /\ QuietCalls

Disconnects ==
  /\ ~mIsAllocating
  /\ \A s \in Slot \ mUnusedSlots : mSlots'[s] = Cleared
  /\ \A s \in mUnusedSlots : mSlots'[s] = mSlots[s]
  /\ mActiveBuffers' = {} /\ FreeBufferSet' = {}
  /\ mQueue' = StaleItems(mQueue) /\ UNCHANGED <<mFrameCounter, held>> /\ QuietCalls

Effect ==
  \/ Quiet \/ Drops \/ Acquires \/ Disconnects
  \/ \E t \in Threads : AttachBegins(t) \/ \E s \in Slot :
       AllocationBegins(t, s) \/ AllocationEnds(t, s) \/ Attaches(t, s)
  \/ \E s \in Slot : Takes(s) \/ Fills(s) \/ Queues(s) \/ Cancels(s) \/ Detaches(s)
                       \/ ConsumerAttaches(s)
  \/ \E i \in 1 .. Len(held) : Releases(i) \/ ConsumerDetaches(i)

\* attachBuffer was called with a buffer.
AttachHasBuffer == \A t \in Threads : call[t].op = "attach" => call[t].buf # NoBuffer

\* The producer uses the same slots outside of S, with the same buffers.
SameUse(S) ==
  \A u \in Slot \ S :
    /\ ProducerOwns(u)' <=> ProducerOwns(u)
    /\ ProducerOwns(u) => mSlots'[u].buf = mSlots[u].buf

-----------------------------------------------------------------------------
(* The invariants *)

\* The consumer has a frame once. The buffers it attached have frame 0.
HeldFramesDiffer ==
  \A i, j \in 1 .. Len(held) : held[i].frame = held[j].frame /\ held[i].frame > 0 => i = j

FrameInvariant ==
  /\ FramesInOrder /\ HeldFramesDiffer
  /\ \A i \in 1 .. Len(mQueue) : mQueue[i].frame > 0
  /\ \A i \in 1 .. Len(held) : held[i].frame <= mFrameCounter

\* Without ConsumerAttachBuffer the consumer has frames only.
HeldHaveFrames == \A h \in Elems(held) : h.frame > 0

\* A buffer is in one slot,
SlotsDiffer ==
  \A s, u \in Slot : mSlots[s].buf = mSlots[u].buf /\ mSlots[s].buf # NoBuffer => s = u

\* of the frames in the queue in the one that stands for its slot,
QueuedInSlot ==
  \A x \in Elems(mQueue), s \in Slot :
    x.buf = mSlots[s].buf /\ x.buf # NoBuffer =>
      ~x.stale /\ x.slot = s /\ x.frame = mSlots[s].frame

\* in one frame,
QueuedDiffer ==
  \A x, y \in Elems(mQueue) : x.buf = y.buf /\ x.buf # NoBuffer => x.frame = y.frame

\* in the queue or with the consumer,
QueuedNotHeld ==
  \A x \in Elems(mQueue), h \in Elems(held) : x.buf = h.buf /\ x.buf # NoBuffer => h.frame = 0

\* with the consumer for the frame its slot was acquired with,
HeldInSlot ==
  \A h \in Elems(held), s \in Slot :
    h.buf = mSlots[s].buf /\ h.buf # NoBuffer /\ h.frame > 0 =>
      s = h.slot /\ isAcquired(mSlots[s]) /\ h.frame = mSlots[s].frame

\* or nowhere else than with the thread that attaches it.
AttachedApart ==
  \A t \in Threads : call[t].buf # NoBuffer =>
    /\ \A s \in Slot : call[t].buf # mSlots[s].buf
    /\ \A x \in Elems(mQueue) : call[t].buf # x.buf
    /\ \A h \in Elems(held) : call[t].buf # h.buf
    /\ \A u \in Threads : call[t].buf = call[u].buf => t = u

BufferInvariant ==
  SlotsDiffer /\ QueuedInSlot /\ QueuedDiffer /\ QueuedNotHeld /\ HeldInSlot /\ AttachedApart

\* The queue counts a slot as its own only for a frame.
QueuedHaveFrames ==
  \A s \in Slot : mSlots[s].que > 0 => \E x \in Elems(mQueue) : ~x.stale /\ x.slot = s

\* What holds as long as allocations are announced: a slot has a buffer, or is empty, or
\* is active, and dequeued, while one thread allocates its buffer;
InPlace(s) ==
  /\ s \in EmptySlots => mSlots[s].buf = NoBuffer
  /\ s \in FreeBufferSet => mSlots[s].buf # NoBuffer
  /\ s \in mActiveBuffers => mSlots[s].buf # NoBuffer \/ \E t \in Threads : Allocates(t, s)
  /\ \A t \in Threads : Allocates(t, s) =>
       /\ s \in mActiveBuffers /\ mSlots[s].deq = 1 /\ mSlots[s].buf = NoBuffer
       /\ \A u \in Threads : Allocates(u, s) => t = u

\* and a frame has a buffer, that of the slot it stands for.
QueuedBuffers ==
  \A x \in Elems(mQueue) :
    x.buf # NoBuffer /\ (~x.stale => x.buf = mSlots[x.slot].buf)

AllocationInvariant == (\A s \in Slot : InPlace(s)) /\ QueuedBuffers

=============================================================================
