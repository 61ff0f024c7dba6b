-------------------------- MODULE BufferQueueFrames --------------------------
(***************************************************************************)
(* Buffers and frames of BufferQueue, for any number of slots, threads,    *)
(* buffers and frames: frames stay in order, a buffer is in one place, and *)
(* a slot that the queue counts as its own has a frame. Then where the     *)
(* slots and their buffers are, as long as allocations are announced, and  *)
(* what the effects of BufferQueue's steps look like through the           *)
(* refinement mapping: the buffers that the producer writes, the frames    *)
(* that are pending and those that the consumer has.                       *)
(***************************************************************************)
EXTENDS BufferQueueSteps

USE Zenon

-----------------------------------------------------------------------------
(* The queue and the list of held buffers in a step *)

\* One element taken out of a sequence.
LEMMA WithoutOne ==
  ASSUME NEW q \in Seq(Held), NEW i \in 1 .. Len(q)
  PROVE  /\ Without(q, i) \in Seq(Held) /\ Len(Without(q, i)) = Len(q) - 1
         /\ \A j \in 1 .. Len(q) - 1 :
              /\ Without(q, i)[j] = IF j < i THEN q[j] ELSE q[j + 1]
              /\ (IF j < i THEN j ELSE j + 1) \in 1 .. Len(q) \ {i}
<1>1. Len(q) \in Nat /\ i \in Nat BY SeqLength, SMT
<1>2. SubSeq(q, 1, i - 1) \in Seq(Held) /\ Len(SubSeq(q, 1, i - 1)) = i - 1
  BY <1>1, SMT
<1>3. SubSeq(q, i + 1, Len(q)) \in Seq(Held) /\ Len(SubSeq(q, i + 1, Len(q))) = Len(q) - i
  BY <1>1, SMT
<1>4. /\ \A j \in 1 .. i - 1 : SubSeq(q, 1, i - 1)[j] = q[j]
      /\ \A j \in 1 .. Len(q) - i : SubSeq(q, i + 1, Len(q))[j] = q[j + i]
  BY <1>1, SMT
<1> DEFINE a == SubSeq(q, 1, i - 1)
           b == SubSeq(q, i + 1, Len(q))
<1> HIDE DEF a, b
<1>5. Without(q, i) = a \o b BY DEF Without, a, b
<1>6. /\ a \in Seq(Held) /\ Len(a) = i - 1 /\ \A j \in 1 .. i - 1 : a[j] = q[j]
      /\ b \in Seq(Held) /\ Len(b) = Len(q) - i /\ \A j \in 1 .. Len(q) - i : b[j] = q[j + i]
  BY <1>2, <1>3, <1>4 DEF a, b
<1>7. Without(q, i) \in Seq(Held) /\ Len(Without(q, i)) = Len(q) - 1
  BY <1>1, <1>5, <1>6, SMT
<1>8. ASSUME NEW j \in 1 .. Len(q) - 1
      PROVE  /\ Without(q, i)[j] = IF j < i THEN q[j] ELSE q[j + 1]
             /\ (IF j < i THEN j ELSE j + 1) \in 1 .. Len(q) \ {i}
  <2>1. CASE j < i BY <1>1, <1>5, <1>6, <2>1, SMT
  <2>2. CASE ~(j < i)
    <3>1. (a \o b)[j] = b[j - (i - 1)] BY <1>1, <1>6, <2>2, SMT
    <3>2. j - (i - 1) \in 1 .. Len(q) - i /\ j - (i - 1) + i = j + 1 BY <1>1, <2>2, SMT
    <3> QED BY <1>1, <1>5, <1>6, <2>2, <3>1, <3>2, SMT
  <2> QED BY <2>1, <2>2
<1> QED BY <1>7, <1>8


\* The types of frame numbers, of the queue and of the held buffers.
LEMMA FrameTypes ==
  ASSUME IInv
  PROVE  /\ mFrameCounter \in Nat /\ Len(mQueue) \in Nat /\ Len(held) \in Nat
         /\ \A i \in 1 .. Len(mQueue) : mQueue[i] \in BufferItem /\ mQueue[i].frame \in Nat
         /\ \A i \in 1 .. Len(held) : held[i] \in Held /\ held[i].frame \in Nat
<1>1. mFrameCounter \in Nat /\ mQueue \in Seq(BufferItem) /\ held \in Seq(Held)
  BY Modes DEF TypeOK
<1>2. /\ \A i \in 1 .. Len(mQueue) : mQueue[i] \in BufferItem
      /\ \A i \in 1 .. Len(held) : held[i] \in Held
      /\ Len(mQueue) \in Nat /\ Len(held) \in Nat
  BY <1>1, SMT
<1> QED BY <1>1, <1>2 DEF BufferItem, Held

\* The new frame is the last, and those before it are the old ones.
LEMMA EnqueuedFrames ==
  ASSUME IInv, NEW item \in BufferItem
  PROVE  LET q == Enqueued(item)
         IN  /\ Len(q) \in 1 .. Len(mQueue) + 1 /\ q[Len(q)] = item
             /\ \A i \in 1 .. Len(q) : i # Len(q) => i \in 1 .. Len(mQueue) /\ q[i] = mQueue[i]
<1>1. mQueue \in Seq(BufferItem) BY Modes DEF TypeOK
<1>2. CASE Replaces
  <2>1. Len(mQueue) \in Nat \ {0} BY <1>1, <1>2, SMT DEF Replaces
  <2>2. Enqueued(item) = [mQueue EXCEPT ![Len(mQueue)] = item] BY <1>2 DEF Enqueued
  <2> QED BY <1>1, <2>1, <2>2, SMT
<1>3. CASE ~Replaces
  <2>1. Enqueued(item) = Append(mQueue, item) BY <1>3 DEF Enqueued
  <2> QED BY <1>1, <2>1, SMT
<1> QED BY <1>2, <1>3

\* The queue without its front.
LEMMA TailFrames ==
  ASSUME IInv, mQueue # <<>>
  PROVE  /\ Len(mQueue) \in Nat \ {0} /\ Len(Tail(mQueue)) = Len(mQueue) - 1
         /\ Head(mQueue) = mQueue[1] /\ 1 \in 1 .. Len(mQueue)
         /\ \A i \in 1 .. Len(mQueue) - 1 :
              Tail(mQueue)[i] = mQueue[i + 1] /\ i + 1 \in 1 .. Len(mQueue)
<1>1. mQueue \in Seq(BufferItem) BY Modes DEF TypeOK
<1> QED BY <1>1, SMT

\* The held buffers with one more.
LEMMA MoreHeld ==
  ASSUME IInv, NEW h \in Held
  PROVE  /\ Len(Append(held, h)) = Len(held) + 1 /\ Append(held, h)[Len(held) + 1] = h
         /\ \A i \in 1 .. Len(held) : Append(held, h)[i] = held[i]
<1>1. held \in Seq(Held) BY Modes DEF TypeOK
<1> QED BY <1>1, SMT

\* An item marked stale is otherwise the same.
LEMMA StaleFrames ==
  ASSUME IInv, NEW i \in 1 .. Len(mQueue)
  PROVE  LET x == StaleItems(mQueue)[i]
         IN  x.slot = mQueue[i].slot /\ x.frame = mQueue[i].frame /\ x.buf = mQueue[i].buf
               /\ x.stale
<1>1. mQueue[i] \in BufferItem BY FrameTypes
<1>2. StaleItems(mQueue)[i] = [mQueue[i] EXCEPT !.stale = TRUE, !.acquireCalled = FALSE]
  BY DEF StaleItems
<1> QED BY <1>1, <1>2 DEF BufferItem

\* Marking items stale drops none.
LEMMA StaleLength == ASSUME IInv PROVE Len(StaleItems(mQueue)) = Len(mQueue)
BY FrameTypes, SMT DEF StaleItems

-----------------------------------------------------------------------------
(* Frames stay in order *)

\* queueBuffer keeps the frames in order.
LEMMA QueueingKeepsOrder ==
  ASSUME IInv, FrameInvariant, NEW s \in Slot, Queues(s) PROVE FrameInvariant'
<1> DEFINE item == QueuedItem(s)
           n == Len(mQueue')
<1>1. item \in BufferItem /\ item.frame = mFrameCounter + 1
  BY Modes, QueuedTypes DEF QueuedItem
<1>2. mQueue' = Enqueued(item) /\ UNCHANGED held /\ mFrameCounter' = mFrameCounter + 1
  BY DEF Queues
<1> HIDE DEF item
<1>3. /\ n \in 1 .. Len(mQueue) + 1 /\ mQueue'[n] = item
      /\ \A i \in 1 .. n : i # n => i \in 1 .. Len(mQueue) /\ mQueue'[i] = mQueue[i]
  BY <1>1, <1>2, EnqueuedFrames
<1> HIDE DEF n
<1>4. \A i \in 1 .. n : mQueue'[i].frame > 0 /\ mQueue'[i].frame <= mFrameCounter'
  BY <1>1, <1>2, <1>3, FrameTypes, SMTT(30) DEF FrameInvariant, FramesInOrder
<1>5. ASSUME NEW i \in 1 .. n, NEW j \in 1 .. n, i < j
      PROVE  mQueue'[i].frame < mQueue'[j].frame
  <2>1. n \in Nat /\ i # n BY <1>3, <1>5, SMT
  <2>2. i \in 1 .. Len(mQueue) /\ mQueue'[i] = mQueue[i] BY <1>3, <2>1
  <2>3. mQueue[i].frame < item.frame BY <1>1, <2>2, FrameTypes, SMT DEF FrameInvariant, FramesInOrder
  <2>4. j # n => mQueue'[i].frame < mQueue'[j].frame
    BY <1>3, <1>5, <2>2 DEF FrameInvariant, FramesInOrder
  <2> QED BY <1>3, <2>2, <2>3, <2>4
<1>6. ASSUME NEW i \in 1 .. Len(held), NEW j \in 1 .. n
      PROVE  held[i].frame < mQueue'[j].frame
  <2>1. held[i].frame \in Nat /\ mFrameCounter \in Nat BY FrameTypes
  <2>2. held[i].frame < item.frame BY <1>1, <2>1, SMT DEF FrameInvariant
  <2>3. j # n => held[i].frame < mQueue'[j].frame BY <1>3 DEF FrameInvariant, FramesInOrder
  <2> QED BY <1>3, <2>2, <2>3
<1>7. FramesInOrder' BY <1>2, <1>4, <1>5, <1>6 DEF FramesInOrder, n
<1>8. HeldFramesDiffer' BY <1>2 DEF FrameInvariant, HeldFramesDiffer
<1>9. \A i \in 1 .. Len(held) : held[i].frame <= mFrameCounter'
  BY <1>2, FrameTypes, SMT DEF FrameInvariant
<1> QED BY <1>2, <1>4, <1>7, <1>8, <1>9 DEF FrameInvariant, n

\* Dropping the front keeps the frames in order.
LEMMA DroppingKeepsOrder == ASSUME IInv, FrameInvariant, Drops PROVE FrameInvariant'
<1>1. mQueue # <<>> /\ mQueue' = Tail(mQueue) /\ UNCHANGED <<mFrameCounter, held>>
  BY DEF Drops
<1>2. FramesInOrder' BY <1>1, TailFrames, FrameTypes, SMT DEF FrameInvariant, FramesInOrder
<1>3. HeldFramesDiffer' BY <1>1 DEF FrameInvariant, HeldFramesDiffer
<1> QED BY <1>1, <1>2, <1>3, TailFrames DEF FrameInvariant

\* Acquiring the front keeps the frames in order.
LEMMA AcquiringKeepsOrder == ASSUME IInv, FrameInvariant, Acquires PROVE FrameInvariant'
<1> DEFINE f == Head(mQueue)
           h == [slot |-> f.slot, frame |-> f.frame, buf |-> f.buf]
           n == Len(held)
<1>1. /\ mQueue # <<>> /\ mQueue' = Tail(mQueue) /\ UNCHANGED mFrameCounter
      /\ held' = Append(held, h)
  BY DEF Acquires
<1>2. f = mQueue[1] /\ f \in BufferItem BY <1>1, FrameTypes, TailFrames
<1>3. h \in Held /\ h.frame = f.frame BY <1>2 DEF Held, BufferItem
<1> HIDE DEF f, h
<1>4. /\ Len(held') = n + 1 /\ held'[n + 1] = h
      /\ \A i \in 1 .. n : held'[i] = held[i]
  BY <1>1, <1>3, MoreHeld
<1>5. n \in Nat /\ 1 .. n + 1 = (1 .. n) \cup {n + 1} BY FrameTypes, SMT
<1> HIDE DEF n
<1>6. \A i \in 1 .. n : held[i].frame < f.frame
  BY <1>1, <1>2, TailFrames DEF FrameInvariant, FramesInOrder, n
<1>7. \A i \in 1 .. n + 1 : held'[i].frame <= f.frame /\ held'[i].frame \in Nat
  BY <1>2, <1>3, <1>4, <1>5, <1>6, FrameTypes, SMTT(30) DEF BufferItem, n
<1>8. \A i \in 1 .. n + 1, j \in 1 .. Len(mQueue) - 1 : held'[i].frame < Tail(mQueue)[j].frame
  <2>1. \A j \in 1 .. Len(mQueue) - 1 : Tail(mQueue)[j].frame \in Nat
                                          /\ f.frame < Tail(mQueue)[j].frame
    BY <1>1, <1>2, TailFrames, FrameTypes, SMT DEF FrameInvariant, FramesInOrder
  <2>2. f.frame \in Nat BY <1>2 DEF BufferItem
  <2> QED BY <1>7, <2>1, <2>2, SMT
<1>9. FramesInOrder'
  <2>1. \A i, j \in 1 .. Len(mQueue') : i < j => mQueue'[i].frame < mQueue'[j].frame
    BY <1>1, TailFrames, FrameTypes, SMT DEF FrameInvariant, FramesInOrder
  <2>2. \A i \in 1 .. Len(mQueue') : mQueue'[i].frame <= mFrameCounter'
    BY <1>1, TailFrames, FrameTypes DEF FrameInvariant, FramesInOrder
  <2> QED BY <1>1, <1>4, <1>8, <2>1, <2>2, TailFrames DEF FramesInOrder
<1>10. HeldFramesDiffer'
  <2>1. \A i \in 1 .. n : held'[i].frame # f.frame BY <1>2, <1>4, <1>6, FrameTypes, SMT DEF n, BufferItem
  <2> QED BY <1>3, <1>4, <1>5, <2>1, SMTT(30) DEF FrameInvariant, HeldFramesDiffer, n
<1>11. \A i \in 1 .. n + 1 : held'[i].frame <= mFrameCounter
  <2>1. f.frame <= mFrameCounter /\ f.frame \in Nat /\ mFrameCounter \in Nat
    BY <1>1, <1>2, TailFrames, FrameTypes DEF FrameInvariant, FramesInOrder
  <2> QED BY <1>7, <2>1, SMT
<1>12. \A i \in 1 .. Len(mQueue') : mQueue'[i].frame > 0
  BY <1>1, TailFrames DEF FrameInvariant
<1> QED BY <1>1, <1>4, <1>9, <1>10, <1>11, <1>12 DEF FrameInvariant

\* A buffer that the consumer no longer holds leaves the others in order.
LEMMA ReleasingKeepsOrder ==
  ASSUME IInv, FrameInvariant, NEW i \in 1 .. Len(held), held' = Without(held, i), SameFrames
  PROVE  FrameInvariant'
<1> DEFINE at(j) == IF j < i THEN j ELSE j + 1
<1>1. held \in Seq(Held) BY Modes DEF TypeOK
<1>2. /\ Len(Without(held, i)) = Len(held) - 1
      /\ \A j \in 1 .. Len(held) - 1 :
           /\ Without(held, i)[j] = IF j < i THEN held[j] ELSE held[j + 1]
           /\ (IF j < i THEN j ELSE j + 1) \in 1 .. Len(held) \ {i}
  BY <1>1, WithoutOne
<1>3. \A j \in 1 .. Len(held') : held'[j] = held[at(j)] /\ at(j) \in 1 .. Len(held)
  BY <1>2
<1>4. \A j, k \in 1 .. Len(held') : at(j) = at(k) => j = k
  BY <1>2, FrameTypes, SMT
<1> HIDE DEF at
<1>5. HeldFramesDiffer'
  <2> SUFFICES ASSUME NEW j \in 1 .. Len(held'), NEW k \in 1 .. Len(held'),
                      held'[j].frame = held'[k].frame, held'[j].frame > 0
               PROVE  j = k
    BY DEF HeldFramesDiffer
  <2>1. /\ at(j) \in 1 .. Len(held) /\ at(k) \in 1 .. Len(held)
        /\ held[at(j)].frame = held[at(k)].frame /\ held[at(j)].frame > 0
    BY <1>3
  <2>2. at(j) = at(k) BY <2>1 DEF FrameInvariant, HeldFramesDiffer
  <2> QED BY <1>4, <2>2
<1>6. FramesInOrder' BY <1>3 DEF FrameInvariant, FramesInOrder, SameFrames
<1> QED BY <1>3, <1>5, <1>6 DEF FrameInvariant, SameFrames

\* A buffer the consumer attached has no frame and leaves the others in order.
LEMMA AttachingKeepsOrder ==
  ASSUME IInv, FrameInvariant, NEW h \in Held, h.frame = 0, held' = Append(held, h), SameFrames
  PROVE  FrameInvariant'
<1>1. /\ Len(held') = Len(held) + 1 /\ held'[Len(held) + 1] = h
      /\ \A i \in 1 .. Len(held) : held'[i] = held[i]
  BY MoreHeld
<1>2. Len(held) \in Nat BY FrameTypes
<1>3. HeldFramesDiffer' BY <1>1, <1>2, SMT DEF FrameInvariant, HeldFramesDiffer
<1>4. FramesInOrder' BY <1>1, <1>2, SMT DEF FrameInvariant, FramesInOrder, SameFrames
<1>5. \A i \in 1 .. Len(held') : held'[i].frame <= mFrameCounter
  BY <1>1, <1>2, FrameTypes, SMT DEF FrameInvariant
<1> QED BY <1>3, <1>4, <1>5 DEF FrameInvariant, SameFrames

\* disconnect keeps the frames in order.
LEMMA DisconnectingKeepsOrder ==
  ASSUME IInv, FrameInvariant, Disconnects PROVE FrameInvariant'
<1>1. mQueue' = StaleItems(mQueue) /\ UNCHANGED <<mFrameCounter, held>> BY DEF Disconnects
<1>2. /\ Len(mQueue') = Len(mQueue)
      /\ \A i \in 1 .. Len(mQueue) : mQueue'[i].frame = mQueue[i].frame
  BY <1>1, StaleFrames, StaleLength
<1> QED BY <1>1, <1>2, ZenonT(30) DEF FrameInvariant, FramesInOrder, HeldFramesDiffer

\* Every effect keeps the frames in order.
LEMMA FrameInvariantNext ==
  ASSUME IInv, FrameInvariant, Effect, IInv' PROVE FrameInvariant'
<1>1. ASSUME SameFrames, UNCHANGED held PROVE FrameInvariant'
  BY <1>1 DEF FrameInvariant, FramesInOrder, HeldFramesDiffer, SameFrames
<1>2. CASE Quiet BY <1>1, <1>2 DEF Quiet
<1>3. CASE Drops BY <1>3, DroppingKeepsOrder
<1>4. CASE Acquires BY <1>4, AcquiringKeepsOrder
<1>5. CASE Disconnects BY <1>5, DisconnectingKeepsOrder
<1>6. ASSUME NEW t \in Threads,
             AttachBegins(t) \/ \E s \in Slot :
               AllocationBegins(t, s) \/ AllocationEnds(t, s) \/ Attaches(t, s)
      PROVE  FrameInvariant'
  BY <1>1, <1>6 DEF AttachBegins, AllocationBegins, AllocationEnds, Attaches
<1>7. ASSUME NEW s \in Slot, Takes(s) \/ Fills(s) \/ Cancels(s) \/ Detaches(s)
      PROVE  FrameInvariant'
  <2>1. SameFrames /\ UNCHANGED held BY <1>7 DEF Takes, Fills, Cancels, Detaches
  <2> QED BY <1>1, <2>1
<1>8. ASSUME NEW s \in Slot, Queues(s) PROVE FrameInvariant' BY <1>8, QueueingKeepsOrder
<1>9. ASSUME NEW s \in Slot, ConsumerAttaches(s) PROVE FrameInvariant'
  <2> DEFINE h == [slot |-> s, frame |-> 0, buf |-> mSlots'[s].buf]
  <2>1. mSlots'[s] \in BufferSlot BY DEF IInv, TypeOK
  <2>2. h \in Held /\ h.frame = 0 BY <2>1 DEF Held, BufferSlot
  <2>3. held' = Append(held, h) /\ SameFrames BY <1>9 DEF ConsumerAttaches
  <2> HIDE DEF h
  <2> QED BY <2>2, <2>3, AttachingKeepsOrder
<1>10. ASSUME NEW i \in 1 .. Len(held), Releases(i) \/ ConsumerDetaches(i) PROVE FrameInvariant'
  BY <1>10, ReleasingKeepsOrder DEF Releases, ConsumerDetaches
<1> QED BY <1>2, <1>3, <1>4, <1>5, <1>6, <1>7, <1>8, <1>9, <1>10 DEF Effect

-----------------------------------------------------------------------------
(* The frames of the queue and of the consumer, as sets *)

\* The types of the queue's items and of the held buffers, and the slots that
\* items stand for.
LEMMA ElemsTypes ==
  ASSUME IInv
  PROVE  /\ \A x \in Elems(mQueue) :
              /\ x \in BufferItem /\ x.slot \in Slot /\ x.frame \in Nat
              /\ ~x.stale => mSlots[x.slot].que = 1
         /\ \A h \in Elems(held) : h \in Held /\ h.slot \in Slot /\ h.frame \in Nat
<1>1. Claims(mQueue, mSlots) /\ mQueue \in Seq(BufferItem)
  BY Modes, FramesClaims DEF SlotInvariant, TypeOK
<1>2. \A i \in 1 .. Len(mQueue) : ~mQueue[i].stale => mSlots[mQueue[i].slot].que = 1
  BY <1>1 DEF Claims
<1>3. \A x \in Elems(mQueue) : x \in BufferItem /\ (~x.stale => mSlots[x.slot].que = 1)
  BY <1>2, FrameTypes, SMT DEF Elems
<1>4. \A h \in Elems(held) : h \in Held BY FrameTypes DEF Elems
<1> QED BY <1>3, <1>4 DEF BufferItem, Held

\* The queue with one item more, which may replace the last one.
LEMMA EnqueuedElems ==
  ASSUME IInv, NEW item \in BufferItem
  PROVE  /\ Elems(Enqueued(item)) \subseteq Elems(mQueue) \cup {item}
         /\ item \in Elems(Enqueued(item))
         /\ \A x \in Elems(mQueue) : x \in Elems(Enqueued(item)) \/ (Replaces /\ x = LastItem)
<1>1. Len(Enqueued(item)) \in 1 .. Len(mQueue) + 1 /\ Enqueued(item)[Len(Enqueued(item))] = item
  BY EnqueuedFrames
<1>2. \A i \in 1 .. Len(Enqueued(item)) :
        i # Len(Enqueued(item)) => i \in 1 .. Len(mQueue) /\ Enqueued(item)[i] = mQueue[i]
  BY EnqueuedFrames
<1>3. Len(Enqueued(item)) \in 1 .. Len(Enqueued(item)) BY <1>1, SMT
<1>4. Elems(Enqueued(item)) \subseteq Elems(mQueue) \cup {item}
  BY <1>1, <1>2 DEF Elems
<1>5. item \in Elems(Enqueued(item)) BY <1>1, <1>3 DEF Elems
<1>6. ASSUME NEW i \in 1 .. Len(mQueue)
      PROVE  mQueue[i] \in Elems(Enqueued(item)) \/ (Replaces /\ mQueue[i] = LastItem)
  <2>1. mQueue \in Seq(BufferItem) BY Modes DEF TypeOK
  <2>2. CASE ~Replaces
    <3>1. Enqueued(item) = Append(mQueue, item) BY <2>2 DEF Enqueued
    <3> QED BY <2>1, <3>1, ElemsOfAppend, SMT DEF Elems
  <2>3. CASE Replaces /\ i # Len(mQueue)
    <3>1. Enqueued(item) = [mQueue EXCEPT ![Len(mQueue)] = item] BY <2>3 DEF Enqueued
    <3>2. Enqueued(item)[i] = mQueue[i] /\ i \in 1 .. Len(Enqueued(item)) BY <2>1, <2>3, <3>1, SMT
    <3> QED BY <3>2 DEF Elems
  <2> QED BY <2>2, <2>3 DEF LastItem
<1> QED BY <1>4, <1>5, <1>6 DEF Elems

\* The items of the queue without its front.
LEMMA TailElems ==
  ASSUME IInv, FrameInvariant, mQueue # <<>>
  PROVE  /\ Head(mQueue) \in Elems(mQueue) /\ Elems(Tail(mQueue)) \subseteq Elems(mQueue)
         /\ \A x \in Elems(mQueue) : x = Head(mQueue) \/ x \in Elems(Tail(mQueue))
         /\ \A x \in Elems(Tail(mQueue)) : x.frame # Head(mQueue).frame
<1>1. Head(mQueue) \in Elems(mQueue) BY TailFrames DEF Elems
<1>2. Elems(Tail(mQueue)) \subseteq Elems(mQueue) BY TailFrames DEF Elems
<1>3. ASSUME NEW i \in 1 .. Len(mQueue)
      PROVE  mQueue[i] = Head(mQueue) \/ mQueue[i] \in Elems(Tail(mQueue))
  <2>1. CASE i = 1 BY <2>1, TailFrames
  <2>2. CASE i # 1
    <3>1. i - 1 \in 1 .. Len(Tail(mQueue)) /\ Tail(mQueue)[i - 1] = mQueue[i]
      BY <2>2, TailFrames, SMT
    <3> QED BY <3>1 DEF Elems
  <2> QED BY <2>1, <2>2
<1>4. ASSUME NEW i \in 1 .. Len(Tail(mQueue))
      PROVE  Tail(mQueue)[i].frame # Head(mQueue).frame
  <2>1. i \in Nat /\ 1 < i + 1 /\ i + 1 \in 1 .. Len(mQueue) /\ Tail(mQueue)[i] = mQueue[i + 1]
    BY TailFrames, SMT
  <2>2. mQueue[1].frame < mQueue[i + 1].frame
    BY <2>1, TailFrames DEF FrameInvariant, FramesInOrder
  <2> QED BY <2>1, <2>2, TailFrames, FrameTypes, SMT
<1> QED BY <1>1, <1>2, <1>3, <1>4 DEF Elems

\* The held buffers without one.
LEMMA HeldElems ==
  ASSUME IInv, FrameInvariant, NEW i \in 1 .. Len(held)
  PROVE  /\ held[i] \in Elems(held) /\ Elems(Without(held, i)) \subseteq Elems(held)
         /\ \A h \in Elems(held) : h = held[i] \/ h \in Elems(Without(held, i))
         /\ \A h \in Elems(Without(held, i)) : h.frame > 0 => h.frame # held[i].frame
<1>1. held \in Seq(Held) /\ Len(held) \in Nat /\ i \in Nat BY Modes, FrameTypes, SMTT(30) DEF TypeOK
<1> DEFINE p == Without(held, i)
<1>2. /\ Len(p) = Len(held) - 1
      /\ \A j \in 1 .. Len(held) - 1 :
           /\ p[j] = IF j < i THEN held[j] ELSE held[j + 1]
           /\ (IF j < i THEN j ELSE j + 1) \in 1 .. Len(held) \ {i}
  BY <1>1, WithoutOne
<1> HIDE DEF p
<1>3. \A j \in 1 .. Len(p) : \E k \in 1 .. Len(held) : k # i /\ p[j] = held[k]
  BY <1>2
<1>4. ASSUME NEW k \in 1 .. Len(held), k # i PROVE held[k] \in Elems(p)
  <2>1. CASE k < i
    <3>1. k \in 1 .. Len(p) /\ p[k] = held[k] BY <1>1, <1>2, <2>1, SMT
    <3> QED BY <3>1 DEF Elems
  <2>2. CASE ~(k < i)
    <3>1. k - 1 \in 1 .. Len(p) /\ p[k - 1] = held[k] BY <1>1, <1>2, <1>4, <2>2, SMTT(30)
    <3> QED BY <3>1 DEF Elems
  <2> QED BY <2>1, <2>2
<1>5. held[i] \in Elems(held) /\ Elems(p) \subseteq Elems(held) BY <1>3 DEF Elems
<1>6. \A h \in Elems(held) : h = held[i] \/ h \in Elems(p) BY <1>4 DEF Elems
<1>7. \A h \in Elems(p) : h.frame > 0 => h.frame # held[i].frame
  BY <1>3, SMTT(30) DEF Elems, FrameInvariant, HeldFramesDiffer
<1> QED BY <1>5, <1>6, <1>7 DEF p

\* The items marked stale are those of the queue.
LEMMA StaleElems ==
  ASSUME IInv
  PROVE  \A x \in Elems(StaleItems(mQueue)) : x.stale /\
           \E y \in Elems(mQueue) : x.slot = y.slot /\ x.frame = y.frame /\ x.buf = y.buf
<1>1. \A i \in 1 .. Len(mQueue) : mQueue[i] \in Elems(mQueue) BY DEF Elems
<1>2. Elems(StaleItems(mQueue)) = {StaleItems(mQueue)[i] : i \in 1 .. Len(mQueue)}
  BY StaleLength DEF Elems
<1> QED BY <1>1, <1>2, StaleFrames, ZenonT(30)

-----------------------------------------------------------------------------
(* A buffer is in one place *)

\* Buffers are lost, or stay where they are.
LEMMA BuffersStay ==
  ASSUME BufferInvariant,
         \A u \in Slot :
           \/ mSlots'[u].buf = NoBuffer
           \/ /\ SameContent(mSlots'[u], mSlots[u])
              /\ \/ ~isAcquired(mSlots[u]) \/ isAcquired(mSlots'[u])
                 \/ \A h \in Elems(held') : h.frame > 0 => h.frame # mSlots[u].frame,
         Elems(mQueue') \subseteq Elems(mQueue), Elems(held') \subseteq Elems(held),
         \A t \in Threads : call'[t].buf \in {call[t].buf, NoBuffer}
  PROVE  BufferInvariant'
<1>1. SlotsDiffer' BY ZenonT(30) DEF BufferInvariant, SlotsDiffer, SameContent
<1>2. QueuedInSlot' BY SMT DEF BufferInvariant, QueuedInSlot, SameContent
<1>3. QueuedDiffer' BY DEF BufferInvariant, QueuedDiffer
<1>4. QueuedNotHeld' BY DEF BufferInvariant, QueuedNotHeld
<1>5. HeldInSlot' BY SMT DEF BufferInvariant, HeldInSlot, SameContent
<1>6. AttachedApart' BY SMT DEF BufferInvariant, AttachedApart, SameContent
<1> QED BY <1>1, <1>2, <1>3, <1>4, <1>5, <1>6 DEF BufferInvariant

\* A buffer that was in no slot and in no frame goes to slot s.
LEMMA BufferArrives ==
  ASSUME BufferInvariant, NEW s \in Slot, NEW b, b # NoBuffer, mSlots'[s].buf = b,
         \A u \in Slot : mSlots[u].buf # b,
         \A x \in Elems(mQueue) : x.buf # b,
         \A h \in Elems(held) : h.buf # b,
         \A t \in Threads : call'[t].buf \in {call[t].buf, NoBuffer} /\ call'[t].buf # b,
         OthersSame({s}), UNCHANGED mQueue,
         \A h \in Elems(held') : h \in Elems(held) \/ (h.frame = 0 /\ h.buf = b)
  PROVE  BufferInvariant'
<1>1. \A u \in Slot \ {s} : SameContent(mSlots'[u], mSlots[u]) /\ mSlots'[u].acq = mSlots[u].acq
  BY DEF OthersSame, SameSlot, SameOwners
<1>2. SlotsDiffer' BY <1>1, SMT DEF BufferInvariant, SlotsDiffer, SameContent
<1>3. QueuedInSlot' BY <1>1, SMT DEF BufferInvariant, QueuedInSlot, SameContent
<1>4. QueuedDiffer' BY DEF BufferInvariant, QueuedDiffer
<1>5. QueuedNotHeld' BY DEF BufferInvariant, QueuedNotHeld
<1>6. HeldInSlot' BY <1>1, SMT DEF BufferInvariant, HeldInSlot, SameContent, isAcquired
<1>7. AttachedApart' BY <1>1, SMT DEF BufferInvariant, AttachedApart, SameContent
<1> QED BY <1>2, <1>3, <1>4, <1>5, <1>6, <1>7 DEF BufferInvariant

\* A buffer just allocated is in no slot, item, hand or call.
LEMMA FreshIsNowhere ==
  ASSUME NEW b, Fresh(b)
  PROVE  /\ b # NoBuffer /\ \A u \in Slot : mSlots[u].buf # b
         /\ \A x \in Elems(mQueue) : x.buf # b
         /\ \A h \in Elems(held) : h.buf # b
         /\ \A t \in Threads : call[t].buf # b
BY DEF Fresh, FreshBuffers, LiveBuffers, Elems

\* A slot that is not the consumer's may go anywhere.
LEMMA NotAcquired ==
  ASSUME IInv, NEW s \in Slot
  PROVE  /\ isDequeued(mSlots[s]) \/ s \notin mActiveBuffers =>
              ~isAcquired(mSlots[s]) /\ \A x \in Elems(mQueue) : x.slot = s => x.stale
         /\ mSlots[s].que = 1 => ~isAcquired(mSlots[s])
<1>1. isDequeued(mSlots[s]) \/ s \notin mActiveBuffers => mSlots[s].que = 0 /\ mSlots[s].acq = 0
  BY OneOwnerEach, SMT DEF isDequeued
<1>2. mSlots[s].que = 1 => mSlots[s].acq = 0 BY OneOwnerEach
<1> QED BY <1>1, <1>2, ElemsTypes, SMT DEF isAcquired

\* queueBuffer leaves each buffer in one place.
LEMMA QueueingKeepsBuffers ==
  ASSUME IInv, BufferInvariant, NEW s \in Slot, Queues(s) PROVE BufferInvariant'
<1> DEFINE item == QueuedItem(s)
<1>1. item \in BufferItem BY Modes, QueuedTypes
<1>2. /\ item.slot = s /\ item.frame = mFrameCounter + 1 /\ item.buf = mSlots[s].buf
      /\ ~item.stale
  BY DEF QueuedItem
<1>3. Elems(mQueue') \subseteq Elems(mQueue) \cup {item}
  BY <1>1, EnqueuedElems DEF Queues
<1> HIDE DEF item
<1>4. mSlots'[s].buf = mSlots[s].buf /\ mSlots'[s].frame = item.frame
  <2>1. mSlots[s] \in BufferSlot BY Modes DEF TypeOK
  <2>2. QueuedSlot(s).buf = mSlots[s].buf /\ QueuedSlot(s).frame = mFrameCounter + 1
    BY <2>1 DEF QueuedSlot, queue, BufferSlot
  <2> QED BY <1>2, <2>2 DEF Queues, SameContent
<1>5. ~isAcquired(mSlots[s]) /\ \A x \in Elems(mQueue) : x.slot = s => x.stale
  BY NotAcquired DEF Queues, ProducerOwns
<1>6. \A u \in Slot \ {s} : SameContent(mSlots'[u], mSlots[u]) BY DEF Queues
<1>7. \A u \in Slot \ {s} : isAcquired(mSlots[u]) => isAcquired(mSlots'[u])
  <2>1. CASE Replaces /\ ~LastItem.stale
    <3>1. LastItem \in Elems(mQueue)
      <4>1. mQueue \in Seq(BufferItem) /\ mQueue # <<>> BY <2>1, Modes DEF TypeOK, Replaces
      <4>2. Len(mQueue) \in 1 .. Len(mQueue) BY <4>1, SMT
      <4> QED BY <4>2 DEF LastItem, Elems
    <3>2. LastItem.slot \in Slot /\ ~isAcquired(mSlots[LastItem.slot])
      BY <2>1, <3>1, ElemsTypes, NotAcquired
    <3> QED BY <3>2 DEF Queues, SameOwners, isAcquired
  <2>2. CASE ~(Replaces /\ ~LastItem.stale) BY <2>2 DEF Queues, SameOwners, isAcquired
  <2> QED BY <2>1, <2>2
<1>8. held' = held /\ \A t \in Threads : call'[t].buf \in {call[t].buf, NoBuffer}
  BY DEF Queues, QuietCalls, QuietThread
<1>9. SlotsDiffer' BY <1>4, <1>6, ZenonT(30) DEF BufferInvariant, SlotsDiffer, SameContent
<1>10. \A x \in Elems(mQueue) : x.buf = mSlots[s].buf => x.buf = NoBuffer
  BY <1>5 DEF BufferInvariant, QueuedInSlot
<1>11. QueuedInSlot'
  BY <1>2, <1>3, <1>4, <1>6, <1>10, SMT DEF BufferInvariant, QueuedInSlot, SlotsDiffer, SameContent
<1>12. QueuedDiffer' BY <1>2, <1>3, <1>10 DEF BufferInvariant, QueuedDiffer
<1>13. \A h \in Elems(held) : h.buf = mSlots[s].buf /\ h.frame > 0 => h.buf = NoBuffer
  BY <1>5 DEF BufferInvariant, HeldInSlot
<1>14. QueuedNotHeld'
  <2>1. \A h \in Elems(held) : h.frame \in Nat BY ElemsTypes
  <2> QED BY <1>2, <1>3, <1>8, <1>13, <2>1, SMTT(30) DEF BufferInvariant, QueuedNotHeld
<1>15. HeldInSlot'
  BY <1>4, <1>6, <1>7, <1>8, <1>13, SMTT(30) DEF BufferInvariant, HeldInSlot, SameContent
<1>16. AttachedApart'
  BY <1>2, <1>3, <1>4, <1>6, <1>8, SMTT(30) DEF BufferInvariant, AttachedApart, SameContent
<1> QED BY <1>9, <1>11, <1>12, <1>14, <1>15, <1>16 DEF BufferInvariant

\* Acquiring the front leaves each buffer in one place.
LEMMA AcquiringKeepsBuffers ==
  ASSUME IInv, FrameInvariant, BufferInvariant, Acquires PROVE BufferInvariant'
<1> DEFINE f == Head(mQueue)
           h == [slot |-> f.slot, frame |-> f.frame, buf |-> f.buf]
<1>1. mQueue # <<>> /\ mQueue' = Tail(mQueue) /\ held' = Append(held, h) BY DEF Acquires
<1>2. f \in Elems(mQueue) /\ f \in BufferItem BY <1>1, TailElems, ElemsTypes
<1>3. h.slot = f.slot /\ h.frame = f.frame /\ h.buf = f.buf OBVIOUS
<1>4. Elems(held') = Elems(held) \cup {h}
  <2>1. h \in Held BY <1>2 DEF Held, BufferItem
  <2>2. held \in Seq(Held) BY Modes DEF TypeOK
  <2> HIDE DEF h
  <2> QED BY <1>1, <2>1, <2>2, ElemsOfAppend, SMTT(30)
<1>5. /\ Elems(mQueue') \subseteq Elems(mQueue)
      /\ \A x \in Elems(mQueue') : x.frame # f.frame
  BY <1>1, TailElems
<1>6. \A u \in Slot : SameContent(mSlots'[u], mSlots[u]) BY DEF Acquires
<1>7. \A u \in Slot : isAcquired(mSlots[u]) => isAcquired(mSlots'[u])
  BY SMT DEF Acquires, OthersSame, SameSlot, SameOwners, isAcquired
<1>8. ~f.stale => isAcquired(mSlots'[f.slot]) BY SMT DEF Acquires, isAcquired
<1>9. \A t \in Threads : call'[t].buf \in {call[t].buf, NoBuffer}
  BY DEF Acquires, QuietCalls, QuietThread
<1> HIDE DEF f, h
<1>10. SlotsDiffer' BY <1>6 DEF BufferInvariant, SlotsDiffer, SameContent
<1>11. QueuedInSlot' BY <1>5, <1>6, SMT DEF BufferInvariant, QueuedInSlot, SameContent
<1>12. QueuedDiffer' BY <1>5 DEF BufferInvariant, QueuedDiffer
<1>13. QueuedNotHeld'
  BY <1>2, <1>3, <1>4, <1>5 DEF BufferInvariant, QueuedNotHeld, QueuedDiffer
<1>14. HeldInSlot'
  BY <1>2, <1>3, <1>4, <1>6, <1>7, <1>8, SMTT(30)
  DEF BufferInvariant, HeldInSlot, QueuedInSlot, SameContent
<1>15. AttachedApart'
  BY <1>2, <1>3, <1>4, <1>5, <1>6, <1>9, SMTT(30) DEF BufferInvariant, AttachedApart, SameContent
<1> QED BY <1>10, <1>11, <1>12, <1>13, <1>14, <1>15 DEF BufferInvariant

\* disconnect leaves each buffer in one place.
LEMMA DisconnectingKeepsBuffers ==
  ASSUME IInv, BufferInvariant, Disconnects PROVE BufferInvariant'
<1>1. \A u \in Slot : \/ mSlots'[u].buf = NoBuffer
                      \/ u \in mUnusedSlots /\ mSlots'[u] = mSlots[u]
  BY SMT DEF Disconnects, Cleared, NewSlot
<1>2. \A u \in mUnusedSlots :
        /\ u \in Slot /\ ~isAcquired(mSlots[u])
        /\ \A x \in Elems(mQueue) : x.slot = u => x.stale
  <2>1. mUnusedSlots \subseteq Slot \ mActiveBuffers
    BY Modes DEF TypeOK, ListsPartitionSlots
  <2> QED BY <2>1, NotAcquired
<1>3. \A x \in Elems(mQueue') :
        \E y \in Elems(mQueue) : x.slot = y.slot /\ x.frame = y.frame /\ x.buf = y.buf
  BY StaleElems DEF Disconnects
<1>4. held' = held /\ \A t \in Threads : call'[t].buf \in {call[t].buf, NoBuffer}
  BY DEF Disconnects, QuietCalls, QuietThread
<1>5. SlotsDiffer' BY <1>1, <1>2, ZenonT(30) DEF BufferInvariant, SlotsDiffer
<1>6. QueuedInSlot' BY <1>1, <1>2, <1>3, SMT DEF BufferInvariant, QueuedInSlot
<1>7. QueuedDiffer' BY <1>3, SMT DEF BufferInvariant, QueuedDiffer
<1>8. QueuedNotHeld' BY <1>3, <1>4, ZenonT(30) DEF BufferInvariant, QueuedNotHeld
<1>9. HeldInSlot' BY <1>1, <1>2, <1>4, SMTT(30) DEF BufferInvariant, HeldInSlot
<1>10. AttachedApart' BY <1>1, <1>2, <1>3, <1>4, SMTT(30) DEF BufferInvariant, AttachedApart
<1> QED BY <1>5, <1>6, <1>7, <1>8, <1>9, <1>10 DEF BufferInvariant

\* The steps that neither bring a buffer nor move one between queue and consumer.
LEMMA LosingKeepsBuffers ==
  ASSUME IInv, FrameInvariant, BufferInvariant,
         \/ Quiet \/ Drops
         \/ \E s \in Slot : Takes(s) \/ Cancels(s) \/ Detaches(s)
         \/ \E t \in Threads, s \in Slot : AllocationBegins(t, s)
         \/ \E i \in 1 .. Len(held) : Releases(i) \/ ConsumerDetaches(i)
  PROVE  BufferInvariant'
<1> USE DEF SameSlot, SameOwners, isAcquired
<1>1. QuietCalls => \A t \in Threads : call'[t].buf \in {call[t].buf, NoBuffer}
  BY DEF QuietCalls, QuietThread
<1>2. Cleared.buf = NoBuffer BY DEF Cleared, NewSlot
<1>3. CASE Quiet
  <2>1. \A u \in Slot : mSlots'[u] = Cleared \/ SameSlot(mSlots'[u], mSlots[u])
    BY <1>3 DEF Quiet, OthersSame
  <2> QED BY <1>1, <1>2, <1>3, <2>1, BuffersStay DEF Quiet, SameFrames
<1>4. CASE Drops
  <2>1. mQueue # <<>> /\ mQueue' = Tail(mQueue) /\ held' = held /\ QuietCalls
    BY <1>4 DEF Drops
  <2>2. Elems(mQueue') \subseteq Elems(mQueue) /\ Head(mQueue) \in Elems(mQueue)
    BY <2>1, TailElems
  <2>3. ~Head(mQueue).stale => ~isAcquired(mSlots[Head(mQueue).slot])
    BY <2>2, ElemsTypes, NotAcquired
  <2>4. \A u \in Slot : SameContent(mSlots'[u], mSlots[u])
                          /\ (isAcquired(mSlots[u]) => isAcquired(mSlots'[u]))
    BY <1>4, <2>3 DEF Drops, OthersSame
  <2> QED BY <1>1, <2>1, <2>2, <2>4, BuffersStay
<1>5. ASSUME NEW s \in Slot, Takes(s) \/ Cancels(s) \/ Detaches(s) PROVE BufferInvariant'
  <2>1. SameFrames /\ held' = held /\ QuietCalls /\ OthersSame({s})
    BY <1>5 DEF Takes, Cancels, Detaches
  <2>2. mSlots'[s].buf = NoBuffer \/ SameContent(mSlots'[s], mSlots[s])
    BY <1>2, <1>5 DEF Takes, Cancels, Detaches, Empties
  <2>3. ~isAcquired(mSlots[s])
    BY <1>5, NotAcquired DEF Takes, Cancels, Detaches, Activates, ProducerOwns
  <2> QED BY <1>1, <2>1, <2>2, <2>3, BuffersStay DEF SameFrames, OthersSame
<1>6. ASSUME NEW t \in Threads, NEW s \in Slot, AllocationBegins(t, s) PROVE BufferInvariant'
  <2>1. \A u \in Slot : mSlots'[u].buf = NoBuffer \/ SameSlot(mSlots'[u], mSlots[u])
    BY <1>6 DEF AllocationBegins, OthersSame
  <2>2. \A u \in Threads : call'[u].buf \in {call[u].buf, NoBuffer}
    BY <1>6 DEF AllocationBegins, QuietExcept
  <2>3. mQueue' = mQueue /\ held' = held BY <1>6 DEF AllocationBegins, SameFrames
  <2> QED BY <2>1, <2>2, <2>3, BuffersStay
<1>7. ASSUME NEW i \in 1 .. Len(held), Releases(i) PROVE BufferInvariant'
  <2>1. held' = Without(held, i) /\ SameFrames /\ QuietCalls BY <1>7 DEF Releases
  <2>2. /\ Elems(held') \subseteq Elems(held)
        /\ \A h \in Elems(held') : h.frame > 0 => h.frame # held[i].frame
    BY <2>1, HeldElems
  <2>3. \A u \in Slot : SameContent(mSlots'[u], mSlots[u]) BY <1>7 DEF Releases
  <2>4. \A u \in Slot : \/ mSlots'[u].acq = mSlots[u].acq \/ held[i].frame = mSlots[u].frame
    BY <1>7 DEF Releases, OthersSame
  <2> QED BY <1>1, <2>1, <2>2, <2>3, <2>4, BuffersStay DEF SameFrames
<1>8. ASSUME NEW i \in 1 .. Len(held), ConsumerDetaches(i) PROVE BufferInvariant'
  <2>1. held' = Without(held, i) /\ SameFrames /\ QuietCalls BY <1>8 DEF ConsumerDetaches
  <2>2. Elems(held') \subseteq Elems(held) BY <2>1, HeldElems
  <2>3. \A u \in Slot : mSlots'[u].buf = NoBuffer \/ SameSlot(mSlots'[u], mSlots[u])
    BY <1>2, <1>8 DEF ConsumerDetaches, Empties, OthersSame
  <2> QED BY <1>1, <2>1, <2>2, <2>3, BuffersStay DEF SameFrames
<1> QED BY <1>3, <1>4, <1>5, <1>6, <1>7, <1>8

\* The steps that bring a buffer.
LEMMA ArrivingKeepsBuffers ==
  ASSUME IInv, BufferInvariant, AttachHasBuffer, IInv',
         \/ \E t \in Threads : AttachBegins(t)
         \/ \E t \in Threads, s \in Slot : AllocationEnds(t, s) \/ Attaches(t, s)
         \/ \E s \in Slot : Fills(s) \/ ConsumerAttaches(s)
  PROVE  BufferInvariant'
<1>1. ASSUME NEW t \in Threads, AttachBegins(t) PROVE BufferInvariant'
  <2>1. \A u \in Slot : SameContent(mSlots'[u], mSlots[u]) /\ mSlots'[u].acq = mSlots[u].acq
    BY <1>1 DEF AttachBegins, OthersSame, SameSlot, SameOwners
  <2>2. mQueue' = mQueue /\ held' = held BY <1>1 DEF AttachBegins, SameFrames
  <2>3. Fresh(call'[t].buf) /\ \A u \in Threads \ {t} : call'[u] = call[u]
    BY <1>1 DEF AttachBegins, QuietExcept
  <2>4. AttachedApart'
    <3>1. AttachedApart BY DEF BufferInvariant
    <3>2. /\ \A u \in Slot : mSlots[u].buf # call'[t].buf
          /\ \A x \in Elems(mQueue) : x.buf # call'[t].buf
          /\ \A h \in Elems(held) : h.buf # call'[t].buf
          /\ \A u \in Threads : call[u].buf # call'[t].buf
      BY <2>3, FreshIsNowhere
    <3>3. \A u \in Slot : mSlots'[u].buf = mSlots[u].buf BY <2>1 DEF SameContent
    <3> SUFFICES ASSUME NEW u \in Threads, call'[u].buf # NoBuffer
                 PROVE  /\ \A s \in Slot : call'[u].buf # mSlots'[s].buf
                        /\ \A x \in Elems(mQueue') : call'[u].buf # x.buf
                        /\ \A h \in Elems(held') : call'[u].buf # h.buf
                        /\ \A v \in Threads : call'[u].buf = call'[v].buf => u = v
      BY DEF AttachedApart
    <3>4. CASE u = t BY <2>2, <2>3, <3>2, <3>3, <3>4
    <3>5. CASE u # t
      <4>1. call'[u] = call[u] BY <2>3, <3>5
      <4>2. /\ \A s \in Slot : call[u].buf # mSlots[s].buf
            /\ \A x \in Elems(mQueue) : call[u].buf # x.buf
            /\ \A h \in Elems(held) : call[u].buf # h.buf
            /\ \A v \in Threads : call[u].buf = call[v].buf => u = v
        BY <3>1, <4>1 DEF AttachedApart
      <4>3. ASSUME NEW v \in Threads, call'[u].buf = call'[v].buf PROVE u = v
        BY <2>3, <3>2, <4>1, <4>2, <4>3
      <4> QED BY <2>2, <3>3, <4>1, <4>2, <4>3
    <3> QED BY <3>4, <3>5
  <2>5. SlotsDiffer' /\ QueuedInSlot' /\ HeldInSlot'
    BY <2>1, <2>2, SMT
    DEF BufferInvariant, SlotsDiffer, QueuedInSlot, HeldInSlot, SameContent, isAcquired
  <2>6. QueuedDiffer' /\ QueuedNotHeld' BY <2>2 DEF BufferInvariant, QueuedDiffer, QueuedNotHeld
  <2> QED BY <2>4, <2>5, <2>6 DEF BufferInvariant
<1>2. Idle.buf = NoBuffer BY DEF Idle
<1>3. ASSUME NEW t \in Threads, NEW s \in Slot, AllocationEnds(t, s) PROVE BufferInvariant'
  <2>1. Fresh(mSlots'[s].buf) /\ OthersSame({s}) /\ mQueue' = mQueue /\ held' = held
    BY <1>3 DEF AllocationEnds, SameFrames
  <2>2. \A u \in Threads : call'[u].buf \in {call[u].buf, NoBuffer}
    BY <1>2, <1>3 DEF AllocationEnds, QuietExcept
  <2> QED BY <2>1, <2>2, FreshIsNowhere, BufferArrives
<1>4. ASSUME NEW t \in Threads, NEW s \in Slot, Attaches(t, s) PROVE BufferInvariant'
  <2> DEFINE b == call[t].buf
  <2>1. /\ b # NoBuffer /\ mSlots'[s].buf = b /\ OthersSame({s}) /\ mQueue' = mQueue
        /\ held' = held
    BY <1>4 DEF Attaches, SameFrames
  <2>2. call'[t].buf = NoBuffer /\ \A u \in Threads \ {t} : call'[u] = call[u]
    BY <1>2, <1>4 DEF Attaches, QuietExcept
  <2>3. /\ \A u \in Slot : mSlots[u].buf # b
        /\ \A x \in Elems(mQueue) : x.buf # b
        /\ \A h \in Elems(held) : h.buf # b
        /\ \A u \in Threads : b = call[u].buf => t = u
    BY <2>1 DEF BufferInvariant, AttachedApart
  <2> HIDE DEF b
  <2>4. \A u \in Threads : call'[u].buf \in {call[u].buf, NoBuffer} /\ call'[u].buf # b
    BY <2>1, <2>2, <2>3
  <2> QED BY <2>1, <2>3, <2>4, BufferArrives
<1>5. ASSUME NEW s \in Slot, Fills(s) PROVE BufferInvariant'
  <2>1. Fresh(mSlots'[s].buf) /\ OthersSame({s}) /\ mQueue' = mQueue /\ held' = held
    BY <1>5 DEF Fills, SameFrames
  <2>2. \A u \in Threads : call'[u].buf \in {call[u].buf, NoBuffer}
    BY <1>5 DEF Fills, QuietCalls, QuietThread
  <2> QED BY <2>1, <2>2, FreshIsNowhere, BufferArrives
<1>6. ASSUME NEW s \in Slot, ConsumerAttaches(s) PROVE BufferInvariant'
  <2> DEFINE b == mSlots'[s].buf
             h == [slot |-> s, frame |-> 0, buf |-> b]
  <2>1. Fresh(b) /\ OthersSame({s}) /\ mQueue' = mQueue /\ held' = Append(held, h)
    BY <1>6 DEF ConsumerAttaches, SameFrames
  <2>2. \A u \in Threads : call'[u].buf \in {call[u].buf, NoBuffer}
    BY <1>6 DEF ConsumerAttaches, QuietCalls, QuietThread
  <2>3. Elems(held') = Elems(held) \cup {h} /\ h.frame = 0 /\ h.buf = b
    <3>1. mSlots'[s] \in BufferSlot BY DEF IInv, TypeOK
    <3>2. h \in Held BY <3>1 DEF Held, BufferSlot
    <3>3. held \in Seq(Held) BY Modes DEF TypeOK
    <3>4. h.frame = 0 /\ h.buf = b OBVIOUS
    <3> HIDE DEF h
    <3> QED BY <2>1, <3>2, <3>3, <3>4, ElemsOfAppend, ZenonT(30)
  <2> HIDE DEF h
  <2> QED BY <2>1, <2>2, <2>3, FreshIsNowhere, BufferArrives, ZenonT(30)
<1> QED BY <1>1, <1>3, <1>4, <1>5, <1>6

\* Every effect leaves each buffer in one place.
LEMMA BufferInvariantNext ==
  ASSUME IInv, FrameInvariant, BufferInvariant, AttachHasBuffer, Effect, IInv'
  PROVE  BufferInvariant' /\ AttachHasBuffer'
<1>1. BufferInvariant'
  BY LosingKeepsBuffers, ArrivingKeepsBuffers, QueueingKeepsBuffers, AcquiringKeepsBuffers,
     DisconnectingKeepsBuffers DEF Effect
<1>2. AttachHasBuffer'
  <2>1. QuietCalls => AttachHasBuffer'
    BY DEF AttachHasBuffer, QuietCalls, QuietThread
  <2>2. ASSUME NEW t \in Threads, QuietExcept(t), call'[t].op # "attach" \/ call'[t].buf # NoBuffer
        PROVE  AttachHasBuffer'
    BY <2>2 DEF AttachHasBuffer, QuietExcept
  <2>3. Idle.op # "attach" BY DEF Idle
  <2>4. ASSUME NEW t \in Threads, AttachBegins(t) PROVE AttachHasBuffer'
    BY <2>2, <2>4 DEF AttachBegins, Fresh
  <2>5. ASSUME NEW t \in Threads, NEW s \in Slot,
               AllocationBegins(t, s) \/ AllocationEnds(t, s) \/ Attaches(t, s)
        PROVE  AttachHasBuffer'
    BY <2>2, <2>3, <2>5 DEF AllocationBegins, AllocationEnds, Attaches, Allocates
  <2>6. QuietCalls \/ \E t \in Threads : AttachBegins(t) \/ \E s \in Slot :
          AllocationBegins(t, s) \/ AllocationEnds(t, s) \/ Attaches(t, s)
    BY DEF Effect, Quiet, Drops, Acquires, Disconnects, Takes, Fills, Queues, Cancels, Detaches,
        ConsumerAttaches, Releases, ConsumerDetaches
  <2> QED BY <2>1, <2>4, <2>5, <2>6
<1> QED BY <1>1, <1>2

-----------------------------------------------------------------------------
(* The slots the queue counts as its own have a frame *)

\* A slot with another owner, or with none, is not queued.
LEMMA NextOwner ==
  ASSUME IInv', NEW s \in Slot
  PROVE  /\ mSlots'[s].que \in Nat
         /\ s \notin mActiveBuffers' \/ mSlots'[s].deq = 1 \/ mSlots'[s].acq = 1 =>
              mSlots'[s].que = 0
<1>1. mSlots'[s] \in BufferSlot BY DEF IInv, TypeOK
<1>2. mSlots'[s].deq \in Nat /\ mSlots'[s].que \in Nat /\ mSlots'[s].acq \in Nat
  BY <1>1, OwnersAreNat
<1>3. mSlots'[s].deq + mSlots'[s].que + mSlots'[s].acq = IF s \in mActiveBuffers' THEN 1 ELSE 0
  BY DEF IInv, SlotInvariant, ActiveHasOneOwner
<1> QED BY <1>2, <1>3, SMTT(30)

\* Every effect leaves a frame to each slot counted as queued.
LEMMA QueuedHaveFramesNext ==
  ASSUME IInv, FrameInvariant, QueuedHaveFrames, Effect, IInv' PROVE QueuedHaveFrames'
<1> DEFINE Kept(u) == mSlots'[u].que = mSlots[u].que
           None(u) == mSlots'[u].que = 0
<1>1. ASSUME UNCHANGED mQueue, \A u \in Slot : Kept(u) \/ None(u) PROVE QueuedHaveFrames'
  BY <1>1, SMT DEF QueuedHaveFrames
<1>2. ASSUME NEW S, OthersSame(S) PROVE \A u \in Slot \ S : Kept(u)
  BY <1>2 DEF OthersSame, SameSlot, SameOwners
<1>3. Cleared.que = 0 BY DEF Cleared, NewSlot
<1>4. CASE Quiet
  <2>1. \A u \in Slot : mSlots'[u] = Cleared \/ Kept(u)
    BY <1>4 DEF Quiet, OthersSame, SameSlot, SameOwners
  <2> QED BY <1>1, <1>3, <1>4, <2>1 DEF Quiet, SameFrames
<1>5. ASSUME NEW t \in Threads, AttachBegins(t) PROVE QueuedHaveFrames'
  BY <1>1, <1>2, <1>5, SMTT(30) DEF AttachBegins, SameFrames
<1>6. ASSUME NEW t \in Threads, NEW s \in Slot,
             AllocationBegins(t, s) \/ AllocationEnds(t, s) \/ Attaches(t, s)
      PROVE  QueuedHaveFrames'
  <2>1. OthersSame({s}) /\ mQueue' = mQueue
    BY <1>6 DEF AllocationBegins, AllocationEnds, Attaches, SameFrames
  <2>2. Kept(s) \/ None(s)
    BY <1>6, NextOwner DEF AllocationBegins, AllocationEnds, Attaches, SameOwners
  <2> QED BY <1>1, <1>2, <2>1, <2>2, SMTT(30)
<1>7. ASSUME NEW s \in Slot, Takes(s) \/ Fills(s) \/ Cancels(s) \/ Detaches(s)
                               \/ ConsumerAttaches(s)
      PROVE  QueuedHaveFrames'
  <2>1. OthersSame({s}) /\ mQueue' = mQueue
    BY <1>7 DEF Takes, Fills, Cancels, Detaches, ConsumerAttaches, SameFrames
  <2>2. None(s)
    <3>1. CASE Takes(s) \/ ConsumerAttaches(s)
      BY <3>1, NextOwner DEF Takes, ConsumerAttaches
    <3>2. CASE Fills(s) \/ Cancels(s)
      <4>1. s \notin mActiveBuffers'
        BY <3>2, Modes DEF Fills, Cancels, Frees, ListsPartitionSlots
      <4> QED BY <4>1, NextOwner
    <3>3. CASE Detaches(s) BY <1>3, <3>3 DEF Detaches, Empties
    <3> QED BY <1>7, <3>1, <3>2, <3>3
  <2> QED BY <1>1, <1>2, <2>1, <2>2, SMTT(30)
<1>8. ASSUME NEW i \in 1 .. Len(held), Releases(i) \/ ConsumerDetaches(i) PROVE QueuedHaveFrames'
  <2> DEFINE s == held[i].slot
  <2>1. mQueue' = mQueue BY <1>8 DEF Releases, ConsumerDetaches, SameFrames
  <2>2. OthersSame({}) \/ (OthersSame({s}) /\ s \notin mActiveBuffers')
    BY <1>8 DEF Releases, ConsumerDetaches, Frees, Empties
  <2>3. s \in Slot BY FrameTypes DEF Held
  <2> QED BY <1>1, <1>2, <2>1, <2>2, <2>3, NextOwner, SMTT(30)
<1>9. CASE Disconnects
  <2>1. ASSUME NEW u \in Slot PROVE None(u)
    <3>1. CASE u \in mUnusedSlots
      <4>1. u \notin mActiveBuffers' BY <1>9 DEF Disconnects
      <4> QED BY <4>1, NextOwner
    <3> QED BY <1>3, <1>9, <3>1 DEF Disconnects
  <2> QED BY <2>1, SMT DEF QueuedHaveFrames
<1>10. CASE Drops \/ Acquires
  <2> DEFINE f == Head(mQueue)
  <2>1. /\ mQueue # <<>> /\ mQueue' = Tail(mQueue)
        /\ OthersSame(IF f.stale THEN {} ELSE {f.slot})
        /\ ~f.stale => f.slot \notin mActiveBuffers' \/ mSlots'[f.slot].acq = 1
    BY <1>10 DEF Drops, Acquires, GivesUp, Frees
  <2>2. f \in Elems(mQueue) /\ f.slot \in Slot BY <2>1, TailElems, ElemsTypes
  <2>3. \A x \in Elems(mQueue) : x = f \/ x \in Elems(mQueue') BY <2>1, TailElems
  <2> HIDE DEF f
  <2>4. ~f.stale => None(f.slot) BY <2>1, <2>2, NextOwner
  <2> QED BY <1>2, <2>1, <2>3, <2>4, SMTT(30) DEF QueuedHaveFrames
<1>11. ASSUME NEW s \in Slot, Queues(s) PROVE QueuedHaveFrames'
  <2> DEFINE item == QueuedItem(s)
  <2>1. item \in BufferItem BY Modes, QueuedTypes
  <2>2. item.slot = s /\ ~item.stale BY DEF QueuedItem
  <2>3. mQueue' = Enqueued(item) BY <1>11 DEF Queues
  <2> HIDE DEF item
  <2>4. /\ item \in Elems(mQueue')
        /\ \A x \in Elems(mQueue) : x \in Elems(mQueue') \/ (Replaces /\ x = LastItem)
    BY <2>1, <2>3, EnqueuedElems
  <2>5. Replaces /\ ~LastItem.stale => LastItem.slot \notin mActiveBuffers'
    BY <1>11 DEF Queues, GivesUp, Frees
  <2>6. ASSUME NEW u \in Slot, u # s, mSlots'[u].que > 0
        PROVE  \E x \in Elems(mQueue') : ~x.stale /\ x.slot = u
    <3>1. ~(Replaces /\ ~LastItem.stale /\ u = LastItem.slot) BY <2>5, <2>6, NextOwner, SMT
    <3>2. mSlots'[u].que = mSlots[u].que BY <1>11, <2>6, <3>1 DEF Queues, SameOwners
    <3>3. PICK x \in Elems(mQueue) : ~x.stale /\ x.slot = u
      BY <2>6, <3>2 DEF QueuedHaveFrames
    <3> QED BY <2>4, <3>1, <3>3
  <2> QED BY <2>2, <2>4, <2>6 DEF QueuedHaveFrames
<1> QED BY <1>4, <1>5, <1>6, <1>7, <1>8, <1>9, <1>10, <1>11, ZenonT(30) DEF Effect

-----------------------------------------------------------------------------
(* Where the invariants begin, and what they say *)

\* These invariants hold initially.
LEMMA InvariantsInit ==
  ASSUME Init
  PROVE  /\ FrameInvariant /\ BufferInvariant /\ AttachHasBuffer /\ QueuedHaveFrames
         /\ AllocationInvariant
<1>1. mQueue = <<>> /\ held = <<>> /\ mSlots = [s \in Slot |-> NewSlot]
      /\ call = [t \in Threads |-> Idle] /\ mFreeBuffers = <<>> /\ mActiveBuffers = {}
  BY DEF Init
<1>2. Elems(mQueue) = {} /\ Elems(held) = {} /\ FreeBufferSet = {}
  BY <1>1, SMT DEF Elems, FreeBufferSet
<1>3. \A s \in Slot : mSlots[s].buf = NoBuffer /\ mSlots[s].que = 0 BY <1>1 DEF NewSlot
<1>4. \A t \in Threads : call[t].op = "idle" /\ call[t].buf = NoBuffer BY <1>1 DEF Idle
<1>5. FrameInvariant
  <2>1. 1 .. Len(mQueue) = {} /\ 1 .. Len(held) = {} BY <1>1, SMT
  <2> QED BY <2>1 DEF FrameInvariant, FramesInOrder, HeldFramesDiffer
<1>6. BufferInvariant
  BY <1>2, <1>3, <1>4 DEF BufferInvariant, SlotsDiffer, QueuedInSlot, QueuedDiffer,
     QueuedNotHeld, HeldInSlot, AttachedApart
<1>7. AttachHasBuffer BY <1>4 DEF AttachHasBuffer
<1>8. QueuedHaveFrames BY <1>3, SMT DEF QueuedHaveFrames
<1>9. AllocationInvariant
  BY <1>1, <1>2, <1>3, <1>4 DEF AllocationInvariant, InPlace, QueuedBuffers, Allocates
<1> QED BY <1>5, <1>6, <1>7, <1>8, <1>9

\* A buffer that the consumer holds is acquired.
LEMMA ConsumerHasItsBuffers == ASSUME BufferInvariant PROVE ConsumerBufferIsAcquired
<1>1. \A i \in 1 .. Len(held) : held[i] \in Elems(held) BY DEF Elems
<1> QED BY <1>1 DEF BufferInvariant, HeldInSlot, ConsumerBufferIsAcquired

-----------------------------------------------------------------------------
(* Slots have buffers where they should, if allocations are announced *)

\* The active slots, those with a free buffer and the empty ones are a
\* partition of the slots, before and after a step.
LEMMA ThreeLists ==
  /\ IInv => /\ EmptySlots \cup FreeBufferSet \cup mActiveBuffers = Slot
             /\ EmptySlots \cap FreeBufferSet = {} /\ EmptySlots \cap mActiveBuffers = {}
             /\ FreeBufferSet \cap mActiveBuffers = {}
  /\ IInv' => /\ EmptySlots' \cup FreeBufferSet' \cup mActiveBuffers' = Slot
              /\ EmptySlots' \cap FreeBufferSet' = {} /\ EmptySlots' \cap mActiveBuffers' = {}
              /\ FreeBufferSet' \cap mActiveBuffers' = {}
<1>1. /\ IInv => ListsPartitionSlots
      /\ IInv' => ListsPartitionSlots'
  BY DEF IInv, SlotInvariant
<1> QED BY <1>1 DEF ListsPartitionSlots, EmptySlots

\* Nobody allocates a buffer for a slot that is not active or not dequeued, and
\* an active slot has a buffer if nobody allocates one.
LEMMA NobodyAllocates ==
  ASSUME AllocationInvariant, NEW s \in Slot
  PROVE  /\ s \notin mActiveBuffers \/ mSlots[s].deq # 1 => \A t \in Threads : ~Allocates(t, s)
         /\ s \in mActiveBuffers /\ (\A t \in Threads : ~Allocates(t, s)) =>
              mSlots[s].buf # NoBuffer
BY DEF AllocationInvariant, InPlace

\* A slot that a step leaves alone.
LEMMA StaysInPlace ==
  ASSUME AllocationInvariant, NEW u \in Slot, SameSlot(mSlots'[u], mSlots[u]),
         u \in EmptySlots' => u \in EmptySlots, u \in FreeBufferSet' => u \in FreeBufferSet,
         u \in mActiveBuffers' <=> u \in mActiveBuffers,
         \A t \in Threads : Allocates(t, u)' <=> Allocates(t, u)
  PROVE  InPlace(u)'
<1>1. InPlace(u) BY DEF AllocationInvariant
<1>2. mSlots'[u].buf = mSlots[u].buf /\ mSlots'[u].deq = mSlots[u].deq
  BY DEF SameSlot, SameContent, SameOwners
<1> QED BY <1>1, <1>2 DEF InPlace

\* A slot that a step changes.
LEMMA ComesInPlace ==
  ASSUME IInv', NEW u \in Slot, u \in EmptySlots' <=> mSlots'[u].buf = NoBuffer,
         \A t \in Threads : ~Allocates(t, u)'
  PROVE  InPlace(u)'
BY ThreeLists DEF InPlace

\* How a step that changes the lists for one slot changes them for others.
LEMMA OtherLists ==
  ASSUME NEW s, NEW u, u # s, SameLists \/ Activates(s) \/ Frees(s) \/ Empties(s)
  PROVE  /\ u \in EmptySlots' <=> u \in EmptySlots
         /\ u \in FreeBufferSet' <=> u \in FreeBufferSet
         /\ u \in mActiveBuffers' <=> u \in mActiveBuffers
BY DEF SameLists, Activates, Frees, Empties, EmptySlots, FreeBufferSet, Elems

\* The frames of the queue keep their buffers.
LEMMA QueuedKeepBuffers ==
  ASSUME IInv, AllocationInvariant, Elems(mQueue') \subseteq Elems(mQueue),
         \A u \in Slot : mSlots[u].que = 1 => mSlots'[u].buf = mSlots[u].buf
  PROVE  QueuedBuffers'
BY ElemsTypes DEF AllocationInvariant, QueuedBuffers

\* Who allocates stays the same.
LEMMA AllocatesQuietly ==
  /\ QuietCalls => \A t \in Threads, s \in Slot : Allocates(t, s)' <=> Allocates(t, s)
  /\ \A t \in Threads : QuietExcept(t) =>
       \A u \in Threads \ {t} : \A s : Allocates(u, s)' <=> Allocates(u, s)
BY DEF QuietCalls, QuietThread, QuietExcept, Allocates

\* A step that changes one slot, and leaves that one in its place.
LEMMA OneSlotChanges ==
  ASSUME AllocationInvariant, NEW s \in Slot, OthersSame({s}), InPlace(s)',
         SameLists \/ Activates(s) \/ Frees(s) \/ Empties(s),
         \A t \in Threads, u \in Slot \ {s} : Allocates(t, u)' <=> Allocates(t, u)
  PROVE  \A u \in Slot : InPlace(u)'
<1> SUFFICES ASSUME NEW u \in Slot, u # s PROVE InPlace(u)' OBVIOUS
<1>1. SameSlot(mSlots'[u], mSlots[u]) BY DEF OthersSame
<1>2. /\ u \in EmptySlots' <=> u \in EmptySlots
      /\ u \in FreeBufferSet' <=> u \in FreeBufferSet
      /\ u \in mActiveBuffers' <=> u \in mActiveBuffers
  BY OtherLists
<1> QED BY <1>1, <1>2, StaysInPlace

\* A thread takes a slot, gives it back or gives it away.
LEMMA ProducerKeepsPlace ==
  ASSUME IInv, AllocationInvariant, IInv', NEW s \in Slot,
         Takes(s) \/ Cancels(s) \/ Detaches(s) \/ ConsumerAttaches(s)
  PROVE  AllocationInvariant'
<1>1. OthersSame({s}) /\ mQueue' = mQueue /\ QuietCalls
  BY DEF Takes, Cancels, Detaches, ConsumerAttaches, SameFrames
<1>2. Activates(s) \/ Frees(s) \/ Empties(s) BY DEF Takes, Cancels, Detaches, ConsumerAttaches
<1>3. /\ \A t \in Threads : ~Allocates(t, s)
      /\ mSlots[s].que = 0
      /\ Cancels(s) => s \in mActiveBuffers /\ mSlots[s].buf # NoBuffer
  <2>1. CASE Takes(s) \/ ConsumerAttaches(s)
    <3>1. s \notin mActiveBuffers BY <2>1 DEF Takes, ConsumerAttaches, Activates
    <3>2. ~Cancels(s)
      <4>1. ASSUME Cancels(s) PROVE mSlots[s].deq > 0
        BY <4>1 DEF Cancels, ProducerOwns, isDequeued
      <4> QED BY <3>1, <4>1, OneOwnerEach, SMT
    <3> QED BY <3>1, <3>2, NobodyAllocates, OneOwnerEach
  <2>2. CASE Cancels(s) \/ Detaches(s)
    <3>1. mSlots[s].deq > 0 /\ \A t \in Threads : ~Allocates(t, s)
      BY <2>2 DEF Cancels, Detaches, ProducerOwns, isDequeued, Allocates
    <3>2. s \in mActiveBuffers /\ mSlots[s].que = 0 BY <3>1, OneOwnerEach, SMT
    <3> QED BY <3>1, <3>2, NobodyAllocates
  <2> QED BY <2>1, <2>2
<1>4. s \in EmptySlots' <=> mSlots'[s].buf = NoBuffer
  <2>1. CASE Takes(s) BY <2>1 DEF Takes, Activates, SameContent
  <2>2. CASE ConsumerAttaches(s) BY <2>2 DEF ConsumerAttaches, Activates, Fresh
  <2>3. CASE Cancels(s)
    BY <1>3, <2>3, ThreeLists DEF Cancels, Frees, SameContent
  <2>4. CASE Detaches(s) BY <2>4 DEF Detaches, Empties, Cleared, NewSlot
  <2> QED BY <2>1, <2>2, <2>3, <2>4
<1>5. InPlace(s)' BY <1>1, <1>3, <1>4, AllocatesQuietly, ComesInPlace
<1>6. \A u \in Slot : InPlace(u)' BY <1>1, <1>2, <1>5, AllocatesQuietly, OneSlotChanges
<1>7. QueuedBuffers'
  BY <1>1, <1>3, QueuedKeepBuffers, SMTT(30) DEF OthersSame, SameSlot, SameContent
<1> QED BY <1>6, <1>7 DEF AllocationInvariant

\* A buffer is allocated, filled in or attached.
LEMMA AllocationKeepsPlace ==
  ASSUME IInv, AllocationInvariant, IInv', NEW t \in Threads, NEW s \in Slot,
         AllocationBegins(t, s) \/ AllocationEnds(t, s) \/ Attaches(t, s)
  PROVE  AllocationInvariant'
<1>1. OthersSame({s}) /\ mQueue' = mQueue /\ QuietExcept(t)
  BY DEF AllocationBegins, AllocationEnds, Attaches, SameFrames
<1>2. SameLists \/ Activates(s) BY DEF AllocationBegins, AllocationEnds, Attaches
<1>3. \A v \in Threads, u \in Slot \ {s} : Allocates(v, u)' <=> Allocates(v, u)
  <2>1. \A u \in Slot \ {s} : ~Allocates(t, u) /\ ~Allocates(t, u)'
    BY SMT DEF AllocationBegins, AllocationEnds, Attaches, Allocates, Idle
  <2> QED BY <1>1, <2>1, AllocatesQuietly
<1>4. ASSUME AllocationBegins(t, s) PROVE InPlace(s)' /\ mSlots[s].que = 0
  <2>1. /\ s \notin mActiveBuffers /\ s \in mActiveBuffers' /\ mSlots'[s].buf = NoBuffer
        /\ mSlots'[s].deq = 1 /\ Allocates(t, s)'
    BY <1>4 DEF AllocationBegins, Activates
  <2>2. \A v \in Threads : Allocates(v, s)' => v = t
    BY <1>1, <2>1, NobodyAllocates, AllocatesQuietly
  <2>3. InPlace(s)' BY <2>1, <2>2, ThreeLists DEF InPlace
  <2>4. mSlots[s].que = 0 BY <2>1, OneOwnerEach
  <2> QED BY <2>3, <2>4
<1>5. ASSUME AllocationEnds(t, s) \/ Attaches(t, s) PROVE InPlace(s)' /\ mSlots[s].que = 0
  <2>1. mSlots'[s].buf # NoBuffer BY <1>5 DEF AllocationEnds, Attaches, Fresh
  <2>2. s \notin EmptySlots' /\ mSlots[s].que = 0 /\ \A v \in Threads \ {t} : ~Allocates(v, s)
    <3>1. CASE AllocationEnds(t, s)
      <4>1. Allocates(t, s) /\ EmptySlots' = EmptySlots
        BY <3>1 DEF AllocationEnds, SameLists, EmptySlots
      <4>2. s \in mActiveBuffers /\ mSlots[s].deq = 1 /\ \A v \in Threads : Allocates(v, s) => t = v
        BY <4>1 DEF AllocationInvariant, InPlace
      <4> QED BY <4>1, <4>2, ThreeLists, OneOwnerEach
    <3>2. CASE Attaches(t, s)
      <4>1. s \notin mActiveBuffers /\ s \notin EmptySlots' BY <3>2 DEF Attaches, Activates
      <4> QED BY <4>1, NobodyAllocates, OneOwnerEach
    <3> QED BY <1>5, <3>1, <3>2
  <2>3. ~Allocates(t, s)' BY <1>5, SMT DEF AllocationEnds, Attaches, Allocates, Idle
  <2>4. InPlace(s)' BY <1>1, <2>1, <2>2, <2>3, AllocatesQuietly, ComesInPlace
  <2> QED BY <2>2, <2>4
<1>6. InPlace(s)' /\ mSlots[s].que = 0 BY <1>4, <1>5
<1>7. \A u \in Slot : InPlace(u)' BY <1>1, <1>2, <1>3, <1>6, OneSlotChanges
<1>8. QueuedBuffers'
  BY <1>1, <1>6, QueuedKeepBuffers, SMT DEF OthersSame, SameSlot, SameContent
<1> QED BY <1>7, <1>8 DEF AllocationInvariant

\* allocateBuffers leaves the slots in their places.
LEMMA FillingKeepsPlace ==
  ASSUME IInv, AllocationInvariant, IInv', NEW s \in Slot, Fills(s) PROVE AllocationInvariant'
<1>1. s \in EmptySlots /\ s \notin EmptySlots' /\ mSlots'[s].buf # NoBuffer /\ mQueue' = mQueue
  BY DEF Fills, EmptySlots, Fresh, SameFrames
<1>2. s \notin mActiveBuffers BY <1>1, ThreeLists
<1>3. \A t \in Threads, u \in Slot : Allocates(t, u)' <=> Allocates(t, u)
  BY AllocatesQuietly DEF Fills
<1>4. InPlace(s)' BY <1>1, <1>2, <1>3, NobodyAllocates, ComesInPlace
<1>5. ASSUME NEW u \in Slot, u # s PROVE InPlace(u)'
  <2>1. SameSlot(mSlots'[u], mSlots[u]) BY <1>5 DEF Fills, OthersSame
  <2>2. /\ u \in EmptySlots' => u \in EmptySlots
        /\ u \in FreeBufferSet' => u \in FreeBufferSet
        /\ u \in mActiveBuffers' <=> u \in mActiveBuffers
    BY <1>5 DEF Fills
  <2> QED BY <1>3, <2>1, <2>2, StaysInPlace
<1>6. QueuedBuffers'
  <2>1. mSlots[s].que = 0 BY <1>2, OneOwnerEach
  <2>2. \A u \in Slot \ {s} : mSlots'[u].buf = mSlots[u].buf
    BY DEF Fills, OthersSame, SameSlot, SameContent
  <2> QED BY <1>1, <2>1, <2>2, QueuedKeepBuffers, SMTT(30)
<1> QED BY <1>4, <1>5, <1>6 DEF AllocationInvariant

\* A frame leaves the queue, or the consumer gives a buffer back.
LEMMA LeavingKeepsPlace ==
  ASSUME IInv, AllocationInvariant, IInv', NEW s \in Slot, s \in mActiveBuffers,
         mSlots[s].deq = 0, OthersSame({s}), QuietCalls, mSlots'[s].buf = mSlots[s].buf,
         SameLists \/ Frees(s)
  PROVE  \A u \in Slot : InPlace(u)'
<1>1. \A t \in Threads : ~Allocates(t, s) BY NobodyAllocates, SMT
<1>2. mSlots[s].buf # NoBuffer BY <1>1, NobodyAllocates
<1>3. s \notin EmptySlots' BY ThreeLists DEF SameLists, Frees, EmptySlots
<1>4. InPlace(s)' BY <1>1, <1>2, <1>3, AllocatesQuietly, ComesInPlace
<1> QED BY <1>4, AllocatesQuietly, OneSlotChanges

\* Nothing of slots and lists changes.
LEMMA StayingKeepsPlace ==
  ASSUME AllocationInvariant, OthersSame({}), SameLists,
         \A t \in Threads, u \in Slot : Allocates(t, u)' <=> Allocates(t, u)
  PROVE  \A u \in Slot : InPlace(u)'
<1>1. EmptySlots' = EmptySlots /\ FreeBufferSet' = FreeBufferSet /\ mActiveBuffers' = mActiveBuffers
  BY DEF SameLists, EmptySlots, FreeBufferSet, Elems
<1>2. \A u \in Slot : SameSlot(mSlots'[u], mSlots[u]) BY DEF OthersSame
<1> QED BY <1>1, <1>2, StaysInPlace

\* acquireBuffer leaves the slots in their places.
LEMMA FrontKeepsPlace ==
  ASSUME IInv, FrameInvariant, AllocationInvariant, IInv', Drops \/ Acquires
  PROVE  AllocationInvariant'
<1> DEFINE f == Head(mQueue)
<1>1. mQueue # <<>> /\ mQueue' = Tail(mQueue) /\ QuietCalls BY DEF Drops, Acquires
<1>2. /\ \A u \in Slot : SameContent(mSlots'[u], mSlots[u])
      /\ OthersSame(IF f.stale THEN {} ELSE {f.slot})
  BY DEF Drops, Acquires
<1>3. SameLists \/ (~f.stale /\ Frees(f.slot)) BY DEF Drops, Acquires, GivesUp
<1>4. f \in Elems(mQueue) /\ Elems(mQueue') \subseteq Elems(mQueue) BY <1>1, TailElems
<1>5. f.slot \in Slot /\ (~f.stale => mSlots[f.slot].que = 1) BY <1>4, ElemsTypes
<1> HIDE DEF f
<1>6. QueuedBuffers' BY <1>2, <1>4, QueuedKeepBuffers DEF SameContent
<1>7. ASSUME f.stale PROVE \A u \in Slot : InPlace(u)'
  <2>1. OthersSame({}) /\ SameLists BY <1>2, <1>3, <1>7
  <2> QED BY <1>1, <2>1, AllocatesQuietly, StayingKeepsPlace
<1>8. ASSUME ~f.stale PROVE \A u \in Slot : InPlace(u)'
  <2>1. f.slot \in mActiveBuffers /\ mSlots[f.slot].deq = 0 BY <1>5, <1>8, OneOwnerEach, SMT
  <2>2. mSlots'[f.slot].buf = mSlots[f.slot].buf /\ OthersSame({f.slot})
    BY <1>2, <1>5, <1>8 DEF SameContent
  <2> QED BY <1>1, <1>3, <1>5, <2>1, <2>2, LeavingKeepsPlace, ZenonT(30)
<1> QED BY <1>6, <1>7, <1>8 DEF AllocationInvariant

\* releaseBuffer and the consumer's detachBuffer leave the slots in their
\* places.
LEMMA ReleasingKeepsPlace ==
  ASSUME IInv, AllocationInvariant, IInv', NEW i \in 1 .. Len(held),
         Releases(i) \/ ConsumerDetaches(i)
  PROVE  AllocationInvariant'
<1>1. PICK s \in Slot : s = held[i].slot BY FrameTypes DEF Held
<1>2. mQueue' = mQueue /\ QuietCalls BY DEF Releases, ConsumerDetaches, SameFrames
<1>3. isAcquired(mSlots[s]) => s \in mActiveBuffers /\ mSlots[s].deq = 0 /\ mSlots[s].que = 0
  BY <1>1, OneOwnerEach, SMT DEF isAcquired
<1>4. CASE Releases(i)
  <2>1. /\ \A u \in Slot : SameContent(mSlots'[u], mSlots[u])
        /\ \/ OthersSame({}) /\ SameLists
           \/ isAcquired(mSlots[s]) /\ OthersSame({s}) /\ Frees(s)
    BY <1>1, <1>4 DEF Releases
  <2>2. QueuedBuffers' BY <1>2, <2>1, QueuedKeepBuffers DEF SameContent
  <2>3. ASSUME OthersSame({}), SameLists PROVE \A u \in Slot : InPlace(u)'
    BY <1>2, <2>3, AllocatesQuietly, StayingKeepsPlace
  <2>4. ASSUME isAcquired(mSlots[s]), OthersSame({s}), Frees(s)
        PROVE  \A u \in Slot : InPlace(u)'
    <3>1. mSlots'[s].buf = mSlots[s].buf BY <1>1, <2>1 DEF SameContent
    <3> QED BY <1>1, <1>2, <1>3, <2>4, <3>1, LeavingKeepsPlace
  <2> QED BY <2>1, <2>2, <2>3, <2>4 DEF AllocationInvariant
<1>5. CASE ConsumerDetaches(i)
  <2>1. isAcquired(mSlots[s]) /\ Empties(s) /\ OthersSame({s}) BY <1>1, <1>5 DEF ConsumerDetaches
  <2>2. s \in EmptySlots' /\ mSlots'[s].buf = NoBuffer
    BY <2>1 DEF Empties, Cleared, NewSlot
  <2>3. \A t \in Threads : ~Allocates(t, s) BY <1>1, <1>3, <2>1, NobodyAllocates, SMTT(30)
  <2>4. InPlace(s)' BY <1>1, <1>2, <2>2, <2>3, AllocatesQuietly, ComesInPlace
  <2>5. \A u \in Slot : InPlace(u)'
    BY <1>1, <1>2, <2>1, <2>4, AllocatesQuietly, OneSlotChanges, ZenonT(30)
  <2>6. QueuedBuffers'
    BY <1>1, <1>2, <1>3, <2>1, QueuedKeepBuffers, SMTT(30) DEF OthersSame, SameSlot, SameContent
  <2> QED BY <2>5, <2>6 DEF AllocationInvariant
<1> QED BY <1>4, <1>5

\* queueBuffer leaves the slots in their places.
LEMMA QueueingKeepsPlace ==
  ASSUME IInv, AllocationInvariant, IInv', NEW s \in Slot, Queues(s) PROVE AllocationInvariant'
<1> DEFINE item == QueuedItem(s)
<1>0. PICK l : l = LastItem.slot OBVIOUS
<1>1. mSlots[s].deq > 0 /\ \A t \in Threads : ~Allocates(t, s)
  BY DEF Queues, ProducerOwns, isDequeued, Allocates
<1>2. s \in mActiveBuffers /\ mSlots[s].que = 0 BY <1>1, OneOwnerEach, SMT
<1>3. mSlots[s].buf # NoBuffer BY <1>1, <1>2, NobodyAllocates
<1>4. \A u \in Slot : mSlots'[u].buf = mSlots[u].buf
  <2>1. mSlots[s] \in BufferSlot BY Modes DEF TypeOK
  <2>2. QueuedSlot(s).buf = mSlots[s].buf BY <2>1 DEF QueuedSlot, queue, BufferSlot
  <2> QED BY <2>2 DEF Queues, SameContent
<1>5. QueuedBuffers'
  <2>1. item \in BufferItem BY Modes, QueuedTypes
  <2>2. item.slot = s /\ item.buf = mSlots[s].buf BY DEF QueuedItem
  <2>3. mQueue' = Enqueued(item) BY DEF Queues
  <2> HIDE DEF item
  <2>4. Elems(mQueue') \subseteq Elems(mQueue) \cup {item} BY <2>1, <2>3, EnqueuedElems
  <2> QED BY <1>3, <1>4, <2>2, <2>4, ElemsTypes DEF AllocationInvariant, QueuedBuffers
<1>6. \A t \in Threads, u \in Slot : Allocates(t, u)' <=> Allocates(t, u)
  BY AllocatesQuietly DEF Queues
<1>7. Replaces /\ ~LastItem.stale =>
        /\ l \in Slot /\ l # s /\ l \in mActiveBuffers /\ mSlots[l].deq = 0
        /\ Frees(l)
  <2>1. Replaces => LastItem \in Elems(mQueue)
    <3>1. mQueue \in Seq(BufferItem) BY Modes DEF TypeOK
    <3>2. mQueue # <<>> => Len(mQueue) \in 1 .. Len(mQueue) BY <3>1, SMT
    <3> QED BY <3>2 DEF LastItem, Elems, Replaces
  <2>2. Replaces /\ ~LastItem.stale => l \in Slot /\ mSlots[l].que = 1
    BY <1>0, <2>1, ElemsTypes
  <2> QED BY <1>0, <1>2, <2>2, OneOwnerEach, SMTT(30) DEF Queues, GivesUp
<1>8. (Replaces /\ ~LastItem.stale) \/ SameLists BY DEF Queues, GivesUp
<1>9. s \notin EmptySlots'
  BY <1>2, <1>7, <1>8, ThreeLists DEF SameLists, Frees, EmptySlots
<1>10. InPlace(s)' BY <1>1, <1>3, <1>4, <1>6, <1>9, ComesInPlace
<1>11. Replaces /\ ~LastItem.stale => InPlace(l)'
  <2>1. ASSUME Replaces, ~LastItem.stale PROVE InPlace(l)'
    <3>1. \A t \in Threads : ~Allocates(t, l) BY <1>7, <2>1, NobodyAllocates, SMTT(30)
    <3>2. mSlots'[l].buf # NoBuffer BY <1>4, <1>7, <2>1, <3>1, NobodyAllocates
    <3>3. l \notin EmptySlots' BY <1>7, <2>1, ThreeLists DEF Frees
    <3> QED BY <1>6, <1>7, <2>1, <3>1, <3>2, <3>3, ComesInPlace, ZenonT(30)
  <2> QED BY <2>1
<1>12. ASSUME NEW u \in Slot, u # s, ~(Replaces /\ ~LastItem.stale /\ u = l) PROVE InPlace(u)'
  <2>1. SameSlot(mSlots'[u], mSlots[u]) BY <1>0, <1>12 DEF Queues, SameSlot
  <2>2. /\ u \in EmptySlots' <=> u \in EmptySlots
        /\ u \in FreeBufferSet' <=> u \in FreeBufferSet
        /\ u \in mActiveBuffers' <=> u \in mActiveBuffers
    <3>1. CASE SameLists BY <1>12, <3>1, OtherLists
    <3>2. CASE ~SameLists BY <1>7, <1>8, <1>12, <3>2, OtherLists
    <3> QED BY <3>1, <3>2
  <2> QED BY <1>6, <2>1, <2>2, StaysInPlace
<1> QED BY <1>5, <1>10, <1>11, <1>12 DEF AllocationInvariant

\* disconnect leaves the slots in their places, as no allocation is under way
\* that it does not know of.
LEMMA DisconnectingKeepsPlace ==
  ASSUME IInv, AllocationInvariant, AllocationIsAnnounced, IInv', Disconnects
  PROVE  AllocationInvariant'
<1>1. \A t \in Threads, u \in Slot : ~Allocates(t, u)'
  BY AllocatesQuietly DEF Disconnects, AllocationIsAnnounced, Allocates
<1>2. \A u \in Slot : u \in EmptySlots' BY ThreeLists DEF Disconnects
<1>3. \A u \in Slot : mSlots'[u].buf = NoBuffer
  BY SMT DEF Disconnects, Cleared, NewSlot, AllocationInvariant, InPlace, EmptySlots
<1>4. \A u \in Slot : InPlace(u)' BY <1>1, <1>2, <1>3, ComesInPlace
<1>5. QueuedBuffers'
  BY StaleElems DEF Disconnects, AllocationInvariant, QueuedBuffers
<1> QED BY <1>4, <1>5 DEF AllocationInvariant

\* A step that touches no slot in use leaves the slots in their places.
LEMMA QuietKeepsPlace ==
  ASSUME IInv, AllocationInvariant, Quiet, IInv' PROVE AllocationInvariant'
<1>1. PICK R \in SUBSET (Slot \ mActiveBuffers) :
        /\ \A s \in R : mSlots'[s] = Cleared
        /\ OthersSame(R)
        /\ EmptySlots' \subseteq EmptySlots \cup R /\ FreeBufferSet' \subseteq FreeBufferSet \ R
  BY DEF Quiet
<1>2. mQueue' = mQueue /\ mActiveBuffers' = mActiveBuffers BY DEF Quiet, SameFrames
<1>3. \A t \in Threads, u \in Slot : Allocates(t, u)' <=> Allocates(t, u)
  BY AllocatesQuietly DEF Quiet
<1>4. ASSUME NEW u \in R PROVE InPlace(u)'
  <2>1. u \in Slot \ mActiveBuffers /\ \A t \in Threads : ~Allocates(t, u) BY NobodyAllocates
  <2>2. u \in EmptySlots' BY <1>1, <1>2, <2>1, ThreeLists
  <2>3. mSlots'[u].buf = NoBuffer BY <1>1 DEF Cleared, NewSlot
  <2> QED BY <1>3, <2>1, <2>2, <2>3, ComesInPlace
<1>5. ASSUME NEW u \in Slot \ R PROVE InPlace(u)'
  <2>1. SameSlot(mSlots'[u], mSlots[u]) BY <1>1 DEF OthersSame
  <2> QED BY <1>1, <1>2, <1>3, <2>1, StaysInPlace
<1>6. \A u \in Slot : mSlots[u].que = 1 => mSlots'[u].buf = mSlots[u].buf
  <2>1. \A u \in Slot : mSlots[u].que = 1 => u \in mActiveBuffers BY OneOwnerEach, SMT
  <2> QED BY <1>1, <2>1 DEF OthersSame, SameSlot, SameContent
<1>7. QueuedBuffers' BY <1>2, <1>6, QueuedKeepBuffers
<1> QED BY <1>4, <1>5, <1>7 DEF AllocationInvariant

\* Every effect leaves the slots in their places.
LEMMA AllocationInvariantNext ==
  ASSUME IInv, FrameInvariant, AllocationInvariant, AllocationIsAnnounced, Effect, IInv'
  PROVE  AllocationInvariant'
<1>1. ASSUME NEW t \in Threads, AttachBegins(t) PROVE AllocationInvariant'
  <2>1. OthersSame({}) /\ SameLists /\ mQueue' = mQueue /\ QuietExcept(t)
    BY <1>1 DEF AttachBegins, SameFrames
  <2>2. \A v \in Threads, u \in Slot : Allocates(v, u)' <=> Allocates(v, u)
    BY <1>1, <2>1, AllocatesQuietly, ZenonT(30) DEF AttachBegins, Allocates
  <2>3. QueuedBuffers'
    BY <2>1, QueuedKeepBuffers DEF OthersSame, SameSlot, SameContent
  <2> QED BY <2>1, <2>2, <2>3, StayingKeepsPlace DEF AllocationInvariant
<1> QED BY <1>1, QuietKeepsPlace, FrontKeepsPlace, DisconnectingKeepsPlace, AllocationKeepsPlace,
           ProducerKeepsPlace, FillingKeepsPlace, QueueingKeepsPlace, ReleasingKeepsPlace, ZenonT(30)
    DEF Effect

\* A slot in its place is on the list that its state says.
LEMMA ListsMatch == ASSUME IInv, AllocationInvariant PROVE ListsMatchSlotStates
<1>1. \A s \in Slot : /\ s \notin mActiveBuffers => isFree(mSlots[s])
                      /\ s \in mActiveBuffers => ~isFree(mSlots[s])
  BY OneOwnerEach, SMT DEF isFree, isDequeued, isQueued, isAcquired
<1>2. /\ \A s \in mFreeSlots \cup mUnusedSlots : s \in Slot \ mActiveBuffers /\ s \in EmptySlots
      /\ \A s \in FreeBufferSet : s \in Slot \ mActiveBuffers
      /\ \A s \in mActiveBuffers : s \in Slot
  BY ThreeLists DEF EmptySlots
<1>3. \A s \in Slot : InPlace(s) BY DEF AllocationInvariant
<1> QED BY <1>1, <1>2, <1>3 DEF InPlace, ListsMatchSlotStates, Allocates

-----------------------------------------------------------------------------
(* The refinement mapping to FrameStream *)

\* Only a slot that is active, and neither queued nor acquired, is with the producer.
LEMMA WhoWrites ==
  /\ IInv => \A s \in Slot :
       s \notin mActiveBuffers \/ mSlots[s].que > 0 \/ mSlots[s].acq > 0 => ~ProducerOwns(s)
  /\ IInv' => \A s \in Slot :
       s \notin mActiveBuffers' \/ mSlots'[s].que = 1 \/ mSlots'[s].acq = 1 => ~ProducerOwns(s)'
<1>1. ASSUME IInv, NEW s \in Slot,
             s \notin mActiveBuffers \/ mSlots[s].que > 0 \/ mSlots[s].acq > 0
      PROVE  ~ProducerOwns(s)
  BY <1>1, OneOwnerEach, SMT DEF ProducerOwns, isDequeued
<1>2. ASSUME IInv', NEW s \in Slot,
             s \notin mActiveBuffers' \/ mSlots'[s].que = 1 \/ mSlots'[s].acq = 1
      PROVE  ~ProducerOwns(s)'
  <2>1. mSlots'[s].deq \in Nat /\ mSlots'[s].que \in Nat /\ mSlots'[s].acq \in Nat
    <3>1. mSlots'[s] \in BufferSlot BY <1>2 DEF IInv, TypeOK
    <3> QED BY <3>1, OwnersAreNat
  <2>2. mSlots'[s].deq + mSlots'[s].que + mSlots'[s].acq = IF s \in mActiveBuffers' THEN 1 ELSE 0
    BY <1>2 DEF IInv, SlotInvariant, ActiveHasOneOwner
  <2>3. mSlots'[s].deq = 0 BY <1>2, <2>1, <2>2, SMTT(30)
  <2> QED BY <2>3, SMT DEF ProducerOwns, isDequeued
<1> QED BY <1>1, <1>2

\* The producer writes the same buffers.
LEMMA UseStays == ASSUME SameUse({}) PROVE Owned' = Owned
BY DEF SameUse, Owned

\* The producer gets a buffer to write.
LEMMA UseBegins ==
  ASSUME NEW s \in Slot, SameUse({s}), ~ProducerOwns(s), ProducerOwns(s)'
  PROVE  Owned' = Owned \cup {mSlots'[s].buf}
BY DEF SameUse, Owned

\* The producer is done with a buffer.
LEMMA UseEnds ==
  ASSUME AllocationInvariant, BufferInvariant, IInv,
         NEW s \in Slot, SameUse({s}), ProducerOwns(s), ~ProducerOwns(s)'
  PROVE  mSlots[s].buf \in Owned /\ mSlots[s].buf \in Buffers /\ Owned' = Owned \ {mSlots[s].buf}
<1>1. mSlots[s].deq > 0 /\ s \in mActiveBuffers /\ \A t \in Threads : ~Allocates(t, s)
  BY OneOwnerEach, SMT DEF ProducerOwns, isDequeued, Allocates
<1>2. mSlots[s].buf # NoBuffer BY <1>1, NobodyAllocates
<1>3. mSlots[s].buf \in Buffers
  <2>1. mSlots[s] \in BufferSlot BY Modes DEF TypeOK
  <2> QED BY <1>2, <2>1 DEF BufferSlot
<1>4. \A u \in Slot : u # s => mSlots[u].buf # mSlots[s].buf
  BY <1>2 DEF BufferInvariant, SlotsDiffer
<1> QED BY <1>3, <1>4 DEF SameUse, Owned

\* Who owns a slot that is not touched.
LEMMA UseUntouched ==
  ASSUME NEW u \in Slot, SameSlot(mSlots'[u], mSlots[u]),
         \A t \in Threads : Allocates(t, u)' <=> Allocates(t, u)
  PROVE  /\ ProducerOwns(u)' <=> ProducerOwns(u)
         /\ mSlots'[u].buf = mSlots[u].buf
<1>1. mSlots'[u].deq = mSlots[u].deq /\ mSlots'[u].buf = mSlots[u].buf
  BY DEF SameSlot, SameContent, SameOwners
<1>2. (\A t \in Threads : ~(call[t].op = "alloc" /\ call[t].slot = u))' <=>
       \A t \in Threads : ~(call[t].op = "alloc" /\ call[t].slot = u)
  BY DEF Allocates
<1> QED BY <1>1, <1>2 DEF ProducerOwns, isDequeued

\* What does not change is not used otherwise.
LEMMA OthersUntouched ==
  ASSUME NEW S, OthersSame(S),
         \A t \in Threads, u \in Slot \ S : Allocates(t, u)' <=> Allocates(t, u)
  PROVE  SameUse(S)
<1> SUFFICES ASSUME NEW u \in Slot \ S
             PROVE  /\ ProducerOwns(u)' <=> ProducerOwns(u)
                    /\ mSlots'[u].buf = mSlots[u].buf
  BY DEF SameUse
<1>1. SameSlot(mSlots'[u], mSlots[u]) BY DEF OthersSame
<1> QED BY <1>1, UseUntouched

\* The same queue has the same frames pending.
LEMMA PendingSame == ASSUME mQueue' = mQueue PROVE Pending' = Pending
BY DEF Pending

\* The same buffers held are the same frames held.
LEMMA HeldSame == ASSUME held' = held PROVE HeldFrames' = HeldFrames
BY DEF HeldFrames

\* The frames pending and the buffers in use, through the refinement mapping.
LEMMA PendingFacts ==
  ASSUME IInv
  PROVE  /\ Len(Pending) = Len(mQueue) /\ Len(Pending) \in Nat
         /\ Pending \in Seq([frame : Nat, buf : Buffers \cup {NoBuffer}])
         /\ \A i \in 1 .. Len(mQueue) :
              Pending[i] = [frame |-> mQueue[i].frame, buf |-> mQueue[i].buf]
         /\ Stream!PendingBuffers = {x.buf : x \in Elems(mQueue)}
         /\ Stream!ReadingBuffers = {h.buf : h \in Elems(held)}
<1>1. Len(mQueue) \in Nat /\ \A i \in 1 .. Len(mQueue) :
        mQueue[i].frame \in Nat /\ mQueue[i].buf \in Buffers \cup {NoBuffer}
  BY FrameTypes DEF BufferItem
<1>2. /\ Len(Pending) = Len(mQueue)
      /\ \A i \in 1 .. Len(mQueue) :
           Pending[i] = [frame |-> mQueue[i].frame, buf |-> mQueue[i].buf]
  BY <1>1, SMT DEF Pending
<1>3. Pending \in Seq([frame : Nat, buf : Buffers \cup {NoBuffer}])
  BY <1>1, SMT DEF Pending
<1>4. Stream!PendingBuffers = {x.buf : x \in Elems(mQueue)}
  <2>1. ASSUME NEW i \in 1 .. Len(mQueue) PROVE Pending[i].buf = mQueue[i].buf
    <3>1. Pending[i] = [frame |-> mQueue[i].frame, buf |-> mQueue[i].buf] BY <1>2
    <3> QED BY <3>1, SMT
  <2>2. Stream!PendingBuffers = {Pending[i].buf : i \in 1 .. Len(mQueue)}
    BY <1>2 DEF Stream!PendingBuffers
  <2>3. \A x : x \in Elems(mQueue) <=> \E i \in 1 .. Len(mQueue) : x = mQueue[i] BY DEF Elems
  <2> QED BY <2>1, <2>2, <2>3, SMTT(30)
<1>5. Stream!ReadingBuffers = {h.buf : h \in Elems(held)}
  <2>1. \A f : f \in HeldFrames <=>
          \E i \in 1 .. Len(held) : f = [frame |-> held[i].frame, buf |-> held[i].buf]
    BY DEF HeldFrames
  <2>2. \A h : h \in Elems(held) <=> \E i \in 1 .. Len(held) : h = held[i] BY DEF Elems
  <2>3. Stream!ReadingBuffers = {f.buf : f \in HeldFrames} BY DEF Stream!ReadingBuffers
  <2>4. ASSUME NEW f \in HeldFrames PROVE \E h \in Elems(held) : f.buf = h.buf
    <3>1. PICK i \in 1 .. Len(held) : f = [frame |-> held[i].frame, buf |-> held[i].buf] BY <2>1
    <3>2. f.buf = held[i].buf BY <3>1
    <3> QED BY <2>2, <3>2
  <2>5. ASSUME NEW h \in Elems(held) PROVE \E f \in HeldFrames : f.buf = h.buf
    <3>1. PICK i \in 1 .. Len(held) : h = held[i] BY <2>2
    <3>2. PICK f : f = [frame |-> held[i].frame, buf |-> held[i].buf] OBVIOUS 
    <3>3. f.buf = h.buf BY <3>1, <3>2
    <3> QED BY <2>1, <3>2, <3>3
  <2> QED BY <2>3, <2>4, <2>5, SMTT(30)
<1> QED BY <1>1, <1>2, <1>3, <1>4, <1>5

\* A buffer that is in no frame and with nobody can be given to the producer.
LEMMA Begins ==
  ASSUME IInv, NEW s \in Slot, SameUse({s}), ~ProducerOwns(s), ProducerOwns(s)',
         SameFrames, UNCHANGED held, NEW b \in Buffers, mSlots'[s].buf = b,
         \A u \in Slot \ {s} : mSlots[u].buf # b,
         \A x \in Elems(mQueue) : x.buf # b, \A h \in Elems(held) : h.buf # b
  PROVE  Stream!StreamNext
<1>1. Owned' = Owned \cup {b} BY UseBegins
<1>2. b \notin Owned BY DEF Owned
<1>3. b \notin Stream!PendingBuffers \cup Stream!ReadingBuffers BY PendingFacts
<1>4. Pending' = Pending /\ HeldFrames' = HeldFrames /\ mFrameCounter' = mFrameCounter
  BY PendingSame, HeldSame DEF SameFrames
<1>5. Stream!Begin(b) BY <1>1, <1>2, <1>3, <1>4 DEF Stream!Begin
<1> QED BY <1>5 DEF Stream!StreamNext

\* cancelBuffer and detachBuffer end a writing.
LEMMA Ends ==
  ASSUME IInv, AllocationInvariant, BufferInvariant, IInv', NEW s \in Slot,
         Cancels(s) \/ Detaches(s)
  PROVE  Stream!StreamNext
<1>1. /\ ProducerOwns(s) /\ OthersSame({s}) /\ SameFrames /\ UNCHANGED held /\ QuietCalls
      /\ mActiveBuffers' = mActiveBuffers \ {s}
  BY DEF Cancels, Detaches, Frees, Empties
<1>2. SameUse({s}) BY <1>1, AllocatesQuietly, OthersUntouched
<1>3. ~ProducerOwns(s)' BY <1>1, WhoWrites
<1>4. PICK b \in Buffers : b \in Owned /\ Owned' = Owned \ {b} BY <1>1, <1>2, <1>3, UseEnds
<1>5. Pending' = Pending /\ HeldFrames' = HeldFrames /\ mFrameCounter' = mFrameCounter
  BY <1>1, PendingSame, HeldSame DEF SameFrames
<1>6. Stream!Cancel(b) BY <1>4, <1>5 DEF Stream!Cancel
<1> QED BY <1>6 DEF Stream!StreamNext

\* dequeueBuffer finds a buffer in the free list.
LEMMA TakingBegins ==
  ASSUME IInv, AllocationInvariant, BufferInvariant, HeldHaveFrames, NEW s \in Slot, Takes(s)
  PROVE  Stream!StreamNext
<1>1. /\ s \notin mActiveBuffers /\ OthersSame({s}) /\ SameFrames /\ UNCHANGED held /\ QuietCalls
      /\ mSlots[s].buf # NoBuffer /\ mSlots'[s].buf = mSlots[s].buf /\ mSlots'[s].deq = 1
  BY DEF Takes, Activates, SameContent
<1>2. SameUse({s}) BY <1>1, AllocatesQuietly, OthersUntouched
<1>3. ~ProducerOwns(s) BY <1>1, WhoWrites
<1>4. ProducerOwns(s)'
  <2>1. \A t \in Threads : ~Allocates(t, s)' BY <1>1, NobodyAllocates, AllocatesQuietly
  <2> QED BY <1>1, <2>1, SMTT(30) DEF ProducerOwns, isDequeued, Allocates
<1>5. mSlots[s].buf \in Buffers
  <2>1. mSlots[s] \in BufferSlot BY Modes DEF TypeOK
  <2> QED BY <1>1, <2>1 DEF BufferSlot
<1>6. \A u \in Slot \ {s} : mSlots[u].buf # mSlots[s].buf
  BY <1>1 DEF BufferInvariant, SlotsDiffer
<1>7. ~isAcquired(mSlots[s]) /\ \A x \in Elems(mQueue) : x.slot = s => x.stale
  BY <1>1, NotAcquired
<1>8. \A x \in Elems(mQueue) : x.buf # mSlots[s].buf
  BY <1>1, <1>7 DEF BufferInvariant, QueuedInSlot
<1>9. \A h \in Elems(held) : h.buf # mSlots[s].buf
  BY <1>1, <1>7 DEF BufferInvariant, HeldInSlot, HeldHaveFrames
<1>10. PICK b \in Buffers : b = mSlots[s].buf BY <1>5
<1> QED BY <1>1, <1>2, <1>3, <1>4, <1>6, <1>8, <1>9, <1>10, Begins, ZenonT(30)

\* An allocation for dequeueBuffer ends, and attachBuffer gets its slot.
LEMMA FreshBegins ==
  ASSUME IInv, AllocationInvariant, BufferInvariant, IInv', NEW t \in Threads, NEW s \in Slot,
         AllocationEnds(t, s) \/ Attaches(t, s)
  PROVE  Stream!StreamNext
<1>1. /\ OthersSame({s}) /\ SameFrames /\ UNCHANGED held /\ QuietExcept(t) /\ call'[t] = Idle
  BY DEF AllocationEnds, Attaches
<1>2. \A v \in Threads \ {t} : \A u : Allocates(v, u)' <=> Allocates(v, u)
  BY <1>1, AllocatesQuietly
<1>3. \A u : ~Allocates(t, u)' BY <1>1, SMT DEF Idle, Allocates
<1>4. /\ \A u \in Slot \ {s} : ~Allocates(t, u)
      /\ \A v \in Threads \ {t} : ~Allocates(v, s)
      /\ ~ProducerOwns(s) /\ mSlots'[s].deq = 1
  <2>1. CASE AllocationEnds(t, s)
    <3>1. Allocates(t, s) /\ mSlots'[s].deq = mSlots[s].deq
      BY <2>1 DEF AllocationEnds, SameOwners
    <3> QED BY <3>1, SMT DEF AllocationInvariant, InPlace, ProducerOwns, Allocates
  <2>2. CASE Attaches(t, s)
    <3>1. s \notin mActiveBuffers /\ (\A u : ~Allocates(t, u)) /\ mSlots'[s].deq = 1
      BY <2>2 DEF Attaches, Activates, Allocates
    <3> QED BY <3>1, NobodyAllocates, WhoWrites
  <2> QED BY <2>1, <2>2
<1>5. SameUse({s}) BY <1>1, <1>2, <1>3, <1>4, OthersUntouched, ZenonT(30)
<1>6. ProducerOwns(s)' BY <1>2, <1>3, <1>4, SMTT(30) DEF ProducerOwns, isDequeued, Allocates
<1>7. PICK b : b = mSlots'[s].buf OBVIOUS
<1>8. /\ b # NoBuffer /\ \A u \in Slot : mSlots[u].buf # b
      /\ \A x \in Elems(mQueue) : x.buf # b
      /\ \A h \in Elems(held) : h.buf # b
  <2>1. CASE AllocationEnds(t, s) BY <1>7, <2>1, FreshIsNowhere DEF AllocationEnds
  <2>2. CASE Attaches(t, s) BY <1>7, <2>2, ZenonT(30) DEF Attaches, BufferInvariant, AttachedApart
  <2> QED BY <2>1, <2>2
<1>9. b \in Buffers
  <2>1. mSlots'[s] \in BufferSlot BY DEF IInv, TypeOK
  <2> QED BY <1>7, <1>8, <2>1 DEF BufferSlot
<1> QED BY <1>1, <1>4, <1>5, <1>6, <1>7, <1>8, <1>9, Begins, SMTT(30)

\* The frames of a queue, without what concerns slots.
FrameOf(x) == [frame |-> x.frame, buf |-> x.buf]
FramesOf(q) == [i \in 1 .. Len(q) |-> FrameOf(q[i])]

Frame == [frame : Nat, buf : Buffers \cup {NoBuffer}]

\* The frames of a queue.
LEMMA FramesOfQueue ==
  ASSUME NEW q \in Seq(BufferItem)
  PROVE  /\ FramesOf(q) \in Seq(Frame) /\ Len(FramesOf(q)) = Len(q)
         /\ \A i \in 1 .. Len(q) : FramesOf(q)[i] = FrameOf(q[i])
<1>1. Len(q) \in Nat /\ \A i \in 1 .. Len(q) :
        q[i].frame \in Nat /\ q[i].buf \in Buffers \cup {NoBuffer}
  <2>1. \A i \in 1 .. Len(q) : q[i] \in BufferItem BY SMT
  <2> QED BY <2>1, SMT DEF BufferItem
<1>2. \A i \in 1 .. Len(q) : FrameOf(q[i]) \in Frame BY <1>1 DEF FrameOf, Frame
<1>3. FramesOf(q) \in Seq(Frame) BY <1>1, <1>2, SMTT(30) DEF FramesOf
<1> QED BY <1>1, <1>3, SMTT(30) DEF FramesOf

\* The frames of a queue without its front.
LEMMA FramesOfTail ==
  ASSUME NEW q \in Seq(BufferItem), q # <<>>
  PROVE  /\ FramesOf(q) # <<>> /\ FramesOf(Tail(q)) = Tail(FramesOf(q))
         /\ Head(FramesOf(q)) = FrameOf(Head(q))
<1>1. /\ Tail(q) \in Seq(BufferItem) /\ Len(q) \in Nat \ {0} /\ Len(Tail(q)) = Len(q) - 1
      /\ \A i \in 1 .. Len(q) - 1 : Tail(q)[i] = q[i + 1]
      /\ Head(q) = q[1]
  BY SMT
<1>2. /\ FramesOf(q) \in Seq(Frame) /\ Len(FramesOf(q)) = Len(q)
      /\ \A i \in 1 .. Len(q) : FramesOf(q)[i] = FrameOf(q[i])
  BY FramesOfQueue
<1>3. /\ FramesOf(Tail(q)) \in Seq(Frame) /\ Len(FramesOf(Tail(q))) = Len(q) - 1
      /\ \A i \in 1 .. Len(q) - 1 :
           FramesOf(Tail(q))[i] = FrameOf(q[i + 1])
  BY <1>1, FramesOfQueue, ZenonT(30)
<1>4. FramesOf(q) # <<>> /\ Head(FramesOf(q)) = FramesOf(q)[1] BY <1>1, <1>2, SMT
<1>5. /\ Tail(FramesOf(q)) \in Seq(Frame) /\ Len(Tail(FramesOf(q))) = Len(q) - 1
      /\ \A i \in 1 .. Len(q) - 1 : Tail(FramesOf(q))[i] = FramesOf(q)[i + 1]
  BY <1>1, <1>2, <1>4, SMT
<1>6. \A i \in 1 .. Len(q) - 1 : FramesOf(Tail(q))[i] = Tail(FramesOf(q))[i]
  BY <1>1, <1>2, <1>3, <1>5, SMTT(30)
<1>7. FramesOf(Tail(q)) = Tail(FramesOf(q)) BY <1>3, <1>5, <1>6, SameElements
<1> QED BY <1>1, <1>2, <1>4, <1>7, SMTT(30)

\* One more frame is pending, or the last one is replaced.
LEMMA FramesOfEnqueued ==
  ASSUME IInv, NEW x \in BufferItem
  PROVE  \/ FramesOf(Enqueued(x)) = Append(Pending, FrameOf(x))
         \/ Pending # <<>> /\ FramesOf(Enqueued(x)) = [Pending EXCEPT ![Len(Pending)] = FrameOf(x)]
<1>1. mQueue \in Seq(BufferItem) BY Modes DEF TypeOK
<1>2. /\ Pending \in Seq(Frame) /\ Len(Pending) = Len(mQueue) /\ Len(mQueue) \in Nat
      /\ \A i \in 1 .. Len(mQueue) : Pending[i] = FrameOf(mQueue[i])
  BY PendingFacts DEF Frame, FrameOf
<1>3. FrameOf(x) \in Frame BY DEF BufferItem, Frame, FrameOf
<1>4. CASE Replaces
  <2> DEFINE q == [mQueue EXCEPT ![Len(mQueue)] = x]
             p == [Pending EXCEPT ![Len(Pending)] = FrameOf(x)]
  <2>1. Enqueued(x) = q BY <1>4 DEF Enqueued
  <2>2. Len(mQueue) \in 1 .. Len(mQueue) BY <1>1, <1>4, SMT DEF Replaces
  <2>3. /\ q \in Seq(BufferItem) /\ Len(q) = Len(mQueue) /\ q[Len(mQueue)] = x
        /\ \A i \in 1 .. Len(mQueue) : i # Len(mQueue) => q[i] = mQueue[i]
    BY <1>1, <2>2, SMT
  <2>4. /\ p \in Seq(Frame) /\ Len(p) = Len(mQueue) /\ p[Len(mQueue)] = FrameOf(x)
        /\ \A i \in 1 .. Len(mQueue) : i # Len(mQueue) => p[i] = Pending[i]
    BY <1>2, <1>3, <2>2, SMTT(30)
  <2> HIDE DEF p, q
  <2>5. /\ FramesOf(q) \in Seq(Frame) /\ Len(FramesOf(q)) = Len(mQueue)
        /\ \A i \in 1 .. Len(mQueue) : FramesOf(q)[i] = FrameOf(q[i])
    BY <2>3, FramesOfQueue
  <2>6. \A i \in 1 .. Len(mQueue) : FramesOf(q)[i] = p[i] BY <1>2, <2>3, <2>4, <2>5
  <2>7. FramesOf(q) = p BY <2>4, <2>5, <2>6, SameElements
  <2>8. Pending # <<>> BY <1>2, <2>2, SMT
  <2> QED BY <2>1, <2>7, <2>8 DEF p
<1>5. CASE ~Replaces
  <2> DEFINE q == Append(mQueue, x)
             p == Append(Pending, FrameOf(x))
  <2>1. Enqueued(x) = q BY <1>5 DEF Enqueued
  <2>2. /\ q \in Seq(BufferItem) /\ Len(q) = Len(mQueue) + 1 /\ q[Len(mQueue) + 1] = x
        /\ \A i \in 1 .. Len(mQueue) : q[i] = mQueue[i]
    BY <1>1, <1>2, SMT
  <2>3. /\ p \in Seq(Frame) /\ Len(p) = Len(mQueue) + 1 /\ p[Len(mQueue) + 1] = FrameOf(x)
        /\ \A i \in 1 .. Len(mQueue) : p[i] = Pending[i]
    BY <1>2, <1>3, SMTT(30)
  <2> HIDE DEF p, q
  <2>4. /\ FramesOf(q) \in Seq(Frame) /\ Len(FramesOf(q)) = Len(mQueue) + 1
        /\ \A i \in 1 .. Len(mQueue) + 1 : FramesOf(q)[i] = FrameOf(q[i])
    BY <2>2, FramesOfQueue
  <2>5. \A i \in 1 .. Len(mQueue) + 1 : FramesOf(q)[i] = p[i] BY <1>2, <2>2, <2>3, <2>4, SMTT(30)
  <2>6. FramesOf(q) = p BY <1>2, <2>3, <2>4, <2>5, SameElements
  <2> QED BY <2>1, <2>6 DEF p
<1> QED BY <1>4, <1>5

\* The same frames are pending when their items are stale.
LEMMA FramesOfStale ==
  ASSUME IInv PROVE FramesOf(StaleItems(mQueue)) = Pending
<1>1. /\ Len(mQueue) \in Nat /\ Len(StaleItems(mQueue)) = Len(mQueue)
  BY FrameTypes, StaleLength
<1>2. \A i \in 1 .. Len(mQueue) : StaleItems(mQueue)[i].frame = mQueue[i].frame
                                  /\ StaleItems(mQueue)[i].buf = mQueue[i].buf
  BY StaleFrames
<1> HIDE DEF StaleItems
<1> QED BY <1>1, <1>2 DEF FramesOf, FrameOf, Pending

-----------------------------------------------------------------------------
(* Every effect is a step of FrameStream, or none *)

\* Who writes stays the same if the slots that change are not with the producer.
LEMMA OthersWrite ==
  ASSUME NEW S, OthersSame(S), QuietCalls,
         \A u \in S \cap Slot : ~ProducerOwns(u) /\ ~ProducerOwns(u)'
  PROVE  Owned' = Owned
<1>1. SameUse(S) BY AllocatesQuietly, OthersUntouched
<1>2. SameUse({}) BY <1>1 DEF SameUse
<1> QED BY <1>2, UseStays

\* queueBuffer submits a frame, or replaces the last one.
LEMMA QueueingSubmits ==
  ASSUME IInv, AllocationInvariant, BufferInvariant, IInv', NEW s \in Slot, Queues(s)
  PROVE  Stream!StreamNext
<1>1. /\ ProducerOwns(s) /\ mSlots'[s].que = 1 /\ UNCHANGED held /\ QuietCalls
      /\ mFrameCounter' = mFrameCounter + 1 /\ mQueue' = Enqueued(QueuedItem(s))
  BY DEF Queues
<1>2. ~ProducerOwns(s)' BY <1>1, WhoWrites
<1>3. SameUse({s})
  <2> SUFFICES ASSUME NEW u \in Slot \ {s}
               PROVE  /\ ProducerOwns(u)' <=> ProducerOwns(u)
                      /\ mSlots'[u].buf = mSlots[u].buf
    BY DEF SameUse
  <2>1. SameContent(mSlots'[u], mSlots[u]) BY DEF Queues
  <2>2. CASE SameOwners(mSlots'[u], mSlots[u])
    <3>1. SameSlot(mSlots'[u], mSlots[u]) BY <2>1, <2>2 DEF SameSlot
    <3> QED BY <1>1, <3>1, AllocatesQuietly, UseUntouched, ZenonT(30)
  <2>3. CASE Replaces /\ ~LastItem.stale /\ u = LastItem.slot
    <3>1. LastItem \in Elems(mQueue)
      <4>1. Len(mQueue) \in 1 .. Len(mQueue)
        <5>1. mQueue \in Seq(BufferItem) /\ mQueue # <<>> BY <2>3, Modes, ZenonT(30) DEF TypeOK, Replaces
        <5> QED BY <5>1, SMTT(30)
      <4> QED BY <4>1 DEF LastItem, Elems
    <3>2. mSlots[u].que = 1 BY <2>3, <3>1, ElemsTypes, ZenonT(30)
    <3>3. u \notin mActiveBuffers' BY <2>3 DEF Queues, GivesUp, Frees
    <3>4. ~ProducerOwns(u) /\ ~ProducerOwns(u)' BY <3>2, <3>3, WhoWrites, SMTT(30)
    <3> QED BY <2>1, <3>4 DEF SameContent
  <2> QED BY <2>2, <2>3 DEF Queues
<1>4. PICK b \in Buffers : b = mSlots[s].buf /\ b \in Owned /\ Owned' = Owned \ {b}
  BY <1>1, <1>2, <1>3, UseEnds, ZenonT(30)
<1>5. PICK x \in BufferItem : x = QueuedItem(s) BY Modes, QueuedTypes, ZenonT(30)
<1>6. FrameOf(x) = [frame |-> mFrameCounter', buf |-> b]
  BY <1>1, <1>4, <1>5, ZenonT(30) DEF FrameOf, QueuedItem
<1>7. Pending' = FramesOf(Enqueued(x)) BY <1>1, <1>5 DEF Pending, FramesOf, FrameOf
<1>8. \/ Pending' = Append(Pending, FrameOf(x))
      \/ Pending # <<>> /\ Pending' = [Pending EXCEPT ![Len(Pending)] = FrameOf(x)]
  BY <1>7, FramesOfEnqueued
<1>9. HeldFrames' = HeldFrames BY <1>1, HeldSame
<1>10. Stream!Submit(b) BY <1>1, <1>4, <1>6, <1>8, <1>9, ZenonT(30) DEF Stream!Submit
<1> QED BY <1>10 DEF Stream!StreamNext

\* acquireBuffer takes or drops the first frame.
LEMMA FrontIsTaken ==
  ASSUME IInv, FrameInvariant, IInv', Drops \/ Acquires PROVE Stream!StreamNext
<1>1. PICK f \in BufferItem : f = Head(mQueue) /\ f \in Elems(mQueue)
  BY TailElems, ElemsTypes DEF Drops, Acquires
<1>2. /\ mQueue # <<>> /\ mQueue' = Tail(mQueue) /\ QuietCalls /\ mFrameCounter' = mFrameCounter
      /\ OthersSame(IF f.stale THEN {} ELSE {f.slot})
      /\ ~f.stale => f.slot \notin mActiveBuffers' \/ mSlots'[f.slot].acq = 1
  BY <1>1 DEF Drops, Acquires, GivesUp, Frees
<1>3. Owned' = Owned
  <2>1. f.slot \in Slot /\ (~f.stale => mSlots[f.slot].que = 1) BY <1>1, ElemsTypes
  <2>2. ~f.stale => ~ProducerOwns(f.slot) BY <2>1, WhoWrites, SMTT(30)
  <2>3. PICK s \in Slot : s = f.slot BY <2>1
  <2>4. ~f.stale => ~ProducerOwns(s)' BY <1>2, <2>3, WhoWrites, ZenonT(30)
  <2>5. CASE f.stale BY <1>2, <2>5, OthersWrite, ZenonT(30)
  <2>6. CASE ~f.stale
    <3>1. OthersSame({s}) /\ ~ProducerOwns(s) /\ ~ProducerOwns(s)' BY <1>2, <2>2, <2>3, <2>4, <2>6, ZenonT(30)
    <3> QED BY <1>2, <3>1, OthersWrite, ZenonT(30)
  <2> QED BY <2>5, <2>6
<1>4. Pending # <<>> /\ Pending' = Tail(Pending) /\ Head(Pending) = FrameOf(f)
  <2>1. mQueue \in Seq(BufferItem) BY Modes DEF TypeOK
  <2>2. Pending = FramesOf(mQueue) /\ Pending' = FramesOf(Tail(mQueue))
    BY <1>2 DEF Pending, FramesOf, FrameOf
  <2> QED BY <1>1, <1>2, <2>1, <2>2, FramesOfTail, ZenonT(30)
<1>5. CASE Drops
  <2>1. HeldFrames' = HeldFrames BY <1>5, HeldSame DEF Drops
  <2>2. Stream!Skip BY <1>2, <1>3, <1>4, <2>1, ZenonT(30) DEF Stream!Skip
  <2> QED BY <2>2 DEF Stream!StreamNext
<1>6. CASE Acquires
  <2>1. PICK h \in Held : h = [slot |-> f.slot, frame |-> f.frame, buf |-> f.buf]
    BY DEF Held, BufferItem
  <2>2. held' = Append(held, h) BY <1>1, <1>6, <2>1, ZenonT(30) DEF Acquires
  <2>3. FrameOf(h) = FrameOf(f) BY <2>1 DEF FrameOf
  <2>4. /\ Len(held) \in Nat /\ Len(held') = Len(held) + 1 /\ held'[Len(held) + 1] = h
        /\ \A i \in 1 .. Len(held) : held'[i] = held[i]
    BY <2>2, MoreHeld, FrameTypes, ZenonT(30)
  <2>5. HeldFrames' = HeldFrames \cup {FrameOf(h)} BY <2>4, SMTT(30) DEF HeldFrames, FrameOf
  <2>6. Stream!Take BY <1>2, <1>3, <1>4, <2>3, <2>5, ZenonT(30) DEF Stream!Take
  <2> QED BY <2>6 DEF Stream!StreamNext
<1> QED BY <1>5, <1>6

\* releaseBuffer and the consumer's detachBuffer give a frame back.
LEMMA ReleasingGivesBack ==
  ASSUME IInv, FrameInvariant, HeldHaveFrames, IInv', NEW i \in 1 .. Len(held),
         Releases(i) \/ ConsumerDetaches(i)
  PROVE  Stream!StreamNext
<1>1. PICK s \in Slot : s = held[i].slot BY FrameTypes DEF Held
<1>2. held' = Without(held, i) /\ SameFrames /\ QuietCalls BY DEF Releases, ConsumerDetaches
<1>3. \/ OthersSame({})
      \/ isAcquired(mSlots[s]) /\ OthersSame({s}) /\ s \notin mActiveBuffers'
  BY <1>1 DEF Releases, ConsumerDetaches, Frees, Empties
<1>4. Owned' = Owned
  <2>1. CASE OthersSame({}) BY <1>2, <2>1, OthersWrite, ZenonT(30)
  <2>2. CASE isAcquired(mSlots[s]) /\ OthersSame({s}) /\ s \notin mActiveBuffers'
    <3>1. ~ProducerOwns(s) /\ ~ProducerOwns(s)' BY <2>2, WhoWrites, ZenonT(30) DEF isAcquired
    <3> QED BY <1>2, <2>2, <3>1, OthersWrite, ZenonT(30)
  <2> QED BY <1>3, <2>1, <2>2, ZenonT(30)
<1>5. \A f : f \in HeldFrames <=> \E h \in Elems(held) : f = FrameOf(h)
  BY DEF HeldFrames, Elems, FrameOf
<1>6. \A f : f \in HeldFrames' <=> \E h \in Elems(held') : f = FrameOf(h)
  BY DEF HeldFrames, Elems, FrameOf
<1>7. /\ held[i] \in Elems(held) /\ Elems(held') \subseteq Elems(held)
      /\ \A h \in Elems(held) : h = held[i] \/ h \in Elems(held')
      /\ \A h \in Elems(held') : h.frame # held[i].frame
  BY <1>2, HeldElems, ZenonT(30) DEF HeldHaveFrames
<1>8. \A h \in Elems(held') : FrameOf(h) # FrameOf(held[i])
  <2>1. ASSUME NEW h \in Elems(held'), FrameOf(h) = FrameOf(held[i]) PROVE FALSE
    <3>1. FrameOf(h).frame = h.frame /\ FrameOf(held[i]).frame = held[i].frame BY DEF FrameOf
    <3> QED BY <1>7, <2>1, <3>1, ZenonT(30)
  <2> QED BY <2>1
<1>9. PICK f : f = FrameOf(held[i]) OBVIOUS
<1>10. f \in HeldFrames /\ HeldFrames' = HeldFrames \ {f} BY <1>5, <1>6, <1>7, <1>8, <1>9, ZenonT(30)
<1>11. Pending' = Pending /\ mFrameCounter' = mFrameCounter BY <1>2, PendingSame, ZenonT(30) DEF SameFrames
<1>12. Stream!GiveBackFrame(f) BY <1>4, <1>10, <1>11, ZenonT(30) DEF Stream!GiveBackFrame
<1> QED BY <1>10, <1>12 DEF Stream!StreamNext

\* Steps that the users of the queue do not see.
LEMMA NothingToSee ==
  ASSUME IInv, AllocationInvariant, IInv',
         \/ Quiet \/ (\E t \in Threads : AttachBegins(t)) \/ (\E s \in Slot : Fills(s))
         \/ \E t \in Threads, s \in Slot : AllocationBegins(t, s)
  PROVE  UNCHANGED Stream!streamVars
<1>1. Pending' = Pending /\ HeldFrames' = HeldFrames /\ mFrameCounter' = mFrameCounter
  <2>1. SameFrames /\ UNCHANGED held BY DEF Quiet, AttachBegins, Fills, AllocationBegins
  <2> QED BY <2>1, PendingSame, HeldSame, ZenonT(30) DEF SameFrames
<1>2. Owned' = Owned
  <2>1. CASE Quiet
    <3>1. PICK R \in SUBSET (Slot \ mActiveBuffers) : OthersSame(R)
      BY <2>1 DEF Quiet
    <3>2. QuietCalls /\ mActiveBuffers' = mActiveBuffers BY <2>1 DEF Quiet
    <3>3. \A u \in R \cap Slot : ~ProducerOwns(u) /\ ~ProducerOwns(u)' BY <3>2, WhoWrites, ZenonT(30)
    <3> QED BY <3>1, <3>2, <3>3, OthersWrite, ZenonT(30)
  <2>2. ASSUME NEW s \in Slot, Fills(s) PROVE Owned' = Owned
    <3>1. s \notin mActiveBuffers /\ s \notin mActiveBuffers'
      BY <2>2, ThreeLists, ZenonT(30) DEF Fills, EmptySlots
    <3>2. ~ProducerOwns(s) /\ ~ProducerOwns(s)' BY <3>1, WhoWrites
    <3>3. OthersSame({s}) /\ QuietCalls BY <2>2 DEF Fills
    <3> QED BY <3>2, <3>3, OthersWrite, ZenonT(30)
  <2>3. ASSUME NEW t \in Threads, AttachBegins(t) PROVE Owned' = Owned
    <3>1. OthersSame({}) /\ QuietExcept(t) BY <2>3 DEF AttachBegins
    <3>2. \A v \in Threads, u \in Slot : Allocates(v, u)' <=> Allocates(v, u)
      BY <2>3, <3>1, AllocatesQuietly, ZenonT(30) DEF AttachBegins, Allocates
    <3>3. SameUse({}) BY <3>1, <3>2, OthersUntouched, ZenonT(30)
    <3> QED BY <3>3, UseStays, ZenonT(30)
  <2>4. ASSUME NEW t \in Threads, NEW s \in Slot, AllocationBegins(t, s) PROVE Owned' = Owned
    <3>1. OthersSame({s}) /\ QuietExcept(t) /\ s \notin mActiveBuffers /\ Allocates(t, s)'
      BY <2>4 DEF AllocationBegins, Activates
    <3>2. \A v \in Threads, u \in Slot \ {s} : Allocates(v, u)' <=> Allocates(v, u)
      BY <2>4, <3>1, AllocatesQuietly, SMTT(30) DEF AllocationBegins, Allocates
    <3>3. SameUse({s}) BY <3>1, <3>2, OthersUntouched, ZenonT(30)
    <3>4. ~ProducerOwns(s) /\ ~ProducerOwns(s)'
      BY <3>1, WhoWrites, ZenonT(30) DEF Allocates, ProducerOwns
    <3>5. SameUse({}) BY <3>3, <3>4, ZenonT(30) DEF SameUse
    <3> QED BY <3>5, UseStays
  <2> QED BY <2>1, <2>2, <2>3, <2>4, ZenonT(30)
<1> QED BY <1>1, <1>2, ZenonT(30) DEF Stream!streamVars

\* disconnect ends the producer's writing.
LEMMA DisconnectingLeaves ==
  ASSUME IInv, IInv', Disconnects PROVE Stream!StreamNext
<1>1. /\ mActiveBuffers' = {} /\ mQueue' = StaleItems(mQueue) /\ held' = held
      /\ mFrameCounter' = mFrameCounter
  BY DEF Disconnects
<1>2. Owned' = {}
  <2>1. \A u \in Slot : ~ProducerOwns(u)' BY <1>1, WhoWrites, ZenonT(30)
  <2> QED BY <2>1 DEF Owned
<1>3. Pending' = Pending
  <2>1. Pending' = FramesOf(StaleItems(mQueue))
    BY <1>1 DEF Pending, FramesOf, FrameOf
  <2> QED BY <2>1, FramesOfStale, ZenonT(30)
<1>4. Stream!ProducerLeaves BY <1>1, <1>2, <1>3, HeldSame, ZenonT(30) DEF Stream!ProducerLeaves
<1> QED BY <1>4 DEF Stream!StreamNext

\* Every effect but that of ConsumerAttachBuffer is a step of FrameStream.
LEMMA EffectsAreStreamSteps ==
  ASSUME IInv, FrameInvariant, BufferInvariant, AllocationInvariant, HeldHaveFrames, Effect,
         IInv', HeldHaveFrames'
  PROVE  [Stream!StreamNext]_(Stream!streamVars)
<1>1. ASSUME NEW s \in Slot PROVE ~ConsumerAttaches(s)
  <2>1. ASSUME ConsumerAttaches(s) PROVE FALSE
    <3>1. PICK h : h = [slot |-> s, frame |-> 0, buf |-> mSlots'[s].buf] OBVIOUS 
    <3>2. held' = Append(held, h) /\ h.frame = 0 BY <2>1, <3>1, ZenonT(30) DEF ConsumerAttaches
    <3>3. held \in Seq(Held) BY Modes DEF TypeOK
    <3>4. Len(held') = Len(held) + 1 /\ held'[Len(held')] = h /\ Len(held') \in 1 .. Len(held')
      BY <3>2, <3>3, SMTT(30)
    <3>5. h \in Elems(held') BY <3>4 DEF Elems
    <3> QED BY <3>2, <3>5, SMTT(30) DEF HeldHaveFrames
  <2> QED BY <2>1
<1> QED BY <1>1, NothingToSee, FrontIsTaken, DisconnectingLeaves, FreshBegins, TakingBegins,
           QueueingSubmits, Ends, ReleasingGivesBack, ZenonT(30)
    DEF Effect

\* Only ConsumerAttachBuffer gives the consumer a buffer that is no frame.
LEMMA HeldHaveFramesNext ==
  ASSUME IInv, FrameInvariant, HeldHaveFrames, "consumerAttachBuffer" \notin Calls, [Next]_vars
  PROVE  HeldHaveFrames'
<1>1. held \in Seq(Held) BY Modes DEF TypeOK
<1>2. CASE held' = held BY <1>2 DEF HeldHaveFrames
<1>3. ASSUME AcquireFront PROVE HeldHaveFrames'
  <2>1. PICK f \in BufferItem : f = Head(mQueue) /\ f.frame > 0
    BY <1>3, TailFrames, FrameTypes, ZenonT(30) DEF AcquireFront, FrameInvariant
  <2>2. PICK h \in Held : h = [slot |-> f.slot, frame |-> f.frame, buf |-> f.buf]
    BY DEF Held, BufferItem
  <2>3. held' = Append(held, h) /\ h.frame > 0 BY <1>3, <2>1, <2>2, ZenonT(30) DEF AcquireFront
  <2>4. Elems(held') = Elems(held) \cup {h} BY <1>1, <2>3, ElemsOfAppend, ZenonT(30)
  <2> QED BY <2>3, <2>4, ZenonT(30) DEF HeldHaveFrames
<1>4. ASSUME NEW i \in 1 .. Len(held), releaseBuffer(i) \/ ConsumerDetachBuffer(i)
      PROVE  HeldHaveFrames'
  <2>1. held' = Without(held, i) BY <1>4 DEF releaseBuffer, ConsumerDetachBuffer
  <2> QED BY <2>1, HeldElems DEF HeldHaveFrames
<1>5. ASSUME AcquireStep PROVE HeldHaveFrames'
  <2>1. ~AcquireShared BY Modes DEF AcquireShared, SharedAvailable
  <2>2. held' = held \/ AcquireFront
    BY <1>5, <2>1, ZenonT(30) DEF AcquireStep, AcquireDrop, AcquireRefused, AcquireSharedWaits
  <2> QED BY <1>2, <1>3, <2>2, ZenonT(30)
<1>6. ASSUME \E t \in Threads : ThreadStep(t) PROVE held' = held
  BY <1>6, ZenonT(30) DEF ThreadStep, DequeueStep, AttachDetachStep, QueueStep, dequeueBuffer,
     DequeueWaitsForAllocation, DequeueLocked, DequeueAllocated, WaitTimesOut, detachNextBuffer,
     DetachNextLocked, AttachLocked, attachBuffer, detachBuffer, queueBuffer, QueueBadCrop,
     requestBuffer, cancelBuffer, FrameCallback, PreallocStart, PreallocEnd, PreallocYields,
     consumerVars
<1>7. ASSUME ProducerConfigStep \/ ConnectionStep \/ ConsumerConfigStep PROVE held' = held
  BY <1>7, ZenonT(30) DEF ProducerConfigStep, setMaxDequeuedBufferCount, setAsyncMode,
     setSharedBufferMode, SetProducerFlag, setDequeueTimeout, ConnectionStep, connect, disconnect,
     Disconnect, ProducerDies, binderDied, BinderDiedDisconnect, ConsumerDisconnect,
     ConsumerConnect, ConsumerConfigStep, setMaxBufferCount, setMaxAcquiredBufferCount,
     discardFreeBuffers, setAllowExtraAcquire, consumerVars
<1>8. \A b \in Buffers : ~ConsumerAttachBuffer(b) BY DEF ConsumerAttachBuffer
<1>9. CASE UNCHANGED vars BY <1>2, <1>9, ZenonT(30) DEF vars, consumerVars
<1>10. CASE Next
  <2>1. CASE ConsumerStep BY <1>2, <1>4, <1>5, <1>7, <1>8, <2>1, ZenonT(30) DEF ConsumerStep, ReleaseStep
  <2> QED BY <1>2, <1>6, <1>7, <1>10, <2>1, ZenonT(30) DEF Next
<1> QED BY <1>9, <1>10, ZenonT(30)

-----------------------------------------------------------------------------
(* The frames that may be replaced *)

\* Only the last frame of the queue can be droppable: the next frame replaces it.
DroppableIsLast ==
  \A i \in 1 .. Len(mQueue) : i < Len(mQueue) => ~mQueue[i].droppable

\* What a step can do to the queue.
LEMMA QueueSteps ==
  ASSUME Effect
  PROVE  \/ UNCHANGED mQueue
         \/ mQueue # <<>> /\ mQueue' = Tail(mQueue)
         \/ mQueue' = StaleItems(mQueue)
         \/ \E s \in Slot : mQueue' = Enqueued(QueuedItem(s))
<1>1. CASE Quiet BY <1>1 DEF Quiet, SameFrames
<1>2. CASE Drops \/ Acquires BY <1>2 DEF Drops, Acquires
<1>3. CASE Disconnects BY <1>3 DEF Disconnects
<1>4. ASSUME NEW t, AttachBegins(t) \/ \E s \in Slot :
               AllocationBegins(t, s) \/ AllocationEnds(t, s) \/ Attaches(t, s)
      PROVE  UNCHANGED mQueue
  BY <1>4 DEF AttachBegins, AllocationBegins, AllocationEnds, Attaches, SameFrames
<1>5. ASSUME NEW s, Takes(s) \/ Fills(s) \/ Cancels(s) \/ Detaches(s) \/ ConsumerAttaches(s)
      PROVE  UNCHANGED mQueue
  BY <1>5 DEF Takes, Fills, Cancels, Detaches, ConsumerAttaches, SameFrames
<1>6. ASSUME NEW s, Queues(s) PROVE mQueue' = Enqueued(QueuedItem(s)) BY <1>6 DEF Queues
<1>7. ASSUME NEW i, Releases(i) \/ ConsumerDetaches(i) PROVE UNCHANGED mQueue
  BY <1>7 DEF Releases, ConsumerDetaches, SameFrames
<1> QED BY <1>1, <1>2, <1>3, <1>4, <1>5, <1>6, <1>7 DEF Effect

\* Every effect leaves it at that, in whatever mode the frames were queued.
LEMMA DroppableIsLastNext == ASSUME IInv, DroppableIsLast, Effect PROVE DroppableIsLast'
<1> SUFFICES ASSUME NEW i \in 1 .. Len(mQueue'), i < Len(mQueue') PROVE ~mQueue'[i].droppable
  BY DEF DroppableIsLast
<1>1. mQueue \in Seq(BufferItem) BY DEF IInv, TypeOK
<1>2. \A j \in 1 .. Len(mQueue) : j < Len(mQueue) => ~mQueue[j].droppable BY DEF DroppableIsLast
<1>3. CASE UNCHANGED mQueue BY <1>2, <1>3
<1>4. CASE mQueue # <<>> /\ mQueue' = Tail(mQueue)
  <2>1. /\ i + 1 \in 1 .. Len(mQueue) /\ i + 1 < Len(mQueue)
        /\ mQueue'[i] = mQueue[i + 1]
    BY <1>1, <1>4, SMT
  <2> QED BY <1>2, <2>1
<1>5. CASE mQueue' = StaleItems(mQueue)
  <2>1. Len(mQueue') = Len(mQueue) /\ \A j \in 1 .. Len(mQueue) :
          mQueue'[j] = [mQueue[j] EXCEPT !.stale = TRUE, !.acquireCalled = FALSE]
    BY <1>5, StaleLength DEF StaleItems
  <2>2. i \in 1 .. Len(mQueue) /\ i < Len(mQueue) BY <2>1
  <2>3. mQueue[i] \in BufferItem BY <1>1, <2>2, SMT
  <2>4. mQueue'[i].droppable = mQueue[i].droppable BY <2>1, <2>2, <2>3 DEF BufferItem
  <2> QED BY <1>2, <2>2, <2>4
<1>6. ASSUME NEW s \in Slot, mQueue' = Enqueued(QueuedItem(s)) PROVE ~mQueue'[i].droppable
  <2> DEFINE item == QueuedItem(s)
  <2> HIDE DEF item
  <2>1. CASE Replaces
    <3>1. mQueue' = [mQueue EXCEPT ![Len(mQueue)] = item] BY <1>6, <2>1 DEF Enqueued, item
    <3>2. i \in 1 .. Len(mQueue) /\ i < Len(mQueue) /\ mQueue'[i] = mQueue[i]
      BY <1>1, <3>1, SMT
    <3> QED BY <1>2, <3>2
  <2>2. CASE ~Replaces
    <3>1. mQueue' = Append(mQueue, item) BY <1>6, <2>2 DEF Enqueued, item
    <3>2. /\ i \in 1 .. Len(mQueue) /\ mQueue'[i] = mQueue[i]
          /\ i < Len(mQueue) \/ i = Len(mQueue)
      BY <1>1, <3>1, SMT
    <3>3. mQueue # <<>> BY <3>2, SMT
    <3> QED BY <1>2, <2>2, <3>2, <3>3 DEF Replaces, LastItem
  <2> QED BY <2>1, <2>2
<1> QED BY <1>3, <1>4, <1>5, <1>6, QueueSteps

\* A queue of droppable frames holds at most one.
LEMMA OneDroppable ==
  ASSUME mQueue \in Seq(BufferItem), DroppableIsLast,
         \A i \in 1 .. Len(mQueue) : mQueue[i].droppable
  PROVE  Len(mQueue) <= 1
<1> SUFFICES ASSUME ~(Len(mQueue) <= 1) PROVE FALSE OBVIOUS
<1>1. 1 \in 1 .. Len(mQueue) /\ 1 < Len(mQueue) BY SMT
<1> QED BY <1>1 DEF DroppableIsLast

=============================================================================
