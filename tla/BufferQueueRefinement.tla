------------------------ MODULE BufferQueueRefinement ------------------------
(***************************************************************************)
(* What BufferQueue promises outside shared buffer mode, for any number of *)
(* slots, threads, buffers and frames and any sequence of calls: frames    *)
(* come out in the order they went in, the consumer's buffers are nobody   *)
(* else's, the lists tell the states of the slots, and BufferQueue         *)
(* implements FrameStream. Every step has an effect (BufferQueueProofs),   *)
(* and every effect keeps the invariants (BufferQueueFrames). Then what    *)
(* rests on numbers of slots: as many are in use as the limits say, a      *)
(* producer that must not block finds one, and no wake-up is lost.         *)
(***************************************************************************)
EXTENDS BufferQueueProofs, BufferQueueFrames, FiniteSetTheorems

USE Zenon

-----------------------------------------------------------------------------
(* What always holds *)

\* What the theorems below need, and each of its parts for the next step.
QueueInvariant ==
  IInv /\ FrameInvariant /\ BufferInvariant /\ AttachHasBuffer /\ QueuedHaveFrames

\* Every step keeps the invariants and has an effect.
LEMMA QueueInvariantNext ==
  ASSUME PlainUse, QueueInvariant, [Next]_vars PROVE QueueInvariant' /\ Effect
<1>1. /\ IInv /\ FrameInvariant /\ BufferInvariant /\ AttachHasBuffer /\ QueuedHaveFrames
  BY DEF QueueInvariant
<1>2. Effect /\ IInv' BY <1>1, EveryStep, InvariantNext, ZenonT(30)
<1>3. FrameInvariant' BY <1>1, <1>2, FrameInvariantNext, ZenonT(30)
<1>4. BufferInvariant' /\ AttachHasBuffer' BY <1>1, <1>2, BufferInvariantNext, ZenonT(30)
<1>5. QueuedHaveFrames' BY <1>1, <1>2, QueuedHaveFramesNext, ZenonT(30)
<1> QED BY <1>2, <1>3, <1>4, <1>5, ZenonT(30) DEF QueueInvariant

\* The invariant of slots, frames and buffers together.
THEOREM QueueCorrect == ASSUME PlainUse PROVE Spec => []QueueInvariant
<1>1. Init => QueueInvariant BY InvariantInit, InvariantsInit, ZenonT(30) DEF QueueInvariant
<1>2. QueueInvariant /\ [Next]_vars => QueueInvariant' BY QueueInvariantNext
<1> QED BY <1>1, <1>2, PTL DEF Spec

\* acquireBuffer hands the frames out in the order in which queueBuffer numbered
\* them, each at most once, whatever is dropped, replaced or left over from before a
\* disconnect.
THEOREM FramesCorrect == ASSUME PlainUse PROVE Spec => []FramesInOrder
<1>1. QueueInvariant => FramesInOrder BY ZenonT(30) DEF QueueInvariant, FrameInvariant
<1> QED BY <1>1, QueueCorrect, PTL

\* A buffer that acquireBuffer handed out is in no slot but the one it was acquired
\* with, and that slot is acquired, until the consumer releases or detaches it: neither
\* dequeueBuffer nor attachBuffer nor a disconnect gives it to anybody else. A late
\* releaseBuffer for an old frame does not free the slot's new buffer.
THEOREM ConsumerBuffersCorrect == ASSUME PlainUse PROVE Spec => []ConsumerBufferIsAcquired
<1>1. QueueInvariant => ConsumerBufferIsAcquired
  BY ConsumerHasItsBuffers DEF QueueInvariant
<1> QED BY <1>1, QueueCorrect, PTL

-----------------------------------------------------------------------------
(* As long as allocations are announced *)

\* The two counts of a queued frame agree: its slot's and the queue's.
LEMMA QueueMatches ==
  ASSUME IInv, QueuedHaveFrames, AllocationInvariant PROVE QueueMatchesSlots
<1>1. \A i \in 1 .. Len(mQueue) : mQueue[i] \in Elems(mQueue) BY DEF Elems
<1>2. \A i \in 1 .. Len(mQueue) :
        mQueue[i].buf # NoBuffer /\ (~mQueue[i].stale => mQueue[i].buf = mSlots[mQueue[i].slot].buf)
  BY <1>1 DEF AllocationInvariant, QueuedBuffers
<1>3. ASSUME NEW s \in Slot
      PROVE  mSlots[s].que = Cardinality({i \in 1 .. Len(mQueue) :
                                            mQueue[i].slot = s /\ ~mQueue[i].stale})
  <2> DEFINE I == {i \in 1 .. Len(mQueue) : mQueue[i].slot = s /\ ~mQueue[i].stale}
  <2>1. mSlots[s].que \in {0, 1} BY OneOwnerEach
  <2>2. FramesClaimSlots BY DEF IInv, SlotInvariant
  <2>3. CASE mSlots[s].que = 0
    <3>1. I = {} BY <2>2, <2>3, SMTT(30) DEF FramesClaimSlots
    <3> QED BY <2>3, <3>1, FS_EmptySet, ZenonT(30)
  <2>4. CASE mSlots[s].que = 1
    <3>1. PICK x \in Elems(mQueue) : ~x.stale /\ x.slot = s BY <2>4, SMTT(30) DEF QueuedHaveFrames
    <3>2. PICK i \in 1 .. Len(mQueue) : x = mQueue[i] BY DEF Elems
    <3>3. I = {i} BY <2>2, <3>1, <3>2, ZenonT(30) DEF FramesClaimSlots
    <3> QED BY <2>4, <3>3, FS_Singleton, ZenonT(30)
  <2> QED BY <2>1, <2>3, <2>4, ZenonT(30)
<1> QED BY <1>2, <1>3, ZenonT(30) DEF QueueMatchesSlots

\* Every step leaves the slots in their places if allocations are announced.
LEMMA AllocationNext ==
  ASSUME PlainUse, QueueInvariant, AllocationInvariant, AllocationIsAnnounced, [Next]_vars
  PROVE  AllocationInvariant'
<1>1. Effect /\ IInv' BY QueueInvariantNext DEF QueueInvariant
<1> QED BY <1>1, AllocationInvariantNext, ZenonT(30) DEF QueueInvariant

\* The slots stay in their places if allocations are announced.
LEMMA AllocationCorrect ==
  ASSUME PlainUse PROVE Spec /\ []AllocationIsAnnounced => []AllocationInvariant
<1>1. Init => AllocationInvariant BY InvariantsInit
<1>2. QueueInvariant /\ AllocationInvariant /\ AllocationIsAnnounced /\ [Next]_vars =>
        AllocationInvariant'
  BY AllocationNext
<1> QED BY <1>1, <1>2, QueueCorrect, PTL DEF Spec

\* The checks of validateConsistencyLocked on the state and the buffer of a slot hold
\* after every call as long as mIsAllocating is set while a thread allocates.
THEOREM ListStatesCorrect ==
  ASSUME PlainUse PROVE Spec /\ []AllocationIsAnnounced => []ListsMatchSlotStates
<1>1. QueueInvariant /\ AllocationInvariant => ListsMatchSlotStates
  BY ListsMatch DEF QueueInvariant
<1> QED BY <1>1, QueueCorrect, AllocationCorrect, PTL

\* Under the same condition the queue and the slots agree: a slot is queued exactly if
\* one frame that is not stale stands for it, and that frame has the slot's buffer.
THEOREM QueueMatchesSlotsCorrect ==
  ASSUME PlainUse PROVE Spec /\ []AllocationIsAnnounced => []QueueMatchesSlots
<1>1. QueueInvariant /\ AllocationInvariant => QueueMatchesSlots
  BY QueueMatches DEF QueueInvariant
<1> QED BY <1>1, QueueCorrect, AllocationCorrect, PTL

\* BufferQueue implements FrameStream: whatever dequeueBuffer, queueBuffer,
\* acquireBuffer, releaseBuffer, disconnect and the rest do with slots, lists, limits
\* and threads is, for the two users, a step of one queue of frames in which a buffer is
\* written, pending or read, and never two of these.
THEOREM StreamImplemented ==
  ASSUME PlainUse, "consumerAttachBuffer" \notin Calls
  PROVE  Spec /\ []AllocationIsAnnounced => ImplementsFrameStream
<1>1. Init => HeldHaveFrames BY SMTT(30) DEF Init, HeldHaveFrames, Elems
<1>2. QueueInvariant /\ HeldHaveFrames /\ [Next]_vars => HeldHaveFrames'
  BY HeldHaveFramesNext DEF QueueInvariant
<1>3. Init => Stream!StreamInit
  <2> SUFFICES ASSUME Init PROVE Stream!StreamInit OBVIOUS
  <2>1. /\ mQueue = <<>> /\ held = <<>> /\ mFrameCounter = 0
        /\ mSlots = [s \in Slot |-> NewSlot]
    BY DEF Init
  <2>2. \A s \in Slot : ~ProducerOwns(s) BY <2>1, SMTT(30) DEF ProducerOwns, isDequeued, NewSlot
  <2>3. Owned = {} /\ Pending = <<>> /\ HeldFrames = {}
    BY <2>1, <2>2, SMTT(30) DEF Owned, Pending, HeldFrames
  <2> QED BY <2>1, <2>3, ZenonT(30) DEF Stream!StreamInit
<1>4. /\ QueueInvariant /\ AllocationInvariant /\ HeldHaveFrames /\ HeldHaveFrames'
      /\ [Next]_vars
      => [Stream!StreamNext]_(Stream!streamVars)
  BY QueueInvariantNext, EffectsAreStreamSteps, ZenonT(30) DEF QueueInvariant
<1> QED BY <1>1, <1>2, <1>3, <1>4, QueueCorrect, AllocationCorrect, PTL
        DEF Spec, ImplementsFrameStream, Stream!StreamSpec

-----------------------------------------------------------------------------
(* A producer with one thread *)

\* With one producer thread nothing needs to be assumed of mIsAllocating: the slots,
\* the lists and the queue are consistent after every call.
THEOREM OneThreadCorrect ==
  ASSUME PlainUse, OneProducerThread
  PROVE  Spec => [](ListsMatchSlotStates /\ QueueMatchesSlots)
BY AllocationsAnnounced, ListStatesCorrect, QueueMatchesSlotsCorrect, PTL

\* And what the producer and the consumer see is a FrameStream.
THEOREM OneThreadStream ==
  ASSUME PlainUse, OneProducerThread, "consumerAttachBuffer" \notin Calls
  PROVE  Spec => ImplementsFrameStream
BY AllocationsAnnounced, StreamImplemented, PTL

-----------------------------------------------------------------------------
(* The number of slots in use *)

\* There are NumSlots slots.
LEMMA SlotCount == IsFiniteSet(Slot) /\ Cardinality(Slot) = NumSlots
<1>1. 0 \in Int /\ NumSlots - 1 \in Int /\ NumSlots \in Int /\ ~(0 > NumSlots - 1)
      /\ (NumSlots - 1) - 0 + 1 = NumSlots
  BY CoreAssumption, SMTT(30)
<1> QED BY <1>1, FS_Interval DEF Slot

\* Sets of slots are finite.
LEMMA SlotsFinite ==
  ASSUME NEW S \in SUBSET Slot PROVE IsFiniteSet(S) /\ Cardinality(S) \in Nat
<1>1. IsFiniteSet(S) BY SlotCount, FS_Subset
<1> QED BY <1>1, FS_CardinalityType

\* Two disjoint sets of slots.
LEMMA DisjointCount ==
  ASSUME NEW S \in SUBSET Slot, NEW T \in SUBSET Slot, S \cap T = {}
  PROVE  Cardinality(S \cup T) = Cardinality(S) + Cardinality(T)
<1>1. IsFiniteSet(S) /\ IsFiniteSet(T) /\ Cardinality(S) \in Nat /\ Cardinality(T) \in Nat
  BY SlotsFinite
<1>2. Cardinality(S \cup T) = Cardinality(S) + Cardinality(T) - Cardinality(S \cap T)
  BY <1>1, FS_Union
<1>3. Cardinality(S \cap T) = 0 BY FS_EmptySet
<1> QED BY <1>1, <1>2, <1>3, SMTT(30)

\* The end of a list without duplicates has as many elements as positions.
LEMMA SuffixCount ==
  ASSUME NEW q \in Seq(Slot), NoDuplicates(q), NEW n \in 0 .. Len(q)
  PROVE  Cardinality({q[i] : i \in (n + 1) .. Len(q)}) = Len(q) - n
<1> DEFINE I == (n + 1) .. Len(q)
           rest == {q[i] : i \in I}
           f == [i \in I |-> q[i]]
<1>1. Len(q) \in Nat /\ n \in Nat BY SMT
<1>2. I \subseteq 1 .. Len(q) BY <1>1, SMT
<1>3. IsFiniteSet(I) /\ Cardinality(I) = Len(q) - n
  <2>1. n + 1 \in Int /\ Len(q) \in Int BY <1>1, SMT
  <2>2. IsFiniteSet(I) /\ Cardinality(I) = IF n + 1 > Len(q) THEN 0 ELSE Len(q) - (n + 1) + 1
    BY <2>1, FS_Interval
  <2>3. (IF n + 1 > Len(q) THEN 0 ELSE Len(q) - (n + 1) + 1) = Len(q) - n BY <1>1, SMT
  <2> QED BY <2>2, <2>3, SMTT(30)
<1> HIDE DEF I
<1>4. f \in [I -> rest] OBVIOUS
<1>5. \A i, j \in I : f[i] = f[j] => i = j BY <1>2 DEF NoDuplicates
<1>6. f \in Injection(I, rest) BY <1>4, <1>5 DEF Injection, IsInjective
<1>7. f \in Surjection(I, rest) BY <1>4 DEF Surjection
<1>8. ExistsBijection(I, rest) BY <1>6, <1>7 DEF ExistsBijection, Bijection
<1>9. Cardinality(rest) = Cardinality(I) BY <1>3, <1>8, FS_Bijection
<1> QED BY <1>3, <1>9 DEF I

\* adjustAvailableSlotsLocked adds delta to the number of slots in use.
LEMMA AdjustCounts ==
  ASSUME IInv, NEW delta \in Int, adjustAvailableSlotsLocked(delta)
  PROVE  Cardinality(mUnusedSlots') = Cardinality(mUnusedSlots) - delta
<1>1. mUnusedSlots \in SUBSET Slot /\ mFreeSlots \in SUBSET Slot /\ mFreeBuffers \in Seq(Slot)
  BY Modes DEF TypeOK
<1>2. Cardinality(mUnusedSlots) \in Nat BY <1>1, SlotsFinite
<1>3. CASE \E S \in SUBSET mUnusedSlots :
             Cardinality(S) = delta /\ mUnusedSlots' = mUnusedSlots \ S
  <2>1. PICK S \in SUBSET mUnusedSlots :
               Cardinality(S) = delta /\ mUnusedSlots' = mUnusedSlots \ S
    BY <1>3
  <2>2. S \in SUBSET Slot /\ mUnusedSlots \ S \in SUBSET Slot /\ (mUnusedSlots \ S) \cap S = {}
    BY <1>1
  <2>3. Cardinality((mUnusedSlots \ S) \cup S) = Cardinality(mUnusedSlots \ S) + Cardinality(S)
    BY <2>2, DisjointCount
  <2>4. (mUnusedSlots \ S) \cup S = mUnusedSlots OBVIOUS
  <2>5. Cardinality(mUnusedSlots \ S) \in Nat BY <2>2, SlotsFinite
  <2>6. Cardinality(mUnusedSlots) = Cardinality(mUnusedSlots') + delta BY <2>1, <2>3, <2>4
  <2>7. Cardinality(mUnusedSlots') \in Nat BY <2>1, <2>5
  <2> QED BY <1>2, <2>6, <2>7, SMTT(30)
<1>4. CASE \E S \in SUBSET mFreeSlots, n \in 0 .. Len(mFreeBuffers) :
             LET retired == S \cup {mFreeBuffers[i] : i \in (n + 1) .. Len(mFreeBuffers)}
             IN  /\ Cardinality(S) + Len(mFreeBuffers) - n = -delta
                 /\ mUnusedSlots' = mUnusedSlots \cup retired
  <2>1. PICK S \in SUBSET mFreeSlots, n \in 0 .. Len(mFreeBuffers) :
             LET retired == S \cup {mFreeBuffers[i] : i \in (n + 1) .. Len(mFreeBuffers)}
             IN  /\ Cardinality(S) + Len(mFreeBuffers) - n = -delta
                 /\ mUnusedSlots' = mUnusedSlots \cup retired
    BY <1>4
  <2> DEFINE rest == {mFreeBuffers[i] : i \in (n + 1) .. Len(mFreeBuffers)}
  <2>2. NoDuplicates(mFreeBuffers)
        /\ Partition(mFreeSlots, FreeBufferSet, mActiveBuffers, mUnusedSlots)
    BY Modes, ListsArePartition
  <2>3. Cardinality(rest) = Len(mFreeBuffers) - n BY <1>1, <2>2, SuffixCount
  <2>4. rest \subseteq FreeBufferSet BY <1>1, <2>2, ElemsOfPrefix DEF FreeBufferSet
  <2> HIDE DEF rest
  <2>5. /\ Cardinality(S) + Len(mFreeBuffers) - n = -delta
        /\ mUnusedSlots' = mUnusedSlots \cup (S \cup rest)
    BY <2>1 DEF rest
  <2>6. /\ S \in SUBSET Slot /\ rest \in SUBSET Slot /\ S \cup rest \in SUBSET Slot
        /\ S \cap rest = {} /\ mUnusedSlots \cap (S \cup rest) = {}
    BY <1>1, <2>2, <2>4 DEF Partition
  <2>7. Cardinality(S \cup rest) = Cardinality(S) + Cardinality(rest) BY <2>6, DisjointCount
  <2>8. Cardinality(mUnusedSlots') = Cardinality(mUnusedSlots) + Cardinality(S \cup rest)
    BY <1>1, <2>5, <2>6, DisjointCount
  <2>9. Cardinality(S) \in Nat /\ n \in Nat /\ Len(mFreeBuffers) \in Nat
    BY <1>1, <2>6, SlotsFinite, SMTT(30)
  <2> QED BY <1>2, <2>3, <2>5, <2>7, <2>8, <2>9, SMTT(30)
<1> QED BY <1>3, <1>4 DEF adjustAvailableSlotsLocked

\* A step that leaves the limits and the unused slots alone.
LEMMA LimitsAlone ==
  ASSUME AllocatedSlotsMatchLimit, UNCHANGED mUnusedSlots,
         getMaxBufferCountLocked(cfg') = getMaxBufferCountLocked(cfg)
  PROVE  AllocatedSlotsMatchLimit'
BY DEF AllocatedSlotsMatchLimit

\* A step that adds as many slots as the limits allow more.
LEMMA LimitsFollowed ==
  ASSUME IInv, AllocatedSlotsMatchLimit, NEW delta \in Int, adjustAvailableSlotsLocked(delta),
         getMaxBufferCountLocked(cfg) \in Int,
         getMaxBufferCountLocked(cfg') = getMaxBufferCountLocked(cfg) + delta
  PROVE  AllocatedSlotsMatchLimit'
<1>1. Cardinality(mUnusedSlots') = Cardinality(mUnusedSlots) - delta BY AdjustCounts
<1>2. mUnusedSlots \in SUBSET Slot BY Modes DEF TypeOK
<1>3. Cardinality(mUnusedSlots) \in Nat BY <1>2, SlotsFinite
<1>4. NumSlots - Cardinality(mUnusedSlots) = getMaxBufferCountLocked(cfg)
  BY DEF AllocatedSlotsMatchLimit
<1>5. NumSlots - Cardinality(mUnusedSlots') = getMaxBufferCountLocked(cfg')
  BY <1>1, <1>3, <1>4, CoreAssumption, SMTT(30)
<1> QED BY <1>5 DEF AllocatedSlotsMatchLimit

\* connect and the setters that compute the buffer count.
LEMMA DeltaFollowed ==
  ASSUME IInv, IInv', AllocatedSlotsMatchLimit, LimitsFit, LimitsFit',
         adjustAvailableSlotsLocked(Delta(cfg'))
  PROVE  AllocatedSlotsMatchLimit'
<1>1. cfg \in Config /\ cfg' \in Config BY DEF IInv, TypeOK
<1>2. getMaxBufferCountLocked(cfg) \in Int /\ getMaxBufferCountLocked(cfg') \in Int
  BY <1>1, SMT DEF getMaxBufferCountLocked, ExtraBuffer, Config
<1>3. Delta(cfg') \in Int
      /\ getMaxBufferCountLocked(cfg') = getMaxBufferCountLocked(cfg) + Delta(cfg')
  BY <1>2, SMTT(30) DEF Delta
<1> QED BY <1>2, <1>3, LimitsFollowed

\* The setters that add the difference of two limits.
LEMMA DifferenceFollowed ==
  ASSUME IInv, IInv', AllocatedSlotsMatchLimit, LimitsFit, LimitsFit', NEW n \in Nat,
         \/ /\ cfg' = [cfg EXCEPT !.maxDequeued = n]
            /\ adjustAvailableSlotsLocked(n - cfg.maxDequeued)
         \/ /\ cfg' = [cfg EXCEPT !.maxAcquired = n]
            /\ adjustAvailableSlotsLocked(n - cfg.maxAcquired)
  PROVE  AllocatedSlotsMatchLimit'
<1>1. cfg \in Config /\ cfg' \in Config BY DEF IInv, TypeOK
<1>2. /\ getMaxBufferCountLocked(cfg) = cfg.maxAcquired + cfg.maxDequeued + ExtraBuffer(cfg)
      /\ getMaxBufferCountLocked(cfg') = cfg'.maxAcquired + cfg'.maxDequeued + ExtraBuffer(cfg')
      /\ cfg.maxAcquired \in Nat /\ cfg.maxDequeued \in Nat /\ ExtraBuffer(cfg) \in {0, 1}
  BY <1>1, CountOfLimits DEF LimitsFit
<1>3. CASE /\ cfg' = [cfg EXCEPT !.maxDequeued = n]
           /\ adjustAvailableSlotsLocked(n - cfg.maxDequeued)
  <2>1. /\ cfg'.maxAcquired = cfg.maxAcquired /\ cfg'.maxDequeued = n
        /\ ExtraBuffer(cfg') = ExtraBuffer(cfg)
    BY <1>1, <1>3 DEF Config, ExtraBuffer
  <2>2. /\ n - cfg.maxDequeued \in Int /\ getMaxBufferCountLocked(cfg) \in Int
        /\ getMaxBufferCountLocked(cfg') = getMaxBufferCountLocked(cfg) + (n - cfg.maxDequeued)
    BY <1>2, <2>1, SMTT(30)
  <2> QED BY <1>3, <2>2, LimitsFollowed
<1>4. CASE /\ cfg' = [cfg EXCEPT !.maxAcquired = n]
           /\ adjustAvailableSlotsLocked(n - cfg.maxAcquired)
  <2>1. /\ cfg'.maxAcquired = n /\ cfg'.maxDequeued = cfg.maxDequeued
        /\ ExtraBuffer(cfg') = ExtraBuffer(cfg)
    BY <1>1, <1>4 DEF Config, ExtraBuffer
  <2>2. /\ n - cfg.maxAcquired \in Int /\ getMaxBufferCountLocked(cfg) \in Int
        /\ getMaxBufferCountLocked(cfg') = getMaxBufferCountLocked(cfg) + (n - cfg.maxAcquired)
    BY <1>2, <2>1, SMTT(30)
  <2> QED BY <1>4, <2>2, LimitsFollowed
<1> QED BY <1>3, <1>4

\* Every step keeps the number of slots in use at the limit.
LEMMA LimitsNext ==
  ASSUME PlainUse, IInv, AllocatedSlotsMatchLimit, LimitsFit, LimitsFit', [Next]_vars
  PROVE  AllocatedSlotsMatchLimit'
<1>1. IInv' BY InvariantNext
<1>2. cfg \in Config BY DEF IInv, TypeOK
<1>3. CASE \E t \in Threads : ThreadStep(t) BY <1>3, ThreadsKeepLimits, LimitsAlone
<1>4. CASE AcquireStep \/ ReleaseStep \/ \E b \in Buffers : ConsumerAttachBuffer(b)
  BY <1>4, ConsumerKeepsLimits, LimitsAlone
<1>5. ASSUME NEW n \in Limits, setMaxDequeuedBufferCount(n) \/ setMaxAcquiredBufferCount(n)
      PROVE  AllocatedSlotsMatchLimit'
  <2>1. n \in Nat BY ConfigsAssumption
  <2> QED BY <1>1, <1>5, <2>1, DifferenceFollowed
      DEF setMaxDequeuedBufferCount, setMaxAcquiredBufferCount
<1>6. ASSUME NEW b, setAsyncMode(b) \/ setDequeueTimeout(b) \/ setMaxBufferCount(b)
      PROVE  AllocatedSlotsMatchLimit'
  BY <1>1, <1>6, DeltaFollowed DEF setAsyncMode, setDequeueTimeout, setMaxBufferCount
<1>7. ASSUME NEW api, NEW byApp, connect(api, byApp) PROVE AllocatedSlotsMatchLimit'
  BY <1>1, <1>7, DeltaFollowed DEF connect
<1>8. ASSUME NEW b, \/ ConsumerConnect(b) \/ setAllowExtraAcquire(b)
                    \/ \E f \in {"setAutoRefresh", "allowAllocation", "setLegacyBufferDrop"} :
                         SetProducerFlag(f, b)
      PROVE  AllocatedSlotsMatchLimit'
  BY <1>2, <1>8, FlagSetters, SameCount, LimitsAlone
<1>9. \A on : ~setSharedBufferMode(on) BY DEF setSharedBufferMode, PlainUse
<1>10. ~ConsumerDisconnect BY DEF ConsumerDisconnect, PlainUse
<1>11. CASE disconnect \/ ProducerDies \/ binderDied \/ BinderDiedDisconnect \/ discardFreeBuffers
  <2>1. UNCHANGED <<mUnusedSlots, cfg>>
    BY <1>11 DEF disconnect, ProducerDies, binderDied, BinderDiedDisconnect, Disconnect,
       freeAllBuffersLocked, discardFreeBuffers, discardFreeBuffersLocked, slotVars
  <2> QED BY <2>1, LimitsAlone
<1>12. CASE ProducerConfigStep BY <1>5, <1>6, <1>8, <1>9, <1>12 DEF ProducerConfigStep
<1>13. CASE ConnectionStep BY <1>7, <1>8, <1>10, <1>11, <1>13 DEF ConnectionStep
<1>14. CASE ConsumerConfigStep BY <1>5, <1>6, <1>8, <1>11, <1>14 DEF ConsumerConfigStep
<1>15. CASE UNCHANGED vars
  <2>1. UNCHANGED <<mUnusedSlots, cfg>> BY <1>15 DEF vars, slotVars
  <2> QED BY <2>1, LimitsAlone
<1> QED BY <1>3, <1>4, <1>12, <1>13, <1>14, <1>15 DEF Next, ConsumerStep

\* Initially as many slots are in use as the limits allow.
LEMMA LimitsInit == ASSUME Init PROVE AllocatedSlotsMatchLimit
<1>1. cfg \in Config /\ Unclipped(cfg) /\ cfg.maxBuffers <= NumSlots BY FitsInit
<1> DEFINE n == getMaxBufferCountLocked(cfg)
<1>2. n \in Nat /\ n <= NumSlots
  BY <1>1, CoreAssumption, SMTT(30) DEF getMaxBufferCountLocked, ExtraBuffer, Config, Unclipped
<1>3. mUnusedSlots = n .. NumSlots - 1 BY DEF Init
<1> HIDE DEF n
<1>4. n \in Int /\ NumSlots - 1 \in Int BY <1>2, CoreAssumption, SMT
<1>5. Cardinality(n .. NumSlots - 1) = IF n > NumSlots - 1 THEN 0 ELSE (NumSlots - 1) - n + 1
  BY <1>4, FS_Interval
<1>6. NumSlots - Cardinality(mUnusedSlots) = n BY <1>2, <1>3, <1>5, CoreAssumption, SMTT(30)
<1> QED BY <1>6 DEF AllocatedSlotsMatchLimit, n

\* The check "Number of allocated slots is incorrect" of validateConsistencyLocked
\* does not fail as long as the limits are not cut off by mMaxBufferCount: neither
\* connect nor a setter of a limit or a mode gains or loses a slot, although two of
\* them adjust the slots by the difference of the limits.
THEOREM AllocatedSlotsCorrect ==
  ASSUME PlainUse PROVE Spec /\ []LimitsFit => []AllocatedSlotsMatchLimit
<1>1. Init => IInv /\ AllocatedSlotsMatchLimit BY InvariantInit, LimitsInit
<1>2. IInv /\ AllocatedSlotsMatchLimit /\ LimitsFit /\ LimitsFit' /\ [Next]_vars =>
        IInv' /\ AllocatedSlotsMatchLimit'
  BY InvariantNext, LimitsNext
<1> QED BY <1>1, <1>2, PTL DEF Spec

-----------------------------------------------------------------------------
(* A free slot for a producer that must not block *)

\* With at most one frame in the queue the active slots are dequeued, acquired or
\* that frame's.
LEMMA ActiveCount ==
  ASSUME QueueInvariant, Len(mQueue) <= 1
  PROVE  /\ DequeuedCount \in Nat /\ AcquiredCount \in Nat
         /\ Cardinality(mActiveBuffers) <= DequeuedCount + AcquiredCount + 1
<1> DEFINE D == {s \in mActiveBuffers : isDequeued(mSlots[s])}
           A == {s \in mActiveBuffers : isAcquired(mSlots[s])}
           Q == {s \in mActiveBuffers : isQueued(mSlots[s])}
<1>1. IInv /\ QueuedHaveFrames /\ TypeOK BY DEF QueueInvariant, IInv
<1>2. mActiveBuffers \subseteq Slot /\ mQueue \in Seq(BufferItem) BY <1>1 DEF TypeOK
<1>3. D \subseteq Slot /\ A \subseteq Slot /\ Q \subseteq Slot BY <1>2
<1>4. mActiveBuffers = (D \cup A) \cup Q
  <2>1. \A s \in mActiveBuffers :
          isDequeued(mSlots[s]) \/ isAcquired(mSlots[s]) \/ isQueued(mSlots[s])
    BY <1>1, <1>2, OneOwnerEach, SMTT(30) DEF isDequeued, isAcquired, isQueued
  <2> QED BY <2>1
<1>5. Cardinality(Q) <= 1
  <2>1. \A s \in Q : mSlots[s].que > 0 BY DEF isQueued
  <2>2. \A s \in Q : \E i \in 1 .. Len(mQueue) : mQueue[i].slot = s
    BY <1>1, <1>3, <2>1 DEF QueuedHaveFrames, Elems
  <2>3. \A i \in 1 .. Len(mQueue) : i = 1 BY <1>2, SMTT(30)
  <2>4. Q \subseteq {mQueue[1].slot} BY <2>2, <2>3
  <2>5. IsFiniteSet({mQueue[1].slot}) /\ Cardinality({mQueue[1].slot}) = 1 BY FS_Singleton
  <2>6. Cardinality(Q) <= Cardinality({mQueue[1].slot}) BY <2>4, <2>5, FS_Subset
  <2> QED BY <2>5, <2>6
<1>6. DequeuedCount = Cardinality(D) /\ AcquiredCount = Cardinality(A)
  BY DEF DequeuedCount, AcquiredCount
<1> HIDE DEF D, A, Q
<1>7. /\ IsFiniteSet(D) /\ IsFiniteSet(A) /\ IsFiniteSet(Q)
      /\ Cardinality(D) \in Nat /\ Cardinality(A) \in Nat /\ Cardinality(Q) \in Nat
  BY <1>3, SlotsFinite
<1>8. /\ IsFiniteSet(D \cup A)
      /\ Cardinality(D \cup A) = Cardinality(D) + Cardinality(A) - Cardinality(D \cap A)
  BY <1>7, FS_Union
<1>9. Cardinality(mActiveBuffers) =
        Cardinality(D \cup A) + Cardinality(Q) - Cardinality((D \cup A) \cap Q)
  BY <1>4, <1>7, <1>8, FS_Union
<1>10. Cardinality(D \cap A) \in Nat /\ Cardinality((D \cup A) \cap Q) \in Nat
  <2>1. D \cap A \in SUBSET Slot /\ (D \cup A) \cap Q \in SUBSET Slot BY <1>3
  <2> QED BY <2>1, SlotsFinite
<1>11. Cardinality(mActiveBuffers) <= Cardinality(D) + Cardinality(A) + 1
  BY <1>5, <1>7, <1>8, <1>9, <1>10, SMTT(30)
<1> QED BY <1>6, <1>7, <1>11

\* If all slots of the limits are active, somebody is at a limit.
LEMMA TooFewActive ==
  ASSUME NEW active \in Nat, NEW unused \in Nat, NEW deq \in Nat, NEW acq \in Nat,
         NEW maxDeq \in Nat, NEW maxAcq \in Nat, NumSlots = active + unused,
         NumSlots - unused = maxAcq + maxDeq + 1, active <= deq + acq + 1,
         deq < maxDeq, acq <= maxAcq
  PROVE  FALSE
BY CoreAssumption, SMTT(30)

\* So a producer within its limit finds a slot.
LEMMA AsyncFindsSlot ==
  ASSUME QueueInvariant, DroppableIsLast, LimitsFit, AllocatedSlotsMatchLimit PROVE AsyncHasFreeSlot
<1> SUFFICES ASSUME cfg.async \/ cfg.cannotBlock,
                    \A i \in 1 .. Len(mQueue) : mQueue[i].droppable,
                    DequeuedCount < cfg.maxDequeued, AcquiredCount <= cfg.maxAcquired,
                    mFreeSlots = {}, mFreeBuffers = <<>>
             PROVE  FALSE
  BY DEF AsyncHasFreeSlot
<1>1. IInv BY DEF QueueInvariant
<1>2. cfg \in Config BY <1>1 DEF IInv, TypeOK
<1>3. /\ getMaxBufferCountLocked(cfg) = cfg.maxAcquired + cfg.maxDequeued + ExtraBuffer(cfg)
      /\ cfg.maxAcquired \in Nat /\ cfg.maxDequeued \in Nat
  BY <1>2, CountOfLimits DEF LimitsFit
<1>4. ExtraBuffer(cfg) = 1 BY DEF ExtraBuffer
<1>5. Partition(mFreeSlots, FreeBufferSet, mActiveBuffers, mUnusedSlots)
  BY <1>1, Modes, ListsArePartition
<1>6. FreeBufferSet = {} BY EmptyQueue DEF FreeBufferSet
<1>7. /\ mActiveBuffers \in SUBSET Slot /\ mUnusedSlots \in SUBSET Slot
      /\ mActiveBuffers \cap mUnusedSlots = {} /\ mActiveBuffers \cup mUnusedSlots = Slot
  BY <1>5, <1>6 DEF Partition
<1>8. NumSlots = Cardinality(mActiveBuffers) + Cardinality(mUnusedSlots)
  BY <1>7, DisjointCount, SlotCount
<1>9. Cardinality(mActiveBuffers) \in Nat /\ Cardinality(mUnusedSlots) \in Nat
  BY <1>7, SlotsFinite
<1>10. NumSlots - Cardinality(mUnusedSlots) = cfg.maxAcquired + cfg.maxDequeued + 1
  BY <1>3, <1>4 DEF AllocatedSlotsMatchLimit
<1>11. /\ DequeuedCount \in Nat /\ AcquiredCount \in Nat
       /\ Cardinality(mActiveBuffers) <= DequeuedCount + AcquiredCount + 1
  BY <1>1, OneDroppable, ActiveCount DEF IInv, TypeOK
<1> QED BY <1>3, <1>8, <1>9, <1>10, <1>11, TooFewActive

\* In the modes in which dequeueBuffer must not block it does not have to: a producer
\* that has fewer than mMaxDequeuedBufferCount buffers finds a free slot while the
\* consumer has no more than mMaxAcquiredBufferCount and no frame from before
\* setAsyncMode(true) is in the queue, whatever is queued, replaced, cancelled, detached
\* or left from before a disconnect, as long as the limits are not cut off.
THEOREM AsyncCorrect ==
  ASSUME PlainUse PROVE Spec /\ []LimitsFit => []AsyncHasFreeSlot
<1>1. Init => DroppableIsLast
  <2>1. ASSUME Init PROVE 1 .. Len(mQueue) = {}
    <3>1. mQueue = <<>> BY <2>1 DEF Init
    <3> QED BY <3>1, SMTT(30)
  <2> QED BY <2>1 DEF DroppableIsLast
<1>2. QueueInvariant /\ DroppableIsLast /\ [Next]_vars => DroppableIsLast'
  BY QueueInvariantNext, DroppableIsLastNext DEF QueueInvariant
<1>3. QueueInvariant /\ DroppableIsLast /\ LimitsFit /\ AllocatedSlotsMatchLimit
        => AsyncHasFreeSlot
  BY AsyncFindsSlot
<1> QED BY <1>1, <1>2, <1>3, QueueCorrect, AllocatedSlotsCorrect, PTL DEF Spec

-----------------------------------------------------------------------------
(* Waiting producers *)

\* The use of the queue in which no wake-up is lost: as in UnclippedUse, and neither
\* setMaxAcquiredBufferCount nor allowAllocation, which change what a waiting thread
\* would find and notify nobody, nor the extra buffer that lets acquireBuffer return
\* after it has dropped frames.
WakingUse ==
  /\ PlainUse /\ UnclippedUse
  /\ Calls \cap {"allowAllocation", "setMaxAcquiredBufferCount", "setAllowExtraAcquire"} = {}
  /\ \A c \in Configs : c.allowAllocation /\ ~c.extraAcquire

\* What waitForFreeSlotThenRelock finds when it waits.
Stuck ==
  /\ ~Refused /\ ~WouldBlock
  /\ TooManyBuffers \/ (mFreeBuffers = <<>> /\ mFreeSlots = {})

\* Threads wait only for what they do not have, unless acquireBuffer is dropping frames,
\* with the lock held.
WaitersAreStuck ==
  /\ parked # {} /\ consumer # "drop" => Stuck
  /\ cfg.allowAllocation /\ ~cfg.extraAcquire

DequeuedSlots == {s \in mActiveBuffers : isDequeued(mSlots[s])}
AcquiredSlots == {s \in mActiveBuffers : isAcquired(mSlots[s])}

\* A step that leaves a stuck thread stuck.
Undisturbed ==
  /\ UNCHANGED <<mQueue, mIsAbandoned>> /\ (mBufferHasBeenQueued' => mBufferHasBeenQueued)
  /\ SameLimits(cfg', cfg)
  /\ mFreeBuffers = <<>> /\ mFreeSlots = {} => mFreeBuffers' = <<>> /\ mFreeSlots' = {}
  /\ DequeuedSlots' \subseteq DequeuedSlots /\ AcquiredSlots \subseteq AcquiredSlots'

\* It does.
LEMMA StillStuck == ASSUME TypeOK, TypeOK', Stuck, Undisturbed PROVE Stuck'
<1>1. /\ DequeuedSlots \in SUBSET Slot /\ AcquiredSlots \in SUBSET Slot
      /\ DequeuedSlots' \in SUBSET Slot /\ AcquiredSlots' \in SUBSET Slot
  BY DEF TypeOK, DequeuedSlots, AcquiredSlots
<1>2. /\ DequeuedCount = Cardinality(DequeuedSlots) /\ AcquiredCount = Cardinality(AcquiredSlots)
      /\ DequeuedCount' = Cardinality(DequeuedSlots') /\ AcquiredCount' = Cardinality(AcquiredSlots')
  BY DEF DequeuedCount, AcquiredCount, DequeuedSlots, AcquiredSlots
<1>3. /\ IsFiniteSet(DequeuedSlots) /\ IsFiniteSet(AcquiredSlots')
      /\ DequeuedCount \in Nat /\ AcquiredCount \in Nat
      /\ DequeuedCount' \in Nat /\ AcquiredCount' \in Nat
  BY <1>1, <1>2, SlotsFinite
<1>4. DequeuedCount' <= DequeuedCount /\ AcquiredCount <= AcquiredCount'
  BY <1>2, <1>3, FS_Subset DEF Undisturbed
<1>5. /\ cfg.maxDequeued \in Nat /\ cfg.maxAcquired \in Nat
      /\ cfg'.maxDequeued = cfg.maxDequeued /\ cfg'.maxAcquired = cfg.maxAcquired
      /\ cfg'.async = cfg.async /\ cfg'.cannotBlock = cfg.cannotBlock
  BY DEF Undisturbed, SameLimits, TypeOK, Config
<1>6. /\ DequeuedCount' >= cfg'.maxDequeued => DequeuedCount >= cfg.maxDequeued
      /\ AcquiredCount' <= cfg'.maxAcquired => AcquiredCount <= cfg.maxAcquired
  BY <1>3, <1>4, <1>5, SMTT(30)
<1>7. ~Refused' BY <1>6 DEF Stuck, Refused, Undisturbed
<1>8. ~WouldBlock' BY <1>5, <1>6 DEF Stuck, WouldBlock
<1>9. TooManyBuffers' <=> TooManyBuffers BY SameCount DEF TooManyBuffers, Undisturbed
<1> QED BY <1>7, <1>8, <1>9 DEF Stuck, Undisturbed

\* The two free lists in the modes of WakingUse.
LEMMA WhatIsFound ==
  ASSUME IInv, cfg.allowAllocation
  PROVE  /\ \A attach : NoneFound(attach) <=>
               TooManyBuffers \/ (mFreeBuffers = <<>> /\ mFreeSlots = {})
         /\ \A attach, s : Found(attach, s) => ~Stuck
<1>1. ~SharedFound BY Modes
<1>2. ASSUME NEW attach
      PROVE  NoneFound(attach) <=> TooManyBuffers \/ (mFreeBuffers = <<>> /\ mFreeSlots = {})
  BY <1>1 DEF NoneFound
<1>3. ASSUME NEW attach, NEW s, Found(attach, s) PROVE ~Stuck
  BY <1>1, <1>3 DEF Found, Stuck, TakeFreeSlot, TakeFreeBuffer
<1> QED BY <1>2, <1>3

\* Steps that touch only slots that are not active, or make one acquired.
LEMMA OwnersKept ==
  ASSUME IInv, IInv',
         \/ Quiet \/ \E t : \E s \in Slot : AllocationEnds(t, s)
         \/ \E s \in Slot : Fills(s) \/ ConsumerAttaches(s)
  PROVE  DequeuedSlots' \subseteq DequeuedSlots /\ AcquiredSlots \subseteq AcquiredSlots'
<1>1. mActiveBuffers \subseteq Slot BY Modes DEF TypeOK
<1>2. ASSUME NEW R, R \cap mActiveBuffers = {}, OthersSame(R), UNCHANGED mActiveBuffers
      PROVE  DequeuedSlots' \subseteq DequeuedSlots /\ AcquiredSlots \subseteq AcquiredSlots'
  <2>1. \A u \in mActiveBuffers : SameOwners(mSlots'[u], mSlots[u])
    BY <1>1, <1>2 DEF OthersSame, SameSlot
  <2> QED BY <1>2, <2>1 DEF DequeuedSlots, AcquiredSlots, isDequeued, isAcquired, SameOwners
<1>3. CASE Quiet
  <2>1. PICK R \in SUBSET (Slot \ mActiveBuffers) : OthersSame(R) BY <1>3 DEF Quiet
  <2> QED BY <1>2, <1>3, <2>1 DEF Quiet
<1>4. ASSUME NEW t, NEW s \in Slot, AllocationEnds(t, s)
      PROVE  DequeuedSlots' \subseteq DequeuedSlots /\ AcquiredSlots \subseteq AcquiredSlots'
  <2>1. \A u \in Slot : SameOwners(mSlots'[u], mSlots[u])
    BY <1>4 DEF AllocationEnds, OthersSame, SameSlot
  <2>2. UNCHANGED mActiveBuffers BY <1>4 DEF AllocationEnds, SameLists
  <2> QED BY <1>1, <2>1, <2>2 DEF DequeuedSlots, AcquiredSlots, isDequeued, isAcquired, SameOwners
<1>5. ASSUME NEW s \in Slot, Fills(s)
      PROVE  DequeuedSlots' \subseteq DequeuedSlots /\ AcquiredSlots \subseteq AcquiredSlots'
  <2>1. s \notin mActiveBuffers BY <1>5, Modes, ListsArePartition DEF Fills, Partition
  <2>2. {s} \cap mActiveBuffers = {} BY <2>1
  <2> QED BY <1>2, <1>5, <2>2 DEF Fills
<1>6. ASSUME NEW s \in Slot, ConsumerAttaches(s)
      PROVE  DequeuedSlots' \subseteq DequeuedSlots /\ AcquiredSlots \subseteq AcquiredSlots'
  <2>1. /\ s \notin mActiveBuffers /\ mActiveBuffers' = mActiveBuffers \cup {s}
        /\ mSlots'[s].acq = 1 /\ OthersSame({s})
    BY <1>6 DEF ConsumerAttaches, Activates
  <2>2. \A u \in mActiveBuffers : SameOwners(mSlots'[u], mSlots[u])
    BY <1>1, <2>1 DEF OthersSame, SameSlot
  <2>3. mSlots'[s].deq \in Nat /\ mSlots'[s].que \in Nat
    BY OwnersAreNat DEF IInv, TypeOK
  <2>4. mSlots'[s].deq + mSlots'[s].que + mSlots'[s].acq = 1
    BY <2>1 DEF IInv, SlotInvariant, ActiveHasOneOwner
  <2>5. ~(mSlots'[s].deq > 0) BY <2>1, <2>3, <2>4, SMTT(30)
  <2> QED BY <2>1, <2>2, <2>5 DEF DequeuedSlots, AcquiredSlots, isDequeued, isAcquired, SameOwners
<1> QED BY <1>3, <1>4, <1>5, <1>6

\* Steps that leave the slots alone.
LEMMA SlotsAlone ==
  ASSUME UNCHANGED <<mSlots, mActiveBuffers, mFreeSlots, mFreeBuffers, mQueue, mIsAbandoned>>,
         mBufferHasBeenQueued' => mBufferHasBeenQueued, SameLimits(cfg', cfg)
  PROVE  Undisturbed
BY DEF Undisturbed, DequeuedSlots, AcquiredSlots

\* A step that leaves a stuck thread stuck keeps the invariant; so does one that
\* notifies, one of acquireBuffer that goes on dropping, and one that finds a slot.
LEMMA KeepsWaiting ==
  ASSUME TypeOK, TypeOK', WaitersAreStuck, cfg'.allowAllocation, ~cfg'.extraAcquire,
         \/ parked' = {} \/ consumer' = "drop"
         \/ UNCHANGED <<consumer, parked>> /\ ~Stuck
         \/ UNCHANGED consumer /\ Undisturbed /\ (parked' \subseteq parked \/ Stuck)
  PROVE  WaitersAreStuck'
<1>1. CASE parked' = {} \/ consumer' = "drop" BY <1>1 DEF WaitersAreStuck
<1>2. CASE UNCHANGED <<consumer, parked>> /\ ~Stuck BY <1>2 DEF WaitersAreStuck
<1>3. CASE UNCHANGED consumer /\ Undisturbed /\ (parked' \subseteq parked \/ Stuck)
  <2>1. ASSUME parked' # {}, consumer' # "drop" PROVE Stuck'
    <3>1. Stuck BY <1>3, <2>1 DEF WaitersAreStuck
    <3> QED BY <1>3, <3>1, StillStuck
  <2> QED BY <2>1 DEF WaitersAreStuck
<1> QED BY <1>1, <1>2, <1>3

\* The steps of a producer's thread that change neither a slot nor a limit.
LEMMA ControlWaits ==
  ASSUME NEW t \in Threads,
         \/ dequeueBuffer(t) \/ DequeueWaitsForAllocation(t) \/ WaitTimesOut(t)
         \/ detachNextBuffer(t) \/ FrameCallback(t) \/ PreallocStart(t) \/ PreallocYields(t)
         \/ \E b \in Buffers : attachBuffer(t, b)
  PROVE  UNCHANGED <<consumer, cfg>> /\ Undisturbed /\ parked' \subseteq parked
<1>1. /\ UNCHANGED slotVars /\ UNCHANGED queueVars /\ UNCHANGED connVars
      /\ UNCHANGED consumerVars /\ UNCHANGED cfg /\ parked' \subseteq parked
  BY DEF dequeueBuffer, DequeueWaitsForAllocation, WaitTimesOut, detachNextBuffer,
         FrameCallback, PreallocStart, PreallocYields, attachBuffer
<1>2. SameLimits(cfg', cfg) BY <1>1 DEF SameLimits
<1> QED BY <1>1, <1>2, SlotsAlone DEF slotVars, queueVars, connVars, consumerVars

\* A pass of the search that finds nothing.
LEMMA SearchWaits ==
  ASSUME IInv, cfg.allowAllocation, NEW t \in Threads, NEW attach, GiveUpOrWait(t, attach),
         UNCHANGED queueVars, UNCHANGED connVars, UNCHANGED cfg
  PROVE  Undisturbed /\ (parked' \subseteq parked \/ Stuck)
<1>1. SameLimits(cfg', cfg) BY DEF SameLimits
<1>2. Undisturbed
  BY <1>1, SlotsAlone DEF GiveUpOrWait, slotVars, queueVars, connVars
<1>3. UNCHANGED parked \/ (~Refused /\ NoneFound(attach) /\ ~WouldBlock) BY DEF GiveUpOrWait
<1> QED BY <1>2, <1>3, WhatIsFound DEF Stuck

\* The steps that only move slots that are not active.
LEMMA ListsWait ==
  ASSUME IInv, IInv', PlainUse,
         \/ \E t \in Threads : DequeueAllocated(t) \/ DetachNextLocked(t) \/ PreallocEnd(t)
         \/ \E s \in Slot : requestBuffer(s)
         \/ \E b \in Buffers : ConsumerAttachBuffer(b)
         \/ discardFreeBuffers
  PROVE  UNCHANGED <<consumer, cfg, parked>> /\ Undisturbed
<1>1. /\ UNCHANGED <<consumer, cfg, parked, mQueue, mIsAbandoned, mBufferHasBeenQueued>>
  BY DEF DequeueAllocated, DetachNextLocked, PreallocEnd, requestBuffer, ConsumerAttachBuffer,
         discardFreeBuffers, queueVars, connVars, consumerVars, threadVars
<1>2. SameLimits(cfg', cfg) BY <1>1 DEF SameLimits
<1>3. DequeuedSlots' \subseteq DequeuedSlots /\ AcquiredSlots \subseteq AcquiredSlots'
  <2>1. CASE \E t \in Threads : DequeueAllocated(t) BY <2>1, AllocatedEffect, OwnersKept
  <2>2. CASE \E t \in Threads : DetachNextLocked(t) BY <2>2, DetachNextEffect, OwnersKept
  <2>3. CASE \E t \in Threads : PreallocEnd(t) BY <2>3, PreallocEffect, OwnersKept
  <2>4. CASE \E s \in Slot : requestBuffer(s) BY <2>4, RequestEffect, OwnersKept
  <2>5. CASE \E b \in Buffers : ConsumerAttachBuffer(b) BY <2>5, ConsumerAttachEffect, OwnersKept
  <2>6. CASE discardFreeBuffers
    <3>1. ConsumerConfigStep BY <2>6 DEF ConsumerConfigStep
    <3> QED BY <3>1, ConfigEffect, OwnersKept
  <2> QED BY <2>1, <2>2, <2>3, <2>4, <2>5, <2>6
<1>4. ASSUME mFreeBuffers = <<>>, mFreeSlots = {} PROVE mFreeBuffers' = <<>> /\ mFreeSlots' = {}
  <2>1. CASE \E t \in Threads : DequeueAllocated(t)
    BY <1>4, <2>1 DEF DequeueAllocated, IInv, PlainUse
  <2>2. CASE \E t \in Threads : DetachNextLocked(t) BY <1>4, <2>2 DEF DetachNextLocked, slotVars
  <2>3. CASE \E t \in Threads : PreallocEnd(t) BY <1>4, <2>3 DEF PreallocEnd, slotVars
  <2>4. CASE \E s \in Slot : requestBuffer(s) BY <1>4, <2>4 DEF requestBuffer
  <2>5. ~\E b \in Buffers : ConsumerAttachBuffer(b)
    BY <1>4 DEF ConsumerAttachBuffer, TakeFreeSlot, TakeFreeBuffer
  <2>6. CASE discardFreeBuffers
    <3>1. FreeBufferSet = {} BY <1>4, EmptyQueue DEF FreeBufferSet
    <3> QED BY <1>4, <2>6, <3>1 DEF discardFreeBuffers, discardFreeBuffersLocked
  <2> QED BY <2>1, <2>2, <2>3, <2>4, <2>5, <2>6
<1> QED BY <1>1, <1>2, <1>3, <1>4 DEF Undisturbed

\* The producer's threads leave a stuck thread stuck, or wake it.
LEMMA ThreadWaits ==
  ASSUME IInv, IInv', PlainUse, cfg.allowAllocation, NEW t \in Threads, ThreadStep(t)
  PROVE  \/ parked' = {}
         \/ UNCHANGED <<consumer, parked>> /\ ~Stuck
         \/ UNCHANGED consumer /\ Undisturbed /\ (parked' \subseteq parked \/ Stuck)
<1>1. CASE DequeueLocked(t)
  <2>1. /\ UNCHANGED queueVars /\ UNCHANGED connVars /\ UNCHANGED cfg /\ UNCHANGED consumer
    BY <1>1 DEF DequeueLocked, consumerVars
  <2>2. CASE GiveUpOrWait(t, FALSE) BY <2>1, <2>2, SearchWaits
  <2>3. CASE /\ \E s \in Slot, m \in Mismatches : DequeueFound(t, s, m)
             /\ UNCHANGED parked
    BY <2>1, <2>3, WhatIsFound DEF DequeueFound
  <2>4. ~DequeueDiscards(t) BY DEF DequeueDiscards
  <2> QED BY <1>1, <2>2, <2>3, <2>4 DEF DequeueLocked
<1>2. CASE AttachLocked(t)
  <2>1. /\ UNCHANGED queueVars /\ UNCHANGED connVars /\ UNCHANGED cfg /\ UNCHANGED consumer
    BY <1>2 DEF AttachLocked, consumerVars
  <2>2. CASE GiveUpOrWait(t, TRUE) BY <2>1, <2>2, SearchWaits
  <2>3. CASE \E s \in Slot : AttachFound(t, s) BY <2>1, <2>3, WhatIsFound DEF AttachFound
  <2> QED BY <1>2, <2>2, <2>3 DEF AttachLocked
<1>3. CASE \/ dequeueBuffer(t) \/ DequeueWaitsForAllocation(t) \/ WaitTimesOut(t)
           \/ detachNextBuffer(t) \/ FrameCallback(t) \/ PreallocStart(t) \/ PreallocYields(t)
           \/ \E b \in Buffers : attachBuffer(t, b)
  BY <1>3, ControlWaits
<1>4. CASE \/ DequeueAllocated(t) \/ DetachNextLocked(t) \/ PreallocEnd(t)
           \/ \E s \in Slot : requestBuffer(s)
  BY <1>4, ListsWait
<1>5. CASE \E s \in Slot : queueBuffer(t, s) \/ cancelBuffer(s) \/ detachBuffer(s)
  BY <1>5 DEF queueBuffer, cancelBuffer, detachBuffer, NotifyDequeue
<1>6. ~\E s \in Slot : QueueBadCrop(t, s) BY Modes DEF QueueBadCrop
<1> QED BY <1>1, <1>2, <1>3, <1>4, <1>5, <1>6
    DEF ThreadStep, DequeueStep, AttachDetachStep, QueueStep

\* connect and setDequeueTimeout change no limit and no slot.
LEMMA NothingAdjusted ==
  ASSUME TypeOK, TypeOK', SameLimits(cfg', cfg), adjustAvailableSlotsLocked(Delta(cfg'))
  PROVE  UNCHANGED <<mSlots, mFreeSlots, mFreeBuffers>>
<1>1. cfg \in Config BY DEF TypeOK
<1>2. getMaxBufferCountLocked(cfg) \in Int
  BY <1>1, SMT DEF getMaxBufferCountLocked, ExtraBuffer, Config
<1>3. Delta(cfg') = getMaxBufferCountLocked(cfg) - getMaxBufferCountLocked(cfg)
  BY SameCount DEF Delta
<1>4. Delta(cfg') = 0 BY <1>2, <1>3, SMTT(30)
<1>5. ~(0 < 0) BY SMT
<1>6. PICK S \in SUBSET mUnusedSlots :
        Cardinality(S) = 0 /\ mFreeSlots' = mFreeSlots \cup S /\ UNCHANGED <<mSlots, mFreeBuffers>>
  BY <1>4, <1>5 DEF adjustAvailableSlotsLocked
<1>7. S \in SUBSET Slot BY DEF TypeOK
<1>8. IsFiniteSet(S) BY <1>7, SlotsFinite
<1>9. S = {} BY <1>6, <1>8, FS_EmptySet
<1> QED BY <1>6, <1>9

\* The modes that WakingUse leaves to the producer.
LEMMA ModesWait ==
  ASSUME TypeOK, TypeOK', WakingUse, FixedExtra, cfg.allowAllocation, ~cfg.extraAcquire,
         \/ \E d \in {-1, 0, 1} : setDequeueTimeout(d)
         \/ \E api, byApp : connect(api, byApp)
         \/ \E f \in {"setAutoRefresh", "allowAllocation", "setLegacyBufferDrop"}, b \in BOOLEAN :
              SetProducerFlag(f, b)
  PROVE  UNCHANGED <<consumer, parked>> /\ Undisturbed /\ cfg'.allowAllocation /\ ~cfg'.extraAcquire
<1>1. cfg \in Config BY DEF TypeOK
<1>2. ASSUME NEW d, setDequeueTimeout(d)
      PROVE  UNCHANGED <<consumer, parked>> /\ Undisturbed /\ cfg'.allowAllocation /\ ~cfg'.extraAcquire
  <2>1. cfg' = [cfg EXCEPT !.timeout = d, !.cannotBlock = @ /\ d < 0, !.canDrop = @ /\ d <= 0]
    BY <1>2 DEF setDequeueTimeout
  <2>2. cfg.cannotBlock = FALSE /\ cfg'.cannotBlock = FALSE BY <1>1, <2>1 DEF FixedExtra, Config
  <2>3. SameLimits(cfg', cfg) BY <1>1, <2>1, <2>2 DEF SameLimits, Config
  <2>4. cfg'.allowAllocation /\ ~cfg'.extraAcquire BY <1>1, <2>1 DEF Config
  <2>5. adjustAvailableSlotsLocked(Delta(cfg')) BY <1>2 DEF setDequeueTimeout
  <2>6. UNCHANGED <<mSlots, mFreeSlots, mFreeBuffers>> BY <2>3, <2>5, NothingAdjusted
  <2>7. UNCHANGED <<mActiveBuffers, mQueue, mIsAbandoned, mBufferHasBeenQueued, consumer, parked>>
    BY <1>2 DEF setDequeueTimeout, queueVars, connVars, threadVars, consumerVars
  <2> QED BY <2>3, <2>4, <2>6, <2>7, SlotsAlone
<1>3. ASSUME NEW api, NEW byApp, connect(api, byApp)
      PROVE  UNCHANGED <<consumer, parked>> /\ Undisturbed /\ cfg'.allowAllocation /\ ~cfg'.extraAcquire
  <2>1. PICK canDrop : cfg' = [cfg EXCEPT !.cannotBlock = cfg.consumerByApp /\ byApp /\ cfg.timeout < 0,
                                          !.canDrop = canDrop,
                                          !.legacyDrop = TRUE, !.allowAllocation = TRUE]
    BY <1>3 DEF connect
  <2>2. cfg.cannotBlock = FALSE /\ cfg'.cannotBlock = FALSE BY <1>1, <2>1 DEF FixedExtra, Config
  <2>3. SameLimits(cfg', cfg) BY <1>1, <2>1, <2>2 DEF SameLimits, Config
  <2>4. cfg'.allowAllocation /\ ~cfg'.extraAcquire BY <1>1, <2>1 DEF Config
  <2>5. adjustAvailableSlotsLocked(Delta(cfg')) BY <1>3 DEF connect
  <2>6. UNCHANGED <<mSlots, mFreeSlots, mFreeBuffers>> BY <2>3, <2>5, NothingAdjusted
  <2>7. /\ UNCHANGED <<mActiveBuffers, mQueue, mIsAbandoned, consumer, parked>>
        /\ ~mBufferHasBeenQueued'
    BY <1>3 DEF connect, threadVars, consumerVars
  <2> QED BY <2>3, <2>4, <2>6, <2>7, SlotsAlone
<1>4. ASSUME NEW f, NEW b, SetProducerFlag(f, b),
             f \in {"setAutoRefresh", "allowAllocation", "setLegacyBufferDrop"}
      PROVE  UNCHANGED <<consumer, parked>> /\ Undisturbed /\ cfg'.allowAllocation /\ ~cfg'.extraAcquire
  <2>1. f # "allowAllocation" BY <1>4 DEF SetProducerFlag, WakingUse
  <2>2. cfg' = [cfg EXCEPT !.autoRefresh = b] \/ cfg' = [cfg EXCEPT !.legacyDrop = b]
    BY <1>4, <2>1 DEF SetProducerFlag
  <2>3. cfg'.allowAllocation /\ ~cfg'.extraAcquire /\ SameLimits(cfg', cfg)
    BY <1>1, <2>2 DEF Config, SameLimits
  <2> QED BY <1>4, <2>3, SlotsAlone
      DEF SetProducerFlag, slotVars, queueVars, connVars, threadVars, consumerVars
<1> QED BY <1>2, <1>3, <1>4

\* Every step keeps it.
LEMMA WaitersNext ==
  ASSUME WakingUse, IInv, FixedExtra, WaitersAreStuck, [Next]_vars PROVE WaitersAreStuck'
<1>1. IInv' /\ TypeOK /\ TypeOK' BY InvariantNext DEF IInv, WakingUse
<1>2. cfg \in Config /\ cfg.allowAllocation /\ ~cfg.extraAcquire BY <1>1 DEF TypeOK, WaitersAreStuck
<1>3. ASSUME UNCHANGED cfg,
             \/ parked' = {} \/ consumer' = "drop"
             \/ UNCHANGED <<consumer, parked>> /\ ~Stuck
             \/ UNCHANGED consumer /\ Undisturbed /\ (parked' \subseteq parked \/ Stuck)
      PROVE  WaitersAreStuck'
  BY <1>1, <1>2, <1>3, KeepsWaiting
<1>4. ASSUME UNCHANGED slotVars, UNCHANGED queueVars, UNCHANGED mIsAbandoned, UNCHANGED parked,
             UNCHANGED consumer, UNCHANGED cfg
      PROVE  WaitersAreStuck'
  <2>1. Undisturbed BY <1>4, SlotsAlone DEF slotVars, queueVars, SameLimits
  <2> QED BY <1>3, <1>4, <2>1
<1>5. CASE \E t \in Threads : ThreadStep(t)
  BY <1>1, <1>2, <1>3, <1>5, ThreadWaits, ThreadsKeepLimits DEF WakingUse
<1>6. CASE ProducerConfigStep
  <2>1. ASSUME \/ \E n \in Limits : setMaxDequeuedBufferCount(n)
               \/ \E b \in BOOLEAN : setAsyncMode(b)
        PROVE  WaitersAreStuck'
    <3>1. parked' = {} BY <2>1 DEF setMaxDequeuedBufferCount, setAsyncMode, NotifyDequeue
    <3>2. \E n : cfg' = [cfg EXCEPT !.maxDequeued = n] \/ cfg' = [cfg EXCEPT !.async = n]
      BY <2>1 DEF setMaxDequeuedBufferCount, setAsyncMode
    <3>3. cfg'.allowAllocation /\ ~cfg'.extraAcquire BY <1>2, <3>2 DEF Config
    <3> QED BY <1>1, <3>1, <3>3, KeepsWaiting
  <2>2. \A on : ~setSharedBufferMode(on) BY DEF setSharedBufferMode, WakingUse, PlainUse
  <2>3. CASE \/ \E d \in {-1, 0, 1} : setDequeueTimeout(d)
             \/ \E f \in {"setAutoRefresh", "allowAllocation", "setLegacyBufferDrop"}, b \in BOOLEAN :
                  SetProducerFlag(f, b)
    <3>1. UNCHANGED <<consumer, parked>> /\ Undisturbed /\ cfg'.allowAllocation /\ ~cfg'.extraAcquire
      BY <1>1, <1>2, <2>3, ModesWait
    <3> QED BY <1>1, <3>1, KeepsWaiting
  <2> QED BY <1>6, <2>1, <2>2, <2>3 DEF ProducerConfigStep
<1>7. CASE ConnectionStep
  <2>1. CASE \E api, byApp : connect(api, byApp)
    BY <1>1, <1>2, <2>1, ModesWait, KeepsWaiting
  <2>2. CASE Disconnect BY <1>3, <2>2 DEF Disconnect, NotifyDequeue
  <2>3. CASE ProducerDies \/ binderDied BY <1>4, <2>3 DEF ProducerDies, binderDied, threadVars, consumerVars
  <2>4. CASE BinderDiedDisconnect
    BY <1>4, <2>2, <2>4 DEF BinderDiedDisconnect, threadVars, consumerVars
  <2>5. ~ConsumerDisconnect /\ \A byApp : ~ConsumerConnect(byApp)
    BY DEF ConsumerDisconnect, ConsumerConnect, WakingUse, PlainUse, UnclippedUse
  <2> QED BY <1>7, <2>1, <2>2, <2>3, <2>4, <2>5 DEF ConnectionStep, disconnect
<1>8. CASE AcquireStep
  <2>1. ~AcquireRefused BY <1>2 DEF AcquireRefused, NonDroppableOnly
  <2>2. ~AcquireSharedWaits /\ ~AcquireShared
    BY Modes DEF AcquireSharedWaits, AcquireShared, SharedAvailable
  <2>3. AcquireDrop \/ AcquireFront BY <1>8, <2>1, <2>2 DEF AcquireStep
  <2> QED BY <1>3, <2>3 DEF AcquireDrop, AcquireFront, NotifyDequeue
<1>9. CASE ReleaseStep
  <2>1. ASSUME NEW i, releaseBuffer(i) PROVE WaitersAreStuck'
    <3>1. parked' = {} \/ UNCHANGED <<slotVars, parked>>
      BY <2>1 DEF releaseBuffer, NotifyDequeue
    <3> QED BY <1>3, <1>4, <2>1, <3>1 DEF releaseBuffer, connVars
  <2>2. ASSUME NEW i, ConsumerDetachBuffer(i) PROVE WaitersAreStuck'
    BY <1>3, <2>2 DEF ConsumerDetachBuffer, NotifyDequeue
  <2> QED BY <1>9, <2>1, <2>2 DEF ReleaseStep
<1>10. CASE discardFreeBuffers \/ \E b \in Buffers : ConsumerAttachBuffer(b)
  BY <1>1, <1>3, <1>10, ListsWait DEF WakingUse
<1>11. CASE ConsumerConfigStep
  <2>1. /\ \A n : ~setMaxBufferCount(n) /\ ~setMaxAcquiredBufferCount(n)
        /\ \A b : ~setAllowExtraAcquire(b)
    BY DEF setMaxBufferCount, setMaxAcquiredBufferCount, setAllowExtraAcquire, WakingUse,
           UnclippedUse
  <2> QED BY <1>10, <1>11, <2>1 DEF ConsumerConfigStep
<1>12. CASE UNCHANGED vars BY <1>4, <1>12 DEF vars, connVars, threadVars, consumerVars
<1> QED BY <1>5, <1>6, <1>7, <1>8, <1>9, <1>10, <1>11, <1>12 DEF Next, ConsumerStep

\* No notification of mDequeueCondition is missing: a thread that waits in
\* waitForFreeSlotThenRelock is woken by everything that could end its wait, for any
\* number of threads, slots and limits, in any interleaving with allocations, with
\* the consumer and with disconnects. The calls that are left out are the ones after
\* which the code notifies nobody.
THEOREM NoWakeupIsLost == ASSUME WakingUse PROVE Spec => []NoLostWakeup
<1>1. Init => IInv /\ FixedExtra /\ WaitersAreStuck
  <2>1. ASSUME Init PROVE /\ ~cfg.consumerByApp /\ ~cfg.cannotBlock
                          /\ cfg.allowAllocation /\ ~cfg.extraAcquire /\ parked = {}
    BY <2>1, ConfigsAssumption DEF Init, WakingUse, UnclippedUse
  <2> QED BY <2>1, FitsInit, InvariantInit DEF FixedExtra, LimitsFit, WaitersAreStuck, WakingUse
<1>2. IInv /\ FixedExtra /\ WaitersAreStuck /\ [Next]_vars =>
        IInv' /\ FixedExtra' /\ WaitersAreStuck'
  BY InvariantNext, FixedNext, WaitersNext DEF WakingUse, IInv
<1>3. IInv /\ WaitersAreStuck => NoLostWakeup
  BY WhatIsFound DEF NoLostWakeup, WaitersAreStuck, Stuck, Unlocked
<1> QED BY <1>1, <1>2, <1>3, PTL DEF Spec

=============================================================================
