-------------------------- MODULE BufferQueueProofs --------------------------
(***************************************************************************)
(* The slot lists of BufferQueue, proved correct for any number of slots,  *)
(* threads, buffers and frames, outside shared buffer mode and without     *)
(* failing allocations or abandonment. SlotInvariant is inductive together *)
(* with TypeOK: the partition of the slots alone is not, because whether   *)
(* releaseBuffer may append a slot to mFreeBuffers depends on the slot     *)
(* having no second owner, and whether a replaced or dropped frame may     *)
(* free its slot depends on no other frame standing for it.                *)
(*                                                                         *)
(* The second half shows that every step of BufferQueue outside shared     *)
(* buffer mode has one of the sixteen effects of BufferQueueSteps: the     *)
(* handlers one by one, and EveryStep.                                     *)
(***************************************************************************)
EXTENDS BufferQueueSteps

USE Zenon

-----------------------------------------------------------------------------
(* Sequences without duplicates *)

\* The elements of a list without its head.
LEMMA ElemsOfTail ==
  ASSUME NEW S, NEW q \in Seq(S), q # <<>>, NoDuplicates(q)
  PROVE  /\ Elems(Tail(q)) = Elems(q) \ {Head(q)}
         /\ Head(q) \in Elems(q)
         /\ NoDuplicates(Tail(q))
<1>1. /\ Len(q) \in Nat \ {0} /\ Len(Tail(q)) = Len(q) - 1
      /\ \A i \in 1 .. Len(q) - 1 : Tail(q)[i] = q[i + 1]
      /\ Head(q) = q[1]
  BY SMT
<1>2. Elems(Tail(q)) \subseteq Elems(q) \ {Head(q)} BY <1>1, SMT DEF Elems, NoDuplicates
<1>3. ASSUME NEW y \in Elems(q) \ {Head(q)} PROVE y \in Elems(Tail(q))
  <2>1. PICK i \in 1 .. Len(q) : y = q[i] BY DEF Elems
  <2>2. i # 1 BY <1>1, <2>1
  <2>3. i - 1 \in 1 .. Len(q) - 1 /\ Tail(q)[i - 1] = y BY <1>1, <2>1, <2>2, SMT
  <2> QED BY <1>1, <2>3 DEF Elems
<1>4. NoDuplicates(Tail(q))
  <2> SUFFICES ASSUME NEW i \in 1 .. Len(q) - 1, NEW j \in 1 .. Len(q) - 1,
                      Tail(q)[i] = Tail(q)[j]
               PROVE  i = j
    BY <1>1 DEF NoDuplicates
  <2>1. q[i + 1] = q[j + 1] /\ i + 1 \in 1 .. Len(q) /\ j + 1 \in 1 .. Len(q) BY <1>1, SMT
  <2> QED BY <2>1, SMT DEF NoDuplicates
<1>5. Head(q) \in Elems(q) BY <1>1, SMT DEF Elems
<1> QED BY <1>2, <1>3, <1>4, <1>5

\* The elements of a list with one more at its front.
LEMMA ElemsOfPrepend ==
  ASSUME NEW S, NEW q \in Seq(S), NEW x \in S
  PROVE  /\ Elems(<<x>> \o q) = Elems(q) \cup {x}
         /\ NoDuplicates(q) /\ x \notin Elems(q) => NoDuplicates(<<x>> \o q)
<1> DEFINE p == <<x>> \o q
<1>1. /\ Len(p) = Len(q) + 1 /\ p[1] = x
      /\ \A i \in 2 .. Len(q) + 1 : p[i] = q[i - 1]
  BY SMT
<1> HIDE DEF p
<1>2. Elems(p) \subseteq Elems(q) \cup {x}
  <2> SUFFICES ASSUME NEW i \in 1 .. Len(p) PROVE p[i] \in Elems(q) \cup {x}
    BY DEF Elems
  <2>1. CASE i = 1 BY <1>1, <2>1
  <2>2. CASE i # 1
    <3>1. p[i] = q[i - 1] /\ i - 1 \in 1 .. Len(q) BY <1>1, <2>2, SMT
    <3> QED BY <3>1 DEF Elems
  <2> QED BY <2>1, <2>2
<1>3. x \in Elems(p)
  <2>1. 1 \in 1 .. Len(p) BY <1>1, SMT
  <2> QED BY <1>1, <2>1 DEF Elems
<1>4. ASSUME NEW i \in 1 .. Len(q) PROVE q[i] \in Elems(p)
  <2>1. i + 1 \in 1 .. Len(p) /\ p[i + 1] = q[i] BY <1>1, SMT
  <2> QED BY <2>1 DEF Elems
<1>5. Elems(p) = Elems(q) \cup {x} BY <1>2, <1>3, <1>4 DEF Elems
<1>6. ASSUME NoDuplicates(q), x \notin Elems(q),
             NEW i \in 1 .. Len(p), NEW j \in 1 .. Len(p), p[i] = p[j]
      PROVE  i = j
  <2>1. ASSUME NEW k \in 1 .. Len(p), k # 1 PROVE p[k] = q[k - 1] /\ k - 1 \in 1 .. Len(q)
    BY <1>1, <2>1, SMT
  <2>2. ASSUME NEW k \in 1 .. Len(p), k # 1 PROVE p[k] \in Elems(q)
    BY <2>1, <2>2 DEF Elems
  <2>3. CASE i = 1 \/ j = 1 BY <1>1, <1>6, <2>2, <2>3
  <2>4. CASE i # 1 /\ j # 1
    <3>1. i - 1 = j - 1 BY <1>6, <2>1, <2>4 DEF NoDuplicates
    <3> QED BY <3>1, SMT
  <2> QED BY <2>3, <2>4
<1> QED BY <1>5, <1>6 DEF p, NoDuplicates

\* The elements of the front of a list.
LEMMA ElemsOfPrefix ==
  ASSUME NEW S, NEW q \in Seq(S), NEW n \in 0 .. Len(q), NoDuplicates(q)
  PROVE  LET rest == {q[i] : i \in (n + 1) .. Len(q)}
         IN  /\ Elems(SubSeq(q, 1, n)) = Elems(q) \ rest
             /\ rest \subseteq Elems(q)
             /\ NoDuplicates(SubSeq(q, 1, n))
<1> DEFINE p == SubSeq(q, 1, n)
           rest == {q[i] : i \in (n + 1) .. Len(q)}
<1>1. Len(p) = n /\ \A i \in 1 .. n : p[i] = q[i] BY SMT
<1> HIDE DEF p
<1>2. rest \subseteq Elems(q) BY SMT DEF Elems
<1>3. Elems(p) = Elems(q) \ rest
  <2>1. ASSUME NEW i \in 1 .. n PROVE p[i] \in Elems(q) /\ p[i] \notin rest
    BY <1>1, SMT DEF Elems, NoDuplicates
  <2>2. ASSUME NEW i \in 1 .. Len(q), q[i] \notin rest PROVE q[i] \in Elems(p)
    <3>1. i \in 1 .. n BY <2>2, SMT
    <3> QED BY <1>1, <3>1 DEF Elems
  <2>3. Elems(p) \subseteq Elems(q) \ rest BY <1>1, <2>1 DEF Elems
  <2>4. Elems(q) \ rest \subseteq Elems(p)
    <3> HIDE DEF rest
    <3> QED BY <2>2 DEF Elems
  <2> QED BY <2>3, <2>4
<1>4. NoDuplicates(p) BY <1>1, SMT DEF NoDuplicates
<1> QED BY <1>2, <1>3, <1>4 DEF p

-----------------------------------------------------------------------------
(* The lists: moving slots from one to another *)

Partition(F, B, A, U) ==
  /\ F \cup B \cup A \cup U = Slot
  /\ F \cap (B \cup A \cup U) = {} /\ B \cap (A \cup U) = {} /\ A \cap U = {}

\* The four lists are a partition of the slots, before and after a step.
LEMMA ListsArePartition ==
  /\ ListsPartitionSlots <=> /\ Partition(mFreeSlots, FreeBufferSet, mActiveBuffers, mUnusedSlots)
                             /\ NoDuplicates(mFreeBuffers)
  /\ ListsPartitionSlots' <=>
       /\ Partition(mFreeSlots', Elems(mFreeBuffers'), mActiveBuffers', mUnusedSlots')
       /\ NoDuplicates(mFreeBuffers')
BY DEF ListsPartitionSlots, Partition, NoDuplicates, FreeBufferSet

\* A slot found by dequeueBuffer or either attachBuffer becomes active.
LEMMA TakeSlot ==
  ASSUME TypeOK, ListsPartitionSlots, NEW s \in Slot,
         TakeFreeSlot(s) \/ TakeFreeBuffer(s),
         mActiveBuffers' = mActiveBuffers \cup {s}, UNCHANGED mUnusedSlots
  PROVE  ListsPartitionSlots' /\ s \notin mActiveBuffers
<1> USE ListsArePartition
<1>1. CASE TakeFreeSlot(s)
  BY <1>1 DEF TakeFreeSlot, Partition, FreeBufferSet
<1>2. CASE TakeFreeBuffer(s)
  <2>1. /\ Elems(Tail(mFreeBuffers)) = Elems(mFreeBuffers) \ {s}
        /\ s \in Elems(mFreeBuffers) /\ NoDuplicates(Tail(mFreeBuffers))
    BY <1>2, ElemsOfTail DEF TakeFreeBuffer, TypeOK
  <2> QED BY <1>2, <2>1, SMT DEF TakeFreeBuffer, Partition, FreeBufferSet
<1> QED BY <1>1, <1>2

\* A slot given back goes from the active slots to the end of mFreeBuffers.
LEMMA ReturnSlot ==
  ASSUME TypeOK, ListsPartitionSlots, NEW s \in mActiveBuffers,
         mActiveBuffers' = mActiveBuffers \ {s}, mFreeBuffers' = Append(mFreeBuffers, s),
         UNCHANGED <<mFreeSlots, mUnusedSlots>>
  PROVE  ListsPartitionSlots'
<1> USE ListsArePartition
<1>1. s \in Slot /\ s \notin Elems(mFreeBuffers) BY DEF TypeOK, Partition, FreeBufferSet
<1>2. Elems(mFreeBuffers') = Elems(mFreeBuffers) \cup {s} /\ NoDuplicates(mFreeBuffers')
  BY <1>1, ElemsOfAppend, SMT DEF TypeOK
<1> QED BY <1>1, <1>2, SMT DEF Partition, FreeBufferSet

\* detachBuffer: an active slot becomes an empty free slot.
LEMMA DetachSlot ==
  ASSUME ListsPartitionSlots, NEW s \in mActiveBuffers, Detach(s)
  PROVE  ListsPartitionSlots'
BY ListsArePartition DEF Detach, Partition, FreeBufferSet

\* The first of mFreeBuffers loses its buffer (detachNextBuffer and others).
LEMMA EmptyFirst ==
  ASSUME TypeOK, ListsPartitionSlots, mFreeBuffers # <<>>,
         mFreeSlots' = mFreeSlots \cup {Head(mFreeBuffers)},
         mFreeBuffers' = Tail(mFreeBuffers), UNCHANGED <<mActiveBuffers, mUnusedSlots>>
  PROVE  ListsPartitionSlots' /\ Head(mFreeBuffers) \in Slot \ mActiveBuffers
<1> USE ListsArePartition
<1>1. /\ Elems(Tail(mFreeBuffers)) = Elems(mFreeBuffers) \ {Head(mFreeBuffers)}
      /\ Head(mFreeBuffers) \in Elems(mFreeBuffers) /\ NoDuplicates(Tail(mFreeBuffers))
  BY ElemsOfTail DEF TypeOK
<1> QED BY <1>1, ZenonT(30) DEF Partition, FreeBufferSet

\* allocateBuffers: an empty free slot gets a buffer.
LEMMA FillSlot ==
  ASSUME TypeOK, ListsPartitionSlots, NEW s \in mFreeSlots,
         mFreeBuffers' = <<s>> \o mFreeBuffers, mFreeSlots' = mFreeSlots \ {s},
         UNCHANGED <<mActiveBuffers, mUnusedSlots>>
  PROVE  ListsPartitionSlots'
<1> USE ListsArePartition
<1>1. s \in Slot /\ s \notin Elems(mFreeBuffers) BY DEF Partition, FreeBufferSet
<1>2. Elems(mFreeBuffers') = Elems(mFreeBuffers) \cup {s} /\ NoDuplicates(mFreeBuffers')
  BY <1>1, ElemsOfPrepend, SMT DEF TypeOK
<1> QED BY <1>1, <1>2, SMT DEF Partition, FreeBufferSet

\* The empty list has no elements.
LEMMA EmptyQueue == Elems(<<>>) = {} /\ NoDuplicates(<<>>)
BY SMT DEF Elems, NoDuplicates

\* freeAllBuffersLocked keeps the partition.
LEMMA FreeAllSlots ==
  ASSUME ListsPartitionSlots, freeAllBuffersLocked PROVE ListsPartitionSlots'
BY ListsArePartition, EmptyQueue DEF freeAllBuffersLocked, Partition, FreeBufferSet

\* discardFreeBuffersLocked keeps the partition.
LEMMA DiscardSlots ==
  ASSUME ListsPartitionSlots, discardFreeBuffersLocked PROVE ListsPartitionSlots'
BY ListsArePartition, EmptyQueue DEF discardFreeBuffersLocked, Partition, FreeBufferSet

\* adjustAvailableSlotsLocked moves and clears slots that are not active only.
LEMMA AdjustSlots ==
  ASSUME TypeOK, ListsPartitionSlots, NEW delta, adjustAvailableSlotsLocked(delta),
         UNCHANGED mActiveBuffers
  PROVE  /\ ListsPartitionSlots'
         /\ \E R \in SUBSET (Slot \ mActiveBuffers) : mSlots' = clearBufferSlotLocked(R)
<1> USE ListsArePartition
<1>1. CASE /\ \E S \in SUBSET mUnusedSlots :
                /\ mFreeSlots' = mFreeSlots \cup S /\ mUnusedSlots' = mUnusedSlots \ S
           /\ UNCHANGED <<mSlots, mFreeBuffers>>
  <2>1. ListsPartitionSlots' BY <1>1 DEF Partition, FreeBufferSet
  <2>2. mSlots' = clearBufferSlotLocked({}) BY <1>1 DEF clearBufferSlotLocked, TypeOK
  <2> QED BY <2>1, <2>2
<1>2. CASE \E S \in SUBSET mFreeSlots, n \in 0 .. Len(mFreeBuffers) :
             LET retired == S \cup {mFreeBuffers[i] : i \in (n + 1) .. Len(mFreeBuffers)}
             IN  /\ mSlots' = clearBufferSlotLocked(retired)
                 /\ mFreeSlots' = mFreeSlots \ S
                 /\ mFreeBuffers' = SubSeq(mFreeBuffers, 1, n)
                 /\ mUnusedSlots' = mUnusedSlots \cup retired
  <2>1. PICK S \in SUBSET mFreeSlots, n \in 0 .. Len(mFreeBuffers) :
          LET retired == S \cup {mFreeBuffers[i] : i \in (n + 1) .. Len(mFreeBuffers)}
          IN  /\ mSlots' = clearBufferSlotLocked(retired)
              /\ mFreeSlots' = mFreeSlots \ S
              /\ mFreeBuffers' = SubSeq(mFreeBuffers, 1, n)
              /\ mUnusedSlots' = mUnusedSlots \cup retired
    BY <1>2
  <2> DEFINE rest == {mFreeBuffers[i] : i \in (n + 1) .. Len(mFreeBuffers)}
  <2>2. /\ Elems(SubSeq(mFreeBuffers, 1, n)) = Elems(mFreeBuffers) \ rest
        /\ rest \subseteq Elems(mFreeBuffers) /\ NoDuplicates(SubSeq(mFreeBuffers, 1, n))
    BY ElemsOfPrefix DEF TypeOK
  <2> HIDE DEF rest
  <2>3. /\ mSlots' = clearBufferSlotLocked(S \cup rest) /\ mFreeSlots' = mFreeSlots \ S
        /\ mFreeBuffers' = SubSeq(mFreeBuffers, 1, n)
        /\ mUnusedSlots' = mUnusedSlots \cup (S \cup rest)
    BY <2>1 DEF rest
  <2>4. S \cup rest \subseteq Slot \ mActiveBuffers BY <2>2 DEF Partition, FreeBufferSet
  <2>5. ListsPartitionSlots' BY <2>2, <2>3 DEF Partition, FreeBufferSet
  <2> QED BY <2>3, <2>4, <2>5
<1> QED BY <1>1, <1>2 DEF adjustAvailableSlotsLocked

-----------------------------------------------------------------------------
(* Owners of slots and the frames that claim them *)

\* What the operations on the counts do to a slot with its one owner, or none.
LEMMA OwnerMoves ==
  ASSUME NEW r \in BufferSlot
  PROVE  /\ Owners(r) = 0 => Owners(dequeue(r)) = 1 /\ Owners(acquireNotInQueue(r)) = 1
         /\ Owners(r) = 1 /\ r.deq > 0 =>
              /\ Owners(queue(r)) = 1 /\ queue(r).que = 1 /\ r.que = 0
              /\ Owners(cancel(r)) = 0
         /\ Owners(r) = 1 /\ r.que > 0 =>
              /\ Owners(acquire(r)) = 1 /\ acquire(r).que = 0
              /\ Owners(freeQueued(r)) = 0 /\ freeQueued(r).que = 0
         /\ Owners(r) = 1 /\ r.acq > 0 => Owners(release(r)) = 0 /\ r.que = 0
         /\ dequeue(r).que = r.que /\ acquireNotInQueue(r).que = r.que
         /\ cancel(r).que = r.que /\ release(r).que = r.que
<1>1. /\ dequeue(r) = [r EXCEPT !.deq = r.deq + 1]
      /\ acquireNotInQueue(r) = [r EXCEPT !.acq = r.acq + 1]
      /\ queue(r) = [r EXCEPT !.deq = Less1(r.deq), !.que = r.que + 1]
      /\ cancel(r) = [r EXCEPT !.deq = Less1(r.deq)]
      /\ acquire(r) = [r EXCEPT !.que = Less1(r.que), !.acq = r.acq + 1]
      /\ freeQueued(r) = [r EXCEPT !.que = Less1(r.que)]
      /\ release(r) = [r EXCEPT !.acq = Less1(r.acq)]
  BY DEF dequeue, acquireNotInQueue, queue, cancel, acquire, freeQueued, release, BufferSlot
<1>2. \A d, q, a \in Nat :
        /\ [r EXCEPT !.deq = d].deq = d /\ [r EXCEPT !.deq = d].que = r.que
        /\ [r EXCEPT !.deq = d].acq = r.acq
        /\ [r EXCEPT !.que = q].deq = r.deq /\ [r EXCEPT !.que = q].que = q
        /\ [r EXCEPT !.que = q].acq = r.acq
        /\ [r EXCEPT !.acq = a].deq = r.deq /\ [r EXCEPT !.acq = a].que = r.que
        /\ [r EXCEPT !.acq = a].acq = a
        /\ [r EXCEPT !.deq = d, !.que = q].deq = d /\ [r EXCEPT !.deq = d, !.que = q].que = q
        /\ [r EXCEPT !.deq = d, !.que = q].acq = r.acq
        /\ [r EXCEPT !.que = q, !.acq = a].deq = r.deq /\ [r EXCEPT !.que = q, !.acq = a].que = q
        /\ [r EXCEPT !.que = q, !.acq = a].acq = a
  BY DEF BufferSlot
<1>3. \A n \in Nat : Less1(n) \in Nat /\ n + 1 \in Nat
                     /\ (n = 1 => Less1(n) = 0) /\ (n = 0 => Less1(n) = 0)
  BY SMT DEF Less1
<1>4. r.deq \in Nat /\ r.que \in Nat /\ r.acq \in Nat BY DEF BufferSlot
<1>5. Owners(r) = 0 => Owners(dequeue(r)) = 1 /\ Owners(acquireNotInQueue(r)) = 1
  BY <1>1, <1>2, <1>4, SMT DEF Owners
<1>6. Owners(r) = 1 /\ r.deq > 0 =>
        /\ Owners(queue(r)) = 1 /\ queue(r).que = 1 /\ r.que = 0 /\ Owners(cancel(r)) = 0
  <2> SUFFICES ASSUME Owners(r) = 1, r.deq > 0
               PROVE  /\ Owners(queue(r)) = 1 /\ queue(r).que = 1 /\ r.que = 0
                      /\ Owners(cancel(r)) = 0
    OBVIOUS
  <2>1. r.deq = 1 /\ r.que = 0 /\ r.acq = 0 BY <1>4, SMT DEF Owners
  <2>3. Less1(r.deq) = 0 /\ r.que + 1 = 1 BY <1>3, <2>1, SMT
  <2>2. queue(r) = [r EXCEPT !.deq = 0, !.que = 1] /\ cancel(r) = [r EXCEPT !.deq = 0]
    BY <1>1, <2>3
  <2> QED BY <1>2, <2>1, <2>2, SMT DEF Owners
<1>7. Owners(r) = 1 /\ r.que > 0 =>
        /\ Owners(acquire(r)) = 1 /\ acquire(r).que = 0
        /\ Owners(freeQueued(r)) = 0 /\ freeQueued(r).que = 0
  <2> SUFFICES ASSUME Owners(r) = 1, r.que > 0
               PROVE  /\ Owners(acquire(r)) = 1 /\ acquire(r).que = 0
                      /\ Owners(freeQueued(r)) = 0 /\ freeQueued(r).que = 0
    OBVIOUS
  <2>1. r.deq = 0 /\ r.que = 1 /\ r.acq = 0 BY <1>4, SMT DEF Owners
  <2>3. Less1(r.que) = 0 /\ r.acq + 1 = 1 BY <1>3, <2>1, SMT
  <2>2. acquire(r) = [r EXCEPT !.que = 0, !.acq = 1] /\ freeQueued(r) = [r EXCEPT !.que = 0]
    BY <1>1, <2>3
  <2> QED BY <1>2, <2>1, <2>2, SMT DEF Owners
<1>8. Owners(r) = 1 /\ r.acq > 0 => Owners(release(r)) = 0 /\ r.que = 0
  <2> SUFFICES ASSUME Owners(r) = 1, r.acq > 0 PROVE Owners(release(r)) = 0 /\ r.que = 0
    OBVIOUS
  <2>1. r.deq = 0 /\ r.que = 0 /\ r.acq = 1 BY <1>4, SMT DEF Owners
  <2>2. release(r) = [r EXCEPT !.acq = 0] BY <1>1, <1>3, <2>1, SMT
  <2> QED BY <1>2, <2>1, <2>2, SMT DEF Owners
<1>9. /\ dequeue(r).que = r.que /\ acquireNotInQueue(r).que = r.que
      /\ cancel(r).que = r.que /\ release(r).que = r.que
  BY <1>1, <1>2, <1>3, <1>4, SMT
<1> QED BY <1>5, <1>6, <1>7, <1>8, <1>9

\* Slots that no frame claims may change their count.
LEMMA ClaimsKept ==
  ASSUME NEW q \in Seq(BufferItem), NEW slots, NEW new, Claims(q, slots),
         \A s \in Slot : new[s].que = slots[s].que \/ slots[s].que # 1
  PROVE  Claims(q, new)
<1> QED BY ItemSlots DEF Claims

\* The front frame leaves, with its claim.
LEMMA ClaimsOfTail ==
  ASSUME NEW q \in Seq(BufferItem), q # <<>>, NEW slots, NEW new, Claims(q, slots),
         \A s \in Slot : \/ new[s].que = slots[s].que \/ slots[s].que # 1
                         \/ ~Head(q).stale /\ s = Head(q).slot
  PROVE  Claims(Tail(q), new)
<1>1. /\ Len(q) \in Nat \ {0} /\ Len(Tail(q)) = Len(q) - 1 /\ Head(q) = q[1]
      /\ \A i \in 1 .. Len(q) - 1 : Tail(q)[i] = q[i + 1] /\ i + 1 \in 1 .. Len(q)
  BY SMT
<1> SUFFICES ASSUME NEW i \in 1 .. Len(q) - 1, ~Tail(q)[i].stale
             PROVE  /\ new[Tail(q)[i].slot].que = 1
                    /\ \A j \in 1 .. Len(q) - 1 :
                         (~Tail(q)[j].stale /\ Tail(q)[j].slot = Tail(q)[i].slot) => i = j
  BY <1>1 DEF Claims
<1>2. Tail(q)[i] = q[i + 1] /\ i + 1 \in 1 .. Len(q) /\ q[i + 1].slot \in Slot
  BY <1>1, ItemSlots
<1>3. slots[q[i + 1].slot].que = 1 BY <1>2 DEF Claims
<1>4. ~(~Head(q).stale /\ q[i + 1].slot = Head(q).slot) BY <1>1, <1>2, SMT DEF Claims
<1>5. new[Tail(q)[i].slot].que = 1 BY <1>2, <1>3, <1>4
<1>6. ASSUME NEW j \in 1 .. Len(q) - 1, ~Tail(q)[j].stale, Tail(q)[j].slot = Tail(q)[i].slot
      PROVE  i = j
  <2>1. Tail(q)[j] = q[j + 1] /\ j + 1 \in 1 .. Len(q) BY <1>1
  <2>2. i + 1 = j + 1 BY <1>2, <1>6, <2>1 DEF Claims
  <2> QED BY <2>2, SMT
<1> QED BY <1>5, <1>6

\* A frame is queued for a slot that no frame claims.
LEMMA ClaimsOfAppend ==
  ASSUME NEW q \in Seq(BufferItem), NEW item \in BufferItem, NEW slots, NEW new,
         Claims(q, slots), slots[item.slot].que # 1, new[item.slot].que = 1,
         \A s \in Slot : new[s].que = slots[s].que \/ slots[s].que # 1
  PROVE  Claims(Append(q, item), new)
<1> DEFINE p == Append(q, item)
<1>1. /\ Len(p) = Len(q) + 1 /\ p[Len(q) + 1] = item
      /\ \A i \in 1 .. Len(q) : p[i] = q[i] /\ q[i].slot \in Slot
  BY ItemSlots, SMT
<1>2. \A i \in 1 .. Len(p) : i # Len(p) => i \in 1 .. Len(q) BY <1>1, SMT
<1> HIDE DEF p
<1>3. \A i \in 1 .. Len(q) : ~q[i].stale => slots[q[i].slot].que = 1 /\ q[i].slot # item.slot
  BY DEF Claims
<1>4. ASSUME NEW i \in 1 .. Len(p), ~p[i].stale
      PROVE  /\ new[p[i].slot].que = 1
             /\ \A j \in 1 .. Len(p) : (~p[j].stale /\ p[j].slot = p[i].slot) => i = j
  <2>1. CASE i = Len(p) BY <1>1, <1>2, <1>3, <2>1
  <2>2. CASE i # Len(p)
    <3>1. i \in 1 .. Len(q) /\ p[i] = q[i] BY <1>1, <1>2, <2>2
    <3>2. new[p[i].slot].que = 1 BY <1>1, <1>3, <1>4, <3>1
    <3>3. ASSUME NEW j \in 1 .. Len(p), ~p[j].stale, p[j].slot = p[i].slot PROVE i = j
      <4>1. j # Len(p) BY <1>1, <1>3, <1>4, <3>1, <3>3, ZenonT(30)
      <4>2. j \in 1 .. Len(q) /\ p[j] = q[j] BY <1>1, <1>2, <4>1
      <4> QED BY <1>4, <3>1, <3>3, <4>2 DEF Claims
    <3> QED BY <3>2, <3>3
  <2> QED BY <2>1, <2>2
<1> QED BY <1>4 DEF Claims, p

\* The last frame is replaced; if it was not stale its claim goes with it.
LEMMA ClaimsOfReplace ==
  ASSUME NEW q \in Seq(BufferItem), q # <<>>, NEW item \in BufferItem, NEW slots, NEW new,
         Claims(q, slots), slots[item.slot].que # 1, new[item.slot].que = 1,
         \A s \in Slot : \/ new[s].que = slots[s].que \/ slots[s].que # 1
                         \/ ~q[Len(q)].stale /\ s = q[Len(q)].slot
  PROVE  Claims([q EXCEPT ![Len(q)] = item], new)
<1> DEFINE n == Len(q)
           p == [q EXCEPT ![n] = item]
<1>0. n \in 1 .. Len(q) BY SMT
<1>1. /\ Len(p) = n /\ p[n] = item
      /\ \A i \in 1 .. n : i # n => p[i] = q[i]
  BY <1>0, ExceptIsSeq, SMT
<1> HIDE DEF p
<1>2. \A i \in 1 .. n : q[i].slot \in Slot BY ItemSlots
<1>3. \A i \in 1 .. n : ~q[i].stale => slots[q[i].slot].que = 1 /\ q[i].slot # item.slot
  BY DEF Claims
<1>4. \A i \in 1 .. n : i # n /\ ~q[i].stale => ~(~q[n].stale /\ q[i].slot = q[n].slot)
  BY <1>0 DEF Claims
<1>5. ASSUME NEW i \in 1 .. n, ~p[i].stale
      PROVE  /\ new[p[i].slot].que = 1
             /\ \A j \in 1 .. n : (~p[j].stale /\ p[j].slot = p[i].slot) => i = j
  <2>1. CASE i = n BY <1>1, <1>3, <2>1
  <2>2. CASE i # n
    <3>1. p[i] = q[i] BY <1>1, <2>2
    <3>2. new[p[i].slot].que = 1 BY <1>2, <1>3, <1>4, <1>5, <2>2, <3>1
    <3>3. ASSUME NEW j \in 1 .. n, ~p[j].stale, p[j].slot = p[i].slot PROVE i = j
      <4>1. j # n BY <1>1, <1>3, <1>5, <3>1, <3>3
      <4>2. p[j] = q[j] BY <1>1, <4>1
      <4> QED BY <1>5, <3>1, <3>3, <4>2 DEF Claims
    <3> QED BY <3>2, <3>3
  <2> QED BY <2>1, <2>2
<1> QED BY <1>1, <1>5 DEF Claims, p

-----------------------------------------------------------------------------
(* The invariant, slot by slot *)

\* The parts of SlotInvariant' put together.
LEMMA InvariantParts ==
  ASSUME ListsPartitionSlots', Claims(mQueue', mSlots'),
         \A u \in Slot : /\ Owners(mSlots'[u]) = IF u \in mActiveBuffers' THEN 1 ELSE 0
                         /\ ~mSlots'[u].shared,
         ~cfg'.sharedMode, mSharedBufferSlot' = NoSlot, consumer' # "sharedWait"
  PROVE  SlotInvariant'
BY FramesClaims DEF SlotInvariant, ActiveHasOneOwner, NothingShared, Owners

\* A step that leaves slots and queue alone.
LEMMA NothingMoves ==
  ASSUME SlotInvariant, UNCHANGED slotVars, UNCHANGED mQueue, ~cfg'.sharedMode,
         UNCHANGED mSharedBufferSlot, consumer' \in {consumer, "idle"}
  PROVE  SlotInvariant'
<1>1. ListsPartitionSlots'
  BY SMT DEF SlotInvariant, ListsPartitionSlots, slotVars, FreeBufferSet, Elems
<1>2. ActiveHasOneOwner' /\ FramesClaimSlots'
  BY DEF SlotInvariant, ActiveHasOneOwner, FramesClaimSlots, slotVars
<1>3. NothingShared' BY DEF SlotInvariant, NothingShared, slotVars
<1> QED BY <1>1, <1>2, <1>3 DEF SlotInvariant

\* A step that changes one slot, which no frame claims, and leaves the queue.
LEMMA OneSlotMoves ==
  ASSUME TypeOK, SlotInvariant, ListsPartitionSlots', NEW s \in Slot, NEW r,
         mSlots' = [mSlots EXCEPT ![s] = r],
         \A u \in Slot \ {s} : u \in mActiveBuffers' <=> u \in mActiveBuffers,
         Owners(r) = IF s \in mActiveBuffers' THEN 1 ELSE 0, ~r.shared,
         r.que = mSlots[s].que \/ mSlots[s].que # 1,
         UNCHANGED <<mQueue, mSharedBufferSlot>>, ~cfg'.sharedMode, UNCHANGED consumer
  PROVE  SlotInvariant'
<1>1. \A u \in Slot : mSlots'[u] = IF u = s THEN r ELSE mSlots[u] BY DEF TypeOK
<1>2. \A u \in Slot : /\ Owners(mSlots'[u]) = IF u \in mActiveBuffers' THEN 1 ELSE 0
                      /\ ~mSlots'[u].shared
  BY <1>1, SlotFacts
<1>3. Claims(mQueue', mSlots')
  <2>1. mQueue \in Seq(BufferItem) /\ Claims(mQueue, mSlots)
    BY FramesClaims DEF SlotInvariant, TypeOK
  <2>2. \A u \in Slot : mSlots'[u].que = mSlots[u].que \/ mSlots[u].que # 1 BY <1>1
  <2>3. Claims(mQueue, mSlots') BY <2>1, <2>2, ClaimsKept
  <2> QED BY <2>3
<1> QED BY <1>2, <1>3, InvariantParts DEF SlotInvariant, NothingShared

\* A step that clears slots that are not active.
LEMMA InactiveCleared ==
  ASSUME TypeOK, SlotInvariant, ListsPartitionSlots', NEW R \in SUBSET (Slot \ mActiveBuffers),
         mSlots' = clearBufferSlotLocked(R), UNCHANGED mActiveBuffers,
         UNCHANGED <<mQueue, mSharedBufferSlot>>, ~cfg'.sharedMode, UNCHANGED consumer
  PROVE  SlotInvariant'
<1>1. \A u \in Slot : mSlots'[u] = IF u \in R THEN Cleared ELSE mSlots[u]
  BY DEF clearBufferSlotLocked
<1>2. Owners(Cleared) = 0 /\ ~Cleared.shared /\ Cleared.que = 0
  BY SMT DEF Owners, Cleared, NewSlot
<1>3. \A u \in Slot : /\ Owners(mSlots'[u]) = IF u \in mActiveBuffers' THEN 1 ELSE 0
                      /\ ~mSlots'[u].shared
  BY <1>1, <1>2, SlotFacts
<1>4. \A u \in R : mSlots[u].que # 1
  BY SlotFacts, OwnersAreNat, SMT DEF Owners
<1>5. Claims(mQueue', mSlots')
  <2>1. mQueue \in Seq(BufferItem) /\ Claims(mQueue, mSlots)
    BY FramesClaims DEF SlotInvariant, TypeOK
  <2>2. \A u \in Slot : mSlots'[u].que = mSlots[u].que \/ mSlots[u].que # 1
    BY <1>1, <1>4
  <2>3. Claims(mQueue, mSlots') BY <2>1, <2>2, ClaimsKept
  <2> QED BY <2>3
<1> QED BY <1>3, <1>5, InvariantParts DEF SlotInvariant, NothingShared

\* GiveBack of a slot that has no owner left.
LEMMA GiveBackFree ==
  ASSUME TypeOK, SlotInvariant, NEW slots \in [Slot -> BufferSlot], NEW s \in mActiveBuffers,
         Owners(slots[s]) = 0, ~slots[s].shared, GiveBack(slots, s)
  PROVE  /\ ListsPartitionSlots' /\ mActiveBuffers' = mActiveBuffers \ {s}
         /\ \A u \in Slot : SameOwners(mSlots'[u], slots[u])
<1>1. s \in Slot /\ slots[s] \in BufferSlot BY DEF TypeOK
<1>2. ~Unshared(slots[s]).shared /\ SameOwners(Unshared(slots[s]), slots[s])
  BY <1>1 DEF Unshared, SameOwners, BufferSlot
<1>3. /\ mActiveBuffers' = mActiveBuffers \ {s}
      /\ mFreeBuffers' = Append(mFreeBuffers, s)
      /\ UNCHANGED <<mFreeSlots, mUnusedSlots>>
      /\ mSlots' = [slots EXCEPT ![s] = Unshared(slots[s])]
  BY <1>2 DEF GiveBack
<1>4. ListsPartitionSlots' BY <1>3, ReturnSlot DEF SlotInvariant
<1>5. \A u \in Slot : SameOwners(mSlots'[u], slots[u]) BY <1>2, <1>3 DEF SameOwners
<1> QED BY <1>3, <1>4, <1>5

-----------------------------------------------------------------------------
(* Steps of the producer *)

\* Steps of a thread that touch no slot keep the invariant.
LEMMA ControlKeeps ==
  ASSUME IInv, NEW t \in Threads,
         \/ dequeueBuffer(t) \/ DequeueWaitsForAllocation(t) \/ WaitTimesOut(t)
         \/ detachNextBuffer(t) \/ FrameCallback(t) \/ PreallocStart(t) \/ PreallocYields(t)
         \/ \E b \in Buffers : attachBuffer(t, b)
  PROVE  SlotInvariant'
<1>1. /\ UNCHANGED slotVars /\ UNCHANGED mQueue /\ UNCHANGED cfg
      /\ UNCHANGED mSharedBufferSlot /\ UNCHANGED consumer
  BY DEF dequeueBuffer, DequeueWaitsForAllocation, WaitTimesOut, detachNextBuffer,
         FrameCallback, PreallocStart, PreallocYields, attachBuffer, queueVars, consumerVars
<1> QED BY <1>1, Modes, NothingMoves

\* A slot is taken from a free list by a new owner.
LEMMA TakeKeeps ==
  ASSUME IInv, NEW s \in Slot, NEW r,
         TakeFreeSlot(s) \/ TakeFreeBuffer(s), mActiveBuffers' = mActiveBuffers \cup {s},
         UNCHANGED mUnusedSlots, mSlots' = [mSlots EXCEPT ![s] = r],
         r.que = mSlots[s].que, ~r.shared, Owners(mSlots[s]) = 0 => Owners(r) = 1,
         UNCHANGED <<mQueue, mSharedBufferSlot, cfg, consumer>>
  PROVE  SlotInvariant'
<1>1. ListsPartitionSlots' /\ s \notin mActiveBuffers BY Modes, TakeSlot
<1>2. Owners(r) = 1 BY <1>1, Modes, SlotFacts
<1> QED BY <1>1, <1>2, Modes, OneSlotMoves

\* dequeueBuffer under mMutex keeps the invariant.
LEMMA DequeueLockedKeeps ==
  ASSUME IInv, NEW t \in Threads, DequeueLocked(t) PROVE SlotInvariant'
<1>1. /\ UNCHANGED mQueue /\ UNCHANGED cfg /\ UNCHANGED consumer
  BY DEF DequeueLocked, queueVars, consumerVars
<1>2. CASE GiveUpOrWait(t, FALSE) /\ UNCHANGED <<mSharedBufferSlot, mIsAllocating>>
  BY <1>1, <1>2, Modes, NothingMoves DEF GiveUpOrWait
<1>3. CASE \E s \in Slot, m \in Mismatches : DequeueFound(t, s, m)
  <2>1. PICK s \in Slot, m \in Mismatches : DequeueFound(t, s, m) BY <1>3
  <2>2. TakeFreeSlot(s) \/ TakeFreeBuffer(s) BY <2>1, Modes DEF DequeueFound, Found
  <2>3. TakeForDequeue(t, s, m) /\ UNCHANGED mUnusedSlots BY <2>1, Modes DEF DequeueFound
  <2> DEFINE r == [dequeue(mSlots[s]) EXCEPT !.needsRealloc = FALSE,
                                             !.shared = IF BecomesShared THEN TRUE ELSE @]
             e == [r EXCEPT !.buf = NoBuffer, !.acquireCalled = FALSE, !.requested = FALSE]
  <2>4. /\ mActiveBuffers' = mActiveBuffers \cup {s} /\ UNCHANGED mSharedBufferSlot
        /\ mSlots' = [mSlots EXCEPT ![s] = r] \/ mSlots' = [mSlots EXCEPT ![s] = e]
    BY <2>3, Modes DEF TakeForDequeue
  <2>5. mSlots[s] \in BufferSlot /\ ~mSlots[s].shared BY Modes, SlotFacts
  <2>6. \A v \in BufferSlot :
          /\ SameOwners([v EXCEPT !.needsRealloc = FALSE,
                           !.shared = IF BecomesShared THEN TRUE ELSE @], v)
          /\ SameOwners([v EXCEPT !.buf = NoBuffer, !.acquireCalled = FALSE,
                           !.requested = FALSE], v)
          /\ [v EXCEPT !.needsRealloc = FALSE,
                 !.shared = IF BecomesShared THEN TRUE ELSE @] \in BufferSlot
    BY Modes DEF SameOwners, BufferSlot
  <2>7. dequeue(mSlots[s]) \in BufferSlot /\ ~dequeue(mSlots[s]).shared
    BY <2>5, SlotOps DEF dequeue, BufferSlot
  <2>8. r \in BufferSlot /\ SameOwners(r, dequeue(mSlots[s])) BY <2>6, <2>7
  <2>9. SameOwners(e, r) BY <2>6, <2>8
  <2> HIDE DEF r, e
  <2>10. /\ Owners(mSlots[s]) = 0 => Owners(r) = 1 /\ Owners(e) = 1
         /\ r.que = mSlots[s].que /\ e.que = mSlots[s].que /\ ~r.shared /\ ~e.shared
    BY <2>5, <2>7, <2>8, <2>9, OwnerMoves, ZenonT(30) DEF SameOwners, Owners
  <2> QED BY <1>1, <2>2, <2>3, <2>4, <2>10, TakeKeeps
<1>4. CASE DequeueDiscards(t)
  <2>1. ListsPartitionSlots' /\ Head(mFreeBuffers) \in Slot \ mActiveBuffers
    BY <1>4, Modes, EmptyFirst DEF DequeueDiscards
  <2> QED BY <1>1, <1>4, <2>1, Modes, InactiveCleared DEF DequeueDiscards
<1> QED BY <1>2, <1>3, <1>4 DEF DequeueLocked

\* attachBuffer under mMutex keeps the invariant.
LEMMA AttachLockedKeeps ==
  ASSUME IInv, NEW t \in Threads, AttachLocked(t) PROVE SlotInvariant'
<1>1. /\ UNCHANGED mQueue /\ UNCHANGED cfg /\ UNCHANGED consumer
      /\ UNCHANGED mSharedBufferSlot
  BY DEF AttachLocked, queueVars, consumerVars
<1>2. CASE GiveUpOrWait(t, TRUE) BY <1>1, <1>2, Modes, NothingMoves DEF GiveUpOrWait
<1>3. CASE \E s \in Slot : AttachFound(t, s)
  <2>1. PICK s \in Slot : AttachFound(t, s) BY <1>3
  <2>2. TakeFreeSlot(s) \/ TakeFreeBuffer(s) BY <2>1, Modes DEF AttachFound, Found
  <2> DEFINE r == [dequeue(mSlots[s]) EXCEPT !.buf = call[t].buf, !.requested = TRUE,
                     !.acquireCalled = FALSE, !.needsRealloc = FALSE]
  <2>3. mSlots[s] \in BufferSlot /\ ~mSlots[s].shared BY Modes, SlotFacts
  <2>4. dequeue(mSlots[s]) \in BufferSlot /\ ~dequeue(mSlots[s]).shared
    BY <2>3, SlotOps DEF dequeue, BufferSlot
  <2>5. SameOwners(r, dequeue(mSlots[s])) BY <2>4 DEF SameOwners, BufferSlot
  <2>6. mSlots' = [mSlots EXCEPT ![s] = r] BY <2>1 DEF AttachFound
  <2> HIDE DEF r
  <2>7. /\ Owners(mSlots[s]) = 0 => Owners(r) = 1
        /\ r.que = mSlots[s].que /\ ~r.shared
    BY <2>3, <2>4, <2>5, OwnerMoves DEF SameOwners, Owners
  <2>8. mActiveBuffers' = mActiveBuffers \cup {s} /\ UNCHANGED mUnusedSlots
    BY <2>1 DEF AttachFound
  <2> QED BY <1>1, <2>2, <2>6, <2>7, <2>8, TakeKeeps
<1> QED BY <1>2, <1>3 DEF AttachLocked

\* A slot changes in a field that has nothing to do with its owners.
LEMMA OtherFieldKeeps ==
  ASSUME IInv, NEW s \in Slot, NEW r, SameOwners(r, mSlots[s]),
         mSlots' = [mSlots EXCEPT ![s] = r],
         UNCHANGED <<mFreeSlots, mFreeBuffers, mActiveBuffers, mUnusedSlots, mQueue,
                     mSharedBufferSlot, cfg, consumer>>
  PROVE  SlotInvariant'
<1>1. ListsPartitionSlots' BY Modes, SMT DEF ListsPartitionSlots, FreeBufferSet, Elems
<1>2. Owners(r) = Owners(mSlots[s]) /\ r.que = mSlots[s].que /\ r.shared = mSlots[s].shared
  BY DEF Owners, SameOwners
<1> QED BY <1>1, <1>2, Modes, SlotFacts, OneSlotMoves

\* The end of dequeueBuffer after an allocation keeps the invariant.
LEMMA DequeueAllocatedKeeps ==
  ASSUME IInv, PlainUse, NEW t \in Threads, DequeueAllocated(t) PROVE SlotInvariant'
<1>1. PICK b \in FreshBuffers : mSlots' = [mSlots EXCEPT ![call[t].slot].buf = b]
  BY DEF DequeueAllocated, IInv, PlainUse
<1>2. call[t].slot \in Slot BY Modes DEF TypeOK, DequeueAllocated
<1>3. mSlots[call[t].slot] \in BufferSlot BY <1>2, Modes, SlotFacts
<1>4. SameOwners([mSlots[call[t].slot] EXCEPT !.buf = b], mSlots[call[t].slot])
  BY <1>3 DEF SameOwners, BufferSlot
<1>5. UNCHANGED <<mFreeSlots, mFreeBuffers, mActiveBuffers, mUnusedSlots, mQueue,
                  mSharedBufferSlot, cfg, consumer>>
  BY DEF DequeueAllocated, IInv, PlainUse, queueVars, consumerVars
<1> QED BY <1>1, <1>2, <1>4, <1>5, OtherFieldKeeps

\* requestBuffer keeps the invariant.
LEMMA RequestKeeps ==
  ASSUME IInv, NEW s \in Slot, requestBuffer(s) PROVE SlotInvariant'
<1>1. mSlots[s] \in BufferSlot BY Modes, SlotFacts
<1>2. SameOwners([mSlots[s] EXCEPT !.requested = TRUE], mSlots[s])
  BY <1>1 DEF SameOwners, BufferSlot
<1>3. UNCHANGED <<mFreeSlots, mFreeBuffers, mActiveBuffers, mUnusedSlots, mQueue,
                  mSharedBufferSlot, cfg, consumer>>
  BY DEF requestBuffer, queueVars, consumerVars
<1> QED BY <1>2, <1>3, OtherFieldKeeps DEF requestBuffer

\* The one owner gives a slot back (cancelBuffer, releaseBuffer).
LEMMA ReturnKeeps ==
  ASSUME IInv, NEW s \in Slot, NEW r \in BufferSlot, Owners(r) = 0, ~r.shared,
         s \in mActiveBuffers, mSlots[s].que # 1,
         GiveBack([mSlots EXCEPT ![s] = r], s),
         UNCHANGED <<mQueue, mSharedBufferSlot, cfg, consumer>>
  PROVE  SlotInvariant'
<1> DEFINE slots == [mSlots EXCEPT ![s] = r]
<1>1. /\ slots \in [Slot -> BufferSlot]
      /\ \A u \in Slot : slots[u] = IF u = s THEN r ELSE mSlots[u]
  BY Modes DEF TypeOK
<1> HIDE DEF slots
<1>2. GiveBack(slots, s) BY DEF slots
<1>3. /\ ListsPartitionSlots' /\ mActiveBuffers' = mActiveBuffers \ {s}
      /\ \A u \in Slot : SameOwners(mSlots'[u], slots[u])
  BY <1>1, <1>2, Modes, GiveBackFree
<1>4. \A u \in Slot : /\ Owners(mSlots'[u]) = IF u \in mActiveBuffers' THEN 1 ELSE 0
                      /\ ~mSlots'[u].shared
  BY <1>1, <1>3, Modes, SlotFacts, ZenonT(30) DEF SameOwners, Owners
<1>5. Claims(mQueue, mSlots')
  <2>1. mQueue \in Seq(BufferItem) /\ Claims(mQueue, mSlots)
    BY Modes, FramesClaims DEF SlotInvariant, TypeOK
  <2>2. \A u \in Slot : mSlots'[u].que = mSlots[u].que \/ mSlots[u].que # 1
    BY <1>1, <1>3 DEF SameOwners
  <2> QED BY <2>1, <2>2, ClaimsKept, ZenonT(30)
<1> QED BY <1>3, <1>4, <1>5, Modes, InvariantParts

\* cancelBuffer keeps the invariant.
LEMMA CancelKeeps ==
  ASSUME IInv, NEW s \in Slot, cancelBuffer(s) PROVE SlotInvariant'
<1>1. isDequeued(mSlots[s]) BY DEF cancelBuffer, ProducerOwns
<1>2. /\ mSlots[s] \in BufferSlot /\ ~mSlots[s].shared /\ s \in mActiveBuffers
      /\ Owners(mSlots[s]) = 1
  BY <1>1, Modes, SlotFacts
<1>3. /\ cancel(mSlots[s]) \in BufferSlot /\ ~cancel(mSlots[s]).shared
      /\ Owners(cancel(mSlots[s])) = 0 /\ mSlots[s].que # 1
  <2>1. ~cancel(mSlots[s]).shared BY <1>2 DEF cancel, BufferSlot
  <2>2. mSlots[s].deq > 0 BY <1>1 DEF isDequeued
  <2>3. mSlots[s].que = 0 /\ Owners(cancel(mSlots[s])) = 0 BY <1>2, <2>2, OwnerMoves
  <2>4. cancel(mSlots[s]) \in BufferSlot BY <1>2, SlotOps
  <2> QED BY <2>1, <2>3, <2>4, SMT
<1>4. UNCHANGED <<mQueue, mSharedBufferSlot, cfg, consumer>>
  BY DEF cancelBuffer, queueVars, consumerVars
<1>5. GiveBack([mSlots EXCEPT ![s] = cancel(mSlots[s])], s) BY DEF cancelBuffer
<1> QED BY <1>2, <1>3, <1>4, <1>5, ReturnKeeps

\* A slot's only owner, who is not the queue, leaves with the buffer.
LEMMA DetachKeeps ==
  ASSUME IInv, NEW s \in Slot, isDequeued(mSlots[s]) \/ isAcquired(mSlots[s]), Detach(s),
         UNCHANGED <<mQueue, mSharedBufferSlot, cfg, consumer>>
  PROVE  SlotInvariant'
<1>1. /\ mSlots[s] \in BufferSlot /\ s \in mActiveBuffers /\ Owners(mSlots[s]) = 1
  BY Modes, SlotFacts
<1>2. mSlots[s].que # 1 BY <1>1, OwnersAreNat, SMT DEF Owners, isDequeued, isAcquired
<1>3. ListsPartitionSlots' BY <1>1, Modes, DetachSlot
<1>4. mSlots' = [mSlots EXCEPT ![s] = Cleared]
  BY Modes DEF Detach, clearBufferSlotLocked, TypeOK
<1>5. Owners(Cleared) = 0 /\ ~Cleared.shared BY SMT DEF Owners, Cleared, NewSlot
<1>6. mActiveBuffers' = mActiveBuffers \ {s} BY DEF Detach
<1> QED BY <1>2, <1>3, <1>4, <1>5, <1>6, Modes, OneSlotMoves

\* detachBuffer keeps the invariant.
LEMMA DetachBufferKeeps ==
  ASSUME IInv, NEW s \in Slot, detachBuffer(s) PROVE SlotInvariant'
<1>1. UNCHANGED <<mQueue, mSharedBufferSlot, cfg, consumer>>
  BY DEF detachBuffer, queueVars, consumerVars
<1> QED BY <1>1, DetachKeeps DEF detachBuffer, ProducerOwns

\* detachNextBuffer under mMutex keeps the invariant.
LEMMA DetachNextKeeps ==
  ASSUME IInv, NEW t \in Threads, DetachNextLocked(t) PROVE SlotInvariant'
<1>1. /\ UNCHANGED mQueue /\ UNCHANGED cfg /\ UNCHANGED consumer
      /\ UNCHANGED mSharedBufferSlot
  BY DEF DetachNextLocked, queueVars, consumerVars
<1>2. CASE mFreeBuffers = <<>>
  BY <1>1, <1>2, Modes, NothingMoves DEF DetachNextLocked
<1>3. CASE mFreeBuffers # <<>>
  <2>1. ListsPartitionSlots' /\ Head(mFreeBuffers) \in Slot \ mActiveBuffers
    BY <1>3, Modes, EmptyFirst DEF DetachNextLocked
  <2> QED BY <1>1, <1>3, <2>1, Modes, InactiveCleared DEF DetachNextLocked
<1> QED BY <1>2, <1>3

\* The end of a turn of allocateBuffers keeps the invariant.
LEMMA PreallocEndKeeps ==
  ASSUME IInv, NEW t \in Threads, PreallocEnd(t) PROVE SlotInvariant'
<1>1. /\ UNCHANGED mQueue /\ UNCHANGED cfg /\ UNCHANGED consumer
      /\ UNCHANGED mSharedBufferSlot
  BY DEF PreallocEnd, queueVars, consumerVars
<1>2. CASE UNCHANGED slotVars BY <1>1, <1>2, Modes, NothingMoves
<1>3. CASE \E s \in mFreeSlots, b \in FreshBuffers :
             /\ mSlots' = [mSlots EXCEPT ![s] = [Cleared EXCEPT !.buf = b]]
             /\ mFreeBuffers' = <<s>> \o mFreeBuffers
             /\ mFreeSlots' = mFreeSlots \ {s}
             /\ UNCHANGED <<mActiveBuffers, mUnusedSlots>>
  <2>1. PICK s \in mFreeSlots, b \in FreshBuffers :
             /\ mSlots' = [mSlots EXCEPT ![s] = [Cleared EXCEPT !.buf = b]]
             /\ mFreeBuffers' = <<s>> \o mFreeBuffers
             /\ mFreeSlots' = mFreeSlots \ {s}
             /\ UNCHANGED <<mActiveBuffers, mUnusedSlots>>
    BY <1>3
  <2> DEFINE r == [Cleared EXCEPT !.buf = b]
  <2>2. Owners(r) = 0 /\ ~r.shared BY SMT DEF Owners, Cleared, NewSlot
  <2> HIDE DEF r
  <2>3. s \in Slot /\ s \notin mActiveBuffers BY Modes DEF ListsPartitionSlots
  <2>4. mSlots[s].que # 1 BY <2>3, Modes, SlotFacts, OwnersAreNat, SMT DEF Owners
  <2>5. ListsPartitionSlots' BY <2>1, Modes, FillSlot
  <2>6. mSlots' = [mSlots EXCEPT ![s] = r] BY <2>1 DEF r
  <2> QED BY <1>1, <2>1, <2>2, <2>3, <2>4, <2>5, <2>6, Modes, OneSlotMoves
<1> QED BY <1>2, <1>3 DEF PreallocEnd

\* The slot of a frame, when the frame is replaced, dropped or acquired.
LEMMA QueuedSlotMoves ==
  ASSUME IInv, NEW l \in Slot, mSlots[l].que = 1
  PROVE  /\ l \in mActiveBuffers
         /\ freeQueued(mSlots[l]) \in BufferSlot /\ ~freeQueued(mSlots[l]).shared
         /\ Owners(freeQueued(mSlots[l])) = 0
         /\ acquire(mSlots[l]) \in BufferSlot /\ ~acquire(mSlots[l]).shared
         /\ Owners(acquire(mSlots[l])) = 1
<1>1. isQueued(mSlots[l]) /\ mSlots[l].que > 0 BY SMT DEF isQueued
<1>2. /\ mSlots[l] \in BufferSlot /\ ~mSlots[l].shared
      /\ l \in mActiveBuffers /\ Owners(mSlots[l]) = 1
  BY <1>1, Modes, SlotFacts
<1>3. freeQueued(mSlots[l]) \in BufferSlot /\ acquire(mSlots[l]) \in BufferSlot
  BY <1>2, SlotOps
<1>4. ~freeQueued(mSlots[l]).shared BY <1>2 DEF freeQueued, BufferSlot
<1>5. ~acquire(mSlots[l]).shared BY <1>2 DEF acquire, BufferSlot
<1>6. Owners(freeQueued(mSlots[l])) = 0 /\ Owners(acquire(mSlots[l])) = 1
  BY <1>1, <1>2, OwnerMoves
<1> QED BY <1>2, <1>3, <1>4, <1>5, <1>6

\* What queueBuffer makes of a slot the producer owns.
LEMMA QueuedOwners ==
  ASSUME IInv, NEW s \in Slot, ProducerOwns(s)
  PROVE  /\ s \in mActiveBuffers /\ mSlots[s].que = 0
         /\ QueuedSlot(s).que = 1 /\ Owners(QueuedSlot(s)) = 1 /\ ~QueuedSlot(s).shared
<1>1. isDequeued(mSlots[s]) BY DEF ProducerOwns
<1>2. /\ mSlots[s] \in BufferSlot /\ ~mSlots[s].shared /\ s \in mActiveBuffers
      /\ Owners(mSlots[s]) = 1
  BY <1>1, Modes, SlotFacts
<1>3. mSlots[s].deq > 0 BY <1>1 DEF isDequeued
<1>4. /\ mSlots[s].que = 0 /\ queue(mSlots[s]).que = 1 /\ Owners(queue(mSlots[s])) = 1
  BY <1>2, <1>3, OwnerMoves
<1>5. queue(mSlots[s]) \in BufferSlot /\ ~queue(mSlots[s]).shared
  BY <1>2, SlotOps DEF queue, BufferSlot
<1>6. \A v \in BufferSlot, n \in Nat :
        SameOwners([v EXCEPT !.frame = n, !.shared = IF BecomesShared THEN TRUE ELSE @], v)
  BY Modes DEF SameOwners, BufferSlot
<1>7. mFrameCounter + 1 \in Nat BY Modes, SMT DEF TypeOK
<1>8. SameOwners(QueuedSlot(s), queue(mSlots[s])) BY <1>5, <1>6, <1>7 DEF QueuedSlot
<1> QED BY <1>2, <1>4, <1>5, <1>8 DEF SameOwners, Owners

\* The new frame takes the place of the last one, whose slot is given back if
\* it stands for one: that slot is not s, because s is not queued.
LEMMA QueueBufferKeeps ==
  ASSUME IInv, NEW t \in Threads, NEW s \in Slot, queueBuffer(t, s) PROVE SlotInvariant'
<1>1. /\ s \in mActiveBuffers /\ mSlots[s].que = 0
      /\ QueuedSlot(s).que = 1 /\ Owners(QueuedSlot(s)) = 1 /\ ~QueuedSlot(s).shared
  BY QueuedOwners DEF queueBuffer, QueueAllowed
<1>2. /\ QueuedSlots(s) \in [Slot -> BufferSlot] /\ QueuedItem(s) \in BufferItem
      /\ QueuedItem(s).slot = s
  <2>1. QueuedItem(s).slot = s BY DEF QueuedItem
  <2> QED BY <2>1, Modes, QueuedTypes
<1>3. \A u \in Slot : QueuedSlots(s)[u] = IF u = s THEN QueuedSlot(s) ELSE mSlots[u]
  BY Modes DEF TypeOK, QueuedSlots
<1>4. mQueue \in Seq(BufferItem) /\ Claims(mQueue, mSlots)
  BY Modes, FramesClaims DEF SlotInvariant, TypeOK
<1>5. /\ UNCHANGED cfg /\ UNCHANGED consumer /\ UNCHANGED mSharedBufferSlot
      /\ mQueue' = Enqueued(QueuedItem(s))
  BY Modes DEF queueBuffer, consumerVars
<1>6. CASE ~(Replaces /\ ~LastItem.stale)
  <2>1. /\ mSlots' = QueuedSlots(s)
        /\ UNCHANGED <<mFreeSlots, mFreeBuffers, mActiveBuffers, mUnusedSlots>>
    BY <1>6 DEF queueBuffer
  <2>2. ListsPartitionSlots' BY <2>1, Modes, SMT DEF ListsPartitionSlots, FreeBufferSet, Elems
  <2>3. \A u \in Slot : /\ Owners(mSlots'[u]) = IF u \in mActiveBuffers' THEN 1 ELSE 0
                        /\ ~mSlots'[u].shared
    BY <1>1, <1>3, <2>1, Modes, SlotFacts
  <2>4. \A u \in Slot : mSlots'[u].que = mSlots[u].que \/ mSlots[u].que # 1
    BY <1>1, <1>3, <2>1
  <2>5. mSlots'[s].que = 1 BY <1>1, <1>3, <2>1
  <2>6. CASE Replaces
    <3>0. /\ mSlots[QueuedItem(s).slot].que # 1 /\ mSlots'[QueuedItem(s).slot].que = 1
          /\ \A u \in Slot : \/ mSlots'[u].que = mSlots[u].que \/ mSlots[u].que # 1
                             \/ ~mQueue[Len(mQueue)].stale /\ u = mQueue[Len(mQueue)].slot
      <4>1. mSlots[QueuedItem(s).slot].que # 1 /\ mSlots'[QueuedItem(s).slot].que = 1
        BY <1>1, <1>2, <2>5, SMT
      <4> QED BY <2>4, <4>1
    <3>1. mQueue # <<>> /\ mQueue' = [mQueue EXCEPT ![Len(mQueue)] = QueuedItem(s)]
      BY <1>5, <2>6 DEF Enqueued, Replaces
    <3>2. Claims([mQueue EXCEPT ![Len(mQueue)] = QueuedItem(s)], mSlots')
      BY <1>2, <1>4, <3>0, <3>1, ClaimsOfReplace, ZenonT(30)
    <3> QED BY <1>5, <2>2, <2>3, <3>1, <3>2, Modes, InvariantParts
  <2>7. CASE ~Replaces
    <3>1. mQueue' = Append(mQueue, QueuedItem(s)) BY <1>5, <2>7 DEF Enqueued
    <3>2. Claims(Append(mQueue, QueuedItem(s)), mSlots')
      BY <1>1, <1>2, <1>4, <2>4, <2>5, ClaimsOfAppend, SMT
    <3> QED BY <1>5, <2>2, <2>3, <3>1, <3>2, Modes, InvariantParts
  <2> QED BY <2>6, <2>7
<1>7. CASE Replaces /\ ~LastItem.stale
  <2> DEFINE l == LastItem.slot
             slots == [QueuedSlots(s) EXCEPT ![l] = freeQueued(@)]
  <2>1. /\ mQueue # <<>> /\ mQueue' = [mQueue EXCEPT ![Len(mQueue)] = QueuedItem(s)]
        /\ Len(mQueue) \in 1 .. Len(mQueue)
    BY <1>4, <1>5, <1>7, SMT DEF Enqueued, Replaces
  <2>2. l \in Slot /\ mSlots[l].que = 1
    BY <1>4, <1>7, <2>1, ItemSlots DEF LastItem, Claims
  <2> HIDE DEF l
  <2>3. l # s BY <1>1, <2>2, SMT
  <2>4. /\ l \in mActiveBuffers
        /\ freeQueued(mSlots[l]) \in BufferSlot /\ ~freeQueued(mSlots[l]).shared
        /\ Owners(freeQueued(mSlots[l])) = 0
    BY <2>2, QueuedSlotMoves
  <2>5. /\ slots \in [Slot -> BufferSlot]
        /\ \A u \in Slot : slots[u] = IF u = l THEN freeQueued(mSlots[l])
                                      ELSE IF u = s THEN QueuedSlot(s) ELSE mSlots[u]
    BY <1>2, <1>3, <2>2, <2>3, <2>4
  <2>6. GiveBack(slots, l) BY <1>7 DEF queueBuffer, l
  <2> HIDE DEF slots
  <2>7. /\ ListsPartitionSlots' /\ mActiveBuffers' = mActiveBuffers \ {l}
        /\ \A u \in Slot : SameOwners(mSlots'[u], slots[u])
    BY <2>2, <2>3, <2>4, <2>5, <2>6, Modes, GiveBackFree
  <2>8. \A u \in Slot : /\ Owners(mSlots'[u]) = Owners(slots[u]) /\ mSlots'[u].que = slots[u].que
                        /\ mSlots'[u].shared = slots[u].shared
    BY <2>7 DEF SameOwners, Owners
  <2>9. \A u \in Slot : /\ Owners(mSlots'[u]) = IF u \in mActiveBuffers' THEN 1 ELSE 0
                        /\ ~mSlots'[u].shared
    BY <1>1, <2>3, <2>4, <2>5, <2>7, <2>8, Modes, SlotFacts
  <2>10. /\ \A u \in Slot : mSlots'[u].que = mSlots[u].que \/ mSlots[u].que # 1 \/ u = l
         /\ mSlots'[s].que = 1
    <3>1. \A u \in Slot : u # l => mSlots'[u].que = IF u = s THEN 1 ELSE mSlots[u].que
      BY <1>1, <2>5, <2>8
    <3> QED BY <1>1, <2>3, <3>1
  <2>11. Claims([mQueue EXCEPT ![Len(mQueue)] = QueuedItem(s)], mSlots')
    <3>1. l = mQueue[Len(mQueue)].slot /\ ~mQueue[Len(mQueue)].stale
      BY <1>7 DEF LastItem, l
    <3>2. /\ mSlots[QueuedItem(s).slot].que # 1 /\ mSlots'[QueuedItem(s).slot].que = 1
          /\ \A u \in Slot : \/ mSlots'[u].que = mSlots[u].que \/ mSlots[u].que # 1
                             \/ ~mQueue[Len(mQueue)].stale /\ u = mQueue[Len(mQueue)].slot
      <4>1. mSlots[QueuedItem(s).slot].que # 1 /\ mSlots'[QueuedItem(s).slot].que = 1
        BY <1>1, <1>2, <2>10, SMT
      <4> QED BY <2>10, <3>1, <4>1
    <3> QED BY <1>2, <1>4, <2>1, <3>2, ClaimsOfReplace, ZenonT(30)
  <2> QED BY <1>5, <2>1, <2>7, <2>9, <2>11, Modes, InvariantParts
<1> QED BY <1>6, <1>7

-----------------------------------------------------------------------------
(* Connections, limits and modes *)

\* All slots are emptied, and all frames are stale afterwards.
LEMMA DisconnectKeeps == ASSUME IInv, Disconnect PROVE SlotInvariant'
<1>1. /\ freeAllBuffersLocked /\ mQueue' = StaleItems(mQueue) /\ mSharedBufferSlot' = NoSlot
      /\ UNCHANGED cfg /\ UNCHANGED consumer
  BY DEF Disconnect, consumerVars
<1>2. ListsPartitionSlots' BY <1>1, Modes, FreeAllSlots
<1> DEFINE R == mFreeSlots \cup FreeBufferSet \cup mActiveBuffers
<1>3. mActiveBuffers' = {} /\ mActiveBuffers \subseteq R
      /\ \A u \in Slot : mSlots'[u] = IF u \in R THEN Cleared ELSE mSlots[u]
  BY <1>1 DEF freeAllBuffersLocked, clearBufferSlotLocked
<1> HIDE DEF R
<1>4. Owners(Cleared) = 0 /\ ~Cleared.shared BY SMT DEF Owners, Cleared, NewSlot
<1>5. \A u \in Slot : /\ Owners(mSlots'[u]) = IF u \in mActiveBuffers' THEN 1 ELSE 0
                      /\ ~mSlots'[u].shared
  BY <1>3, <1>4, Modes, SlotFacts
<1>6. Claims(mQueue', mSlots')
  <2>1. mQueue \in Seq(BufferItem) BY Modes DEF TypeOK
  <2>2. \A i \in 1 .. Len(mQueue) : mQueue[i] \in BufferItem BY <2>1, SMT
  <2>3. \A v \in BufferItem : [v EXCEPT !.stale = TRUE, !.acquireCalled = FALSE].stale
    BY DEF BufferItem
  <2>4. Len(mQueue') = Len(mQueue) /\ \A i \in 1 .. Len(mQueue) : mQueue'[i].stale
    <3>1. Len(mQueue) \in Nat BY <2>1, SMT
    <3>2. /\ DOMAIN mQueue' = 1 .. Len(mQueue)
          /\ \A i \in 1 .. Len(mQueue) :
               mQueue'[i] = [mQueue[i] EXCEPT !.stale = TRUE, !.acquireCalled = FALSE]
      BY <1>1 DEF StaleItems
    <3>3. mQueue' \in Seq(BufferItem) BY <1>1, <2>1, StaleType
    <3>4. Len(mQueue') \in Nat /\ DOMAIN mQueue' = 1 .. Len(mQueue') BY <3>3, SeqLength
    <3>5. Len(mQueue') = Len(mQueue)
      <4>1. \A m, n \in Nat : m < n => n \in 1 .. n /\ n \notin 1 .. m BY SMT
      <4>2. 1 .. Len(mQueue') = 1 .. Len(mQueue) BY <3>2, <3>4
      <4>3. ~(Len(mQueue) < Len(mQueue')) /\ ~(Len(mQueue') < Len(mQueue))
        BY <3>1, <3>4, <4>1, <4>2
      <4> QED BY <3>1, <3>4, <4>3, SMT
    <3> QED BY <2>2, <2>3, <3>2, <3>5, ZenonT(30)
  <2> QED BY <2>4 DEF Claims
<1> QED BY <1>1, <1>2, <1>5, <1>6, Modes, InvariantParts

\* Slots that are not active are added or retired for a new configuration.
LEMMA AdjustKeeps ==
  ASSUME IInv, NEW delta, adjustAvailableSlotsLocked(delta), UNCHANGED mActiveBuffers,
         UNCHANGED <<mQueue, mSharedBufferSlot, consumer>>, ~cfg'.sharedMode
  PROVE  SlotInvariant'
<1>1. /\ ListsPartitionSlots'
      /\ \E R \in SUBSET (Slot \ mActiveBuffers) : mSlots' = clearBufferSlotLocked(R)
  BY Modes, AdjustSlots
<1> QED BY <1>1, Modes, InactiveCleared

\* The other fields of cfg do not change the mode.
LEMMA SameMode ==
  ASSUME IInv
  PROVE  /\ \A a, b : ~[cfg EXCEPT !.cannotBlock = a, !.canDrop = b, !.legacyDrop = TRUE,
                                   !.allowAllocation = TRUE].sharedMode
         /\ \A a, b, d : ~[cfg EXCEPT !.timeout = d, !.cannotBlock = a, !.canDrop = b].sharedMode
         /\ \A a : /\ ~[cfg EXCEPT !.consumerByApp = a].sharedMode
                   /\ ~[cfg EXCEPT !.maxDequeued = a].sharedMode
                   /\ ~[cfg EXCEPT !.maxAcquired = a].sharedMode
                   /\ ~[cfg EXCEPT !.maxBuffers = a].sharedMode
                   /\ ~[cfg EXCEPT !.async = a].sharedMode
                   /\ ~[cfg EXCEPT !.autoRefresh = a].sharedMode
                   /\ ~[cfg EXCEPT !.allowAllocation = a].sharedMode
                   /\ ~[cfg EXCEPT !.legacyDrop = a].sharedMode
                   /\ ~[cfg EXCEPT !.extraAcquire = a].sharedMode
<1>1. cfg \in Config /\ ~cfg.sharedMode BY Modes DEF TypeOK
<1> QED BY <1>1 DEF Config

\* connect and disconnect keep the invariant, and nobody abandons the queue.
LEMMA ConnectionKeeps ==
  ASSUME IInv, PlainUse, ConnectionStep PROVE SlotInvariant' /\ UNCHANGED mIsAbandoned
<1>1. ASSUME NEW api, NEW byApp, connect(api, byApp)
      PROVE  SlotInvariant' /\ UNCHANGED mIsAbandoned
  <2>1. /\ \E delta : adjustAvailableSlotsLocked(delta)
        /\ UNCHANGED mActiveBuffers /\ UNCHANGED <<mQueue, mSharedBufferSlot, consumer>>
        /\ UNCHANGED mIsAbandoned
    BY <1>1 DEF connect, consumerVars
  <2>2. ~cfg'.sharedMode BY <1>1, SameMode DEF connect
  <2> QED BY <2>1, <2>2, AdjustKeeps
<1>2. ASSUME Disconnect PROVE SlotInvariant' /\ UNCHANGED mIsAbandoned
  BY <1>2, DisconnectKeeps DEF Disconnect
<1>3. ASSUME /\ UNCHANGED slotVars /\ UNCHANGED queueVars /\ UNCHANGED cfg
             /\ UNCHANGED mSharedBufferSlot /\ UNCHANGED consumerVars
      PROVE  SlotInvariant'
  BY <1>3, Modes, NothingMoves DEF queueVars, consumerVars
<1>4. CASE ProducerDies \/ binderDied
  BY <1>3, <1>4 DEF ProducerDies, binderDied
<1>5. CASE BinderDiedDisconnect
  BY <1>2, <1>3, <1>5 DEF BinderDiedDisconnect
<1>6. CASE disconnect BY <1>2, <1>6 DEF disconnect
<1>7. ASSUME NEW byApp, ConsumerConnect(byApp)
      PROVE  SlotInvariant' /\ UNCHANGED mIsAbandoned
  <2>1. ~cfg'.sharedMode BY <1>7, SameMode DEF ConsumerConnect
  <2> QED BY <1>7, <2>1, Modes, NothingMoves DEF ConsumerConnect, queueVars, consumerVars
<1>8. ~ConsumerDisconnect BY DEF ConsumerDisconnect, PlainUse
<1> QED BY <1>1, <1>4, <1>5, <1>6, <1>7, <1>8 DEF ConnectionStep

\* The setters of the producer keep the invariant.
LEMMA ProducerConfigKeeps ==
  ASSUME IInv, PlainUse, ProducerConfigStep PROVE SlotInvariant' /\ UNCHANGED mIsAbandoned
<1>1. ASSUME NEW n, setMaxDequeuedBufferCount(n) PROVE SlotInvariant' /\ UNCHANGED mIsAbandoned
  <2>1. ~cfg'.sharedMode BY <1>1, SameMode DEF setMaxDequeuedBufferCount
  <2> QED BY <1>1, <2>1, AdjustKeeps
      DEF setMaxDequeuedBufferCount, queueVars, consumerVars, connVars
<1>2. ASSUME NEW a, setAsyncMode(a) PROVE SlotInvariant' /\ UNCHANGED mIsAbandoned
  <2>1. ~cfg'.sharedMode BY <1>2, SameMode DEF setAsyncMode
  <2>2. \E delta : adjustAvailableSlotsLocked(delta) BY <1>2 DEF setAsyncMode
  <2> QED BY <1>2, <2>1, <2>2, AdjustKeeps DEF setAsyncMode, queueVars, consumerVars, connVars
<1>3. ASSUME NEW d, setDequeueTimeout(d) PROVE SlotInvariant' /\ UNCHANGED mIsAbandoned
  <2>1. ~cfg'.sharedMode BY <1>3, SameMode DEF setDequeueTimeout
  <2>2. \E delta : adjustAvailableSlotsLocked(delta) BY <1>3 DEF setDequeueTimeout
  <2> QED BY <1>3, <2>1, <2>2, AdjustKeeps
      DEF setDequeueTimeout, queueVars, consumerVars, connVars
<1>4. \A on : ~setSharedBufferMode(on) BY DEF setSharedBufferMode, PlainUse
<1>5. ASSUME NEW f \in {"setAutoRefresh", "allowAllocation", "setLegacyBufferDrop"}, NEW on,
             SetProducerFlag(f, on)
      PROVE  SlotInvariant' /\ UNCHANGED mIsAbandoned
  <2>1. ~cfg'.sharedMode BY <1>5, SameMode DEF SetProducerFlag
  <2> QED BY <1>5, <2>1, Modes, NothingMoves
      DEF SetProducerFlag, queueVars, consumerVars, connVars
<1> QED BY <1>1, <1>2, <1>3, <1>4, <1>5 DEF ProducerConfigStep

\* The setters of the consumer keep the invariant.
LEMMA ConsumerConfigKeeps ==
  ASSUME IInv, ConsumerConfigStep PROVE SlotInvariant' /\ UNCHANGED mIsAbandoned
<1>1. ASSUME NEW n, setMaxBufferCount(n) PROVE SlotInvariant' /\ UNCHANGED mIsAbandoned
  <2>1. ~cfg'.sharedMode BY <1>1, SameMode DEF setMaxBufferCount
  <2>2. \E delta : adjustAvailableSlotsLocked(delta) BY <1>1 DEF setMaxBufferCount
  <2> QED BY <1>1, <2>1, <2>2, AdjustKeeps
      DEF setMaxBufferCount, queueVars, consumerVars, connVars
<1>2. ASSUME NEW n, setMaxAcquiredBufferCount(n) PROVE SlotInvariant' /\ UNCHANGED mIsAbandoned
  <2>1. ~cfg'.sharedMode BY <1>2, SameMode DEF setMaxAcquiredBufferCount
  <2> QED BY <1>2, <2>1, AdjustKeeps
      DEF setMaxAcquiredBufferCount, queueVars, consumerVars, connVars
<1>3. CASE discardFreeBuffers
  <2>1. /\ discardFreeBuffersLocked /\ UNCHANGED cfg /\ UNCHANGED mIsAbandoned
        /\ UNCHANGED consumer /\ UNCHANGED <<mQueue, mSharedBufferSlot>>
    BY <1>3 DEF discardFreeBuffers, queueVars, consumerVars, connVars
  <2>2. ListsPartitionSlots' BY <2>1, Modes, DiscardSlots
  <2>3. FreeBufferSet \subseteq Slot \ mActiveBuffers BY Modes DEF ListsPartitionSlots
  <2> QED BY <2>1, <2>2, <2>3, Modes, InactiveCleared DEF discardFreeBuffersLocked
<1>4. ASSUME NEW a, setAllowExtraAcquire(a) PROVE SlotInvariant' /\ UNCHANGED mIsAbandoned
  <2>1. ~cfg'.sharedMode BY <1>4, SameMode DEF setAllowExtraAcquire
  <2> QED BY <1>4, <2>1, Modes, NothingMoves
      DEF setAllowExtraAcquire, queueVars, consumerVars, connVars
<1> QED BY <1>1, <1>2, <1>3, <1>4 DEF ConsumerConfigStep

-----------------------------------------------------------------------------
(* Steps of the consumer *)

\* acquireBuffer dropping the front of the queue keeps the invariant.
LEMMA AcquireDropKeeps == ASSUME IInv, AcquireDrop PROVE SlotInvariant'
<1>1. /\ mQueue # <<>> /\ mQueue' = Tail(mQueue) /\ consumer' = "drop"
      /\ UNCHANGED cfg /\ UNCHANGED mSharedBufferSlot
  BY SMT DEF AcquireDrop
<1>2. mQueue \in Seq(BufferItem) /\ Claims(mQueue, mSlots)
  BY Modes, FramesClaims DEF SlotInvariant, TypeOK
<1>3. CASE Head(mQueue).stale
  <2>1. UNCHANGED slotVars BY <1>3 DEF AcquireDrop
  <2>2. ListsPartitionSlots'
    BY <2>1, Modes, SMT DEF ListsPartitionSlots, FreeBufferSet, Elems, slotVars
  <2>3. \A u \in Slot : /\ Owners(mSlots'[u]) = IF u \in mActiveBuffers' THEN 1 ELSE 0
                        /\ ~mSlots'[u].shared
    BY <2>1, Modes, SlotFacts DEF slotVars
  <2>4. Claims(Tail(mQueue), mSlots') BY <1>1, <1>2, <2>1, ClaimsOfTail DEF slotVars
  <2> QED BY <1>1, <2>2, <2>3, <2>4, Modes, InvariantParts
<1>4. CASE ~Head(mQueue).stale
  <2> DEFINE l == Head(mQueue).slot
             slots == [mSlots EXCEPT ![l] = freeQueued(@)]
  <2>1. l \in Slot /\ mSlots[l].que = 1
    <3>1. 1 \in 1 .. Len(mQueue) /\ Head(mQueue) = mQueue[1] BY <1>1, <1>2, SMT
    <3> QED BY <1>2, <1>4, <3>1, ItemSlots DEF Claims
  <2> HIDE DEF l
  <2>2. l \in mActiveBuffers BY <2>1, QueuedSlotMoves
  <2>3. /\ freeQueued(mSlots[l]) \in BufferSlot /\ ~freeQueued(mSlots[l]).shared
        /\ Owners(freeQueued(mSlots[l])) = 0
    BY <2>1, QueuedSlotMoves
  <2>4. /\ slots \in [Slot -> BufferSlot]
        /\ \A u \in Slot : slots[u] = IF u = l THEN freeQueued(mSlots[l]) ELSE mSlots[u]
    BY <2>1, <2>3, Modes DEF TypeOK
  <2>5. GiveBack(slots, l) BY <1>4 DEF AcquireDrop, l
  <2> HIDE DEF slots
  <2>6. /\ ListsPartitionSlots' /\ mActiveBuffers' = mActiveBuffers \ {l}
        /\ \A u \in Slot : SameOwners(mSlots'[u], slots[u])
    BY <2>1, <2>2, <2>3, <2>4, <2>5, Modes, GiveBackFree
  <2>7. \A u \in Slot : /\ Owners(mSlots'[u]) = Owners(slots[u])
                        /\ mSlots'[u].que = slots[u].que /\ mSlots'[u].shared = slots[u].shared
    BY <2>6 DEF SameOwners, Owners
  <2>8. \A u \in Slot : /\ Owners(mSlots'[u]) = IF u \in mActiveBuffers' THEN 1 ELSE 0
                        /\ ~mSlots'[u].shared
    BY <2>2, <2>3, <2>4, <2>6, <2>7, Modes, SlotFacts
  <2>9. Claims(Tail(mQueue), mSlots')
    <3>1. \A u \in Slot : u = l \/ mSlots'[u].que = mSlots[u].que BY <2>4, <2>7
    <3> QED BY <1>1, <1>2, <1>4, <3>1, ClaimsOfTail, SMTT(30) DEF l
  <2> QED BY <1>1, <2>6, <2>8, <2>9, Modes, InvariantParts
<1> QED BY <1>3, <1>4

\* The slot of the front frame, if the frame stands for one, goes from the queue
\* to the consumer.
LEMMA AcquireFrontKeeps == ASSUME IInv, AcquireFront PROVE SlotInvariant'
<1>1. /\ mQueue # <<>> /\ mQueue' = Tail(mQueue) /\ consumer' = "idle"
      /\ UNCHANGED cfg /\ UNCHANGED mSharedBufferSlot
      /\ UNCHANGED <<mFreeSlots, mFreeBuffers, mActiveBuffers, mUnusedSlots>>
  BY DEF AcquireFront
<1>2. mQueue \in Seq(BufferItem) /\ Claims(mQueue, mSlots)
  BY Modes, FramesClaims DEF SlotInvariant, TypeOK
<1>3. ListsPartitionSlots' BY <1>1, Modes, SMT DEF ListsPartitionSlots, FreeBufferSet, Elems
<1>4. CASE Head(mQueue).stale
  <2>1. UNCHANGED mSlots BY <1>4 DEF AcquireFront
  <2>2. \A u \in Slot : /\ Owners(mSlots'[u]) = IF u \in mActiveBuffers' THEN 1 ELSE 0
                        /\ ~mSlots'[u].shared
    BY <1>1, <2>1, Modes, SlotFacts
  <2>3. Claims(Tail(mQueue), mSlots') BY <1>1, <1>2, <2>1, ClaimsOfTail, ZenonT(30)
  <2> QED BY <1>1, <1>3, <2>2, <2>3, Modes, InvariantParts
<1>5. CASE ~Head(mQueue).stale
  <2> DEFINE l == Head(mQueue).slot
             r == [acquire(mSlots[l]) EXCEPT !.acquireCalled = TRUE]
  <2>1. l \in Slot /\ mSlots[l].que = 1
    <3>1. 1 \in 1 .. Len(mQueue) /\ Head(mQueue) = mQueue[1] BY <1>1, <1>2, SMT
    <3> QED BY <1>2, <1>5, <3>1, ItemSlots DEF Claims
  <2>3. mSlots' = [mSlots EXCEPT ![l] = r] BY <1>5 DEF AcquireFront
  <2> HIDE DEF l
  <2>2. l \in mActiveBuffers BY <2>1, QueuedSlotMoves
  <2>4. Owners(r) = 1 /\ ~r.shared
    <3>1. acquire(mSlots[l]) \in BufferSlot /\ ~acquire(mSlots[l]).shared
      BY <2>1, QueuedSlotMoves
    <3>2. Owners(acquire(mSlots[l])) = 1 BY <2>1, QueuedSlotMoves
    <3>3. SameOwners(r, acquire(mSlots[l])) BY <3>1 DEF SameOwners, BufferSlot
    <3> HIDE DEF r
    <3> QED BY <3>1, <3>2, <3>3 DEF SameOwners, Owners
  <2> HIDE DEF r
  <2>5. \A u \in Slot : mSlots'[u] = IF u = l THEN r ELSE mSlots[u]
    BY <2>1, <2>3, Modes DEF TypeOK
  <2>6. \A u \in Slot : /\ Owners(mSlots'[u]) = IF u \in mActiveBuffers' THEN 1 ELSE 0
                        /\ ~mSlots'[u].shared
    BY <1>1, <2>2, <2>4, <2>5, Modes, SlotFacts, ZenonT(30)
  <2>7. Claims(Tail(mQueue), mSlots')
    <3>1. \A u \in Slot : u = l \/ mSlots'[u].que = mSlots[u].que BY <2>5
    <3> QED BY <1>1, <1>2, <1>5, <3>1, ClaimsOfTail, SMTT(30) DEF l
  <2> QED BY <1>1, <1>3, <2>6, <2>7, Modes, InvariantParts
<1> QED BY <1>4, <1>5

\* acquireBuffer keeps the invariant.
LEMMA AcquireKeeps ==
  ASSUME IInv, AcquireStep PROVE SlotInvariant' /\ UNCHANGED mIsAbandoned
<1>1. CASE AcquireDrop BY <1>1, AcquireDropKeeps DEF AcquireDrop, connVars
<1>2. CASE AcquireFront BY <1>2, AcquireFrontKeeps DEF AcquireFront, connVars
<1>3. CASE AcquireRefused
  BY <1>3, Modes, NothingMoves DEF AcquireRefused, queueVars, connVars
<1>4. ~AcquireSharedWaits /\ ~AcquireShared
  BY Modes DEF AcquireSharedWaits, AcquireShared, SharedAvailable
<1> QED BY <1>1, <1>2, <1>3, <1>4 DEF AcquireStep

\* releaseBuffer and the consumer's detachBuffer keep the invariant.
LEMMA ReleaseKeeps ==
  ASSUME IInv, ReleaseStep PROVE SlotInvariant' /\ UNCHANGED mIsAbandoned
<1>1. \A i \in 1 .. Len(held) : held[i].slot \in Slot
  <2>1. \A i \in 1 .. Len(held) : held[i] \in Held BY Modes, SMT DEF TypeOK
  <2> QED BY <2>1 DEF Held
<1>2. ASSUME NEW i \in 1 .. Len(held), releaseBuffer(i)
      PROVE  SlotInvariant' /\ UNCHANGED mIsAbandoned
  <2> DEFINE s == held[i].slot
  <2>1. s \in Slot BY <1>1
  <2>2. /\ UNCHANGED <<mQueue, mSharedBufferSlot, cfg, consumer>> /\ UNCHANGED mIsAbandoned
    BY <1>2 DEF releaseBuffer, queueVars, connVars
  <2>3. CASE ReleaseIsCurrent(held[i])
    <3>1. isAcquired(mSlots[s]) /\ GiveBack([mSlots EXCEPT ![s] = release(mSlots[s])], s)
      BY <1>2, <2>3 DEF releaseBuffer, ReleaseIsCurrent
    <3> HIDE DEF s
    <3>2. /\ mSlots[s] \in BufferSlot /\ ~mSlots[s].shared /\ s \in mActiveBuffers
          /\ Owners(mSlots[s]) = 1
      BY <2>1, <3>1, Modes, SlotFacts
    <3>3. mSlots[s].acq > 0 BY <3>1 DEF isAcquired
    <3>4. mSlots[s].que = 0 /\ Owners(release(mSlots[s])) = 0 BY <3>2, <3>3, OwnerMoves
    <3>5. release(mSlots[s]) \in BufferSlot BY <3>2, SlotOps
    <3>6. ~release(mSlots[s]).shared BY <3>2 DEF release, BufferSlot
    <3>7. mSlots[s].que # 1 BY <3>4, SMT
    <3> QED BY <2>1, <2>2, <3>1, <3>2, <3>4, <3>5, <3>6, <3>7, ReturnKeeps
  <2>4. CASE ~ReleaseIsCurrent(held[i])
    <3>1. UNCHANGED slotVars BY <1>2, <2>4 DEF releaseBuffer
    <3> QED BY <2>2, <3>1, Modes, NothingMoves
  <2> QED BY <2>3, <2>4
<1>3. ASSUME NEW i \in 1 .. Len(held), ConsumerDetachBuffer(i)
      PROVE  SlotInvariant' /\ UNCHANGED mIsAbandoned
  <2>1. /\ UNCHANGED <<mQueue, mSharedBufferSlot, cfg, consumer>> /\ UNCHANGED mIsAbandoned
        /\ isAcquired(mSlots[held[i].slot]) /\ Detach(held[i].slot)
    BY <1>3 DEF ConsumerDetachBuffer, queueVars, connVars
  <2> QED BY <1>1, <2>1, DetachKeeps
<1> QED BY <1>2, <1>3 DEF ReleaseStep

\* The consumer's attachBuffer keeps the invariant.
LEMMA ConsumerAttachKeeps ==
  ASSUME IInv, NEW b \in Buffers, ConsumerAttachBuffer(b)
  PROVE  SlotInvariant' /\ UNCHANGED mIsAbandoned
<1>1. PICK s \in Slot :
        /\ TakeFreeSlot(s) \/ (mFreeSlots = {} /\ TakeFreeBuffer(s))
        /\ mSlots' = [mSlots EXCEPT ![s] = AttachedSlot(s, b)]
        /\ mActiveBuffers' = mActiveBuffers \cup {s}
  BY DEF ConsumerAttachBuffer
<1>2. /\ UNCHANGED mUnusedSlots /\ UNCHANGED <<mQueue, mSharedBufferSlot, cfg, consumer>>
      /\ UNCHANGED mIsAbandoned
  BY DEF ConsumerAttachBuffer, queueVars, connVars
<1>3. mSlots[s] \in BufferSlot /\ ~mSlots[s].shared BY Modes, SlotFacts
<1>4. acquireNotInQueue(mSlots[s]) \in BufferSlot /\ ~acquireNotInQueue(mSlots[s]).shared
  BY <1>3, SlotOps DEF acquireNotInQueue, BufferSlot
<1>5. SameOwners(AttachedSlot(s, b), acquireNotInQueue(mSlots[s]))
  BY <1>4 DEF AttachedSlot, SameOwners, BufferSlot
<1>6. /\ Owners(mSlots[s]) = 0 => Owners(AttachedSlot(s, b)) = 1
      /\ AttachedSlot(s, b).que = mSlots[s].que /\ ~AttachedSlot(s, b).shared
  BY <1>3, <1>4, <1>5, OwnerMoves DEF SameOwners, Owners
<1> QED BY <1>1, <1>2, <1>6, TakeKeeps

-----------------------------------------------------------------------------
(* The theorems *)

\* The steps of a producer's thread keep the invariant.
LEMMA ThreadKeeps ==
  ASSUME IInv, PlainUse, NEW t \in Threads, ThreadStep(t)
  PROVE  SlotInvariant' /\ UNCHANGED mIsAbandoned
<1>1. CASE DequeueStep(t)
  <2>1. SlotInvariant'
    BY <1>1, ControlKeeps, DequeueLockedKeeps, DequeueAllocatedKeeps DEF DequeueStep
  <2>2. UNCHANGED mIsAbandoned
    BY <1>1 DEF DequeueStep, dequeueBuffer, DequeueWaitsForAllocation, DequeueLocked,
                DequeueAllocated, WaitTimesOut, connVars
  <2> QED BY <2>1, <2>2
<1>2. CASE AttachDetachStep(t)
  <2>1. SlotInvariant'
    BY <1>2, ControlKeeps, DetachNextKeeps, AttachLockedKeeps, DetachBufferKeeps
    DEF AttachDetachStep
  <2>2. UNCHANGED mIsAbandoned
    BY <1>2 DEF AttachDetachStep, detachNextBuffer, DetachNextLocked, AttachLocked,
                attachBuffer, detachBuffer, connVars
  <2> QED BY <2>1, <2>2
<1>3. CASE QueueStep(t)
  <2>1. \A s \in Slot : ~QueueBadCrop(t, s) BY Modes DEF QueueBadCrop
  <2>2. SlotInvariant'
    BY <1>3, <2>1, ControlKeeps, QueueBufferKeeps, RequestKeeps, CancelKeeps DEF QueueStep
  <2>3. UNCHANGED mIsAbandoned
    BY <1>3, <2>1 DEF QueueStep, queueBuffer, requestBuffer, cancelBuffer, FrameCallback,
                      connVars
  <2> QED BY <2>2, <2>3
<1>4. CASE PreallocStart(t) \/ PreallocEnd(t) \/ PreallocYields(t)
  <2>1. SlotInvariant' BY <1>4, ControlKeeps, PreallocEndKeeps
  <2>2. UNCHANGED mIsAbandoned
    BY <1>4 DEF PreallocStart, PreallocEnd, PreallocYields, connVars
  <2> QED BY <2>1, <2>2
<1> QED BY <1>1, <1>2, <1>3, <1>4 DEF ThreadStep

\* The invariant holds initially.
LEMMA InvariantInit == ASSUME PlainUse, Init PROVE IInv
<1>1. TypeOK BY TypeInit
<1>2. cfg \in Configs /\ cfg \in Config /\ ~cfg.sharedMode
  BY ConfigsAssumption DEF Init, PlainUse
<1> DEFINE n == getMaxBufferCountLocked(cfg)
<1>3. n \in 0 .. NumSlots
  BY <1>2, ConfigsAssumption, CoreAssumption, SMT
  DEF Init, getMaxBufferCountLocked, ExtraBuffer, Config
<1>4. mFreeSlots = 0 .. n - 1 /\ mUnusedSlots = n .. NumSlots - 1 BY DEF Init
<1> HIDE DEF n
<1>5. ListsPartitionSlots
  <2>1. mFreeSlots \cup mUnusedSlots = Slot /\ mFreeSlots \cap mUnusedSlots = {}
    BY <1>3, <1>4, CoreAssumption, SMT DEF Slot
  <2>2. mActiveBuffers = {} /\ FreeBufferSet = {} /\ NoDuplicates(mFreeBuffers)
    BY EmptyQueue DEF Init, FreeBufferSet
  <2> QED BY <2>1, <2>2, ListsArePartition DEF Partition
<1>6. ActiveHasOneOwner /\ FramesClaimSlots /\ NothingShared
  <2>1. \A s \in Slot : mSlots[s] = NewSlot BY DEF Init
  <2>2. mActiveBuffers = {} /\ mQueue = <<>> BY DEF Init
  <2>3. mSharedBufferSlot = NoSlot /\ consumer = "idle" BY DEF Init
  <2>4. ActiveHasOneOwner BY <2>1, <2>2, SMT DEF ActiveHasOneOwner, NewSlot
  <2>5. FramesClaimSlots BY <2>2, SMT DEF FramesClaimSlots
  <2>6. NothingShared BY <1>2, <2>1, <2>3, SMT DEF NothingShared, NewSlot
  <2> QED BY <2>4, <2>5, <2>6
<1>7. ~mIsAbandoned BY DEF Init
<1> QED BY <1>1, <1>5, <1>6, <1>7 DEF IInv, SlotInvariant

\* Every step keeps the invariant.
LEMMA InvariantNext == ASSUME PlainUse, IInv, [Next]_vars PROVE IInv'
<1>1. CASE Next
  <2>1. TypeOK' BY <1>1, TypeNext DEF IInv
  <2>2. CASE \E t \in Threads : ThreadStep(t) BY <2>1, <2>2, ThreadKeeps DEF IInv
  <2>3. CASE ProducerConfigStep BY <2>1, <2>3, ProducerConfigKeeps, SMT DEF IInv
  <2>4. CASE ConnectionStep BY <2>1, <2>4, ConnectionKeeps, SMT DEF IInv
  <2>5. CASE ConsumerStep
    BY <2>1, <2>5, AcquireKeeps, ReleaseKeeps, ConsumerConfigKeeps, ConsumerAttachKeeps, SMTT(30)
    DEF IInv, ConsumerStep
  <2> QED BY <1>1, <2>2, <2>3, <2>4, <2>5 DEF Next
<1>2. CASE UNCHANGED vars
  <2>1. SlotInvariant'
    BY <1>2, Modes, NothingMoves DEF vars, queueVars, consumerVars
  <2>2. TypeOK' BY <1>2, Modes, TypeGroups, TypeGroupsPrime, SameTypes DEF vars
  <2>3. ~mIsAbandoned' BY <1>2 DEF vars, connVars, IInv
  <2> QED BY <2>1, <2>2, <2>3 DEF IInv
<1> QED BY <1>1, <1>2

\* Outside shared buffer mode, with successful allocations and a consumer that
\* stays, every slot is at all times in exactly one list, active exactly as long
\* as it has its one owner, and claimed by at most one frame that is not stale:
\* for any number of slots, buffers and producer threads, and across waits,
\* replaced and dropped frames, detaching, disconnecting and changed limits.
THEOREM SlotsCorrect == ASSUME PlainUse PROVE Spec => []SlotInvariant
<1>1. Init => IInv BY InvariantInit
<1>2. IInv /\ [Next]_vars => IInv' BY InvariantNext
<1>3. IInv => SlotInvariant BY DEF IInv
<1> QED BY <1>1, <1>2, <1>3, PTL DEF Spec

\* The check of validateConsistencyLocked that every slot is in exactly one of
\* mFreeSlots, mFreeBuffers, mActiveBuffers and mUnusedSlots never fails.
THEOREM ListsCorrect == ASSUME PlainUse PROVE Spec => []ListsPartitionSlots
<1>1. SlotInvariant => ListsPartitionSlots BY DEF SlotInvariant
<1> QED BY <1>1, SlotsCorrect, PTL

-----------------------------------------------------------------------------
(* Threads and lists in a step *)

\* A thread that goes on or returns, and is not allocating, takes no buffer
\* along.
LEMMA CallSteps ==
  ASSUME TypeOK, NEW t \in Threads, call[t].op # "alloc"
  PROVE  /\ \A op : op \notin {"alloc", "attach"} /\ Goto(t, op) => QuietCalls
         /\ Return(t) => QuietCalls
<1>1. call \in [Threads -> [op : ThreadOps, slot : Slot \cup {NoSlot},
                            buf : Buffers \cup {NoBuffer}, frame : Nat]]
  BY DEF TypeOK
<1>2. ASSUME NEW op, op \notin {"alloc", "attach"}, Goto(t, op) PROVE QuietCalls
  <2>1. /\ call'[t].op = op /\ call'[t].buf = call[t].buf
        /\ \A u \in Threads \ {t} : call'[u] = call[u]
    BY <1>1, <1>2 DEF Goto
  <2> QED BY <1>2, <2>1 DEF QuietCalls, QuietThread, Allocates
<1>3. ASSUME Return(t) PROVE QuietCalls
  <2>1. /\ call'[t].op \notin {"alloc", "attach"} /\ call'[t].buf = NoBuffer
        /\ \A u \in Threads \ {t} : call'[u] = call[u]
    BY <1>1, <1>3 DEF Return, Idle
  <2> QED BY <2>1 DEF QuietCalls, QuietThread, Allocates
<1> QED BY <1>2, <1>3

\* Nor does one that stays where it is.
LEMMA SameCalls == ASSUME UNCHANGED call PROVE QuietCalls
BY DEF QuietCalls, QuietThread, Allocates

\* A step that changes no slot, frame or held buffer.
LEMMA NothingHappens ==
  ASSUME UNCHANGED slotVars, SameFrames, UNCHANGED held, QuietCalls PROVE Quiet
<1>1. {} \in SUBSET (Slot \ mActiveBuffers) OBVIOUS
<1>2. OthersSame({}) BY DEF OthersSame, SameSlot, SameContent, SameOwners, slotVars
<1>3. EmptySlots' = EmptySlots /\ FreeBufferSet' = FreeBufferSet
  BY DEF EmptySlots, FreeBufferSet, Elems, slotVars
<1> QED BY <1>1, <1>2, <1>3 DEF Quiet, slotVars

\* Slots that are not active are emptied.
LEMMA SlotsCleared ==
  ASSUME NEW R \in SUBSET (Slot \ mActiveBuffers), mSlots' = clearBufferSlotLocked(R),
         EmptySlots' \subseteq EmptySlots \cup R, FreeBufferSet' \subseteq FreeBufferSet \ R,
         SameFrames, UNCHANGED <<held, mActiveBuffers>>, QuietCalls
  PROVE  Quiet
<1>1. \A s \in Slot : mSlots'[s] = IF s \in R THEN Cleared ELSE mSlots[s]
  BY DEF clearBufferSlotLocked
<1>2. OthersSame(R) BY <1>1 DEF OthersSame, SameSlot, SameContent, SameOwners
<1> QED BY <1>1, <1>2 DEF Quiet

\* A slot taken from the free lists becomes active.
LEMMA SlotActivated ==
  ASSUME IInv, NEW s \in Slot, TakeFreeSlot(s) \/ TakeFreeBuffer(s),
         mActiveBuffers' = mActiveBuffers \cup {s}, UNCHANGED mUnusedSlots
  PROVE  Activates(s)
<1>1. s \notin mActiveBuffers BY Modes, TakeSlot
<1>2. Partition(mFreeSlots, FreeBufferSet, mActiveBuffers, mUnusedSlots)
  BY Modes, ListsArePartition
<1>3. CASE TakeFreeSlot(s)
  BY <1>1, <1>2, <1>3 DEF TakeFreeSlot, Activates, EmptySlots, Partition, FreeBufferSet
<1>4. CASE TakeFreeBuffer(s)
  <2>1. Elems(Tail(mFreeBuffers)) = Elems(mFreeBuffers) \ {s} /\ s \in Elems(mFreeBuffers)
    BY <1>4, Modes, ListsArePartition, ElemsOfTail DEF TakeFreeBuffer, TypeOK
  <2> QED BY <1>1, <1>2, <1>4, <2>1
      DEF TakeFreeBuffer, Activates, EmptySlots, Partition, FreeBufferSet
<1> QED BY <1>3, <1>4

\* A slot without owners goes back to the free lists.
LEMMA SlotFreed ==
  ASSUME IInv, NEW slots \in [Slot -> BufferSlot], NEW s \in mActiveBuffers,
         Owners(slots[s]) = 0, ~slots[s].shared, GiveBack(slots, s)
  PROVE  Frees(s) /\ \A u \in Slot : SameSlot(mSlots'[u], slots[u])
<1>1. s \in Slot /\ slots[s] \in BufferSlot BY Modes DEF TypeOK
<1>2. ~Unshared(slots[s]).shared /\ SameSlot(Unshared(slots[s]), slots[s])
  BY <1>1 DEF Unshared, SameSlot, SameContent, SameOwners, BufferSlot
<1>3. /\ mActiveBuffers' = mActiveBuffers \ {s}
      /\ mFreeBuffers' = Append(mFreeBuffers, s)
      /\ UNCHANGED <<mFreeSlots, mUnusedSlots>>
      /\ mSlots' = [slots EXCEPT ![s] = Unshared(slots[s])]
  BY <1>2 DEF GiveBack
<1>4. mFreeBuffers \in Seq(Slot) BY Modes DEF TypeOK
<1>5. Elems(mFreeBuffers') = Elems(mFreeBuffers) \cup {s} BY <1>1, <1>3, <1>4, ElemsOfAppend, SMTT(30)
<1>6. Frees(s) BY <1>3, <1>5 DEF Frees, EmptySlots, FreeBufferSet
<1>7. \A u \in Slot : SameSlot(mSlots'[u], slots[u])
  BY <1>2, <1>3 DEF SameSlot, SameContent, SameOwners
<1> QED BY <1>6, <1>7

\* A slot that loses its buffer, and no other.
LEMMA SlotEmptied ==
  ASSUME NEW s \in Slot, Detach(s) PROVE Empties(s) /\ OthersSame({s})
<1>1. /\ mSlots' = clearBufferSlotLocked({s}) /\ mActiveBuffers' = mActiveBuffers \ {s}
      /\ EmptySlots' = EmptySlots \cup {s} /\ FreeBufferSet' = FreeBufferSet
  BY DEF Detach, EmptySlots, FreeBufferSet
<1>2. mSlots'[s] = Cleared /\ \A u \in Slot \ {s} : mSlots'[u] = mSlots[u]
  BY <1>1 DEF clearBufferSlotLocked
<1> QED BY <1>1, <1>2 DEF Empties, OthersSame, SameSlot, SameContent, SameOwners

-----------------------------------------------------------------------------
(* The effects of the producer's handlers *)

\* Steps of a thread that touch no slot.
LEMMA ControlEffect ==
  ASSUME IInv, NEW t \in Threads,
         \/ dequeueBuffer(t) \/ DequeueWaitsForAllocation(t) \/ WaitTimesOut(t)
         \/ detachNextBuffer(t) \/ FrameCallback(t) \/ PreallocStart(t) \/ PreallocYields(t)
  PROVE  Quiet
<1>1. UNCHANGED slotVars /\ SameFrames /\ UNCHANGED held
  BY DEF dequeueBuffer, DequeueWaitsForAllocation, WaitTimesOut, detachNextBuffer,
         FrameCallback, PreallocStart, PreallocYields, queueVars, consumerVars, SameFrames
<1>2. /\ call[t].op # "alloc"
      /\ \/ Return(t)
         \/ \E op \in {"dequeue", "dequeueAlloc", "detachNext", "prealloc", "retry"} : Goto(t, op)
  BY DEF dequeueBuffer, DequeueWaitsForAllocation, WaitTimesOut, detachNextBuffer,
         FrameCallback, PreallocStart, PreallocYields, isIdle
<1>3. QuietCalls BY <1>2, Modes, CallSteps
<1> QED BY <1>1, <1>3, NothingHappens

\* attachBuffer begins with the buffer of its caller.
LEMMA AttachEffect ==
  ASSUME IInv, NEW t \in Threads, NEW b \in Buffers, attachBuffer(t, b) PROVE AttachBegins(t)
<1>1. call \in [Threads -> [op : ThreadOps, slot : Slot \cup {NoSlot},
                            buf : Buffers \cup {NoBuffer}, frame : Nat]]
  BY Modes DEF TypeOK
<1>2. /\ UNCHANGED slotVars /\ SameFrames /\ UNCHANGED held
      /\ b \in FreshBuffers /\ call[t].op # "alloc"
      /\ call' = [call EXCEPT ![t] = [Idle EXCEPT !.op = "attach", !.buf = b]]
  BY DEF attachBuffer, queueVars, consumerVars, SameFrames, isIdle
<1>3. call'[t].op # "alloc" /\ call'[t].buf = b /\ QuietExcept(t)
  BY <1>1, <1>2 DEF QuietExcept, Idle
<1>4. Fresh(b) BY <1>2, CoreAssumption DEF Fresh, FreshBuffers
<1> QED BY <1>2, <1>3, <1>4
    DEF AttachBegins, OthersSame, SameSlot, SameContent, SameOwners, SameLists, slotVars

\* The first of mFreeBuffers loses its buffer.
LEMMA FirstCleared ==
  ASSUME IInv, mFreeBuffers # <<>>, mSlots' = clearBufferSlotLocked({Head(mFreeBuffers)}),
         mFreeSlots' = mFreeSlots \cup {Head(mFreeBuffers)},
         mFreeBuffers' = Tail(mFreeBuffers), UNCHANGED <<mActiveBuffers, mUnusedSlots>>,
         SameFrames, UNCHANGED held, QuietCalls
  PROVE  Quiet
<1>1. Head(mFreeBuffers) \in Slot \ mActiveBuffers BY Modes, EmptyFirst
<1>2. Elems(Tail(mFreeBuffers)) = Elems(mFreeBuffers) \ {Head(mFreeBuffers)}
  BY Modes, ListsArePartition, ElemsOfTail DEF TypeOK
<1>3. EmptySlots' \subseteq EmptySlots \cup {Head(mFreeBuffers)} BY DEF EmptySlots
<1>4. FreeBufferSet' \subseteq FreeBufferSet \ {Head(mFreeBuffers)}
  BY <1>2 DEF FreeBufferSet
<1> QED BY <1>1, <1>3, <1>4, SlotsCleared

\* Waiting for a slot, or giving up, changes no slot that is in use.
LEMMA WaitEffect ==
  ASSUME IInv, NEW t \in Threads, NEW attach, GiveUpOrWait(t, attach), call[t].op # "alloc",
         SameFrames, UNCHANGED held
  PROVE  Quiet
<1>1. Return(t) \/ Goto(t, "wait") \/ Goto(t, "timedWait") BY DEF GiveUpOrWait
<1>2. QuietCalls BY <1>1, Modes, CallSteps
<1> QED BY <1>2, NothingHappens DEF GiveUpOrWait

\* dequeueBuffer takes a slot, begins an allocation, or does nothing.
LEMMA DequeueEffect ==
  ASSUME IInv, NEW t \in Threads, DequeueLocked(t)
  PROVE  Quiet \/ \E s \in Slot : Takes(s) \/ AllocationBegins(t, s)
<1>1. SameFrames /\ UNCHANGED held /\ call[t].op # "alloc"
  BY DEF DequeueLocked, queueVars, consumerVars, SameFrames, DequeueSearches
<1>2. CASE GiveUpOrWait(t, FALSE) BY <1>1, <1>2, WaitEffect
<1>3. CASE \E s \in Slot, m \in Mismatches : DequeueFound(t, s, m)
  <2>1. PICK s \in Slot, m \in Mismatches : DequeueFound(t, s, m) BY <1>3
  <2>2. TakeFreeSlot(s) \/ TakeFreeBuffer(s) BY <2>1, Modes DEF DequeueFound, Found
  <2>3. TakeForDequeue(t, s, m) /\ UNCHANGED mUnusedSlots BY <2>1, Modes DEF DequeueFound
  <2> DEFINE r == [dequeue(mSlots[s]) EXCEPT !.needsRealloc = FALSE,
                                             !.shared = IF BecomesShared THEN TRUE ELSE @]
             e == [r EXCEPT !.buf = NoBuffer, !.acquireCalled = FALSE, !.requested = FALSE]
             a == [Idle EXCEPT !.op = "alloc", !.slot = s]
  <2>4. /\ mActiveBuffers' = mActiveBuffers \cup {s}
        /\ \/ /\ mSlots' = [mSlots EXCEPT ![s] = e] /\ call' = [call EXCEPT ![t] = a]
           \/ /\ mSlots' = [mSlots EXCEPT ![s] = r] /\ mSlots[s].buf # NoBuffer /\ Return(t)
    BY <2>3, Modes DEF TakeForDequeue
  <2>5. mSlots \in [Slot -> BufferSlot] /\ mSlots[s] \in BufferSlot BY Modes DEF TypeOK
  <2>6. Activates(s) BY <2>2, <2>3, <2>4, SlotActivated
  <2>7. mSlots[s].deq = 0 BY <2>6, OneOwnerEach DEF Activates
  <2>8. /\ r.buf = mSlots[s].buf /\ r.frame = mSlots[s].frame /\ r.deq = mSlots[s].deq + 1
        /\ e.buf = NoBuffer /\ e.deq = mSlots[s].deq + 1
    BY <2>5 DEF BufferSlot, dequeue
  <2>9. a.op = "alloc" /\ a.slot = s /\ a.buf = NoBuffer BY DEF Idle
  <2> HIDE DEF r, e, a
  <2>10. OthersSame({s})
    BY <2>4, <2>5 DEF OthersSame, SameSlot, SameContent, SameOwners
  <2>11. CASE mSlots' = [mSlots EXCEPT ![s] = e] /\ call' = [call EXCEPT ![t] = a]
    <3>1. mSlots'[s] = e BY <2>5, <2>11
    <3>2. call'[t] = a /\ QuietExcept(t) BY <2>11, Modes DEF TypeOK, QuietExcept
    <3>3. Allocates(t, s)' /\ call'[t].buf = NoBuffer BY <2>9, <3>2 DEF Allocates
    <3>4. mSlots'[s].buf = NoBuffer /\ mSlots'[s].deq = 1 BY <2>7, <2>8, <3>1, SMT
    <3> QED BY <1>1, <2>6, <2>10, <3>2, <3>3, <3>4 DEF AllocationBegins
  <2>12. CASE mSlots' = [mSlots EXCEPT ![s] = r] /\ mSlots[s].buf # NoBuffer /\ Return(t)
    <3>1. mSlots'[s] = r BY <2>5, <2>12
    <3>2. QuietCalls BY <1>1, <2>12, Modes, CallSteps
    <3>3. SameContent(mSlots'[s], mSlots[s]) /\ mSlots'[s].deq = 1
      BY <2>7, <2>8, <3>1, SMTT(30) DEF SameContent
    <3> QED BY <1>1, <2>6, <2>10, <2>12, <3>2, <3>3 DEF Takes
  <2> QED BY <2>4, <2>11, <2>12
<1>4. CASE DequeueDiscards(t)
  <2>1. QuietCalls BY <1>1, <1>4, Modes, CallSteps DEF DequeueDiscards
  <2> QED BY <1>1, <1>4, <2>1, FirstCleared DEF DequeueDiscards
<1> QED BY <1>2, <1>3, <1>4 DEF DequeueLocked

\* An allocation ends.
LEMMA AllocatedEffect ==
  ASSUME IInv, PlainUse, NEW t \in Threads, DequeueAllocated(t)
  PROVE  \E s \in Slot : AllocationEnds(t, s)
<1> DEFINE s == call[t].slot
<1>1. call[t].op = "alloc" /\ s \in Slot BY Modes DEF DequeueAllocated, TypeOK
<1>2. ~mIsAbandoned /\ "allocationFails" \notin Calls BY DEF IInv, PlainUse
<1>3. /\ \E b \in FreshBuffers : mSlots' = [mSlots EXCEPT ![s].buf = b]
      /\ SameLists /\ SameFrames /\ UNCHANGED held /\ Return(t)
  BY <1>2 DEF DequeueAllocated, queueVars, consumerVars, SameLists, SameFrames
<1>4. PICK b \in FreshBuffers : mSlots' = [mSlots EXCEPT ![s].buf = b] BY <1>3
<1> HIDE DEF s
<1>5. mSlots \in [Slot -> BufferSlot] /\ mSlots[s] \in BufferSlot BY <1>1, Modes DEF TypeOK
<1>6. /\ mSlots'[s] = [mSlots[s] EXCEPT !.buf = b]
      /\ \A u \in Slot \ {s} : mSlots'[u] = mSlots[u]
  BY <1>1, <1>4, <1>5
<1>7. /\ mSlots'[s].buf = b /\ SameOwners(mSlots'[s], mSlots[s])
      /\ mSlots'[s].frame = mSlots[s].frame
  BY <1>5, <1>6 DEF BufferSlot, SameOwners
<1>8. Fresh(b) BY CoreAssumption DEF Fresh, FreshBuffers
<1>9. OthersSame({s}) BY <1>6 DEF OthersSame, SameSlot, SameContent, SameOwners
<1>10. QuietExcept(t) /\ call'[t] = Idle BY <1>3, Modes DEF Return, QuietExcept, TypeOK
<1>11. Allocates(t, s) BY <1>1 DEF Allocates, s
<1> QED BY <1>1, <1>3, <1>7, <1>8, <1>9, <1>10, <1>11, ZenonT(30) DEF AllocationEnds

\* attachBuffer puts the buffer into a slot, or does nothing.
LEMMA AttachLockedEffect ==
  ASSUME IInv, AttachHasBuffer, NEW t \in Threads, AttachLocked(t)
  PROVE  Quiet \/ \E s \in Slot : Attaches(t, s)
<1>1. SameFrames /\ UNCHANGED held /\ call[t].op # "alloc"
  BY DEF AttachLocked, queueVars, consumerVars, SameFrames
<1>2. CASE GiveUpOrWait(t, TRUE) BY <1>1, <1>2, WaitEffect
<1>3. CASE \E s \in Slot : AttachFound(t, s)
  <2>1. PICK s \in Slot : AttachFound(t, s) BY <1>3
  <2>2. TakeFreeSlot(s) \/ TakeFreeBuffer(s) BY <2>1, Modes DEF AttachFound, Found
  <2> DEFINE r == [dequeue(mSlots[s]) EXCEPT !.buf = call[t].buf, !.requested = TRUE,
                     !.acquireCalled = FALSE, !.needsRealloc = FALSE]
  <2>3. /\ mActiveBuffers' = mActiveBuffers \cup {s} /\ UNCHANGED mUnusedSlots
        /\ mSlots' = [mSlots EXCEPT ![s] = r] /\ Return(t)
    BY <2>1 DEF AttachFound
  <2>4. mSlots \in [Slot -> BufferSlot] /\ mSlots[s] \in BufferSlot BY Modes DEF TypeOK
  <2>5. Activates(s) BY <2>2, <2>3, SlotActivated
  <2>6. mSlots[s].deq = 0 BY <2>5, OneOwnerEach DEF Activates
  <2>7. r.buf = call[t].buf /\ r.frame = mSlots[s].frame /\ r.deq = mSlots[s].deq + 1
    BY <2>4 DEF BufferSlot, dequeue
  <2> HIDE DEF r
  <2>8. OthersSame({s}) BY <2>3, <2>4 DEF OthersSame, SameSlot, SameContent, SameOwners
  <2>9. /\ mSlots'[s].buf = call[t].buf /\ mSlots'[s].frame = mSlots[s].frame
        /\ mSlots'[s].deq = 1
    BY <2>3, <2>4, <2>6, <2>7, SMTT(30)
  <2>10. QuietExcept(t) /\ call'[t] = Idle BY <2>3, Modes DEF Return, QuietExcept, TypeOK
  <2>11. call[t].buf # NoBuffer BY DEF AttachLocked, AttachHasBuffer
  <2> QED BY <1>1, <2>5, <2>8, <2>9, <2>10, <2>11 DEF Attaches
<1> QED BY <1>2, <1>3 DEF AttachLocked

\* detachNextBuffer takes no slot that is in use.
LEMMA DetachNextEffect ==
  ASSUME IInv, NEW t \in Threads, DetachNextLocked(t) PROVE Quiet
<1>1. SameFrames /\ UNCHANGED held /\ call[t].op # "alloc" /\ Return(t)
  BY DEF DetachNextLocked, queueVars, consumerVars, SameFrames
<1>2. QuietCalls BY <1>1, Modes, CallSteps
<1>3. CASE mFreeBuffers = <<>>
  BY <1>1, <1>2, <1>3, NothingHappens DEF DetachNextLocked
<1>4. CASE mFreeBuffers # <<>>
  BY <1>1, <1>2, <1>4, FirstCleared DEF DetachNextLocked
<1> QED BY <1>3, <1>4

\* allocateBuffers fills a free slot, or does nothing.
LEMMA PreallocEffect ==
  ASSUME IInv, NEW t \in Threads, PreallocEnd(t) PROVE Quiet \/ \E s \in Slot : Fills(s)
<1>1. /\ SameFrames /\ UNCHANGED held /\ call[t].op # "alloc"
      /\ Return(t) \/ Goto(t, "retry") \/ Goto(t, "yield")
  BY DEF PreallocEnd, queueVars, consumerVars, SameFrames
<1>2. QuietCalls BY <1>1, Modes, CallSteps
<1>3. CASE UNCHANGED slotVars BY <1>1, <1>2, <1>3, NothingHappens
<1>4. CASE \E s \in mFreeSlots, b \in FreshBuffers :
             /\ mSlots' = [mSlots EXCEPT ![s] = [Cleared EXCEPT !.buf = b]]
             /\ mFreeBuffers' = <<s>> \o mFreeBuffers
             /\ mFreeSlots' = mFreeSlots \ {s}
             /\ UNCHANGED <<mActiveBuffers, mUnusedSlots>>
  <2>1. PICK s \in mFreeSlots, b \in FreshBuffers :
             /\ mSlots' = [mSlots EXCEPT ![s] = [Cleared EXCEPT !.buf = b]]
             /\ mFreeBuffers' = <<s>> \o mFreeBuffers
             /\ mFreeSlots' = mFreeSlots \ {s}
             /\ UNCHANGED <<mActiveBuffers, mUnusedSlots>>
    BY <1>4
  <2> DEFINE r == [Cleared EXCEPT !.buf = b]
  <2>2. s \in Slot /\ mSlots \in [Slot -> BufferSlot] /\ mFreeBuffers \in Seq(Slot)
    BY Modes DEF TypeOK
  <2>3. r.buf = b /\ Owners(r) = 0 BY SMT DEF Cleared, NewSlot, Owners
  <2>4. mSlots' = [mSlots EXCEPT ![s] = r] BY <2>1
  <2> HIDE DEF r
  <2>5. mSlots'[s] = r BY <2>2, <2>4
  <2>6. OthersSame({s}) BY <2>2, <2>4 DEF OthersSame, SameSlot, SameContent, SameOwners
  <2>7. Fresh(b) BY CoreAssumption DEF Fresh, FreshBuffers
  <2>8. FreeBufferSet' = FreeBufferSet \cup {s}
    BY <2>1, <2>2, ElemsOfPrepend, SMT DEF FreeBufferSet
  <2>9. EmptySlots' = EmptySlots \ {s}
    <3>1. s \notin mUnusedSlots BY Modes, ListsArePartition DEF Partition
    <3> QED BY <2>1, <3>1 DEF EmptySlots
  <2> QED BY <1>1, <1>2, <2>1, <2>2, <2>3, <2>5, <2>6, <2>7, <2>8, <2>9, ZenonT(30) DEF Fills
<1> QED BY <1>3, <1>4 DEF PreallocEnd

\* requestBuffer only notes that the slot was requested.
LEMMA RequestEffect ==
  ASSUME IInv, NEW s \in Slot, requestBuffer(s) PROVE Quiet
<1>1. /\ SameFrames /\ UNCHANGED held /\ UNCHANGED call /\ SameLists
      /\ mSlots' = [mSlots EXCEPT ![s].requested = TRUE]
  BY DEF requestBuffer, queueVars, consumerVars, threadVars, SameFrames, SameLists
<1>2. mSlots \in [Slot -> BufferSlot] BY Modes DEF TypeOK
<1>3. \A r \in BufferSlot : SameSlot([r EXCEPT !.requested = TRUE], r)
  BY DEF BufferSlot, SameSlot, SameContent, SameOwners
<1>4. \A r : SameSlot(r, r) BY DEF SameSlot, SameContent, SameOwners
<1>5. \A u \in Slot : mSlots'[u] = IF u = s THEN [mSlots[s] EXCEPT !.requested = TRUE]
                                   ELSE mSlots[u]
  BY <1>1, <1>2
<1>6. OthersSame({}) BY <1>2, <1>3, <1>4, <1>5 DEF OthersSame
<1>7. EmptySlots' = EmptySlots /\ FreeBufferSet' = FreeBufferSet
  BY <1>1 DEF EmptySlots, FreeBufferSet, SameLists
<1>8. QuietCalls BY <1>1, SameCalls
<1> QED BY <1>1, <1>6, <1>7, <1>8, ZenonT(30) DEF Quiet, SameLists

\* cancelBuffer.
LEMMA CancelEffect ==
  ASSUME IInv, NEW s \in Slot, cancelBuffer(s) PROVE Cancels(s)
<1>1. /\ ProducerOwns(s) /\ GiveBack([mSlots EXCEPT ![s] = cancel(@)], s)
      /\ SameFrames /\ UNCHANGED held /\ UNCHANGED call
  BY DEF cancelBuffer, queueVars, consumerVars, SameFrames
<1>2. /\ mSlots[s] \in BufferSlot /\ mSlots \in [Slot -> BufferSlot] /\ ~mSlots[s].shared
      /\ s \in mActiveBuffers /\ Owners(mSlots[s]) = 1 /\ mSlots[s].deq > 0
  BY <1>1, Modes, SlotFacts DEF ProducerOwns, isDequeued, TypeOK
<1>3. /\ cancel(mSlots[s]) \in BufferSlot /\ ~cancel(mSlots[s]).shared
      /\ SameContent(cancel(mSlots[s]), mSlots[s]) /\ Owners(cancel(mSlots[s])) = 0
  <2>1. ~cancel(mSlots[s]).shared /\ SameContent(cancel(mSlots[s]), mSlots[s])
    BY <1>2 DEF cancel, BufferSlot, SameContent
  <2> QED BY <1>2, <2>1, OwnerMoves, SlotOps
<1> DEFINE slots == [mSlots EXCEPT ![s] = cancel(mSlots[s])]
<1>4. /\ slots \in [Slot -> BufferSlot] /\ GiveBack(slots, s)
      /\ \A u \in Slot : slots[u] = IF u = s THEN cancel(mSlots[s]) ELSE mSlots[u]
  BY <1>1, <1>2, <1>3
<1> HIDE DEF slots
<1>5. Frees(s) /\ \A u \in Slot : SameSlot(mSlots'[u], slots[u])
  BY <1>2, <1>3, <1>4, SlotFreed
<1>6. SameContent(mSlots'[s], mSlots[s])
  BY <1>3, <1>4, <1>5 DEF SameSlot, SameContent
<1>7. OthersSame({s}) BY <1>4, <1>5 DEF OthersSame
<1> QED BY <1>1, <1>5, <1>6, <1>7, SameCalls DEF Cancels

\* detachBuffer.
LEMMA DetachEffect ==
  ASSUME NEW s \in Slot, detachBuffer(s) PROVE Detaches(s)
BY SlotEmptied, SameCalls DEF detachBuffer, queueVars, consumerVars, SameFrames, Detaches

\* The slot of a frame that leaves the queue goes to mFreeBuffers.
LEMMA QueuedFreed ==
  ASSUME IInv, NEW l \in Slot, mSlots[l].que = 1
  PROVE  /\ l \in mActiveBuffers /\ freeQueued(mSlots[l]) \in BufferSlot
         /\ ~freeQueued(mSlots[l]).shared /\ Owners(freeQueued(mSlots[l])) = 0
         /\ SameContent(freeQueued(mSlots[l]), mSlots[l])
<1>1. mSlots[l] \in BufferSlot BY Modes DEF TypeOK
<1>2. SameContent(freeQueued(mSlots[l]), mSlots[l])
  BY <1>1 DEF freeQueued, BufferSlot, SameContent
<1> QED BY <1>2, QueuedSlotMoves

\* queueBuffer, with the frame it may replace.
LEMMA QueueEffect ==
  ASSUME IInv, NEW t \in Threads, NEW s \in Slot, queueBuffer(t, s) PROVE Queues(s)
<1>1. /\ ProducerOwns(s) /\ mFrameCounter' = mFrameCounter + 1
      /\ mQueue' = Enqueued(QueuedItem(s)) /\ UNCHANGED held
      /\ call[t].op # "alloc"
      /\ call' = [call EXCEPT ![t] =
                    [Idle EXCEPT !.op = "callback", !.frame = mFrameCounter + 1]]
  BY DEF queueBuffer, QueueAllowed, isIdle, consumerVars
<1>2. QuietCalls
  <2>1. call \in [Threads -> [op : ThreadOps, slot : Slot \cup {NoSlot},
                              buf : Buffers \cup {NoBuffer}, frame : Nat]]
    BY Modes DEF TypeOK
  <2>2. /\ call'[t].op = "callback" /\ call'[t].buf = NoBuffer
        /\ \A u \in Threads \ {t} : call'[u] = call[u]
    BY <1>1, <2>1 DEF Idle
  <2> QED BY <1>1, <2>2 DEF QuietCalls, QuietThread, Allocates
<1>3. /\ s \in mActiveBuffers /\ mSlots[s].que = 0 /\ QueuedSlot(s).que = 1
      /\ QueuedSlots(s) \in [Slot -> BufferSlot]
  BY <1>1, QueuedOwners, Modes, QueuedTypes
<1>4. \A u \in Slot : QueuedSlots(s)[u] = IF u = s THEN QueuedSlot(s) ELSE mSlots[u]
  BY Modes DEF TypeOK, QueuedSlots
<1>5. \A r : SameContent(r, r) /\ SameOwners(r, r) BY DEF SameContent, SameOwners
<1>6. CASE ~(Replaces /\ ~LastItem.stale)
  <2>1. mSlots' = QueuedSlots(s) /\ SameLists
    BY <1>6 DEF queueBuffer, SameLists
  <2>2. IF Replaces THEN GivesUp(LastItem) ELSE SameLists BY <1>6, <2>1 DEF GivesUp
  <2>3. mSlots'[s] = QueuedSlot(s) /\ \A u \in Slot \ {s} : mSlots'[u] = mSlots[u]
    BY <1>4, <2>1
  <2> QED BY <1>1, <1>2, <1>3, <1>5, <2>2, <2>3 DEF Queues
<1>7. CASE Replaces /\ ~LastItem.stale
  <2> DEFINE l == LastItem.slot
             slots == [QueuedSlots(s) EXCEPT ![l] = freeQueued(@)]
  <2>1. l \in Slot /\ mSlots[l].que = 1
    <3>1. mQueue \in Seq(BufferItem) /\ Claims(mQueue, mSlots)
      BY Modes, FramesClaims DEF SlotInvariant, TypeOK
    <3>2. Len(mQueue) \in 1 .. Len(mQueue) BY <1>7, <3>1, SMT DEF Replaces
    <3> QED BY <1>7, <3>1, <3>2, ItemSlots DEF LastItem, Claims
  <2>2. GiveBack(slots, l) BY <1>7 DEF queueBuffer
  <2> HIDE DEF l
  <2>3. l # s BY <1>3, <2>1, SMT
  <2>4. /\ slots \in [Slot -> BufferSlot]
        /\ \A u \in Slot : slots[u] = IF u = l THEN freeQueued(mSlots[l])
                                      ELSE IF u = s THEN QueuedSlot(s) ELSE mSlots[u]
    BY <1>3, <1>4, <2>1, <2>3, QueuedFreed
  <2> HIDE DEF slots
  <2>5. Frees(l) /\ \A u \in Slot : SameSlot(mSlots'[u], slots[u])
    BY <2>1, <2>2, <2>4, QueuedFreed, SlotFreed
  <2>6. SameContent(mSlots'[s], QueuedSlot(s)) /\ mSlots'[s].que = 1
    BY <1>3, <2>3, <2>4, <2>5 DEF SameSlot, SameOwners
  <2>7. ASSUME NEW u \in Slot \ {s}
        PROVE  SameContent(mSlots'[u], mSlots[u]) /\ (u = l \/ SameOwners(mSlots'[u], mSlots[u]))
    <3>1. CASE u = l
      BY <2>1, <2>4, <2>5, <3>1, QueuedFreed, ZenonT(30) DEF SameSlot, SameContent
    <3>2. CASE u # l BY <2>4, <2>5, <3>2 DEF SameSlot
    <3> QED BY <3>1, <3>2
  <2>8. IF Replaces THEN GivesUp(LastItem) ELSE SameLists BY <1>7, <2>5 DEF GivesUp, l
  <2>9. \A u \in Slot \ {s} :
          /\ SameContent(mSlots'[u], mSlots[u])
          /\ \/ Replaces /\ ~LastItem.stale /\ u = LastItem.slot
             \/ SameOwners(mSlots'[u], mSlots[u])
    BY <1>7, <2>7 DEF l
  <2> QED BY <1>1, <1>2, <2>6, <2>8, <2>9 DEF Queues
<1> QED BY <1>6, <1>7

-----------------------------------------------------------------------------
(* The effects of connections, limits and modes *)

\* disconnect.
LEMMA DisconnectEffect == ASSUME IInv, Disconnect PROVE Disconnects
<1>1. /\ freeAllBuffersLocked /\ mQueue' = StaleItems(mQueue) /\ ~mIsAllocating
      /\ UNCHANGED <<mFrameCounter, held, call>>
  BY DEF Disconnect, consumerVars
<1> DEFINE R == mFreeSlots \cup FreeBufferSet \cup mActiveBuffers
<1>2. /\ mActiveBuffers' = {} /\ FreeBufferSet' = {}
      /\ \A u \in Slot : mSlots'[u] = IF u \in R THEN Cleared ELSE mSlots[u]
  BY <1>1, EmptyQueue DEF freeAllBuffersLocked, clearBufferSlotLocked, FreeBufferSet
<1>3. R = Slot \ mUnusedSlots /\ mUnusedSlots \subseteq Slot
  BY Modes, ListsArePartition DEF Partition
<1> HIDE DEF R
<1> QED BY <1>1, <1>2, <1>3, SameCalls DEF Disconnects

\* adjustAvailableSlotsLocked touches no slot that is in use.
LEMMA AdjustEffect ==
  ASSUME IInv, NEW delta, adjustAvailableSlotsLocked(delta),
         UNCHANGED mActiveBuffers, SameFrames, UNCHANGED <<held, call>>
  PROVE  Quiet
<1>1. QuietCalls BY SameCalls
<1>2. CASE /\ \E S \in SUBSET mUnusedSlots :
                /\ mFreeSlots' = mFreeSlots \cup S /\ mUnusedSlots' = mUnusedSlots \ S
           /\ UNCHANGED <<mSlots, mFreeBuffers>>
  <2>1. EmptySlots' \subseteq EmptySlots \cup {} /\ FreeBufferSet' \subseteq FreeBufferSet \ {}
    BY <1>2 DEF EmptySlots, FreeBufferSet
  <2>2. mSlots' = clearBufferSlotLocked({}) BY <1>2, Modes DEF clearBufferSlotLocked, TypeOK
  <2> QED BY <1>1, <2>1, <2>2, SlotsCleared
<1>3. CASE \E S \in SUBSET mFreeSlots, n \in 0 .. Len(mFreeBuffers) :
             LET retired == S \cup {mFreeBuffers[i] : i \in (n + 1) .. Len(mFreeBuffers)}
             IN  /\ mSlots' = clearBufferSlotLocked(retired)
                 /\ mFreeSlots' = mFreeSlots \ S
                 /\ mFreeBuffers' = SubSeq(mFreeBuffers, 1, n)
                 /\ mUnusedSlots' = mUnusedSlots \cup retired
  <2>1. PICK S \in SUBSET mFreeSlots, n \in 0 .. Len(mFreeBuffers) :
          LET retired == S \cup {mFreeBuffers[i] : i \in (n + 1) .. Len(mFreeBuffers)}
          IN  /\ mSlots' = clearBufferSlotLocked(retired)
              /\ mFreeSlots' = mFreeSlots \ S
              /\ mFreeBuffers' = SubSeq(mFreeBuffers, 1, n)
              /\ mUnusedSlots' = mUnusedSlots \cup retired
    BY <1>3
  <2> DEFINE rest == {mFreeBuffers[i] : i \in (n + 1) .. Len(mFreeBuffers)}
             R == S \cup rest
  <2>2. /\ Elems(SubSeq(mFreeBuffers, 1, n)) = Elems(mFreeBuffers) \ rest
        /\ rest \subseteq Elems(mFreeBuffers)
    BY Modes, ListsArePartition, ElemsOfPrefix, SMTT(30) DEF TypeOK
  <2> HIDE DEF rest
  <2>3. /\ mSlots' = clearBufferSlotLocked(R) /\ mFreeSlots' = mFreeSlots \ S
        /\ mFreeBuffers' = SubSeq(mFreeBuffers, 1, n) /\ mUnusedSlots' = mUnusedSlots \cup R
    BY <2>1 DEF rest
  <2>4. Partition(mFreeSlots, FreeBufferSet, mActiveBuffers, mUnusedSlots)
    BY Modes, ListsArePartition
  <2>5. R \in SUBSET (Slot \ mActiveBuffers) BY <2>2, <2>4 DEF Partition, FreeBufferSet
  <2>6. EmptySlots' \subseteq EmptySlots \cup R BY <2>3 DEF EmptySlots
  <2>7. FreeBufferSet' \subseteq FreeBufferSet \ R
    BY <2>2, <2>3, <2>4 DEF Partition, FreeBufferSet
  <2> HIDE DEF R
  <2> QED BY <1>1, <2>3, <2>5, <2>6, <2>7, SlotsCleared, ZenonT(30)
<1> QED BY <1>2, <1>3 DEF adjustAvailableSlotsLocked

\* connect does nothing to slots; disconnect disconnects.
LEMMA ConnectionEffect ==
  ASSUME IInv, PlainUse, ConnectionStep PROVE Quiet \/ Disconnects
<1>1. ASSUME NEW api, NEW byApp, connect(api, byApp) PROVE Quiet
  <2>1. /\ \E delta : adjustAvailableSlotsLocked(delta)
        /\ UNCHANGED mActiveBuffers /\ SameFrames /\ UNCHANGED <<held, call>>
    BY <1>1 DEF connect, consumerVars, threadVars, SameFrames
  <2> QED BY <2>1, AdjustEffect
<1>2. ASSUME UNCHANGED slotVars, UNCHANGED queueVars, UNCHANGED consumerVars, UNCHANGED threadVars
      PROVE  Quiet
  BY <1>2, NothingHappens, SameCalls DEF queueVars, consumerVars, threadVars, SameFrames
<1>3. CASE ProducerDies \/ binderDied BY <1>2, <1>3 DEF ProducerDies, binderDied
<1>4. CASE BinderDiedDisconnect BY <1>2, <1>4, DisconnectEffect DEF BinderDiedDisconnect
<1>5. CASE disconnect BY <1>5, DisconnectEffect DEF disconnect
<1>6. ASSUME NEW byApp, ConsumerConnect(byApp) PROVE Quiet BY <1>2, <1>6 DEF ConsumerConnect
<1>7. ~ConsumerDisconnect BY DEF ConsumerDisconnect, PlainUse
<1> QED BY <1>1, <1>3, <1>4, <1>5, <1>6, <1>7 DEF ConnectionStep

\* The setters touch no slot that is in use.
LEMMA ConfigEffect ==
  ASSUME IInv, PlainUse, ProducerConfigStep \/ ConsumerConfigStep PROVE Quiet
<1>1. ASSUME \E delta : adjustAvailableSlotsLocked(delta), UNCHANGED mActiveBuffers,
             UNCHANGED queueVars, UNCHANGED consumerVars, UNCHANGED call
      PROVE  Quiet
  BY <1>1, AdjustEffect DEF queueVars, consumerVars, SameFrames
<1>2. ASSUME UNCHANGED slotVars, UNCHANGED queueVars, UNCHANGED consumerVars, UNCHANGED threadVars
      PROVE  Quiet
  BY <1>2, NothingHappens, SameCalls DEF queueVars, consumerVars, threadVars, SameFrames
<1>3. ASSUME NEW n, setMaxDequeuedBufferCount(n) PROVE Quiet
  BY <1>1, <1>3 DEF setMaxDequeuedBufferCount
<1>4. ASSUME NEW a, setAsyncMode(a) PROVE Quiet BY <1>1, <1>4 DEF setAsyncMode
<1>5. ASSUME NEW d, setDequeueTimeout(d) PROVE Quiet
  BY <1>1, <1>5 DEF setDequeueTimeout, threadVars
<1>6. \A on : ~setSharedBufferMode(on) BY DEF setSharedBufferMode, PlainUse
<1>7. ASSUME NEW f, NEW on, SetProducerFlag(f, on) PROVE Quiet
  BY <1>2, <1>7 DEF SetProducerFlag
<1>8. ASSUME NEW n, setMaxBufferCount(n) PROVE Quiet
  BY <1>1, <1>8 DEF setMaxBufferCount, threadVars
<1>9. ASSUME NEW n, setMaxAcquiredBufferCount(n) PROVE Quiet
  BY <1>1, <1>9 DEF setMaxAcquiredBufferCount, threadVars
<1>10. CASE discardFreeBuffers
  <2>1. /\ discardFreeBuffersLocked /\ SameFrames /\ UNCHANGED held /\ QuietCalls
    BY <1>10, SameCalls DEF discardFreeBuffers, queueVars, consumerVars, threadVars, SameFrames
  <2>2. FreeBufferSet \subseteq Slot \ mActiveBuffers BY Modes DEF ListsPartitionSlots
  <2>3. /\ EmptySlots' \subseteq EmptySlots \cup FreeBufferSet
        /\ FreeBufferSet' \subseteq FreeBufferSet \ FreeBufferSet
    BY <2>1, EmptyQueue DEF discardFreeBuffersLocked, EmptySlots, FreeBufferSet
  <2> QED BY <2>1, <2>2, <2>3, SlotsCleared DEF discardFreeBuffersLocked
<1>11. ASSUME NEW a, setAllowExtraAcquire(a) PROVE Quiet BY <1>2, <1>11 DEF setAllowExtraAcquire
<1> QED BY <1>3, <1>4, <1>5, <1>6, <1>7, <1>8, <1>9, <1>10, <1>11, ZenonT(30)
    DEF ProducerConfigStep, ConsumerConfigStep

-----------------------------------------------------------------------------
(* The effects of the consumer's handlers *)

\* The front of the queue.
LEMMA FrontFacts ==
  ASSUME IInv, mQueue # <<>>
  PROVE  /\ Head(mQueue) \in BufferItem /\ Head(mQueue).slot \in Slot
         /\ ~Head(mQueue).stale => mSlots[Head(mQueue).slot].que = 1
<1>1. mQueue \in Seq(BufferItem) /\ Claims(mQueue, mSlots)
  BY Modes, FramesClaims DEF SlotInvariant, TypeOK
<1>2. 1 \in 1 .. Len(mQueue) /\ Head(mQueue) = mQueue[1] BY <1>1, SMT
<1> QED BY <1>1, <1>2, ItemSlots, SMTT(30) DEF Claims

\* acquireBuffer drops the front of the queue.
LEMMA DropEffect == ASSUME IInv, AcquireDrop PROVE Drops
<1>1. /\ Len(mQueue) > 1 /\ mQueue' = Tail(mQueue) /\ UNCHANGED <<mFrameCounter, held, call>>
  BY DEF AcquireDrop, threadVars
<1>2. mQueue # <<>>
  <2>1. mQueue \in Seq(BufferItem) BY Modes DEF TypeOK
  <2> QED BY <1>1, <2>1, SMTT(30)
<1>3. QuietCalls BY <1>1, SameCalls
<1>4. \A r : SameContent(r, r) /\ SameSlot(r, r) BY DEF SameContent, SameSlot, SameOwners
<1>5. CASE Head(mQueue).stale
  <2>1. UNCHANGED slotVars BY <1>5 DEF AcquireDrop
  <2>2. OthersSame({}) /\ \A u \in Slot : SameContent(mSlots'[u], mSlots[u])
    BY <1>4, <2>1 DEF OthersSame, slotVars
  <2>3. GivesUp(Head(mQueue)) BY <1>5, <2>1 DEF GivesUp, SameLists, slotVars
  <2> QED BY <1>1, <1>2, <1>3, <1>5, <2>2, <2>3, ZenonT(30) DEF Drops
<1>6. CASE ~Head(mQueue).stale
  <2> DEFINE l == Head(mQueue).slot
             slots == [mSlots EXCEPT ![l] = freeQueued(@)]
  <2>1. l \in Slot /\ mSlots[l].que = 1 BY <1>2, <1>6, FrontFacts
  <2>2. GiveBack(slots, l) BY <1>6 DEF AcquireDrop
  <2> HIDE DEF l
  <2>3. /\ slots \in [Slot -> BufferSlot]
        /\ \A u \in Slot : slots[u] = IF u = l THEN freeQueued(mSlots[l]) ELSE mSlots[u]
    BY <2>1, Modes, QueuedFreed DEF TypeOK
  <2> HIDE DEF slots
  <2>4. Frees(l) /\ \A u \in Slot : SameSlot(mSlots'[u], slots[u])
    BY <2>1, <2>2, <2>3, QueuedFreed, SlotFreed
  <2>5. OthersSame({l}) BY <2>3, <2>4 DEF OthersSame
  <2>6. ASSUME NEW u \in Slot PROVE SameContent(mSlots'[u], mSlots[u])
    <3>1. CASE u = l BY <2>1, <2>3, <2>4, <3>1, QueuedFreed, ZenonT(30) DEF SameSlot, SameContent
    <3>2. CASE u # l BY <2>3, <2>4, <3>2 DEF SameSlot
    <3> QED BY <3>1, <3>2
  <2>7. GivesUp(Head(mQueue)) BY <1>6, <2>4 DEF GivesUp, l
  <2>8. OthersSame(IF Head(mQueue).stale THEN {} ELSE {Head(mQueue).slot})
    BY <1>6, <2>5 DEF l
  <2> QED BY <1>1, <1>2, <1>3, <2>6, <2>7, <2>8 DEF Drops
<1> QED BY <1>5, <1>6

\* acquireBuffer takes the front of the queue.
LEMMA AcquireEffect == ASSUME IInv, AcquireFront PROVE Acquires
<1> DEFINE front == Head(mQueue)
           l == front.slot
           r == [acquire(mSlots[l]) EXCEPT !.acquireCalled = TRUE]
<1>1. /\ mQueue # <<>> /\ mQueue' = Tail(mQueue) /\ SameLists
      /\ held' = Append(held, [slot |-> front.slot, frame |-> front.frame, buf |-> front.buf])
      /\ UNCHANGED <<mFrameCounter, call>>
  BY DEF AcquireFront, SameLists
<1>2. QuietCalls BY <1>1, SameCalls
<1>3. \A v : SameContent(v, v) /\ SameSlot(v, v) BY DEF SameContent, SameSlot, SameOwners
<1>4. CASE front.stale
  <2>1. UNCHANGED mSlots BY <1>4 DEF AcquireFront
  <2>2. OthersSame({}) /\ \A u \in Slot : SameContent(mSlots'[u], mSlots[u])
    BY <1>3, <2>1 DEF OthersSame
  <2> QED BY <1>1, <1>2, <1>4, <2>2 DEF Acquires
<1>5. CASE ~front.stale
  <2>1. l \in Slot /\ mSlots[l].que = 1 BY <1>1, <1>5, FrontFacts
  <2>2. mSlots' = [mSlots EXCEPT ![l] = r] BY <1>5 DEF AcquireFront
  <2> HIDE DEF l
  <2>3. mSlots \in [Slot -> BufferSlot] /\ mSlots[l] \in BufferSlot BY <2>1, Modes DEF TypeOK
  <2>4. mSlots[l].acq = 0 BY <2>1, OneOwnerEach
  <2>5. r.acq = mSlots[l].acq + 1 /\ SameContent(r, mSlots[l])
    BY <2>3 DEF acquire, BufferSlot, SameContent
  <2> HIDE DEF r
  <2>6. \A u \in Slot : mSlots'[u] = IF u = l THEN r ELSE mSlots[u] BY <2>1, <2>2, <2>3
  <2>7. /\ OthersSame({l}) /\ mSlots'[l].acq = 1
        /\ \A u \in Slot : SameContent(mSlots'[u], mSlots[u])
    BY <1>3, <2>1, <2>4, <2>5, <2>6, SMTT(30) DEF OthersSame
  <2> QED BY <1>1, <1>2, <1>5, <2>7 DEF Acquires, l
<1> QED BY <1>4, <1>5

\* releaseBuffer.
LEMMA ReleaseEffect ==
  ASSUME IInv, NEW i \in 1 .. Len(held), releaseBuffer(i) PROVE Releases(i)
<1> DEFINE h == held[i]
           s == h.slot
<1>1. held' = Without(held, i) /\ SameFrames /\ UNCHANGED call
  BY DEF releaseBuffer, queueVars, SameFrames
<1>2. QuietCalls BY <1>1, SameCalls
<1>3. s \in Slot
  <2>1. held[i] \in Held BY Modes, SMT DEF TypeOK
  <2> QED BY <2>1 DEF Held
<1>4. \A v : SameContent(v, v) /\ SameSlot(v, v) BY DEF SameContent, SameSlot, SameOwners
<1>5. CASE ~ReleaseIsCurrent(h)
  <2>1. UNCHANGED slotVars BY <1>5 DEF releaseBuffer
  <2>2. /\ OthersSame({}) /\ SameLists
        /\ \A u \in Slot : SameContent(mSlots'[u], mSlots[u])
    BY <1>4, <2>1 DEF OthersSame, SameLists, slotVars
  <2> QED BY <1>1, <1>2, <2>2 DEF Releases
<1>6. CASE ReleaseIsCurrent(h)
  <2>1. GiveBack([mSlots EXCEPT ![s] = release(@)], s) BY <1>6 DEF releaseBuffer
  <2>2. /\ mSlots[s] \in BufferSlot /\ mSlots \in [Slot -> BufferSlot] /\ ~mSlots[s].shared
        /\ h.frame = mSlots[s].frame /\ isAcquired(mSlots[s])
        /\ s \in mActiveBuffers /\ Owners(mSlots[s]) = 1 /\ mSlots[s].acq > 0
    BY <1>3, <1>6, Modes, SlotFacts DEF ReleaseIsCurrent, isAcquired, TypeOK
  <2> HIDE DEF s
  <2>3. /\ release(mSlots[s]) \in BufferSlot /\ ~release(mSlots[s]).shared
        /\ SameContent(release(mSlots[s]), mSlots[s]) /\ Owners(release(mSlots[s])) = 0
    <3>1. ~release(mSlots[s]).shared /\ SameContent(release(mSlots[s]), mSlots[s])
      BY <2>2 DEF release, BufferSlot, SameContent
    <3> QED BY <2>2, <3>1, OwnerMoves, SlotOps
  <2> DEFINE slots == [mSlots EXCEPT ![s] = release(mSlots[s])]
  <2>4. /\ slots \in [Slot -> BufferSlot] /\ GiveBack(slots, s)
        /\ \A u \in Slot : slots[u] = IF u = s THEN release(mSlots[s]) ELSE mSlots[u]
    BY <1>3, <2>1, <2>2, <2>3
  <2> HIDE DEF slots
  <2>5. Frees(s) /\ \A u \in Slot : SameSlot(mSlots'[u], slots[u])
    BY <1>3, <2>2, <2>3, <2>4, SlotFreed
  <2>6. OthersSame({s}) BY <2>4, <2>5 DEF OthersSame
  <2>7. ASSUME NEW u \in Slot PROVE SameContent(mSlots'[u], mSlots[u])
    <3>1. CASE u = s BY <1>3, <2>3, <2>4, <2>5, <3>1 DEF SameSlot, SameContent
    <3>2. CASE u # s BY <2>4, <2>5, <3>2 DEF SameSlot
    <3> QED BY <3>1, <3>2
  <2> QED BY <1>1, <1>2, <2>2, <2>5, <2>6, <2>7 DEF Releases, s
<1> QED BY <1>5, <1>6

\* The consumer's detachBuffer.
LEMMA ConsumerDetachEffect ==
  ASSUME IInv, NEW i \in 1 .. Len(held), ConsumerDetachBuffer(i) PROVE ConsumerDetaches(i)
<1> DEFINE s == held[i].slot
<1>1. /\ held' = Without(held, i) /\ SameFrames /\ UNCHANGED call
      /\ isAcquired(mSlots[s]) /\ Detach(s)
  BY DEF ConsumerDetachBuffer, queueVars, SameFrames
<1>2. QuietCalls BY <1>1, SameCalls
<1>3. s \in Slot
  <2>1. held[i] \in Held BY Modes, SMT DEF TypeOK
  <2> QED BY <2>1 DEF Held
<1>4. Empties(s) /\ OthersSame({s}) BY <1>1, <1>3, SlotEmptied
<1> QED BY <1>1, <1>2, <1>4 DEF ConsumerDetaches

\* The consumer's attachBuffer.
LEMMA ConsumerAttachEffect ==
  ASSUME IInv, NEW b \in Buffers, ConsumerAttachBuffer(b)
  PROVE  \E s \in Slot : ConsumerAttaches(s)
<1>1. PICK s \in Slot :
        /\ TakeFreeSlot(s) \/ (mFreeSlots = {} /\ TakeFreeBuffer(s))
        /\ mSlots' = [mSlots EXCEPT ![s] = AttachedSlot(s, b)]
        /\ mActiveBuffers' = mActiveBuffers \cup {s}
        /\ held' = Append(held, [slot |-> s, frame |-> 0, buf |-> b])
  BY DEF ConsumerAttachBuffer
<1>2. UNCHANGED mUnusedSlots /\ SameFrames /\ UNCHANGED call /\ b \in FreshBuffers
  BY DEF ConsumerAttachBuffer, queueVars, threadVars, SameFrames
<1>3. QuietCalls BY <1>2, SameCalls
<1>4. Activates(s) BY <1>1, <1>2, SlotActivated
<1>5. mSlots[s].acq = 0 BY <1>4, OneOwnerEach DEF Activates
<1>6. mSlots \in [Slot -> BufferSlot] /\ mSlots[s] \in BufferSlot BY Modes DEF TypeOK
<1>7. /\ AttachedSlot(s, b).buf = b /\ AttachedSlot(s, b).frame = 0
      /\ AttachedSlot(s, b).acq = mSlots[s].acq + 1
  BY <1>6 DEF AttachedSlot, acquireNotInQueue, BufferSlot
<1>8. \A u \in Slot : mSlots'[u] = IF u = s THEN AttachedSlot(s, b) ELSE mSlots[u]
  BY <1>1, <1>6
<1>9. mSlots'[s].buf = b /\ mSlots'[s].frame = 0 /\ mSlots'[s].acq = 1
  BY <1>5, <1>7, <1>8, SMT
<1>10. Fresh(b) BY <1>2, CoreAssumption DEF Fresh, FreshBuffers
<1>11. OthersSame({s}) BY <1>8 DEF OthersSame, SameSlot, SameContent, SameOwners
<1> QED BY <1>1, <1>2, <1>3, <1>4, <1>9, <1>10, <1>11 DEF ConsumerAttaches

-----------------------------------------------------------------------------
(* Every step has one of the effects *)

\* The steps of a producer's thread have effects of the list.
LEMMA ThreadEffect ==
  ASSUME IInv, PlainUse, AttachHasBuffer, NEW t \in Threads, ThreadStep(t) PROVE Effect
<1>1. CASE DequeueStep(t)
  BY <1>1, ControlEffect, DequeueEffect, AllocatedEffect DEF DequeueStep, Effect
<1>2. CASE AttachDetachStep(t)
  BY <1>2, ControlEffect, DetachNextEffect, AttachLockedEffect, AttachEffect, DetachEffect
  DEF AttachDetachStep, Effect
<1>3. CASE QueueStep(t)
  <2>1. \A s \in Slot : ~QueueBadCrop(t, s) BY Modes DEF QueueBadCrop
  <2> QED BY <1>3, <2>1, ControlEffect, QueueEffect, RequestEffect, CancelEffect
      DEF QueueStep, Effect
<1>4. CASE PreallocStart(t) \/ PreallocEnd(t) \/ PreallocYields(t)
  BY <1>4, ControlEffect, PreallocEffect DEF Effect
<1> QED BY <1>1, <1>2, <1>3, <1>4 DEF ThreadStep

\* So have the steps of the consumer.
LEMMA ConsumerEffect ==
  ASSUME IInv, AcquireStep \/ ReleaseStep \/ \E b \in Buffers : ConsumerAttachBuffer(b)
  PROVE  Effect
<1>1. CASE AcquireDrop BY <1>1, DropEffect DEF Effect
<1>2. CASE AcquireFront BY <1>2, AcquireEffect DEF Effect
<1>3. CASE AcquireRefused
  <2>1. UNCHANGED slotVars /\ SameFrames /\ UNCHANGED <<held, call>>
    BY <1>3 DEF AcquireRefused, queueVars, threadVars, SameFrames
  <2> QED BY <2>1, SameCalls, NothingHappens DEF Effect
<1>4. ~AcquireSharedWaits /\ ~AcquireShared
  BY Modes DEF AcquireSharedWaits, AcquireShared, SharedAvailable
<1>5. CASE ReleaseStep
  BY <1>5, ReleaseEffect, ConsumerDetachEffect DEF ReleaseStep, Effect
<1>6. CASE \E b \in Buffers : ConsumerAttachBuffer(b)
  BY <1>6, ConsumerAttachEffect DEF Effect
<1> QED BY <1>1, <1>2, <1>3, <1>4, <1>5, <1>6 DEF AcquireStep

\* Every step has one of the sixteen effects.
LEMMA EveryStep ==
  ASSUME IInv, PlainUse, AttachHasBuffer, [Next]_vars PROVE Effect
<1>1. CASE \E t \in Threads : ThreadStep(t) BY <1>1, ThreadEffect
<1>2. CASE ProducerConfigStep BY <1>2, ConfigEffect DEF Effect
<1>3. CASE ConnectionStep BY <1>3, ConnectionEffect DEF Effect
<1>4. CASE ConsumerStep BY <1>4, ConsumerEffect, ConfigEffect DEF ConsumerStep, Effect
<1>5. CASE UNCHANGED vars
  <2>1. UNCHANGED slotVars /\ SameFrames /\ UNCHANGED <<held, call>>
    BY <1>5 DEF vars, queueVars, consumerVars, threadVars, SameFrames
  <2> QED BY <2>1, SameCalls, NothingHappens DEF Effect
<1> QED BY <1>1, <1>2, <1>3, <1>4, <1>5 DEF Next
=============================================================================
