------------------------ MODULE FrameDeliveryClient --------------------------
(***************************************************************************)
(* The client of the invariant of FrameDelivery: lists and loops, the FIFO  *)
(* and the counters, and what each operator of BLASTBufferQueue keeps: those*)
(* that acquire and release buffers, the producer in queueBuffer and waking *)
(* up, the owner of the queue, the sync consumer, the release thread and the*)
(* listener.                                                                *)
(***************************************************************************)
EXTENDS FrameDeliveryInvariants, FiniteSetTheorems, WellFoundedInduction, TLAPS

USE Zenon

-----------------------------------------------------------------------------
(* Lists and loops.                                                         *)

\* A nonempty set of numbers has a least one.
LEMMA LeastNat ==
  ASSUME NEW S \in SUBSET Nat, S # {} PROVE \E n \in S : \A m \in S : n <= m
<1> DEFINE R == OpToRel(<, Nat)
<1>1. IsWellFoundedOn(R, Nat) BY NatLessThanWellFounded
<1>2. PICK n \in S : \A m \in S : <<m, n>> \notin R BY <1>1, WFMin
<1>3. \A m \in S : ~(m < n) BY <1>2 DEF OpToRel
<1> QED BY <1>3, SMT

\* What holds at 0 and goes on from each number below n holds at n.
LEMMA UpTo ==
  ASSUME NEW S, 0 \in S, NEW n \in Nat, \A k \in 0 .. n - 1 : k \in S => k + 1 \in S
  PROVE  n \in S
<1> DEFINE T == {k \in 0 .. n : k \notin S}
<1> SUFFICES ASSUME n \notin S PROVE FALSE OBVIOUS
<1>1. T \in SUBSET Nat /\ T # {} BY SMT
<1>2. PICK k \in T : \A m \in T : k <= m
  <2> HIDE DEF T
  <2> QED BY <1>1, LeastNat
<1>3. k # 0 BY <1>2
<1>4. k - 1 \in 0 .. n - 1 /\ k - 1 \notin T BY <1>2, <1>3, SMT
<1> QED BY <1>2, <1>4, SMT

\* The equation of a loop with the body F.
Loops(g, F, base, q, k) ==
  g = [n \in 0 .. k |-> IF n = 0 THEN base ELSE F[<<g[n - 1], q[n]>>]]

\* The rounds of a loop over a list.
LEMMA Indices ==
  ASSUME NEW S, NEW q \in Seq(S)
  PROVE  \A n \in 1 .. Len(q) : n \in 0 .. Len(q) /\ n # 0 /\ q[n] \in S
BY SMT

\* A list has a length.
LEMMA LengthOf == ASSUME NEW S, NEW q \in Seq(S) PROVE Len(q) \in Nat
BY SMT

\* The loop over q from base, with values in X and elements in Y.
Turns(g, F, X, Y, base, q) ==
  /\ g \in [0 .. Len(q) -> X] /\ g[0] = base
  /\ \A n \in 1 .. Len(q) : /\ g[n - 1] \in X /\ q[n] \in Y
                            /\ g[n] = F[<<g[n - 1], q[n]>>]

\* It has a solution if F takes the values of X to values of X.
LEMMA LoopExists ==
  ASSUME NEW X, NEW Y, NEW F \in [X \X Y -> X], NEW base \in X, NEW q \in Seq(Y)
  PROVE  \E g : Turns(g, F, X, Y, base, q)
<1> DEFINE S == {k \in 0 .. Len(q) : \E g \in [0 .. k -> X] : Loops(g, F, base, q, k)}
<1>1. Len(q) \in Nat BY SMT
<1>2. 0 \in S
  <2> DEFINE g == [n \in 0 .. 0 |-> base]
  <2>1. g \in [0 .. 0 -> X] OBVIOUS
  <2>2. Loops(g, F, base, q, 0) BY SMT DEF Loops
  <2> HIDE DEF g
  <2> QED BY <1>1, <2>1, <2>2, SMT
<1>3. ASSUME NEW k \in 0 .. Len(q) - 1, k \in S PROVE k + 1 \in S
  <2>1. PICK g \in [0 .. k -> X] : Loops(g, F, base, q, k) BY <1>3
  <2> DEFINE h == [n \in 0 .. k + 1 |-> IF n = k + 1 THEN F[<<g[k], q[k + 1]>>] ELSE g[n]]
  <2>2. k \in Nat /\ k + 1 \in 1 .. Len(q) /\ k + 1 \in 0 .. Len(q) /\ q[k + 1] \in Y
    BY <1>1, SMT
  <2>3. F[<<g[k], q[k + 1]>>] \in X BY <2>2, SMT
  <2>4. h \in [0 .. k + 1 -> X] BY <2>2, <2>3, SMT
  <2>5. ASSUME NEW n \in 0 .. k + 1
        PROVE  h[n] = IF n = 0 THEN base ELSE F[<<h[n - 1], q[n]>>]
    <3>1. CASE n = k + 1
      <4>1. h[n] = F[<<g[k], q[k + 1]>>] /\ n # 0 /\ n - 1 = k BY <2>2, <3>1, SMT
      <4>2. h[k] = g[k] BY <2>2, SMT
      <4> QED BY <3>1, <4>1, <4>2
    <3>2. CASE n # k + 1
      <4>1. n \in 0 .. k /\ h[n] = g[n] BY <3>2, <2>2, SMT
      <4>2. g[n] = IF n = 0 THEN base ELSE F[<<g[n - 1], q[n]>>]
        BY <2>1, <4>1 DEF Loops
      <4>3. n # 0 => h[n - 1] = g[n - 1] BY <2>2, <4>1, SMT
      <4> QED BY <4>1, <4>2, <4>3
    <3> QED BY <3>1, <3>2
  <2>6. Loops(h, F, base, q, k + 1)
    <3> HIDE DEF h
    <3>1. h = [n \in 0 .. k + 1 |-> h[n]] BY <2>4
    <3> QED BY <2>5, <3>1 DEF Loops
  <2> HIDE DEF h
  <2> QED BY <2>2, <2>4, <2>6
<1> HIDE DEF S
<1>4. Len(q) \in S BY <1>1, <1>2, <1>3, UpTo
<1>5. PICK g \in [0 .. Len(q) -> X] : Loops(g, F, base, q, Len(q)) BY <1>4 DEF S
<1>6. \A n \in 1 .. Len(q) : n - 1 \in 0 .. Len(q) /\ q[n] \in Y BY <1>1, SMT
<1>7. g[0] = base /\ \A n \in 1 .. Len(q) : g[n] = F[<<g[n - 1], q[n]>>]
  BY <1>1, <1>5, SMT DEF Loops
<1>8. \A n \in 1 .. Len(q) : g[n - 1] \in X /\ q[n] \in Y BY <1>6
<1> QED BY <1>7, <1>8 DEF Turns

\* What each turn of a loop keeps, the loop keeps.
LEMMA LoopStays ==
  ASSUME NEW T, NEW q \in Seq(T), NEW X, NEW after, after[0] \in X,
         \A n \in 1 .. Len(q) : after[n - 1] \in X => after[n] \in X
  PROVE  after[Len(q)] \in X
<1> DEFINE Z == {k \in 0 .. Len(q) : after[k] \in X}
<1>1. 0 \in Z /\ (\A k \in 0 .. Len(q) - 1 : k \in Z => k + 1 \in Z) /\ Len(q) \in Nat BY SMT
<1> HIDE DEF Z
<1>2. Len(q) \in Z BY <1>1, UpTo
<1> QED BY <1>2 DEF Z

\* The range of a list, by its indices.
LEMMA InRange ==
  ASSUME NEW q PROVE \A x : x \in Range(q) <=> \E i \in DOMAIN q : x = q[i]
BY DEF Range

\* The range of a list with one more element.
LEMMA RangeAppend ==
  ASSUME NEW T, NEW q \in Seq(T), NEW t \in T
  PROVE  Range(Append(q, t)) = Range(q) \cup {t}
<1>1. DOMAIN Append(q, t) = 1 .. Len(q) + 1 /\ DOMAIN q = 1 .. Len(q) BY SMT
<1>2. \A i \in 1 .. Len(q) + 1 :
         Append(q, t)[i] = IF i = Len(q) + 1 THEN t ELSE q[i]
  BY SMT
<1> QED BY <1>1, <1>2, SMT DEF Range

\* A part of a list has no new elements.
LEMMA RangeSub ==
  ASSUME NEW T, NEW q \in Seq(T), NEW m \in 1 .. Len(q) + 1, NEW n \in 0 .. Len(q)
  PROVE  SubSeq(q, m, n) \in Seq(T) /\ Range(SubSeq(q, m, n)) \subseteq Range(q)
<1>1. SubSeq(q, m, n) \in Seq(T) BY SMT
<1>2. \A i \in DOMAIN SubSeq(q, m, n) :
         SubSeq(q, m, n)[i] = q[m + i - 1] /\ m + i - 1 \in DOMAIN q
  BY SMT
<1> QED BY <1>1, <1>2 DEF Range

\* A list is its head and its tail.
LEMMA RangeTail ==
  ASSUME NEW T, NEW q \in Seq(T), q # <<>>
  PROVE  /\ Head(q) \in T /\ Tail(q) \in Seq(T)
         /\ Range(q) = {Head(q)} \cup Range(Tail(q))
<1>1. Head(q) = q[1] /\ 1 \in DOMAIN q /\ Head(q) \in T /\ Tail(q) \in Seq(T) BY SMT
<1>2. \A i \in DOMAIN Tail(q) : Tail(q)[i] = q[i + 1] /\ i + 1 \in DOMAIN q BY SMT
<1>3. \A i \in DOMAIN q : i = 1 \/ (i - 1 \in DOMAIN Tail(q) /\ q[i] = Tail(q)[i - 1])
  BY SMT
<1> DEFINE h == Head(q)
           p == Tail(q)
<1>4. /\ \A i \in DOMAIN p : \E j \in DOMAIN q : p[i] = q[j]
      /\ \A i \in DOMAIN q : q[i] = h \/ \E j \in DOMAIN p : q[i] = p[j]
  BY <1>1, <1>2, <1>3
<1>5. h = q[1] /\ 1 \in DOMAIN q BY <1>1
<1> HIDE DEF h, p
<1>6. Range(q) = {h} \cup Range(p)
  <2>1. \A x : x \in Range(q) <=> \E i \in DOMAIN q : x = q[i] BY InRange
  <2>2. \A x : x \in Range(p) <=> \E i \in DOMAIN p : x = p[i] BY InRange
  <2>3. ASSUME NEW x \in Range(q) PROVE x \in {h} \cup Range(p)
    BY <1>4, <2>1, <2>2, <2>3
  <2>4. ASSUME NEW x \in {h} \cup Range(p) PROVE x \in Range(q)
    BY <1>4, <1>5, <2>1, <2>2, <2>4
  <2> QED BY <2>3, <2>4
<1> QED BY <1>1, <1>6 DEF h, p

\* The range of two lists one after the other.
LEMMA RangeCat ==
  ASSUME NEW T, NEW p \in Seq(T), NEW q \in Seq(T)
  PROVE  p \o q \in Seq(T) /\ Range(p \o q) = Range(p) \cup Range(q)
<1>1. p \o q \in Seq(T) /\ DOMAIN (p \o q) = 1 .. Len(p) + Len(q) BY SMT
<1>2. DOMAIN p = 1 .. Len(p) /\ DOMAIN q = 1 .. Len(q) BY SMT
<1> DEFINE c == p \o q
<1>3. \A i \in DOMAIN p : i \in DOMAIN c /\ c[i] = p[i] BY <1>1, <1>2, SMT
<1>4. \A i \in DOMAIN c : i \in DOMAIN p \/ (c[i] = q[i - Len(p)] /\ i - Len(p) \in DOMAIN q)
  <2> SUFFICES ASSUME NEW i \in DOMAIN c, i \notin DOMAIN p
               PROVE  c[i] = q[i - Len(p)] /\ i - Len(p) \in DOMAIN q
    OBVIOUS
  <2>1. i \in Nat /\ Len(p) < i /\ i <= Len(p) + Len(q) BY <1>1, <1>2, SMT
  <2> QED BY <1>2, <2>1, SMT
<1>5. \A i \in DOMAIN q : c[i + Len(p)] = q[i] /\ i + Len(p) \in DOMAIN c
  BY <1>1, <1>2, SMT
<1>6. /\ \A i \in DOMAIN c : (\E j \in DOMAIN p : c[i] = p[j])
                            \/ (\E j \in DOMAIN q : c[i] = q[j])
      /\ \A i \in DOMAIN p : \E j \in DOMAIN c : p[i] = c[j]
      /\ \A i \in DOMAIN q : \E j \in DOMAIN c : q[i] = c[j]
  <2> HIDE DEF c
  <2> QED BY <1>3, <1>4, <1>5
<1> HIDE DEF c
<1>7. Range(c) = Range(p) \cup Range(q)
  <2>1. \A x : x \in Range(q) <=> \E i \in DOMAIN q : x = q[i] BY InRange
  <2>2. \A x : x \in Range(p) <=> \E i \in DOMAIN p : x = p[i] BY InRange
  <2>3. \A x : x \in Range(c) <=> \E i \in DOMAIN c : x = c[i] BY InRange
  <2>4. ASSUME NEW x \in Range(c) PROVE x \in Range(p) \cup Range(q)
    <3>1. PICK i \in DOMAIN c : x = c[i] BY <2>3, <2>4
    <3>2. (\E j \in DOMAIN p : x = p[j]) \/ (\E j \in DOMAIN q : x = q[j]) BY <1>6, <3>1
    <3> QED BY <2>1, <2>2, <3>2
  <2>5. ASSUME NEW x \in Range(p) \cup Range(q) PROVE x \in Range(c)
    <3>1. (\E j \in DOMAIN p : x = p[j]) \/ (\E j \in DOMAIN q : x = q[j])
      BY <2>1, <2>2, <2>5
    <3>2. \E j \in DOMAIN c : x = c[j] BY <1>6, <3>1, SMT
    <3> QED BY <2>3, <3>2
  <2> QED BY <2>4, <2>5
<1> QED BY <1>1, <1>7 DEF c

\* The range of a typed list.
LEMMA RangeTyped ==
  ASSUME NEW T, NEW q \in Seq(T)
  PROVE  Range(q) \subseteq T /\ \A i \in 1 .. Len(q) : q[i] \in Range(q)
BY SMT DEF Range

\* The maximum that releaseBufferCallbackLocked takes of two numbers.
LEMMA MaxOfTwo ==
  ASSUME NEW m \in Int, NEW n \in Int
  PROVE  Max({m, n}) = IF m >= n THEN m ELSE n
BY SMT DEF Max


-----------------------------------------------------------------------------
(* The FIFO and the count of the buffers acquired.                          *)

\* The rest of a queue of consecutive frames.
LEMMA Consecutive ==
  ASSUME NEW last \in Nat, NEW p \in Seq(Nat), NEW q \in Seq(Nat), NEW n \in Nat,
         NEW l \in Nat, l = Len(p), NEW k \in Nat, k = Len(q), k = l - n,
         \A i \in 1 .. k : q[i] = p[i + n],
         \A i \in 1 .. l : p[i] = last - l + i
  PROVE  \A i \in 1 .. k : q[i] = last - k + i
<1> TAKE i \in 1 .. k
<1> DEFINE j == i + n
<1>1. j \in 1 .. l BY SMT
<1>2. q[i] = p[j] OBVIOUS
<1> HIDE DEF j
<1>3. p[j] = last - l + j BY <1>1
<1> QED BY <1>2, <1>3, SMT DEF j

\* Buffers at the head of the FIFO are skipped.
LEMMA FifoSkip ==
  ASSUME NEW q \in Seq(Nat), NEW a \in Nat, NEW last \in Nat, NEW late \in Nat,
         Fifo(q, a, last, late), NEW n \in 0 .. a,
         NEW p, p = SubSeq(q, n + 1, Len(q))
  PROVE  /\ p \in Seq(Nat) /\ a - n \in Nat /\ Fifo(p, a - n, last, late)
         /\ Before(q, last) \subseteq Before(p, last)
         /\ Range(p) \subseteq Range(q) /\ Len(p) <= Len(q)
<1>1. PICK l \in Nat : l = Len(q) BY SMT
<1>2. l <= last /\ a + late = l /\ \A i \in 1 .. l : q[i] = last - l + i
  BY <1>1 DEF Fifo
<1>3. n \in 0 .. l /\ n \in Nat BY <1>2, SMT
<1>4. n + 1 \in 1 .. l + 1 /\ l \in 0 .. l BY <1>3, SMT
<1>5. p \in Seq(Nat) /\ Range(p) \subseteq Range(q) BY <1>1, <1>4, RangeSub
<1>6. Len(p) = l - n /\ \A i \in 1 .. l - n : p[i] = q[i + n] BY <1>1, <1>3, SMT
<1>7. PICK k \in Nat : k = l - n BY <1>3, SMT
<1>8. \A i \in 1 .. k : p[i] = last - k + i
  BY <1>1, <1>2, <1>3, <1>5, <1>6, <1>7, Consecutive, SMT
<1>9. k <= last /\ k <= l /\ (a - n) + late = k /\ a - n \in Nat BY <1>2, <1>3, <1>7, SMT
<1>10. 1 .. (last - l) \subseteq 1 .. (last - k) BY <1>9, SMT
<1>11. Len(p) = k BY <1>6, <1>7
<1> QED BY <1>1, <1>5, <1>8, <1>9, <1>10, <1>11 DEF Fifo, Before

\* The head of the FIFO is the first frame that has not left it.
LEMMA FifoHead ==
  ASSUME NEW q \in Seq(Nat), NEW a \in Nat, NEW last \in Nat, NEW late \in Nat,
         Fifo(q, a, last, late), a > 0
  PROVE  /\ q # <<>> /\ Tail(q) \in Seq(Nat) /\ a - 1 \in Nat
         /\ Fifo(Tail(q), a - 1, last, late)
         /\ Head(q) \in Nat \ {0} /\ Head(q) \notin Before(q, last)
         /\ \A g \in Before(q, last) : g < Head(q)
         /\ Before(Tail(q), last) = Before(q, last) \cup {Head(q)}
         /\ Range(q) = {Head(q)} \cup Range(Tail(q))
         /\ Len(Tail(q)) <= Len(q)
<1> DEFINE f == Head(q)
           p == Tail(q)
<1>1. PICK l \in Nat : l = Len(q) BY SMT
<1>2. l <= last /\ a + late = l /\ \A i \in 1 .. l : q[i] = last - l + i
  BY <1>1 DEF Fifo
<1>3. l > 0 BY <1>2, SMT
<1>4. q # <<>> BY <1>1, <1>3, SMT
<1>5. p \in Seq(Nat) /\ f \in Nat /\ Range(q) = {f} \cup Range(p)
  BY <1>4, RangeTail
<1>6. f = q[1] BY <1>4, SMT
<1>7. f = last - l + 1 BY <1>2, <1>3, <1>6, SMT
<1>8. Len(p) = l - 1 /\ \A i \in 1 .. l - 1 : p[i] = q[i + 1] BY <1>1, <1>4, SMT
<1>9. PICK k \in Nat : k = l - 1 BY <1>3, SMT
<1> HIDE DEF f, p
<1>10. \A i \in 1 .. k : p[i] = last - k + i
  BY <1>1, <1>2, <1>5, <1>8, <1>9, Consecutive, SMT
<1>11. k <= last /\ k <= l /\ (a - 1) + late = k /\ a - 1 \in Nat BY <1>2, <1>3, <1>9, SMT
<1>12. /\ f # 0 /\ f \notin 1 .. (last - l) /\ \A g \in 1 .. (last - l) : g < f
       /\ 1 .. (last - k) = 1 .. (last - l) \cup {f}
  <2>1. l \in Nat /\ l <= last /\ f = last - l + 1 /\ k = l - 1 BY <1>2, <1>7, <1>9
  <2> QED BY <2>1, SMT
<1>13. Len(p) = k BY <1>8, <1>9
<1> QED
  BY <1>1, <1>4, <1>5, <1>10, <1>11, <1>12, <1>13 DEF Fifo, Before, f, p

\* A frame in the FIFO has not left it.
LEMMA FifoApart ==
  ASSUME NEW q \in Seq(Nat), NEW a \in Nat, NEW last \in Nat, NEW late \in Nat,
         Fifo(q, a, last, late)
  PROVE  Range(q) \cap Before(q, last) = {}
<1>1. PICK l \in Nat : l = Len(q) BY SMT
<1>2. \A i \in 1 .. l : q[i] \notin 1 .. (last - l) BY <1>1, SMT DEF Fifo
<1> QED BY <1>1, <1>2, SMT DEF Range, Before

\* Finitely many frames, none of them 0, have left the FIFO.
LEMMA BeforeFinite ==
  ASSUME NEW q \in Seq(Nat), NEW last \in Nat
  PROVE  IsFiniteSet(Before(q, last)) /\ Before(q, last) \subseteq Nat \ {0}
BY FS_Interval, SMT DEF Before

\* A buffer is acquired.
LEMMA CountAdd ==
  ASSUME NEW D, IsFiniteSet(D), NEW S, NEW n \in Nat, Counted(S, n, D),
         NEW f, f \notin D, n < mMaxAcquiredBuffers + 2
  PROVE  n + 1 \in Nat /\ Counted(S \cup {f}, n + 1, D \cup {f})
<1>1. IsFiniteSet(S) /\ f \notin S BY FS_Subset DEF Counted
<1>2. Cardinality(S \cup {f}) = Cardinality(S) + 1 BY <1>1, FS_AddElement
<1>3. n + 1 <= mMaxAcquiredBuffers + 2 BY BlastAssumption, SMT
<1> QED BY <1>2, <1>3, SMT DEF Counted

\* A buffer is released.
LEMMA CountRemove ==
  ASSUME NEW D, IsFiniteSet(D), NEW S, NEW n \in Nat, Counted(S, n, D), NEW f \in S
  PROVE  n - 1 \in Nat /\ Counted(S \ {f}, n - 1, D)
<1>1. IsFiniteSet(S) BY FS_Subset DEF Counted
<1>2. Cardinality(S \ {f}) = Cardinality(S) - 1 BY <1>1, FS_RemoveElement
<1>3. n # 0 BY <1>1, FS_EmptySet DEF Counted
<1>4. n - 1 \in Nat /\ n - 1 <= mMaxAcquiredBuffers + 2 BY <1>3, BlastAssumption, SMT DEF Counted
<1> QED BY <1>2, <1>4 DEF Counted

\* The count of the buffers acquired holds as more frames leave the FIFO.
LEMMA CountGrow ==
  ASSUME NEW S, NEW n, NEW D, NEW E, D \subseteq E, Counted(S, n, D)
  PROVE  Counted(S, n, E)
BY DEF Counted

-----------------------------------------------------------------------------
(* The transactions under way.                                              *)

\* The client's transactions are transactions.
LEMMA TransactionsTyped ==
  ASSUME NEW b \in BlastState, NEW out \in SUBSET Transaction
  PROVE  /\ Transactions(b, out) \in SUBSET Transaction
         /\ Filled(b) \in SUBSET Transaction
         /\ Range(b.sent) \in SUBSET Transaction
         /\ Range(b.mSyncTransaction) \in SUBSET Transaction
<1>1. b.sent \in Seq(Transaction) /\ b.mSyncTransaction \in Seq(Transaction)
  BY DEF BlastState
<1>2. Range(b.sent) \in SUBSET Transaction /\ Range(b.mSyncTransaction) \in SUBSET Transaction
  BY <1>1, RangeTyped
<1> QED BY <1>2 DEF Transactions, Filled

\* The fields of transactions.
LEMMA FramesTyped ==
  ASSUME NEW T \in SUBSET Transaction
  PROVE  \A t \in T : t.frame \in Nat /\ t.barrier \in Nat /\ t.token \in Tokens
BY DEF Transaction

\* A frame later than those of D; the layer and T have older ones.
NewFrame(f, D) == f \in Nat \ {0} /\ \A g \in D : g < f

Older(T, top, f) == top < f /\ \A t \in T : t.frame < f

\* A transaction for frame f.
Carries(t, token, f) == t \in Transaction /\ t.token = token /\ t.frame = f

\* A frame that was never acquired is newer than all that is in use.
LEMMA NewerThanUsed ==
  ASSUME NEW T \in SUBSET Transaction, NEW M, NEW top \in Nat, Used(T, M, top),
         NEW D, M \subseteq D, NEW f, NewFrame(f, D)
  PROVE  Older(T, top, f)
<1>1. f \in Nat \ {0} /\ \A g \in D : g < f BY DEF NewFrame
<1>2. top < f
  <2>1. top # 0 => top \in D BY DEF Used, InUse
  <2> QED BY <1>1, <2>1, SMT
<1>3. ASSUME NEW t \in T PROVE t.frame < f
  <2>1. PICK n \in Nat : n = t.frame BY FramesTyped
  <2>2. top < n BY <2>1 DEF Used
  <2>3. n # 0 BY <2>2, SMT
  <2>4. n \in D BY <2>1, <2>3 DEF Used, InUse
  <2> QED BY <1>1, <2>1, <2>4
<1> QED BY <1>2, <1>3 DEF Older

\* A transaction with a new frame.
LEMMA InUseAdd ==
  ASSUME NEW T, NEW top, NEW f, NEW t, NEW k, Carries(t, k, f)
  PROVE  InUse(T \cup {t}, top) \subseteq InUse(T, top) \cup {f}
<1>1. t.frame = f BY DEF Carries
<1>2. {u.frame : u \in T \cup {t}} = {u.frame : u \in T} \cup {f} BY <1>1
<1> QED BY <1>2 DEF InUse

\* A transaction with a new frame, whose buffer is acquired.
LEMMA UsedAdd ==
  ASSUME NEW T, NEW M, NEW top \in Nat, Used(T, M, top), NEW f,
         Older(T, top, f), NEW t, NEW k \in {OwnToken, SyncToken}, Carries(t, k, f)
  PROVE  Used(T \cup {t}, M \cup {f}, top)
<1>1. top < f /\ t.frame = f /\ t.token \in {OwnToken, SyncToken}
  BY DEF Older, Carries
<1>2. InUse(T \cup {t}, top) \subseteq InUse(T, top) \cup {f} BY InUseAdd
<1>3. \A u \in T \cup {t} : top < u.frame /\ u.token \in {OwnToken, SyncToken}
  BY <1>1 DEF Used
<1> QED BY <1>2, <1>3 DEF Used

\* While no frame is synced, one more goes out on the own token.
LEMMA BarredAddOwn ==
  ASSUME NEW T \in SUBSET Transaction, NEW M, NEW top, Used(T, M, top), NEW applied,
         Barred(T, {}, applied), NEW D, NEW f, NewFrame(f, D), Older(T, top, f),
         NEW t, Carries(t, OwnToken, f)
  PROVE  Barred(T \cup {t}, {}, f)
<1>1. \A u \in T : u.token = OwnToken BY DEF Used, Barred
<1>2. ASSUME NEW u \in T \cup {t} PROVE u.token = OwnToken /\ u.frame <= f
  <2>1. CASE u = t BY <2>1, SMT DEF Carries, NewFrame
  <2>2. CASE u \in T
    <3>1. PICK n \in Nat : n = u.frame BY <2>2, FramesTyped
    <3>2. n < f /\ f \in Nat BY <2>2, <3>1 DEF Older, NewFrame
    <3> QED BY <1>1, <2>2, <3>1, <3>2, SMT
  <2> QED BY <2>1, <2>2
<1>3. OwnToken # SyncToken BY BlastAssumption
<1> QED BY <1>1, <1>2, <1>3 DEF Barred

\* A list of transactions with one more.
LEMMA InOrderAppend ==
  ASSUME NEW q \in Seq(Transaction), InOrder(q), NEW t \in Transaction,
         \A u \in Range(q) : u.token = t.token => u.frame < t.frame
  PROVE  Append(q, t) \in Seq(Transaction) /\ InOrder(Append(q, t))
<1> DEFINE p == Append(q, t)
<1>1. PICK l \in Nat : l = Len(q) BY SMT
<1>2. /\ p \in Seq(Transaction) /\ Len(p) = l + 1 /\ p[l + 1] = t
      /\ \A i \in 1 .. l : p[i] = q[i]
  BY <1>1, SMT
<1> HIDE DEF p
<1>3. ASSUME NEW i \in 1 .. l + 1, NEW j \in 1 .. l + 1, i < j, p[i].token = p[j].token
      PROVE  p[i].frame < p[j].frame
  <2>1. i \in 1 .. l BY <1>3, SMT
  <2>2. CASE j = l + 1
    <3>1. q[i] \in Range(q) BY <1>1, <2>1, RangeTyped
    <3> QED BY <1>2, <1>3, <2>1, <2>2, <3>1
  <2>3. CASE j # l + 1
    <3>1. j \in 1 .. l BY <2>3, SMT
    <3>2. p[i] = q[i] /\ p[j] = q[j] BY <1>2, <2>1, <3>1
    <3> QED BY <1>1, <1>3, <2>1, <3>1, <3>2 DEF InOrder
  <2> QED BY <2>2, <2>3
<1>4. InOrder(p) BY <1>2, <1>3 DEF InOrder
<1> QED BY <1>2, <1>4 DEF p

\* The head of such a list comes before the rest.
LEMMA InOrderTail ==
  ASSUME NEW q \in Seq(Transaction), InOrder(q), q # <<>>
  PROVE  /\ Tail(q) \in Seq(Transaction) /\ InOrder(Tail(q))
         /\ \A u \in Range(Tail(q)) : u.token = Head(q).token => Head(q).frame < u.frame
<1> DEFINE p == Tail(q)
<1>1. PICK l \in Nat : l = Len(q) BY SMT
<1>2. /\ p \in Seq(Transaction) /\ Len(p) = l - 1 /\ l > 0 /\ Head(q) = q[1]
      /\ \A i \in 1 .. l - 1 : p[i] = q[i + 1]
  BY <1>1, SMT
<1> HIDE DEF p
<1>3. \A i \in 1 .. l - 1 : i + 1 \in 1 .. l /\ 1 < i + 1 BY <1>2, SMT
<1>4. \A i, j \in 1 .. l : i < j /\ q[i].token = q[j].token => q[i].frame < q[j].frame
  BY <1>1 DEF InOrder
<1>5. ASSUME NEW i \in 1 .. l - 1, NEW j \in 1 .. l - 1, i < j, p[i].token = p[j].token
      PROVE  p[i].frame < p[j].frame
  <2>1. i + 1 \in 1 .. l /\ j + 1 \in 1 .. l /\ i + 1 < j + 1 BY <1>2, <1>5, SMT
  <2> QED BY <1>2, <1>4, <1>5, <2>1
<1>6. InOrder(p) BY <1>2, <1>5 DEF InOrder
<1>7. ASSUME NEW i \in 1 .. l - 1, p[i].token = q[1].token PROVE q[1].frame < p[i].frame
  <2>1. 1 \in 1 .. l BY <1>2, SMT
  <2> QED BY <1>2, <1>3, <1>4, <1>7, <2>1
<1>8. ASSUME NEW u \in Range(p), u.token = q[1].token PROVE q[1].frame < u.frame
  <2>1. PICK i \in 1 .. l - 1 : u = p[i] BY <1>2, InRange, SMT
  <2> QED BY <1>7, <1>8, <2>1
<1> QED BY <1>2, <1>6, <1>8 DEF p

\* The new transaction is sent.
LEMMA SentAdd ==
  ASSUME NEW q \in Seq(Transaction), NEW filled, NEW out, Sent(q, filled, out),
         NEW T, Range(q) \subseteq T, out \subseteq T, NEW top, NEW f,
         Older(T, top, f), NEW t, Carries(t, OwnToken, f)
  PROVE  Append(q, t) \in Seq(Transaction) /\ Sent(Append(q, t), filled, out)
<1>1. /\ t \in Transaction /\ t.token = OwnToken /\ t.frame = f
      /\ \A u \in Range(q) \cup out : u.frame < t.frame
  BY DEF Carries, Older
<1>2. Append(q, t) \in Seq(Transaction) /\ InOrder(Append(q, t))
  BY <1>1, InOrderAppend DEF Sent
<1>3. Range(Append(q, t)) = Range(q) \cup {t} BY <1>1, RangeAppend, SMT
<1>4. Ahead(out, (Range(q) \cup {t}) \cup filled) BY <1>1 DEF Sent, Ahead
<1>5. \A u \in Range(q) \cup {t} : u.token = OwnToken BY <1>1 DEF Sent
<1> QED BY <1>2, <1>3, <1>4, <1>5 DEF Sent

-----------------------------------------------------------------------------
(* Acquiring.                                                               *)

\* Two states of the client with the same transactions.
LEMMA SameTransactions ==
  ASSUME NEW b, NEW c, c.sent = b.sent, c.mSyncTransaction = b.mSyncTransaction,
         NEW out
  PROVE  Filled(c) = Filled(b) /\ Transactions(c, out) = Transactions(b, out)
BY DEF Filled, Transactions

\* What the operators below keep of a client, while the frames of S may be
\* released: only frames of S are about to be, and the FIFO does not grow.
Safe(last, late, wanted, out, top, S, m) ==
    {b \in BlastState : /\ Client(b, last, late, wanted, out, top)
                        /\ S \subseteq Spare(b, last, out, top)
                        /\ Range(b.mPendingRelease) \subseteq S
                        /\ Len(b.queue) <= m}

\* The FIFO stays short as long as it does not grow.
LEMMA SafeLength ==
  ASSUME NEW last, NEW late, NEW wanted, NEW out, NEW top, NEW S, NEW m \in Nat,
         NEW b \in Safe(last, late, wanted, out, top, S, m), NEW c \in BlastState,
         Len(c.queue) <= Len(b.queue)
  PROVE  Len(c.queue) <= m
<1>1. b.queue \in Seq(Nat) /\ c.queue \in Seq(Nat) BY DEF Safe, BlastState
<1>2. PICK k \in Nat : k = Len(b.queue) BY <1>1, SMT
<1>3. PICK l \in Nat : l = Len(c.queue) BY <1>1, SMT
<1>4. l <= k /\ k <= m BY <1>2, <1>3 DEF Safe
<1> QED BY <1>3, <1>4, SMT

\* What skipping buffers leaves alone.
SameSync(b, c) ==
    /\ c.mNumAcquired = b.mNumAcquired
    /\ c.mSyncedFrameNumbers = b.mSyncedFrameNumbers
    /\ c.mTransactionReadyCallback = b.mTransactionReadyCallback
    /\ c.mAcquireSingleBuffer = b.mAcquireSingleBuffer
    /\ c.mSyncTransaction = b.mSyncTransaction

\* Buffers that rejectBuffer sends back leave the FIFO and nothing else.
Skip(b, n) == [b EXCEPT !.queue = SubSeq(@, n + 1, Len(@)),
                        !.mNumFrameAvailable = @ - n]

\* Skipping buffers at the head of the FIFO (rejectBuffer) is safe.
LEMMA SkipKeeps ==
  ASSUME NEW last \in Nat, NEW late \in Nat, NEW wanted, NEW out, NEW top, NEW S,
         NEW m \in Nat, NEW b \in Safe(last, late, wanted, out, top, S, m),
         NEW n \in 0 .. b.mNumFrameAvailable
  PROVE  /\ Skip(b, n) \in Safe(last, late, wanted, out, top, S, m)
         /\ SameSync(b, Skip(b, n))
<1> DEFINE c == Skip(b, n)
           q == SubSeq(b.queue, n + 1, Len(b.queue))
           k == b.mNumFrameAvailable - n
<1>1. /\ b \in BlastState /\ Client(b, last, late, wanted, out, top)
      /\ S \subseteq Spare(b, last, out, top)
      /\ Range(b.mPendingRelease) \subseteq S
  BY DEF Safe
<1>2. b.queue \in Seq(Nat) /\ b.mNumFrameAvailable \in Nat BY <1>1 DEF BlastState
<1>3. Fifo(b.queue, b.mNumFrameAvailable, last, late) BY <1>1 DEF Client
<1>4. c = [b EXCEPT !.queue = q, !.mNumFrameAvailable = k] BY DEF Skip
<1>5. /\ q \in Seq(Nat) /\ k \in Nat /\ Fifo(q, k, last, late)
      /\ Before(b.queue, last) \subseteq Before(q, last)
      /\ Range(q) \subseteq Range(b.queue) /\ Len(q) <= Len(b.queue)
  BY <1>2, <1>3, FifoSkip
<1> HIDE DEF q, k, c
<1>6. c \in BlastState BY <1>1, <1>4, <1>5 DEF BlastState
<1>7. /\ c.queue = q /\ c.mNumFrameAvailable = k
      /\ c.mNumAcquired = b.mNumAcquired /\ c.mSubmitted = b.mSubmitted
      /\ c.mPendingRelease = b.mPendingRelease
      /\ c.mSyncedFrameNumbers = b.mSyncedFrameNumbers
      /\ c.mLastAppliedFrameNumber = b.mLastAppliedFrameNumber
      /\ c.mTransactionReadyCallback = b.mTransactionReadyCallback
      /\ c.mAcquireSingleBuffer = b.mAcquireSingleBuffer
      /\ c.sent = b.sent /\ c.mSyncTransaction = b.mSyncTransaction
  BY <1>1, <1>4 DEF BlastState
<1>8. Counted(c.mSubmitted, c.mNumAcquired, Before(q, last))
  BY <1>1, <1>5, <1>7 DEF Client, Counted
<1>9. Synced(c.mSyncedFrameNumbers, c.mSubmitted, wanted, Range(q))
  BY <1>1, <1>5, <1>7 DEF Client, Synced
<1>10. Filled(c) = Filled(b) /\ Transactions(c, out) = Transactions(b, out)
  BY <1>7, SameTransactions
<1>11. S \subseteq Spare(c, last, out, top) BY <1>1, <1>5, <1>7, <1>10 DEF Spare
<1>12. Client(c, last, late, wanted, out, top)
  BY <1>1, <1>5, <1>6, <1>7, <1>8, <1>9, <1>10 DEF Client
<1>13. Len(c.queue) <= m BY <1>5, <1>6, <1>7, SafeLength
<1>14. c \in Safe(last, late, wanted, out, top, S, m)
  BY <1>1, <1>6, <1>7, <1>11, <1>12, <1>13 DEF Safe
<1> QED BY <1>7, <1>14 DEF SameSync, c

\* What acquiring the head f of the FIFO does, but for the transaction.
HeadAcquired(b, c, f, last, late) ==
    /\ c \in BlastState /\ b \in BlastState
    /\ Fifo(c.queue, c.mNumFrameAvailable, last, late)
    /\ Counted(c.mSubmitted, c.mNumAcquired, Before(c.queue, last))
    /\ Len(c.queue) <= Len(b.queue)
    /\ f \notin Before(b.queue, last) /\ NewFrame(f, Before(b.queue, last))
    /\ Before(c.queue, last) = Before(b.queue, last) \cup {f}
    /\ Range(b.queue) = {f} \cup Range(c.queue)
    /\ c.mSubmitted = b.mSubmitted \cup {f}
    /\ c.mPendingRelease = b.mPendingRelease
    /\ c.mSyncedFrameNumbers = b.mSyncedFrameNumbers
    /\ c.mLastAppliedFrameNumber = b.mLastAppliedFrameNumber
    /\ c.mTransactionReadyCallback = b.mTransactionReadyCallback
    /\ c.mAcquireSingleBuffer = b.mAcquireSingleBuffer
    /\ c.sent = b.sent /\ c.mSyncTransaction = b.mSyncTransaction

\* AcquireHead does that when a frame is available and the limit not reached.
LEMMA AcquireHeadEffect ==
  ASSUME NEW b, NEW last \in Nat, NEW late \in Nat, NEW wanted, NEW out, NEW top,
         Client(b, last, late, wanted, out, top),
         b.mNumFrameAvailable > 0, b.mNumAcquired < mMaxAcquiredBuffers + 2
  PROVE  HeadAcquired(b, AcquireHead(b), Head(b.queue), last, late)
<1> DEFINE c == AcquireHead(b)
           f == Head(b.queue)
           q == Tail(b.queue)
           m == b.mNumFrameAvailable - 1
           n == b.mNumAcquired + 1
<1>1. /\ b \in BlastState /\ Fifo(b.queue, b.mNumFrameAvailable, last, late)
      /\ Counted(b.mSubmitted, b.mNumAcquired, Before(b.queue, last))
  BY DEF Client
<1>2. /\ b.queue \in Seq(Nat) /\ b.mNumFrameAvailable \in Nat /\ b.mNumAcquired \in Nat
      /\ b.mSubmitted \in SUBSET Nat /\ b.mReleaseBufferCallbacks \in SUBSET Nat
      /\ b.pendingCallbacks \in Nat
  BY <1>1 DEF BlastState
<1>3. /\ q \in Seq(Nat) /\ m \in Nat /\ Fifo(q, m, last, late)
      /\ f \in Nat \ {0} /\ f \notin Before(b.queue, last)
      /\ \A g \in Before(b.queue, last) : g < f
      /\ Before(q, last) = Before(b.queue, last) \cup {f}
      /\ Range(b.queue) = {f} \cup Range(q)
      /\ Len(q) <= Len(b.queue)
  <2> DEFINE p == b.queue
             k == b.mNumFrameAvailable
  <2>1. p \in Seq(Nat) /\ k \in Nat /\ k > 0 /\ Fifo(p, k, last, late) BY <1>1, <1>2
  <2> HIDE DEF p, k
  <2> QED BY <2>1, FifoHead DEF p, k
<1>4. IsFiniteSet(Before(b.queue, last)) BY <1>2, BeforeFinite
<1>5. n \in Nat /\ Counted(b.mSubmitted \cup {f}, n, Before(q, last))
  <2> DEFINE D == Before(b.queue, last)
             k == b.mNumAcquired
  <2>1. IsFiniteSet(D) /\ k \in Nat /\ Counted(b.mSubmitted, k, D) /\ f \notin D
        /\ k < mMaxAcquiredBuffers + 2
    BY <1>1, <1>2, <1>3, <1>4
  <2>2. n = k + 1 /\ Before(q, last) = D \cup {f} BY <1>3
  <2> HIDE DEF D, k, n, q, f
  <2>3. k + 1 \in Nat /\ Counted(b.mSubmitted \cup {f}, k + 1, D \cup {f}) BY <2>1, CountAdd
  <2> QED BY <2>2, <2>3
<1>6. b.pendingCallbacks + 1 \in Nat /\ b.mSubmitted \cup {f} \in SUBSET Nat
      /\ b.mReleaseBufferCallbacks \cup {f} \in SUBSET Nat
  <2>1. b.pendingCallbacks + 1 \in Nat BY <1>2, SMT
  <2> QED BY <1>2, <1>3, <2>1
<1>7. c = [b EXCEPT !.queue = q, !.mNumFrameAvailable = m, !.mNumAcquired = n,
                    !.mSubmitted = b.mSubmitted \cup {f},
                    !.mReleaseBufferCallbacks = b.mReleaseBufferCallbacks \cup {f},
                    !.pendingCallbacks = b.pendingCallbacks + 1]
  BY DEF AcquireHead
<1> HIDE DEF q, m, n, c, f
<1>8. c \in BlastState BY <1>1, <1>2, <1>3, <1>5, <1>6, <1>7 DEF BlastState
<1>9. /\ c.queue = q /\ c.mNumFrameAvailable = m /\ c.mNumAcquired = n
      /\ c.mSubmitted = b.mSubmitted \cup {f}
      /\ c.mPendingRelease = b.mPendingRelease
      /\ c.mSyncedFrameNumbers = b.mSyncedFrameNumbers
      /\ c.mLastAppliedFrameNumber = b.mLastAppliedFrameNumber
      /\ c.mTransactionReadyCallback = b.mTransactionReadyCallback
      /\ c.mAcquireSingleBuffer = b.mAcquireSingleBuffer
      /\ c.sent = b.sent /\ c.mSyncTransaction = b.mSyncTransaction
  BY <1>1, <1>7 DEF BlastState
<1> QED BY <1>1, <1>3, <1>5, <1>8, <1>9 DEF HeadAcquired, NewFrame, c, f

\* A frame acquired while nothing is synced goes out on the own token: it is
\* newer than all frames under way, and no sync transaction is among them.
LEMMA OwnKeeps ==
  ASSUME NEW last \in Nat, NEW late \in Nat, NEW wanted,
         NEW out \in SUBSET Transaction, NEW top \in Nat, NEW S, NEW m \in Nat,
         NEW b \in Safe(last, late, wanted, out, top, S, m),
         b.mSyncedFrameNumbers = {}, b.mNumFrameAvailable > 0,
         b.mNumAcquired < mMaxAcquiredBuffers + 2
  PROVE  LET c == ApplyOwn(AcquireHead(b), Head(b.queue))
         IN /\ c \in Safe(last, late, wanted, out, top, S, m)
            /\ c.mSyncedFrameNumbers = {}
<1> DEFINE c == ApplyOwn(AcquireHead(b), Head(b.queue))
           f == Head(b.queue)
           a == AcquireHead(b)
           t == [token |-> OwnToken, frame |-> f, barrier |-> 0,
                 callbacks |-> 1, commits |-> 0]
           T == Transactions(b, out)
<1>1. /\ Client(b, last, late, wanted, out, top) /\ S \subseteq Spare(b, last, out, top)
      /\ Range(b.mPendingRelease) \subseteq S
  BY DEF Safe
<1>2. HeadAcquired(b, a, f, last, late) BY <1>1, AcquireHeadEffect
<1>3. c = [a EXCEPT !.sent = Append(a.sent, t), !.mLastAppliedFrameNumber = f]
  BY DEF ApplyOwn
<1>4. Carries(t, OwnToken, f)
  <2>1. OwnToken \in Tokens /\ 0 \in Nat /\ 1 \in Nat BY FrameDeliveryAssumption
  <2>2. f \in Nat BY <1>2 DEF HeadAcquired, NewFrame
  <2> HIDE DEF f
  <2> QED BY <2>1, <2>2 DEF Carries, Transaction
<1> HIDE DEF f, a, t, T, c
<1>5. /\ a \in BlastState /\ b \in BlastState /\ NewFrame(f, Before(b.queue, last))
      /\ a.sent = b.sent
  BY <1>2 DEF HeadAcquired
<1>6. a.sent \in Seq(Transaction) BY <1>5 DEF BlastState
<1>7. /\ T \in SUBSET Transaction /\ Used(T, b.mSubmitted, top)
      /\ Barred(T, {}, b.mLastAppliedFrameNumber) /\ Sent(a.sent, Filled(b), out)
      /\ Synced({}, b.mSubmitted, wanted, Range(b.queue))
  BY <1>1, <1>5, TransactionsTyped DEF Client, T
<1>8. Older(T, top, f)
  <2>1. b.mSubmitted \subseteq Before(b.queue, last) BY <1>1 DEF Client, Counted
  <2> QED BY <1>5, <1>7, <2>1, NewerThanUsed
<1>9. Used(T \cup {t}, b.mSubmitted \cup {f}, top)
  BY <1>4, <1>7, <1>8, UsedAdd
<1>23. InUse(T \cup {t}, top) \subseteq InUse(T, top) \cup {f}
  BY <1>4, InUseAdd
<1>10. Barred(T \cup {t}, {}, f) BY <1>4, <1>5, <1>7, <1>8, BarredAddOwn
<1>11. Append(a.sent, t) \in Seq(Transaction) /\ Sent(Append(a.sent, t), Filled(b), out)
  <2>1. Range(a.sent) \subseteq T /\ out \subseteq T BY <1>5 DEF T, Transactions
  <2> QED BY <1>4, <1>6, <1>7, <1>8, <2>1, SentAdd
<1>12. Range(Append(a.sent, t)) = Range(b.sent) \cup {t}
  BY <1>4, <1>5, <1>6, RangeAppend, SMT DEF Carries
<1>13. c \in BlastState BY <1>3, <1>5, <1>11 DEF BlastState, NewFrame
<1>14. /\ c.sent = Append(a.sent, t) /\ c.mLastAppliedFrameNumber = f
       /\ c.queue = a.queue /\ c.mNumFrameAvailable = a.mNumFrameAvailable
       /\ c.mNumAcquired = a.mNumAcquired /\ c.mSubmitted = a.mSubmitted
       /\ c.mPendingRelease = a.mPendingRelease
       /\ c.mSyncedFrameNumbers = a.mSyncedFrameNumbers
       /\ c.mTransactionReadyCallback = a.mTransactionReadyCallback
       /\ c.mSyncTransaction = a.mSyncTransaction
  BY <1>3, <1>5 DEF BlastState
<1>15. Filled(c) = Filled(b) BY <1>2, <1>14 DEF Filled, HeadAcquired
<1>16. Transactions(c, out) = T \cup {t}
  BY <1>12, <1>14, <1>15 DEF T, Transactions
<1>17. Synced({}, c.mSubmitted, wanted, Range(c.queue))
  BY <1>2, <1>7, <1>14 DEF Synced, HeadAcquired
<1>18. Syncing(c.mSyncTransaction, c.mTransactionReadyCallback)
  BY <1>1, <1>2, <1>14 DEF Client, HeadAcquired
<1>19. S \subseteq Spare(c, last, out, top)
  BY <1>1, <1>2, <1>14, <1>16, <1>23 DEF Spare, T, HeadAcquired
<1>20. Client(c, last, late, wanted, out, top)
  BY <1>2, <1>9, <1>10, <1>11, <1>13, <1>14, <1>15, <1>16, <1>17, <1>18
     DEF Client, HeadAcquired
<1>21. Len(c.queue) <= m
  <2>1. Len(c.queue) <= Len(b.queue) BY <1>2, <1>14 DEF HeadAcquired
  <2> QED BY <1>13, <2>1, SafeLength
<1>22. c \in Safe(last, late, wanted, out, top, S, m) /\ c.mSyncedFrameNumbers = {}
  BY <1>1, <1>2, <1>13, <1>14, <1>19, <1>20, <1>21 DEF Safe, HeadAcquired
<1> QED BY <1>22 DEF c

\* No more buffers are rejected than are available.
LEMMA RejectedInRange ==
  ASSUME NEW b, b.mNumFrameAvailable \in Nat
  PROVE  Rejected(b) \in 0 .. b.mNumFrameAvailable
<1> DEFINE T == {n \in 0 .. b.mNumFrameAvailable :
                   n = b.mNumFrameAvailable \/ b.queue[n + 1] \notin OddSized}
<1>1. T \in SUBSET Nat /\ b.mNumFrameAvailable \in T BY SMT
<1>2. T \subseteq 0 .. b.mNumFrameAvailable OBVIOUS
<1>3. Rejected(b) = Min(T) BY DEF Rejected
<1> HIDE DEF T
<1>4. \E n \in T : \A m \in T : n <= m BY <1>1, LeastNat
<1>5. Min(T) \in T BY <1>4 DEF Min
<1> QED BY <1>2, <1>3, <1>5

\* acquireNextBufferLocked takes nothing, or only frames that are rejected,
\* or those and then the head of the queue.
LEMMA AcquireNextCases ==
  ASSUME NEW b \in BlastState, NEW sync
  PROVE  LET next == acquireNextBufferLocked(b, sync)
             kept == Skip(b, Rejected(b))
         IN \/ next.b = b /\ next.status = "NO_BUFFER_AVAILABLE"
            \/ next.b = kept /\ next.status = "NO_BUFFER_AVAILABLE"
            \/ /\ kept.mNumFrameAvailable # 0
               /\ ~(b.mNumAcquired >= mMaxAcquiredBuffers + 2)
               /\ IF ~sync
                  THEN /\ next.b = ApplyOwn(AcquireHead(kept), Head(kept.queue))
                       /\ next.status = "OK"
                  ELSE IF b.mSyncTransaction = <<>>
                  THEN next.b = AcquireHead(kept) /\ next.status = "NULL_TRANSACTION"
                  ELSE /\ next.b = FillSync(AcquireHead(kept), Head(kept.queue))
                       /\ next.status = "OK"
BY DEF acquireNextBufferLocked, Skip

\* acquireNextBufferLocked without a transaction, while nothing is synced.
LEMMA AcquireNextKeeps ==
  ASSUME NEW last \in Nat, NEW late \in Nat, NEW wanted,
         NEW out \in SUBSET Transaction, NEW top \in Nat, NEW S, NEW m \in Nat,
         NEW b \in Safe(last, late, wanted, out, top, S, m),
         b.mSyncedFrameNumbers = {}
  PROVE  /\ AcquireNext(b) \in Safe(last, late, wanted, out, top, S, m)
         /\ AcquireNext(b).mSyncedFrameNumbers = {}
<1> DEFINE n    == Rejected(b)
           kept == Skip(b, n)
           c    == AcquireNext(b)
<1> HIDE DEF n, kept, c
<1>1. /\ b \in BlastState /\ Client(b, last, late, wanted, out, top)
      /\ S \subseteq Spare(b, last, out, top)
  BY DEF Safe
<1>2. n \in 0 .. b.mNumFrameAvailable
  <2>1. b.mNumFrameAvailable \in Nat BY <1>1 DEF BlastState
  <2> QED BY <2>1, RejectedInRange DEF n
<1>3. \/ c = b
      \/ c = kept
      \/ /\ kept.mNumFrameAvailable # 0
         /\ ~(b.mNumAcquired >= mMaxAcquiredBuffers + 2)
         /\ c = ApplyOwn(AcquireHead(kept), Head(kept.queue))
  BY <1>1, AcquireNextCases DEF AcquireNext, kept, n, c
<1>4. kept \in Safe(last, late, wanted, out, top, S, m) /\ SameSync(b, kept)
  BY <1>2, SkipKeeps DEF kept
<1>5. kept.mSyncedFrameNumbers = {} /\ kept.mNumAcquired = b.mNumAcquired
  BY <1>4 DEF SameSync
<1>6. CASE c = b BY <1>6 DEF c
<1>7. CASE c = kept BY <1>4, <1>5, <1>7 DEF c
<1>8. CASE /\ kept.mNumFrameAvailable # 0
           /\ ~(b.mNumAcquired >= mMaxAcquiredBuffers + 2)
           /\ c = ApplyOwn(AcquireHead(kept), Head(kept.queue))
  <2>1. kept.mNumFrameAvailable > 0 /\ kept.mNumAcquired < mMaxAcquiredBuffers + 2
    <3>1. kept.mNumFrameAvailable \in Nat /\ b.mNumAcquired \in Nat
      BY <1>4 DEF Safe, BlastState
    <3>2. PICK k \in Nat : k = kept.mNumFrameAvailable BY <3>1
    <3>3. PICK l \in Nat : l = b.mNumAcquired BY <3>1
    <3>4. k > 0 /\ l < mMaxAcquiredBuffers + 2 BY <1>8, <3>2, <3>3, BlastAssumption, SMT
    <3> QED BY <1>5, <3>2, <3>3, <3>4
  <2> DEFINE d == ApplyOwn(AcquireHead(kept), Head(kept.queue))
  <2>2. /\ d \in Safe(last, late, wanted, out, top, S, m)
        /\ d.mSyncedFrameNumbers = {}
    BY <1>4, <1>5, <2>1, OwnKeeps
  <2> QED BY <1>8, <2>2 DEF c
<1> QED BY <1>3, <1>6, <1>7, <1>8

-----------------------------------------------------------------------------
(* Releasing.                                                               *)

\* What releasing a frame that is not in use does to the transactions.
LEMMA UsedRemove ==
  ASSUME NEW T \in SUBSET Transaction, NEW M, NEW top, Used(T, M, top), NEW synced,
         NEW applied, Barred(T, synced, applied), NEW f \in Nat \ {0},
         f \notin InUse(T, top)
  PROVE  Used(T, M \ {f}, top) /\ Barred(T, synced \ {f}, applied)
<1>1. \A t \in T : t.frame # f BY DEF InUse
<1> QED BY <1>1 DEF Used, Barred

\* A spare buffer goes back to the producer.
Released(b, c) ==
    /\ c.queue = b.queue /\ c.mNumFrameAvailable = b.mNumFrameAvailable
    /\ c.mTransactionReadyCallback = b.mTransactionReadyCallback
    /\ c.mAcquireSingleBuffer = b.mAcquireSingleBuffer
    /\ c.mSyncTransaction = b.mSyncTransaction

\* releaseBuffer of a frame that may be released is safe.
LEMMA ReleaseKeeps ==
  ASSUME NEW last \in Nat, NEW late \in Nat, NEW wanted,
         NEW out \in SUBSET Transaction, NEW top \in Nat, NEW S, NEW m,
         NEW b \in Safe(last, late, wanted, out, top, S, m), NEW f \in S
  PROVE  /\ releaseBuffer(b, f) \in Safe(last, late, wanted, out, top, S, m)
         /\ Released(b, releaseBuffer(b, f))
<1> DEFINE c == releaseBuffer(b, f)
<1>0. /\ Client(b, last, late, wanted, out, top)
      /\ S \subseteq Spare(b, last, out, top) /\ f \in Spare(b, last, out, top)
      /\ Range(b.mPendingRelease) \subseteq S /\ Len(b.queue) <= m
  BY DEF Safe
<1>1. CASE f \notin b.mSubmitted BY <1>1 DEF releaseBuffer, Released
<1>2. CASE f \in b.mSubmitted
  <2> DEFINE D == Before(b.queue, last)
             M == b.mSubmitted
             n == b.mNumAcquired - 1
             T == Transactions(b, out)
  <2>1. /\ b \in BlastState /\ b.queue \in Seq(Nat) /\ b.mNumFrameAvailable \in Nat
        /\ b.mNumAcquired \in Nat /\ M \in SUBSET Nat
        /\ b.mSyncedFrameNumbers \in SUBSET Nat
    BY <1>0 DEF Client, BlastState
  <2>2. IsFiniteSet(D) /\ D \subseteq Nat \ {0} BY <2>1, BeforeFinite
  <2>3. f \in D /\ f \notin InUse(T, top) BY <1>0 DEF Spare
  <2>4. Counted(M, b.mNumAcquired, D) BY <1>0 DEF Client
  <2>5. n \in Nat /\ Counted(M \ {f}, n, D)
    <3> DEFINE k == b.mNumAcquired
    <3>1. k \in Nat /\ Counted(M, k, D) /\ f \in M BY <1>2, <2>1, <2>4
    <3> HIDE DEF k, D, M
    <3>2. k - 1 \in Nat /\ Counted(M \ {f}, k - 1, D) BY <2>2, <3>1, CountRemove
    <3> QED BY <3>2 DEF k
  <2>6. c = [b EXCEPT !.mNumAcquired = n, !.mSubmitted = M \ {f},
                      !.mSyncedFrameNumbers = b.mSyncedFrameNumbers \ {f}]
    BY <1>2 DEF releaseBuffer
  <2>7. M \ {f} \in SUBSET Nat /\ b.mSyncedFrameNumbers \ {f} \in SUBSET Nat BY <2>1
  <2> HIDE DEF n, M, D, T, c
  <2>8. c \in BlastState BY <2>1, <2>5, <2>6, <2>7 DEF BlastState
  <2>9. /\ c.mNumAcquired = n /\ c.mSubmitted = M \ {f}
        /\ c.mSyncedFrameNumbers = b.mSyncedFrameNumbers \ {f}
        /\ c.queue = b.queue /\ c.mNumFrameAvailable = b.mNumFrameAvailable
        /\ c.mPendingRelease = b.mPendingRelease
        /\ c.mLastAppliedFrameNumber = b.mLastAppliedFrameNumber
        /\ c.mTransactionReadyCallback = b.mTransactionReadyCallback
        /\ c.mAcquireSingleBuffer = b.mAcquireSingleBuffer
        /\ c.sent = b.sent /\ c.mSyncTransaction = b.mSyncTransaction
    BY <2>1, <2>6 DEF BlastState
  <2>10. Filled(c) = Filled(b) /\ Transactions(c, out) = T
    BY <2>9, SameTransactions DEF T
  <2>11. Synced(c.mSyncedFrameNumbers, c.mSubmitted, wanted, Range(c.queue))
    <3>1. Range(b.queue) \cap D = {} BY <1>0, <2>1, FifoApart DEF Client, D
    <3> QED BY <1>0, <2>3, <2>9, <3>1 DEF Client, Synced, M
  <2>12. /\ Used(T, M \ {f}, top)
         /\ Barred(T, b.mSyncedFrameNumbers \ {f}, b.mLastAppliedFrameNumber)
    <3>1. T \in SUBSET Transaction BY <2>1, TransactionsTyped DEF T
    <3>2. Used(T, M, top) /\ Barred(T, b.mSyncedFrameNumbers, b.mLastAppliedFrameNumber)
      BY <1>0, SMT DEF Client, M, T
    <3>3. f \in Nat \ {0} BY <2>2, <2>3
    <3> QED BY <2>3, <3>1, <3>2, <3>3, UsedRemove
  <2>13. S \subseteq Spare(c, last, out, top) BY <1>0, <2>9, <2>10 DEF Spare, T
  <2>14. Client(c, last, late, wanted, out, top)
    BY <1>0, <2>5, <2>8, <2>9, <2>10, <2>11, <2>12 DEF Client, D
  <2>15. c \in Safe(last, late, wanted, out, top, S, m)
    BY <1>0, <2>8, <2>9, <2>13, <2>14 DEF Safe
  <2> QED BY <2>9, <2>15 DEF Released, c
<1> QED BY <1>1, <1>2

-----------------------------------------------------------------------------
(* The callbacks.                                                           *)

\* A list of elements of S with one more.
LEMMA AppendWithin ==
  ASSUME NEW T, NEW q \in Seq(T), NEW t \in T, NEW S, Range(q) \subseteq S, t \in S
  PROVE  Append(q, t) \in Seq(T) /\ Range(Append(q, t)) \subseteq S
<1>1. Append(q, t) \in Seq(T) BY SMT
<1>2. Range(Append(q, t)) = Range(q) \cup {t} BY RangeAppend, SMT
<1> QED BY <1>1, <1>2

\* One turn of the loop of releaseBufferCallbackLocked.
LEMMA ReleaseAndAcquireKeeps ==
  ASSUME NEW last \in Nat, NEW late \in Nat, NEW wanted,
         NEW out \in SUBSET Transaction, NEW top \in Nat, NEW S, NEW m \in Nat,
         NEW b \in Safe(last, late, wanted, out, top, S, m), NEW f \in S
  PROVE  ReleaseAndAcquire(b, f) \in Safe(last, late, wanted, out, top, S, m)
<1> DEFINE r == releaseBuffer(b, f)
           c == AcquireNext(r)
<1>1. /\ ReleaseAndAcquire(b, f) = IF r.mSyncedFrameNumbers = {} THEN c ELSE r
      /\ r = releaseBuffer(b, f)
  BY DEF ReleaseAndAcquire
<1> HIDE DEF r, c
<1>4. r \in Safe(last, late, wanted, out, top, S, m) BY ReleaseKeeps DEF r
<1>5. ASSUME r.mSyncedFrameNumbers = {}
      PROVE  c \in Safe(last, late, wanted, out, top, S, m)
  BY <1>4, <1>5, AcquireNextKeeps DEF c
<1> QED BY <1>1, <1>4, <1>5

\* The loop of releaseBufferCallbackLocked.
LEMMA ReleaseLoopKeeps ==
  ASSUME NEW last \in Nat, NEW late \in Nat, NEW wanted,
         NEW out \in SUBSET Transaction, NEW top \in Nat, NEW S, NEW m \in Nat,
         NEW b \in Safe(last, late, wanted, out, top, S, m), NEW q \in Seq(S)
  PROVE  Fold(ReleaseAndAcquire, b, q) \in Safe(last, late, wanted, out, top, S, m)
<1> DEFINE X == Safe(last, late, wanted, out, top, S, m)
           F == [p \in X \X S |-> ReleaseAndAcquire(p[1], p[2])]
           Body(g) == [n \in 0 .. Len(q) |->
                         IF n = 0 THEN b ELSE ReleaseAndAcquire(g[n - 1], q[n])]
           after == CHOOSE g : g = Body(g)
<1>1. Fold(ReleaseAndAcquire, b, q) = after[Len(q)] BY DEF Fold
<1>2. \A a \in X, f \in S : ReleaseAndAcquire(a, f) \in X BY ReleaseAndAcquireKeeps
<1> HIDE DEF X
<1>3. /\ F \in [X \X S -> X] /\ b \in X
      /\ \A a \in X, f \in S : F[<<a, f>>] = ReleaseAndAcquire(a, f)
  BY <1>2, SMT DEF X
<1> HIDE DEF F
<1>4. PICK g : Turns(g, F, X, S, b, q) BY <1>3, LoopExists
<1>5. g = Body(g)
  <2>1. \A n \in 1 .. Len(q) : g[n] = ReleaseAndAcquire(g[n - 1], q[n])
    BY <1>3, <1>4 DEF Turns
  <2>2. g \in [0 .. Len(q) -> X] /\ g[0] = b BY <1>4 DEF Turns
  <2> QED BY <2>1, <2>2, SMT
<1>6. after = Body(after) BY <1>5
<1> HIDE DEF after
<1>7. \A n \in 1 .. Len(q) : after[n] = ReleaseAndAcquire(after[n - 1], q[n]) /\ q[n] \in S
  BY <1>6, SMTT(30)
<1>8. after[0] \in X BY <1>3, <1>6, SMT
<1>9. \A n \in 1 .. Len(q) : after[n - 1] \in X => after[n] \in X BY <1>2, <1>7
<1> QED BY <1>1, <1>8, <1>9, LoopStays DEF X

\* What Client looks at is the same.
SameView(b, c) ==
    /\ c \in BlastState
    /\ c.queue = b.queue /\ c.mNumFrameAvailable = b.mNumFrameAvailable
    /\ c.mNumAcquired = b.mNumAcquired /\ c.mSubmitted = b.mSubmitted
    /\ c.mSyncedFrameNumbers = b.mSyncedFrameNumbers
    /\ c.mLastAppliedFrameNumber = b.mLastAppliedFrameNumber
    /\ c.mTransactionReadyCallback = b.mTransactionReadyCallback
    /\ c.sent = b.sent /\ c.mSyncTransaction = b.mSyncTransaction

\* A client that looks the same is as safe.
LEMMA SameSafe ==
  ASSUME NEW last, NEW late, NEW wanted, NEW out, NEW top, NEW S, NEW m,
         NEW b \in Safe(last, late, wanted, out, top, S, m), NEW c, SameView(b, c),
         Range(c.mPendingRelease) \subseteq S
  PROVE  c \in Safe(last, late, wanted, out, top, S, m)
<1>1. /\ Client(b, last, late, wanted, out, top) /\ S \subseteq Spare(b, last, out, top)
      /\ Len(b.queue) <= m
  BY DEF Safe
<1>2. Filled(c) = Filled(b) /\ Transactions(c, out) = Transactions(b, out)
  BY SameTransactions DEF SameView
<1>3. Client(c, last, late, wanted, out, top) BY <1>1, <1>2 DEF Client, SameView
<1>4. S \subseteq Spare(c, last, out, top) /\ Len(c.queue) <= m
  BY <1>1, <1>2 DEF Spare, SameView
<1> QED BY <1>3, <1>4 DEF Safe, SameView

\* releaseBufferCallbackLocked for a buffer that may be released.
LEMMA ReleaseLockedKeeps ==
  ASSUME NEW last \in Nat, NEW late \in Nat, NEW wanted,
         NEW out \in SUBSET Transaction, NEW top \in Nat, NEW S, NEW m \in Nat,
         NEW b \in Safe(last, late, wanted, out, top, S, m), NEW f \in S,
         NEW max \in Nat
  PROVE  releaseBufferCallbackLocked(b, f, max) \in Safe(last, late, wanted, out, top, S, m)
<1> DEFINE current == IF max = 0 THEN b.mCurrentMaxAcquiredBufferCount ELSE max
           hold    == IF f \in b.mSubmitted
                      THEN Max({0, mMaxAcquiredBuffers - current}) ELSE 0
           pending == IF f \in Range(b.mPendingRelease) THEN b.mPendingRelease
                      ELSE Append(b.mPendingRelease, f)
           over    == Max({0, Len(pending) - hold})
           q       == SubSeq(pending, 1, over)
           rest    == SubSeq(pending, over + 1, Len(pending))
           c       == [b EXCEPT !.mCurrentMaxAcquiredBufferCount = current,
                                !.mPendingRelease = rest]
<1>1. releaseBufferCallbackLocked(b, f, max)
         = Fold(ReleaseAndAcquire, c, q)
  BY DEF releaseBufferCallbackLocked
<1>2. /\ b \in BlastState /\ S \subseteq Before(b.queue, last)
      /\ Range(b.mPendingRelease) \subseteq S
  BY DEF Safe, Spare
<1>3. /\ b.mPendingRelease \in Seq(Nat) /\ b.mCurrentMaxAcquiredBufferCount \in Nat
      /\ b.queue \in Seq(Nat)
  BY <1>2 DEF BlastState
<1>4. current \in Nat /\ mMaxAcquiredBuffers \in Nat BY <1>3, BlastAssumption
<1>5. f \in Nat BY <1>2, <1>3, BeforeFinite
<1>6. pending \in Seq(Nat) /\ Range(pending) \subseteq S
  <2>1. CASE f \in Range(b.mPendingRelease) BY <1>2, <1>3, <2>1
  <2>2. CASE f \notin Range(b.mPendingRelease)
    <3>1. /\ Append(b.mPendingRelease, f) \in Seq(Nat)
          /\ Range(Append(b.mPendingRelease, f)) \subseteq S
      BY <1>2, <1>3, <1>5, AppendWithin
    <3> QED BY <2>2, <3>1
  <2> QED BY <2>1, <2>2
<1> HIDE DEF pending, current
<1>7. hold \in Nat
  <2>1. mMaxAcquiredBuffers - current \in Int BY <1>4, SMT
  <2>2. Max({0, mMaxAcquiredBuffers - current}) \in Nat BY <2>1, MaxOfTwo, SMT
  <2> QED BY <2>2, SMT
<1> HIDE DEF hold
<1>8. over \in 0 .. Len(pending) BY <1>6, <1>7, MaxOfTwo, SMT
<1> HIDE DEF over
<1>9. q \in Seq(S)
  <2>1. \A i \in 1 .. Len(pending) : pending[i] \in S BY <1>6, RangeTyped
  <2>2. pending \in Seq(S) BY <1>6, <2>1, SMT
  <2> QED BY <1>8, <2>2, SMT
<1>10. rest \in Seq(Nat) /\ Range(rest) \subseteq S
  <2>1. over + 1 \in 1 .. Len(pending) + 1 /\ Len(pending) \in 0 .. Len(pending)
    BY <1>6, <1>8, SMT
  <2>2. rest \in Seq(Nat) /\ Range(rest) \subseteq Range(pending) BY <1>6, <2>1, RangeSub
  <2> QED BY <1>6, <2>2
<1> HIDE DEF rest
<1>11. SameView(b, c) /\ c.mPendingRelease = rest
  <2>1. c \in BlastState BY <1>2, <1>4, <1>10 DEF BlastState
  <2> QED BY <1>2, <2>1 DEF BlastState, SameView
<1> HIDE DEF c, q
<1>12. c \in Safe(last, late, wanted, out, top, S, m) BY <1>10, <1>11, SameSafe
<1>13. Fold(ReleaseAndAcquire, c, q) \in Safe(last, late, wanted, out, top, S, m)
  BY <1>9, <1>12, ReleaseLoopKeeps
<1> QED BY <1>1, <1>13

\* flushShadowQueue, while nothing is synced.
LEMMA FlushShadowQueueKeeps ==
  ASSUME NEW last \in Nat, NEW late \in Nat, NEW wanted,
         NEW out \in SUBSET Transaction, NEW top \in Nat, NEW S, NEW m \in Nat,
         NEW b \in Safe(last, late, wanted, out, top, S, m),
         b.mSyncedFrameNumbers = {}
  PROVE  flushShadowQueue(b) \in Safe(last, late, wanted, out, top, S, m)
<1> DEFINE q == [i \in 1 .. b.mNumFrameAvailable |-> i]
           X == {a \in Safe(last, late, wanted, out, top, S, m) :
                    a.mSyncedFrameNumbers = {}}
           F == [p \in X \X Nat |-> AcquireNext(p[1])]
           Body(g) == [n \in 0 .. Len(q) |->
                         IF n = 0 THEN b ELSE AcquireNext(g[n - 1])]
           after == CHOOSE g : g = Body(g)
<1>1. b.mNumFrameAvailable \in Nat BY DEF Safe, BlastState
<1>2. q \in Seq(Nat) BY <1>1, SMT
<1>3. flushShadowQueue(b) = after[Len(q)]
  <2>1. flushShadowQueue(b) = Fold(LAMBDA a, i : AcquireNext(a), b, q)
    BY DEF flushShadowQueue
  <2> HIDE DEF q
  <2> QED BY <2>1 DEF Fold
<1> HIDE DEF q
<1>4. /\ \A a \in X : AcquireNext(a) \in X
      /\ b \in X /\ X \subseteq Safe(last, late, wanted, out, top, S, m)
  <2>1. ASSUME NEW a \in X PROVE AcquireNext(a) \in X BY AcquireNextKeeps
  <2> QED BY <2>1
<1> HIDE DEF X
<1>5. /\ F \in [X \X Nat -> X]
      /\ \A a \in X, i \in Nat : F[<<a, i>>] = AcquireNext(a)
  BY <1>4, SMT
<1> HIDE DEF F
<1>6. PICK g : Turns(g, F, X, Nat, b, q) BY <1>2, <1>4, <1>5, LoopExists
<1>7. g = Body(g)
  <2>1. \A n \in 1 .. Len(q) : g[n] = AcquireNext(g[n - 1]) BY <1>5, <1>6 DEF Turns
  <2>2. g \in [0 .. Len(q) -> X] /\ g[0] = b BY <1>6 DEF Turns
  <2> QED BY <1>2, <2>1, <2>2, SMT
<1>8. after = Body(after) BY <1>7
<1> HIDE DEF after
<1>9. \A n \in 1 .. Len(q) : after[n] = AcquireNext(after[n - 1]) BY <1>2, <1>8, SMTT(30)
<1>10. after[0] \in X BY <1>2, <1>4, <1>8, SMT
<1>11. \A n \in 1 .. Len(q) : after[n - 1] \in X => after[n] \in X BY <1>4, <1>9
<1>12. after[Len(q)] \in X BY <1>2, <1>10, <1>11, LoopStays
<1> QED BY <1>3, <1>4, <1>12

\* A release callback of the listener: it runs at most once.
LEMMA OnReleaseBufferKeeps ==
  ASSUME NEW last \in Nat, NEW late \in Nat, NEW wanted,
         NEW out \in SUBSET Transaction, NEW top \in Nat, NEW S, NEW m \in Nat,
         NEW b \in Safe(last, late, wanted, out, top, S, m), NEW f \in S,
         NEW max \in Nat
  PROVE  onReleaseBuffer(b, f, max) \in Safe(last, late, wanted, out, top, S, m)
<1> DEFINE c == [b EXCEPT !.mReleaseBufferCallbacks = @ \ {f}]
<1>1. b \in BlastState /\ Range(b.mPendingRelease) \subseteq S BY DEF Safe
<1>2. SameView(b, c) /\ c.mPendingRelease = b.mPendingRelease
  <2>1. c \in BlastState BY <1>1 DEF BlastState
  <2> QED BY <1>1, <2>1 DEF BlastState, SameView
<1>3. onReleaseBuffer(b, f, max) = IF f \notin b.mReleaseBufferCallbacks THEN b
                                   ELSE releaseBufferCallbackLocked(c, f, max)
  BY DEF onReleaseBuffer
<1> HIDE DEF c
<1>4. c \in Safe(last, late, wanted, out, top, S, m) BY <1>1, <1>2, SameSafe
<1>5. releaseBufferCallbackLocked(c, f, max) \in Safe(last, late, wanted, out, top, S, m)
  BY <1>4, ReleaseLockedKeeps
<1> QED BY <1>3, <1>5

\* The committed callback for a frame the layer has: no sync transaction under
\* way holds that frame.
LEMMA CommittedKeeps ==
  ASSUME NEW last \in Nat, NEW late \in Nat, NEW wanted,
         NEW out \in SUBSET Transaction, NEW top \in Nat, NEW S, NEW m \in Nat,
         NEW b \in Safe(last, late, wanted, out, top, S, m), NEW f \in 1 .. top
  PROVE  transactionCommittedCallback(b, f) \in Safe(last, late, wanted, out, top, S, m)
<1> DEFINE rest == b.mSyncedFrameNumbers \ {f}
           c    == [b EXCEPT !.mSyncedFrameNumbers = rest]
           T    == Transactions(b, out)
<1>1. /\ b \in BlastState /\ Client(b, last, late, wanted, out, top)
      /\ S \subseteq Spare(b, last, out, top)
      /\ Range(b.mPendingRelease) \subseteq S /\ Len(b.queue) <= m
  BY DEF Safe
<1>2. transactionCommittedCallback(b, f) =
         IF b.pendingCallbacks = 0 THEN b
         ELSE IF rest = {} THEN flushShadowQueue(c) ELSE c
  BY DEF transactionCommittedCallback
<1>3. /\ c \in BlastState /\ c.mSyncedFrameNumbers = rest
      /\ c.queue = b.queue /\ c.mNumFrameAvailable = b.mNumFrameAvailable
      /\ c.mNumAcquired = b.mNumAcquired /\ c.mSubmitted = b.mSubmitted
      /\ c.mLastAppliedFrameNumber = b.mLastAppliedFrameNumber
      /\ c.mTransactionReadyCallback = b.mTransactionReadyCallback
      /\ c.sent = b.sent /\ c.mSyncTransaction = b.mSyncTransaction
      /\ c.mPendingRelease = b.mPendingRelease
  BY <1>1 DEF BlastState
<1> HIDE DEF c, T
<1>4. b.queue \in Seq(Nat) /\ T \in SUBSET Transaction
  BY <1>1, TransactionsTyped DEF BlastState, T
<1>5. f \in Before(b.queue, last)
  <2>1. top # 0 => top \in Before(b.queue, last)
    BY <1>1 DEF Client, Used, InUse, Counted
  <2>2. PICK k \in Nat : k = Len(b.queue) BY <1>4, SMT
  <2> QED BY <2>1, <2>2, SMT DEF Before
<1>6. Synced(c.mSyncedFrameNumbers, c.mSubmitted, wanted, Range(c.queue))
  <2>1. f \notin Range(b.queue)
    <3>1. b.mNumFrameAvailable \in Nat /\ Fifo(b.queue, b.mNumFrameAvailable, last, late)
      BY <1>1 DEF BlastState, Client
    <3>2. Range(b.queue) \cap Before(b.queue, last) = {} BY <1>4, <3>1, FifoApart
    <3> QED BY <1>5, <3>2
  <2> QED BY <1>1, <1>3, <2>1 DEF Client, Synced
<1>7. Filled(c) = Filled(b) /\ Transactions(c, out) = T
  BY <1>3, SameTransactions DEF T
<1>8. Used(T, b.mSubmitted, top) /\ Barred(T, b.mSyncedFrameNumbers, b.mLastAppliedFrameNumber)
  BY <1>1, SMT DEF Client, T
<1>9. Barred(T, rest, b.mLastAppliedFrameNumber)
  <2>1. ASSUME NEW t \in T PROVE t.frame # f
    <3>1. PICK n \in Nat : n = t.frame BY <1>4, FramesTyped
    <3>2. top < n BY <1>8, <3>1 DEF Used
    <3> QED BY <3>1, <3>2, SMT
  <2> QED BY <1>8, <2>1 DEF Barred
<1>10. Client(c, last, late, wanted, out, top)
  BY <1>1, <1>3, <1>6, <1>7, <1>8, <1>9 DEF Client
<1>11. S \subseteq Spare(c, last, out, top) BY <1>1, <1>3, <1>7 DEF Spare, T
<1>12. c \in Safe(last, late, wanted, out, top, S, m) BY <1>1, <1>3, <1>10, <1>11 DEF Safe
<1>13. rest = {} => flushShadowQueue(c) \in Safe(last, late, wanted, out, top, S, m)
  BY <1>3, <1>12, FlushShadowQueueKeeps
<1> QED BY <1>2, <1>12, <1>13

\* The completed callback releases what is older than a frame the layer has.
LEMMA TransactionCallbackKeeps ==
  ASSUME NEW last \in Nat, NEW late \in Nat, NEW wanted,
         NEW out \in SUBSET Transaction, NEW top \in Nat, NEW S, NEW m \in Nat,
         NEW b \in Safe(last, late, wanted, out, top, S, m),
         b.pendingCallbacks > 0, NEW stale \in Seq(S)
  PROVE  transactionCallback(b, stale) \in Safe(last, late, wanted, out, top, S, m)
<1> DEFINE c == [b EXCEPT !.pendingCallbacks = @ - 1]
           X == Safe(last, late, wanted, out, top, S, m)
           Op(a, f) == releaseBufferCallbackLocked(a, f, currentMaxAcquiredBufferCount)
           F == [p \in X \X S |-> Op(p[1], p[2])]
           Body(g) == [n \in 0 .. Len(stale) |->
                         IF n = 0 THEN c ELSE Op(g[n - 1], stale[n])]
           after == CHOOSE g : g = Body(g)
<1>1. b \in BlastState /\ Range(b.mPendingRelease) \subseteq S BY DEF Safe
<1>2. SameView(b, c) /\ c.mPendingRelease = b.mPendingRelease
  <2>1. b.pendingCallbacks \in Nat BY <1>1 DEF BlastState
  <2>2. b.pendingCallbacks - 1 \in Nat BY <2>1, SMT
  <2>3. c \in BlastState BY <1>1, <2>2 DEF BlastState
  <2> QED BY <1>1, <2>3 DEF BlastState, SameView
<1>3. transactionCallback(b, stale) = after[Len(stale)]
  <2>1. transactionCallback(b, stale) =
           Fold(LAMBDA a, g : releaseBufferCallbackLocked(
                                  a, g, currentMaxAcquiredBufferCount), c, stale)
    BY DEF transactionCallback
  <2> HIDE DEF c
  <2> QED BY <2>1 DEF Fold
<1> HIDE DEF c
<1>4. c \in X BY <1>1, <1>2, SameSafe
<1>5. \A a \in X, f \in S : Op(a, f) \in X
  <2>1. currentMaxAcquiredBufferCount \in Nat BY BlastAssumption
  <2> QED BY <2>1, ReleaseLockedKeeps
<1> HIDE DEF X, Op
<1>6. /\ F \in [X \X S -> X]
      /\ \A a \in X, f \in S : F[<<a, f>>] = Op(a, f)
  BY <1>5, SMT
<1> HIDE DEF F
<1>7. PICK g : Turns(g, F, X, S, c, stale) BY <1>4, <1>6, LoopExists
<1>8. g = Body(g)
  <2>1. \A n \in 1 .. Len(stale) : g[n] = Op(g[n - 1], stale[n]) BY <1>6, <1>7 DEF Turns
  <2>2. g \in [0 .. Len(stale) -> X] /\ g[0] = c BY <1>7 DEF Turns
  <2> QED BY <2>1, <2>2, SMT
<1>9. after = Body(after) BY <1>8
<1> HIDE DEF after
<1>10. \A n \in 1 .. Len(stale) : after[n] = Op(after[n - 1], stale[n]) /\ stale[n] \in S
  <2>1. \A n \in 1 .. Len(stale) : stale[n] \in S BY SMT
  <2>2. \A n \in 1 .. Len(stale) : after[n] = Op(after[n - 1], stale[n]) BY <1>9, SMTT(30)
  <2> QED BY <2>1, <2>2
<1>11. after[0] \in X BY <1>4, <1>9, SMT
<1>12. \A n \in 1 .. Len(stale) : after[n - 1] \in X => after[n] \in X BY <1>5, <1>10
<1>13. after[Len(stale)] \in X BY <1>11, <1>12, LoopStays
<1> QED BY <1>3, <1>13 DEF X

-----------------------------------------------------------------------------
(* The producer.                                                            *)

\* Fewer transactions, more buffers acquired, more frames synced.
LEMMA FewerUsed ==
  ASSUME NEW T, NEW U, U \subseteq T, NEW M, NEW N, M \subseteq N, NEW top,
         Used(T, M, top)
  PROVE  Used(U, N, top) /\ InUse(U, top) \subseteq InUse(T, top)
BY DEF Used, InUse

\* The barriers hold for fewer transactions and more synced frames.
LEMMA FewerBarred ==
  ASSUME NEW T, NEW U, U \subseteq T, NEW synced, NEW more, synced \subseteq more,
         NEW applied, Barred(T, synced, applied)
  PROVE  Barred(U, more, applied)
BY DEF Barred

\* A synced frame goes out behind all frames sent before it.
LEMMA BarredAddSync ==
  ASSUME NEW T, NEW M, NEW top, Used(T, M, top), NEW synced, NEW applied,
         Barred(T, synced, applied), NEW f \in synced, Older(T, top, f),
         NEW t, Carries(t, SyncToken, f), t.barrier = applied
  PROVE  Barred(T \cup {t}, synced, applied)
<1>1. t.token = SyncToken /\ t.frame = f /\ SyncToken # OwnToken
  BY BlastAssumption DEF Carries
<1>2. \A o \in T : o.frame < f BY DEF Older
<1>3. ASSUME NEW u \in T \cup {t}, u.token = OwnToken
      PROVE  u \in T /\ u.frame <= applied
  BY <1>1, <1>3 DEF Barred
<1>4. ASSUME NEW u \in T \cup {t}, u.token = SyncToken
      PROVE  /\ u.frame \in synced
             /\ \A o \in T \cup {t} : o.token = OwnToken =>
                                         o.frame < u.frame /\ o.frame <= u.barrier
  <2>1. CASE u = t BY <1>1, <1>2, <1>3, <2>1
  <2>2. CASE u \in T BY <1>3, <1>4, <2>2 DEF Barred
  <2> QED BY <2>1, <2>2
<1> QED BY <1>3, <1>4 DEF Barred

\* The head of the FIFO is the frame the producer waits for.
LEMMA HeadWanted ==
  ASSUME NEW f \in Nat, NEW out, NEW top, NEW S,
         NEW b \in Safe(f, 0, {f}, out, top, S, 1), b.mNumFrameAvailable > 0
  PROVE  Head(b.queue) = f /\ f \in b.mSyncedFrameNumbers
<1>1. /\ b \in BlastState /\ Fifo(b.queue, b.mNumFrameAvailable, f, 0)
      /\ Synced(b.mSyncedFrameNumbers, b.mSubmitted, {f}, Range(b.queue))
      /\ Len(b.queue) <= 1
  BY DEF Safe, Client
<1>2. b.queue \in Seq(Nat) /\ b.mNumFrameAvailable \in Nat BY <1>1 DEF BlastState
<1>3. Head(b.queue) = f /\ f \in Range(b.queue)
  <2> DEFINE q == b.queue
             k == b.mNumFrameAvailable
  <2>1. q \in Seq(Nat) /\ k \in Nat /\ k > 0 /\ Fifo(q, k, f, 0) /\ Len(q) <= 1
    BY <1>1, <1>2
  <2> HIDE DEF q, k
  <2>2. PICK l \in Nat : l = Len(q) BY <2>1, SMT
  <2>3. l = 1 BY <2>1, <2>2, SMT DEF Fifo
  <2>4. q[1] = f BY <2>1, <2>2, <2>3, SMT DEF Fifo
  <2>5. Head(q) = q[1] /\ 1 \in 1 .. Len(q) BY <2>1, <2>2, <2>3, SMT
  <2>6. q[1] \in Range(q) BY <2>1, <2>5, RangeTyped
  <2> QED BY <2>4, <2>5, <2>6 DEF q
<1> QED BY <1>1, <1>3 DEF Synced

\* It is acquired: what a transaction t with it may rely on.
SyncAcquired(b, a, t, f, out, top, S) ==
    LET T == out \cup Range(b.sent)
    IN /\ HeadAcquired(b, a, f, f, 0)
       /\ Synced(a.mSyncedFrameNumbers, a.mSubmitted, {}, Range(a.queue))
       /\ Sent(b.sent, {t}, out)
       /\ Used(T \cup {t}, a.mSubmitted, top)
       /\ Barred(T \cup {t}, a.mSyncedFrameNumbers, a.mLastAppliedFrameNumber)
       /\ S \subseteq Before(a.queue, f) \ InUse(T \cup {t}, top)
       /\ Range(a.mPendingRelease) \subseteq S

\* AcquireHead gives a sync transaction the frame the producer wants.
LEMMA SyncAcquires ==
  ASSUME NEW f \in Nat, NEW out \in SUBSET Transaction, NEW top \in Nat, NEW S,
         NEW b \in Safe(f, 0, {f}, out, top, S, 1), b.mNumFrameAvailable > 0,
         b.mNumAcquired < mMaxAcquiredBuffers + 2, NEW t,
         Carries(t, SyncToken, f), t.barrier = b.mLastAppliedFrameNumber
  PROVE  SyncAcquired(b, AcquireHead(b), t, f, out, top, S)
<1> DEFINE a == AcquireHead(b)
           T == Transactions(b, out)
           U == out \cup Range(b.sent)
           D == Before(b.queue, f)
<1>1. /\ b \in BlastState /\ Client(b, f, 0, {f}, out, top)
      /\ S \subseteq Spare(b, f, out, top) /\ Range(b.mPendingRelease) \subseteq S
  BY DEF Safe
<1>2. Head(b.queue) = f /\ f \in b.mSyncedFrameNumbers BY HeadWanted
<1>3. HeadAcquired(b, a, f, f, 0)
  <2>1. HeadAcquired(b, a, Head(b.queue), f, 0) BY <1>1, AcquireHeadEffect
  <2> QED BY <1>2, <2>1
<1> HIDE DEF a
<1>4. /\ a.mSubmitted = b.mSubmitted \cup {f} /\ a.mSyncedFrameNumbers = b.mSyncedFrameNumbers
      /\ a.mLastAppliedFrameNumber = b.mLastAppliedFrameNumber
      /\ a.mPendingRelease = b.mPendingRelease
      /\ Before(a.queue, f) = D \cup {f} /\ NewFrame(f, D) /\ f \notin D
      /\ Range(b.queue) = {f} \cup Range(a.queue)
  BY <1>3 DEF HeadAcquired
<1>5. U \subseteq T /\ T \in SUBSET Transaction /\ Range(b.sent) \subseteq U /\ out \subseteq U
  <2>1. T \in SUBSET Transaction BY <1>1, TransactionsTyped
  <2> QED BY <2>1 DEF Transactions
<1> HIDE DEF T, U, D
<1>6. /\ Used(T, b.mSubmitted, top) /\ b.mSubmitted \subseteq D
      /\ Barred(T, b.mSyncedFrameNumbers, b.mLastAppliedFrameNumber)
      /\ Sent(b.sent, Filled(b), out) /\ S \subseteq D \ InUse(T, top)
      /\ Synced(b.mSyncedFrameNumbers, b.mSubmitted, {f}, Range(b.queue))
  BY <1>1, SMT DEF Client, Counted, Spare, T, D
<1>7. /\ Used(U, b.mSubmitted, top) /\ InUse(U, top) \subseteq InUse(T, top)
      /\ Barred(U, b.mSyncedFrameNumbers, b.mLastAppliedFrameNumber)
  BY <1>5, <1>6, FewerUsed, FewerBarred
<1>8. Older(U, top, f)
  <2>1. U \in SUBSET Transaction BY <1>5
  <2> QED BY <1>4, <1>6, <1>7, <2>1, NewerThanUsed
<1>9. Used(U \cup {t}, b.mSubmitted \cup {f}, top) BY <1>7, <1>8, UsedAdd
<1>10. InUse(U \cup {t}, top) \subseteq InUse(U, top) \cup {f} BY InUseAdd
<1>11. Barred(U \cup {t}, b.mSyncedFrameNumbers, b.mLastAppliedFrameNumber)
  BY <1>2, <1>7, <1>8, BarredAddSync
<1>12. Sent(b.sent, {t}, out)
  <2>1. \A o \in out : o.frame < t.frame BY <1>5, <1>8 DEF Older, Carries
  <2>2. Ahead(out, Range(b.sent) \cup {t}) BY <1>6, <2>1 DEF Sent, Ahead
  <2> QED BY <1>6, <2>2 DEF Sent
<1>13. Synced(a.mSyncedFrameNumbers, a.mSubmitted, {}, Range(a.queue))
  BY <1>4, <1>6 DEF Synced
<1>14. S \subseteq Before(a.queue, f) \ InUse(U \cup {t}, top) BY <1>4, <1>6, <1>7, <1>10
<1> QED BY <1>1, <1>3, <1>4, <1>9, <1>11, <1>12, <1>13, <1>14 DEF SyncAcquired, U, a

\* All but the sync transaction is the same.
SameQueue(a, c) ==
    /\ c \in BlastState
    /\ c.queue = a.queue /\ c.mNumFrameAvailable = a.mNumFrameAvailable
    /\ c.mNumAcquired = a.mNumAcquired /\ c.mSubmitted = a.mSubmitted
    /\ c.mPendingRelease = a.mPendingRelease
    /\ c.mSyncedFrameNumbers = a.mSyncedFrameNumbers
    /\ c.mLastAppliedFrameNumber = a.mLastAppliedFrameNumber
    /\ c.sent = a.sent

\* The client when T are its transactions.
LEMMA ClientOf ==
  ASSUME NEW a, NEW c, SameQueue(a, c), NEW last, NEW late, NEW wanted, NEW out, NEW top,
         NEW S, NEW m, NEW T, Transactions(c, out) \subseteq T,
         Fifo(a.queue, a.mNumFrameAvailable, last, late),
         Counted(a.mSubmitted, a.mNumAcquired, Before(a.queue, last)),
         Synced(a.mSyncedFrameNumbers, a.mSubmitted, wanted, Range(a.queue)),
         Used(T, a.mSubmitted, top),
         Barred(T, a.mSyncedFrameNumbers, a.mLastAppliedFrameNumber),
         Sent(a.sent, Filled(c), out),
         Syncing(c.mSyncTransaction, c.mTransactionReadyCallback),
         S \subseteq Before(a.queue, last) \ InUse(T, top),
         Range(a.mPendingRelease) \subseteq S, Len(a.queue) <= m
  PROVE  c \in Safe(last, late, wanted, out, top, S, m)
<1> DEFINE U == Transactions(c, out)
<1> HIDE DEF U
<1>1. /\ Used(U, a.mSubmitted, top) /\ InUse(U, top) \subseteq InUse(T, top)
      /\ Barred(U, a.mSyncedFrameNumbers, a.mLastAppliedFrameNumber)
  <2>1. U \subseteq T BY DEF U
  <2> QED BY <2>1, FewerUsed, FewerBarred
<1>2. Client(c, last, late, wanted, out, top) BY <1>1 DEF Client, SameQueue, U
<1>3. S \subseteq Spare(c, last, out, top) BY <1>1 DEF Spare, SameQueue, U
<1> QED BY <1>2, <1>3 DEF Safe, SameQueue

\* The list of the one sync transaction, and the empty one.
LEMMA OneTransaction ==
  ASSUME NEW t, t.frame # 0, t.token = SyncToken
  PROVE  /\ Range(<<t>>) = {t} /\ Syncing(<<t>>, TRUE)
         /\ Range(<<>>) = {} /\ Syncing(<<>>, FALSE)
<1>1. Range(<<t>>) = {t}
  <2> DEFINE q == <<t>>
  <2>1. DOMAIN q = {1} /\ q[1] = t BY SMT
  <2> HIDE DEF q
  <2>2. Range(q) = {t} BY <2>1 DEF Range
  <2> QED BY <2>2 DEF q
<1>2. Range(<<>>) = {} BY SMT DEF Range
<1>3. Len(<<t>>) = 1 /\ Len(<<>>) = 0 BY SMT
<1> QED BY <1>1, <1>2, <1>3, SMT DEF Syncing

\* The transaction stays with the queue, or goes to the sync consumer, or the
\* queue has none any more.
LEMMA SyncStays ==
  ASSUME NEW b, NEW a, NEW t, NEW f \in Nat, NEW out, NEW top, NEW S,
         SyncAcquired(b, a, t, f, out, top, S), Carries(t, SyncToken, f),
         Len(a.queue) <= 1, NEW c, SameQueue(a, c)
  PROVE  /\ c.mSyncTransaction = <<t>> /\ c.mTransactionReadyCallback = TRUE
               => c \in Safe(f, 0, {}, out, top, S, 1)
         /\ c.mSyncTransaction = <<>> /\ c.mTransactionReadyCallback = FALSE
               => /\ c \in Safe(f, 0, {}, out \cup {t}, top, S, 1)
                  /\ c \in Safe(f, 0, {}, out, top, S, 1)
<1> DEFINE T == (out \cup Range(b.sent)) \cup {t}
<1>1. t.frame # 0 /\ t.token = SyncToken
  BY DEF Carries, SyncAcquired, HeadAcquired, NewFrame
<1>2. /\ Range(<<t>>) = {t} /\ Syncing(<<t>>, TRUE)
      /\ Range(<<>>) = {} /\ Syncing(<<>>, FALSE)
  BY <1>1, OneTransaction
<1>3. /\ Fifo(a.queue, a.mNumFrameAvailable, f, 0)
      /\ Counted(a.mSubmitted, a.mNumAcquired, Before(a.queue, f))
      /\ Synced(a.mSyncedFrameNumbers, a.mSubmitted, {}, Range(a.queue))
      /\ Used(T, a.mSubmitted, top)
      /\ Barred(T, a.mSyncedFrameNumbers, a.mLastAppliedFrameNumber)
      /\ S \subseteq Before(a.queue, f) \ InUse(T, top)
      /\ Range(a.mPendingRelease) \subseteq S /\ Sent(b.sent, {t}, out)
      /\ a.sent = b.sent /\ c.sent = b.sent
  BY DEF SyncAcquired, HeadAcquired, SameQueue
<1>4. Sent(a.sent, {}, out) BY <1>3 DEF Sent, Ahead
<1>5. Sent(a.sent, {}, out \cup {t})
  <2>1. \A u \in Range(b.sent) : u.token # t.token
    BY <1>1, <1>3, BlastAssumption DEF Sent
  <2> QED BY <1>3, <2>1 DEF Sent, Ahead
<1>6. ASSUME c.mSyncTransaction = <<t>>, c.mTransactionReadyCallback = TRUE
      PROVE  c \in Safe(f, 0, {}, out, top, S, 1)
  <2>1. Filled(c) = {t} BY <1>1, <1>2, <1>6 DEF Filled
  <2>2. Transactions(c, out) \subseteq T BY <1>3, <2>1 DEF Transactions
  <2>3. Syncing(c.mSyncTransaction, c.mTransactionReadyCallback) BY <1>2, <1>6
  <2>4. Sent(a.sent, Filled(c), out) BY <1>3, <2>1
  <2> HIDE DEF T
  <2> QED BY <1>3, <2>2, <2>3, <2>4, ClientOf
<1>7. ASSUME c.mSyncTransaction = <<>>, c.mTransactionReadyCallback = FALSE
      PROVE  /\ c \in Safe(f, 0, {}, out \cup {t}, top, S, 1)
             /\ c \in Safe(f, 0, {}, out, top, S, 1)
  <2>1. Filled(c) = {} BY <1>2, <1>7 DEF Filled
  <2>2. Transactions(c, out \cup {t}) \subseteq T /\ Transactions(c, out) \subseteq T
    BY <1>3, <2>1 DEF Transactions
  <2>3. Syncing(c.mSyncTransaction, c.mTransactionReadyCallback) BY <1>2, <1>7
  <2>4. Sent(a.sent, Filled(c), out \cup {t}) /\ Sent(a.sent, Filled(c), out)
    BY <1>4, <1>5, <2>1
  <2> HIDE DEF T
  <2>5. c \in Safe(f, 0, {}, out \cup {t}, top, S, 1) BY <1>3, <2>2, <2>3, <2>4, ClientOf
  <2>6. c \in Safe(f, 0, {}, out, top, S, 1) BY <1>3, <2>2, <2>3, <2>4, ClientOf
  <2> QED BY <2>5, <2>6
<1> QED BY <1>6, <1>7

\* The sync consumer gets one more transaction.
LEMMA HeldAdd ==
  ASSUME NEW h \in Seq(Transaction), NEW arrived, HeldOK(h, arrived), NEW t \in Transaction,
         t.token = SyncToken, Ahead(Range(h) \cup arrived, {t}), NEW l, l = h \o <<t>>
  PROVE  l \in Seq(Transaction) /\ HeldOK(l, arrived) /\ Range(l) = Range(h) \cup {t}
<1>1. l = Append(h, t) BY SMT
<1>2. \A u \in Range(h) \cup arrived : u.token = t.token => u.frame < t.frame BY DEF Ahead
<1>3. Append(h, t) \in Seq(Transaction) /\ InOrder(Append(h, t))
  BY <1>2, InOrderAppend DEF HeldOK
<1>4. Range(Append(h, t)) = Range(h) \cup {t} BY RangeAppend, SMT
<1>5. HeldOK(Append(h, t), arrived)
  <2> DEFINE R == Range(Append(h, t))
  <2>1. R = Range(h) \cup {t} /\ InOrder(Append(h, t)) BY <1>3, <1>4
  <2> HIDE DEF R
  <2>2. Ahead(arrived, R) /\ \A u \in R : u.token = SyncToken
    BY <1>2, <2>1 DEF HeldOK, Ahead
  <2> QED BY <2>1, <2>2 DEF HeldOK, R
<1> QED BY <1>1, <1>3, <1>4, <1>5

\* From the queue to the client.
LEMMA ToFits ==
  ASSUME NEW p \in ProducerState, NEW h \in Seq(Transaction), NEW arrived,
         HeldOK(h, arrived), NEW last, NEW top, NEW S, NEW m, NEW freed,
         freed \subseteq S,
         NEW b \in Safe(last, Late(p), Wanted(p), Range(h) \cup arrived, top, S, m),
         p.at # "idle" => p.frame = last, p.at = "acquire" => m = 1
  PROVE  Fits(b, p, h, last, freed, arrived, top)
BY DEF Safe, Fits

\* What the client expects of the producer at each place of its code.
LEMMA ProducerAt ==
  /\ Idle \in ProducerState /\ Idle.at = "idle" /\ Late(Idle) = 0 /\ Wanted(Idle) = {}
  /\ \A at \in {"drain", "acquire", "spinning", "crashed"}, f \in Nat :
       LET p == Wait(at, f)
       IN /\ p \in ProducerState /\ p.frame = f /\ p.at = at
          /\ Late(p) = IF at \in {"drain", "spinning"} THEN 1 ELSE 0
          /\ Wanted(p) = IF at = "acquire" THEN {f} ELSE {}
<1>1. /\ Idle \in ProducerState /\ Idle.at = "idle" /\ Late(Idle) = 0
      /\ Wanted(Idle) = {}
  BY SMT DEF Idle, ProducerState, Late, Wanted
<1>2. ASSUME NEW at \in {"drain", "acquire", "spinning", "crashed"}, NEW f \in Nat
      PROVE  LET p == Wait(at, f)
             IN /\ p \in ProducerState /\ p.frame = f /\ p.at = at
                /\ Late(p) = IF at \in {"drain", "spinning"} THEN 1 ELSE 0
                /\ Wanted(p) = IF at = "acquire" THEN {f} ELSE {}
  BY SMT DEF Wait, ProducerState, Late, Wanted
<1> QED BY <1>1, <1>2

\* The transaction that FillSync makes, and the one that FinishSync makes.
WithBuffer(t, f, barrier) ==
    [t EXCEPT !.frame = f, !.callbacks = @ + 1, !.barrier = barrier]

WithCommit(t) == [t EXCEPT !.commits = @ + 1]

\* They carry the frame, on the token of the sync consumer.
LEMMA FilledCarries ==
  ASSUME NEW t \in Transaction, t.token = SyncToken, NEW f \in Nat, NEW barrier \in Nat
  PROVE  LET fill == WithBuffer(t, f, barrier)
             u    == WithCommit(fill)
         IN /\ fill \in Transaction
            /\ u \in Transaction /\ Carries(u, SyncToken, f) /\ u.barrier = barrier
<1> DEFINE fill == WithBuffer(t, f, barrier)
           u    == WithCommit(fill)
<1>1. t.callbacks \in Nat /\ t.commits \in Nat BY DEF Transaction
<1>2. t.callbacks + 1 \in Nat /\ t.commits + 1 \in Nat BY <1>1, SMT
<1>3. /\ fill \in Transaction /\ fill.frame = f /\ fill.token = SyncToken
      /\ fill.barrier = barrier /\ fill.commits = t.commits
  BY <1>2 DEF Transaction, WithBuffer
<1> HIDE DEF fill
<1>4. /\ u \in Transaction /\ u.frame = f /\ u.token = SyncToken /\ u.barrier = barrier
  BY <1>2, <1>3 DEF Transaction, WithCommit
<1> HIDE DEF u
<1> QED BY <1>3, <1>4 DEF Carries, fill, u

\* What FinishSync leaves when the head of b was acquired.
LEMMA FinishSyncFits ==
  ASSUME NEW f \in Nat, NEW arrived \in SUBSET Transaction, NEW top \in Nat,
         held \in Seq(Transaction), HeldOK(held, arrived), NEW S, NEW freed,
         freed \subseteq S,
         NEW b \in Safe(f, 0, {f}, Range(held) \cup arrived, top, S, 1),
         b.mNumFrameAvailable > 0, b.mNumAcquired < mMaxAcquiredBuffers + 2,
         b.mSyncTransaction # <<>>, FinishSync(FillSync(AcquireHead(b), f))
  PROVE  Fits(bbq', producer', held', f, freed, arrived, top)
<1> DEFINE a    == AcquireHead(b)
           c    == FillSync(a, f)
           t    == a.mSyncTransaction[1]
           fill == WithBuffer(t, f, a.mLastAppliedFrameNumber)
           u    == WithCommit(fill)
           out  == Range(held) \cup arrived
<1>1. /\ b \in BlastState /\ Client(b, f, 0, {f}, out, top)
      /\ Syncing(b.mSyncTransaction, b.mTransactionReadyCallback)
      /\ Len(b.queue) <= 1
  BY DEF Safe, Client
<1>2. /\ b.mSyncTransaction \in Seq(Transaction) /\ b.mTransactionReadyCallback \in BOOLEAN
      /\ b.mLastAppliedFrameNumber \in Nat /\ b.queue \in Seq(Nat)
  BY <1>1 DEF BlastState
<1>3. /\ b.mSyncTransaction[1] \in Transaction /\ b.mSyncTransaction[1].token = SyncToken
      /\ b.mTransactionReadyCallback = TRUE
  <2>1. Len(b.mSyncTransaction) # 0 BY <1>2, SMT
  <2>2. b.mTransactionReadyCallback = TRUE /\ Len(b.mSyncTransaction) = 1
    BY <1>1, <1>2, <2>1 DEF Syncing
  <2>3. 1 \in 1 .. Len(b.mSyncTransaction) BY <2>2, SMT
  <2>4. b.mSyncTransaction[1] \in Range(b.mSyncTransaction) /\ Range(b.mSyncTransaction) \subseteq Transaction
    BY <1>2, <2>3, RangeTyped
  <2> QED BY <1>1, <2>2, <2>4 DEF Syncing
<1>4. HeadAcquired(b, a, f, f, 0)
  <2>1. HeadAcquired(b, a, Head(b.queue), f, 0) BY <1>1, AcquireHeadEffect
  <2>2. Head(b.queue) = f BY HeadWanted
  <2> QED BY <2>1, <2>2
<1>5. /\ a \in BlastState /\ a.mLastAppliedFrameNumber = b.mLastAppliedFrameNumber
      /\ a.mSyncTransaction = b.mSyncTransaction /\ Len(a.queue) <= Len(b.queue)
      /\ a.mTransactionReadyCallback = TRUE /\ a.sent = b.sent
  BY <1>3, <1>4 DEF HeadAcquired
<1>6. c = [a EXCEPT !.mSyncTransaction = <<fill>>] BY DEF FillSync, WithBuffer
<1>7. producer' = Idle
      /\ IF c.mAcquireSingleBuffer
         THEN /\ bbq' = [c EXCEPT !.mTransactionReadyCallback = FALSE,
                                  !.mSyncTransaction = <<>>]
              /\ held' = held \o <<WithCommit(c.mSyncTransaction[1])>>
         ELSE /\ bbq' = [c EXCEPT !.mSyncTransaction =
                                      <<WithCommit(c.mSyncTransaction[1])>>]
              /\ held' = held
  BY DEF FinishSync, WithCommit
<1> HIDE DEF a, c, t
<1>8. /\ fill \in Transaction /\ u \in Transaction /\ Carries(u, SyncToken, f)
      /\ u.barrier = b.mLastAppliedFrameNumber
  <2> DEFINE e == a.mLastAppliedFrameNumber
  <2>1. t \in Transaction /\ t.token = SyncToken /\ e \in Nat BY <1>2, <1>3, <1>5 DEF t
  <2> HIDE DEF e
  <2>2. /\ WithBuffer(t, f, e) \in Transaction /\ WithCommit(WithBuffer(t, f, e)) \in Transaction
        /\ Carries(WithCommit(WithBuffer(t, f, e)), SyncToken, f)
        /\ WithCommit(WithBuffer(t, f, e)).barrier = e
    BY <2>1, FilledCarries
  <2> QED BY <1>5, <2>2 DEF e
<1> HIDE DEF fill
<1>9. <<fill>> \in Seq(Transaction) /\ <<u>> \in Seq(Transaction) /\ <<fill>>[1] = fill
      /\ <<>> \in Seq(Transaction)
  BY <1>8, SMT
<1>10. c \in BlastState /\ SameQueue(a, c) /\ c.mSyncTransaction[1] = fill
       /\ c.mTransactionReadyCallback = TRUE
  <2>1. c \in BlastState BY <1>5, <1>6, <1>9 DEF BlastState
  <2>2. SameQueue(a, c) /\ c.mTransactionReadyCallback = TRUE
    BY <1>5, <1>6, <2>1 DEF BlastState, SameQueue
  <2>3. c.mSyncTransaction = <<fill>> BY <1>5, <1>6 DEF BlastState
  <2> QED BY <1>9, <2>1, <2>2, <2>3
<1>11. SyncAcquired(b, a, u, f, out, top, S)
  <2>1. out \in SUBSET Transaction BY RangeTyped
  <2> HIDE DEF out, u
  <2> QED BY <1>8, <2>1, SyncAcquires DEF a, out
<1>12. Len(a.queue) <= 1
  <2>1. a.queue \in Seq(Nat) BY <1>5 DEF BlastState
  <2>2. PICK k \in Nat : k = Len(a.queue) BY <2>1, LengthOf
  <2>3. PICK l \in Nat : l = Len(b.queue) BY <1>2, SMT
  <2>4. k <= l /\ l <= 1 BY <1>1, <1>5, <2>2, <2>3
  <2>5. k <= 1 BY <2>4, SMT
  <2> QED BY <2>2, <2>5
<1>13. Ahead(out, {u}) BY <1>11 DEF SyncAcquired, Sent, Ahead
<1> HIDE DEF u
<1>14. Idle \in ProducerState /\ Idle.at = "idle" /\ Late(Idle) = 0 /\ Wanted(Idle) = {}
  BY ProducerAt
<1>15. CASE c.mAcquireSingleBuffer
  <2> DEFINE d == [c EXCEPT !.mTransactionReadyCallback = FALSE, !.mSyncTransaction = <<>>]
             l == held \o <<u>>
  <2>1. bbq' = d /\ held' = l /\ producer' = Idle BY <1>7, <1>10, <1>15 DEF u
  <2>2. /\ SameQueue(a, d) /\ d.mSyncTransaction = <<>>
        /\ d.mTransactionReadyCallback = FALSE
    <3>1. d \in BlastState BY <1>9, <1>10 DEF BlastState
    <3> QED BY <1>10, <3>1 DEF BlastState, SameQueue
  <2> HIDE DEF d
  <2>3. d \in Safe(f, 0, {}, out \cup {u}, top, S, 1)
    BY <1>8, <1>11, <1>12, <2>2, SyncStays
  <2>4. l \in Seq(Transaction) /\ HeldOK(l, arrived) /\ Range(l) = Range(held) \cup {u}
    BY <1>8, <1>13, HeldAdd DEF Carries
  <2> HIDE DEF l
  <2>5. out \cup {u} = Range(l) \cup arrived BY <2>4
  <2>6. d \in Safe(f, Late(Idle), Wanted(Idle), Range(l) \cup arrived, top, S, 1)
    BY <1>14, <2>3, <2>5
  <2>7. Fits(d, Idle, l, f, freed, arrived, top) BY <1>14, <2>4, <2>6, ToFits
  <2> QED BY <2>1, <2>7
<1>16. CASE ~c.mAcquireSingleBuffer
  <2> DEFINE d == [c EXCEPT !.mSyncTransaction = <<u>>]
  <2>1. bbq' = d /\ held' = held /\ producer' = Idle BY <1>7, <1>10, <1>16 DEF u
  <2>2. /\ SameQueue(a, d) /\ d.mSyncTransaction = <<u>>
        /\ d.mTransactionReadyCallback = TRUE
    <3>1. d \in BlastState BY <1>9, <1>10 DEF BlastState
    <3> QED BY <1>10, <3>1 DEF BlastState, SameQueue
  <2> HIDE DEF d
  <2>3. d \in Safe(f, 0, {}, out, top, S, 1) BY <1>8, <1>11, <1>12, <2>2, SyncStays
  <2>4. d \in Safe(f, Late(Idle), Wanted(Idle), Range(held) \cup arrived, top, S, 1)
    BY <1>14, <2>3
  <2>5. Fits(d, Idle, held, f, freed, arrived, top) BY <1>14, <2>4, ToFits
  <2> QED BY <2>1, <2>5
<1> QED BY <1>15, <1>16

\* A transaction that was cleared leaves the buffer acquired and no more.
LEMMA NullSyncKeeps ==
  ASSUME NEW f \in Nat, NEW out \in SUBSET Transaction, NEW top \in Nat, NEW S,
         NEW b \in Safe(f, 0, {f}, out, top, S, 1), b.mNumFrameAvailable > 0,
         b.mNumAcquired < mMaxAcquiredBuffers + 2, b.mSyncTransaction = <<>>
  PROVE  AcquireHead(b) \in Safe(f, 0, {}, out, top, S, 1)
<1> DEFINE a == AcquireHead(b)
           u == [token |-> SyncToken, frame |-> f, barrier |-> b.mLastAppliedFrameNumber,
                 callbacks |-> 0, commits |-> 0]
<1>1. /\ b \in BlastState /\ Client(b, f, 0, {f}, out, top) /\ Len(b.queue) <= 1
      /\ Syncing(b.mSyncTransaction, b.mTransactionReadyCallback)
  BY DEF Safe, Client
<1>2. /\ b.mLastAppliedFrameNumber \in Nat /\ b.queue \in Seq(Nat)
      /\ b.mTransactionReadyCallback \in BOOLEAN
  BY <1>1 DEF BlastState
<1>3. Carries(u, SyncToken, f) /\ u.barrier = b.mLastAppliedFrameNumber
  <2>1. SyncToken \in Tokens /\ 0 \in Nat BY FrameDeliveryAssumption
  <2> QED BY <1>2, <2>1 DEF Carries, Transaction
<1> HIDE DEF u
<1>4. SyncAcquired(b, a, u, f, out, top, S) BY <1>3, SyncAcquires
<1> HIDE DEF a
<1>5. /\ a \in BlastState /\ Len(a.queue) <= Len(b.queue)
      /\ a.mSyncTransaction = b.mSyncTransaction
      /\ a.mTransactionReadyCallback = b.mTransactionReadyCallback
  BY <1>4 DEF SyncAcquired, HeadAcquired
<1>6. Len(a.queue) <= 1
  <2>1. a.queue \in Seq(Nat) BY <1>5 DEF BlastState
  <2>2. PICK k \in Nat : k = Len(a.queue) BY <2>1, LengthOf
  <2>3. PICK l \in Nat : l = Len(b.queue) BY <1>2, SMT
  <2>4. k <= l /\ l <= 1 BY <1>1, <1>5, <2>2, <2>3
  <2>5. k <= 1 BY <2>4, SMT
  <2> QED BY <2>2, <2>5
<1>7. b.mTransactionReadyCallback = FALSE BY <1>1, <1>2, SMT DEF Syncing
<1>8. SameQueue(a, a) BY <1>5 DEF SameQueue
<1>9. a \in Safe(f, 0, {}, out, top, S, 1)
  <2>1. a.mSyncTransaction = <<>> /\ a.mTransactionReadyCallback = FALSE BY <1>5, <1>7
  <2> QED BY <1>3, <1>4, <1>6, <1>8, <2>1, SyncStays
<1> QED BY <1>9 DEF a

\* One turn of the loop in which the producer acquires the sync buffer.
LEMMA AcquireForSyncFits ==
  ASSUME NEW f \in Nat, NEW arrived \in SUBSET Transaction, NEW top \in Nat,
         held \in Seq(Transaction), HeldOK(held, arrived), NEW S, NEW freed,
         freed \subseteq S,
         NEW b \in Safe(f, 0, {f}, Range(held) \cup arrived, top, S, 1),
         AcquireForSync(b, f)
  PROVE  Fits(bbq', producer', held', f, freed, arrived, top)
<1> DEFINE next == acquireNextBufferLocked(b, TRUE)
           n    == Rejected(b)
           kept == Skip(b, n)
           out  == Range(held) \cup arrived
<1>1. /\ next.status = "OK" => FinishSync(next.b)
      /\ next.status = "NO_BUFFER_AVAILABLE" =>
            bbq' = next.b /\ producer' = Wait("acquire", f) /\ held' = held
      /\ next.status = "NULL_TRANSACTION" =>
            bbq' = next.b /\ producer' = Wait("crashed", f) /\ held' = held
  <2>1. ASSUME next.status = "OK" PROVE FinishSync(next.b) BY <2>1 DEF AcquireForSync
  <2>2. ASSUME next.status = "NO_BUFFER_AVAILABLE"
        PROVE  bbq' = next.b /\ producer' = Wait("acquire", f) /\ held' = held
    BY <2>2 DEF AcquireForSync
  <2>3. ASSUME next.status = "NULL_TRANSACTION"
        PROVE  bbq' = next.b /\ producer' = Wait("crashed", f) /\ held' = held
    BY <2>3 DEF AcquireForSync
  <2> QED BY <2>1, <2>2, <2>3
<1>2. b \in BlastState BY DEF Safe
<1>3. b.mNumFrameAvailable \in Nat /\ b.mNumAcquired \in Nat BY <1>2 DEF BlastState
<1>4. \/ next.b = b /\ next.status = "NO_BUFFER_AVAILABLE"
      \/ next.b = kept /\ next.status = "NO_BUFFER_AVAILABLE"
      \/ /\ kept.mNumFrameAvailable # 0
         /\ ~(b.mNumAcquired >= mMaxAcquiredBuffers + 2)
         /\ IF b.mSyncTransaction = <<>>
            THEN next.b = AcquireHead(kept) /\ next.status = "NULL_TRANSACTION"
            ELSE /\ next.b = FillSync(AcquireHead(kept), Head(kept.queue))
                 /\ next.status = "OK"
  BY <1>2, AcquireNextCases
<1> HIDE DEF next
<1>5. kept \in Safe(f, 0, {f}, out, top, S, 1) /\ SameSync(b, kept)
  <2>1. n \in 0 .. b.mNumFrameAvailable BY <1>3, RejectedInRange
  <2>2. 0 \in Nat /\ 1 \in Nat BY SMT
  <2> HIDE DEF n
  <2> QED BY <2>1, <2>2, SkipKeeps
<1> HIDE DEF kept
<1>6. out \in SUBSET Transaction BY RangeTyped
<1> HIDE DEF out
<1>7. /\ \A at \in {"acquire", "crashed"} :
            Wait(at, f) \in ProducerState /\ Wait(at, f).frame = f /\ Wait(at, f).at = at
      /\ Late(Wait("acquire", f)) = 0 /\ Wanted(Wait("acquire", f)) = {f}
      /\ Late(Wait("crashed", f)) = 0 /\ Wanted(Wait("crashed", f)) = {}
  BY ProducerAt, SMT
<1>8. ASSUME NEW c \in Safe(f, 0, {f}, out, top, S, 1)
      PROVE  Fits(c, Wait("acquire", f), held, f, freed, arrived, top)
  <2> DEFINE p == Wait("acquire", f)
  <2>1. p \in ProducerState /\ p.frame = f /\ Late(p) = 0 /\ Wanted(p) = {f} BY <1>7
  <2> HIDE DEF p
  <2>2. c \in Safe(f, Late(p), Wanted(p), Range(held) \cup arrived, top, S, 1)
    BY <2>1 DEF out
  <2>3. Fits(c, p, held, f, freed, arrived, top) BY <2>1, <2>2, ToFits
  <2> QED BY <2>3 DEF p
<1>9. CASE next.b = b /\ next.status = "NO_BUFFER_AVAILABLE"
  BY <1>1, <1>8, <1>9 DEF out
<1>10. CASE next.b = kept /\ next.status = "NO_BUFFER_AVAILABLE"
  BY <1>1, <1>5, <1>8, <1>10
<1>11. ASSUME kept.mNumFrameAvailable # 0, ~(b.mNumAcquired >= mMaxAcquiredBuffers + 2)
       PROVE  /\ kept.mNumFrameAvailable > 0 /\ kept.mNumAcquired < mMaxAcquiredBuffers + 2
              /\ kept.mSyncTransaction = b.mSyncTransaction /\ Head(kept.queue) = f
  <2>1. kept.mNumFrameAvailable \in Nat BY <1>5 DEF Safe, BlastState
  <2>2. PICK k \in Nat : k = kept.mNumFrameAvailable BY <2>1
  <2>3. PICK l \in Nat : l = b.mNumAcquired BY <1>3
  <2>4. k > 0 /\ l < mMaxAcquiredBuffers + 2 BY <1>11, <2>2, <2>3, BlastAssumption, SMT
  <2>5. kept.mNumAcquired = b.mNumAcquired /\ kept.mSyncTransaction = b.mSyncTransaction
    BY <1>5 DEF SameSync
  <2>6. kept.mNumFrameAvailable > 0 BY <2>2, <2>4
  <2>7. Head(kept.queue) = f BY <1>5, <2>6, HeadWanted
  <2> QED BY <2>3, <2>4, <2>5, <2>6, <2>7
<1>12. CASE /\ kept.mNumFrameAvailable # 0
            /\ ~(b.mNumAcquired >= mMaxAcquiredBuffers + 2)
            /\ b.mSyncTransaction = <<>>
            /\ next.b = AcquireHead(kept) /\ next.status = "NULL_TRANSACTION"
  <2> DEFINE p == Wait("crashed", f)
             a == AcquireHead(kept)
  <2>1. /\ p \in ProducerState /\ p.frame = f /\ p.at = "crashed"
        /\ Late(p) = 0 /\ Wanted(p) = {}
    BY <1>7
  <2>2. bbq' = a /\ producer' = p /\ held' = held BY <1>1, <1>12
  <2>3. a \in Safe(f, 0, {}, out, top, S, 1)
    BY <1>5, <1>6, <1>11, <1>12, NullSyncKeeps
  <2> HIDE DEF p, a
  <2>4. a \in Safe(f, Late(p), Wanted(p), Range(held) \cup arrived, top, S, 1)
    BY <2>1, <2>3 DEF out
  <2>5. Fits(a, p, held, f, freed, arrived, top) BY <2>1, <2>4, ToFits
  <2> QED BY <2>2, <2>5
<1>13. CASE /\ kept.mNumFrameAvailable # 0
            /\ ~(b.mNumAcquired >= mMaxAcquiredBuffers + 2)
            /\ b.mSyncTransaction # <<>>
            /\ next.b = FillSync(AcquireHead(kept), Head(kept.queue))
            /\ next.status = "OK"
  <2>1. FinishSync(FillSync(AcquireHead(kept), f)) BY <1>1, <1>11, <1>13
  <2>2. kept \in Safe(f, 0, {f}, Range(held) \cup arrived, top, S, 1) BY <1>5 DEF out
  <2> QED BY <1>11, <1>13, <2>1, <2>2, FinishSyncFits
<1> QED BY <1>4, <1>9, <1>10, <1>12, <1>13

\* The queued frame counts as available.
Announce(b) == [b EXCEPT !.mNumFrameAvailable = @ + 1]

Announced(b, c) ==
    /\ c.mNumFrameAvailable = b.mNumFrameAvailable + 1
    /\ c.mSyncedFrameNumbers = b.mSyncedFrameNumbers

\* No queued frame is late any more.
LEMMA AnnounceKeeps ==
  ASSUME NEW last \in Nat, NEW wanted, NEW out, NEW top, NEW S, NEW m,
         NEW b \in Safe(last, 1, wanted, out, top, S, m)
  PROVE  /\ Announce(b) \in Safe(last, 0, wanted, out, top, S, m)
         /\ Announced(b, Announce(b))
<1> DEFINE c == Announce(b)
           k == b.mNumFrameAvailable + 1
<1>1. /\ b \in BlastState /\ Client(b, last, 1, wanted, out, top)
      /\ S \subseteq Spare(b, last, out, top)
      /\ Range(b.mPendingRelease) \subseteq S /\ Len(b.queue) <= m
  BY DEF Safe
<1>2. b.mNumFrameAvailable \in Nat /\ b.queue \in Seq(Nat) BY <1>1 DEF BlastState
<1>3. k \in Nat /\ Fifo(b.queue, k, last, 0)
  <2>1. Fifo(b.queue, b.mNumFrameAvailable, last, 1) BY <1>1 DEF Client
  <2>2. k \in Nat BY <1>2, SMT
  <2>3. b.mNumFrameAvailable + 1 = Len(b.queue) BY <2>1 DEF Fifo
  <2>4. k + 0 = Len(b.queue) BY <2>2, <2>3, SMT
  <2> QED BY <2>1, <2>2, <2>4 DEF Fifo
<1>4. c = [b EXCEPT !.mNumFrameAvailable = k] BY DEF Announce
<1> HIDE DEF c, k
<1>5. c \in BlastState BY <1>1, <1>3, <1>4 DEF BlastState
<1>6. /\ c.queue = b.queue /\ c.mNumFrameAvailable = k
      /\ c.mNumAcquired = b.mNumAcquired /\ c.mSubmitted = b.mSubmitted
      /\ c.mPendingRelease = b.mPendingRelease
      /\ c.mSyncedFrameNumbers = b.mSyncedFrameNumbers
      /\ c.mLastAppliedFrameNumber = b.mLastAppliedFrameNumber
      /\ c.mTransactionReadyCallback = b.mTransactionReadyCallback
      /\ c.sent = b.sent /\ c.mSyncTransaction = b.mSyncTransaction
  BY <1>1, <1>4 DEF BlastState
<1>7. Filled(c) = Filled(b) /\ Transactions(c, out) = Transactions(b, out)
  BY <1>6, SameTransactions
<1>8. Client(c, last, 0, wanted, out, top) BY <1>1, <1>3, <1>5, <1>6, <1>7 DEF Client
<1>9. S \subseteq Spare(c, last, out, top) BY <1>1, <1>6, <1>7 DEF Spare
<1>10. c \in Safe(last, 0, wanted, out, top, S, m) BY <1>1, <1>5, <1>6, <1>8, <1>9 DEF Safe
<1>11. Announced(b, c) BY <1>6 DEF Announced, k
<1> QED BY <1>10, <1>11 DEF c

\* It becomes a synced frame that the producer wants.
Want(b, f) == [b EXCEPT !.mSyncedFrameNumbers = @ \cup {f}]

\* The synced frame is the one wanted, alone in the FIFO.
LEMMA WantKeeps ==
  ASSUME NEW f \in Nat, NEW out, NEW top, NEW S, NEW m,
         NEW b \in Safe(f, 0, {}, out, top, S, m), b.mNumFrameAvailable = 1
  PROVE  Want(b, f) \in Safe(f, 0, {f}, out, top, S, 1)
<1> DEFINE c == Want(b, f)
           N == b.mSyncedFrameNumbers \cup {f}
<1>1. /\ b \in BlastState /\ Client(b, f, 0, {}, out, top)
      /\ S \subseteq Spare(b, f, out, top) /\ Range(b.mPendingRelease) \subseteq S
  BY DEF Safe
<1>2. /\ b.queue \in Seq(Nat) /\ N \in SUBSET Nat BY <1>1 DEF BlastState
<1>3. Len(b.queue) <= 1
  <2>1. b.mNumFrameAvailable + 0 = Len(b.queue) BY <1>1 DEF Client, Fifo
  <2>2. 1 + 0 = Len(b.queue) BY <2>1
  <2>3. 1 + 0 <= 1 BY SMT
  <2> QED BY <2>2, <2>3
<1>4. c = [b EXCEPT !.mSyncedFrameNumbers = N] BY DEF Want
<1> HIDE DEF c
<1>5. c \in BlastState BY <1>1, <1>2, <1>4 DEF BlastState
<1>6. /\ c.queue = b.queue /\ c.mNumFrameAvailable = b.mNumFrameAvailable
      /\ c.mNumAcquired = b.mNumAcquired /\ c.mSubmitted = b.mSubmitted
      /\ c.mPendingRelease = b.mPendingRelease
      /\ c.mSyncedFrameNumbers = N
      /\ c.mLastAppliedFrameNumber = b.mLastAppliedFrameNumber
      /\ c.mTransactionReadyCallback = b.mTransactionReadyCallback
      /\ c.sent = b.sent /\ c.mSyncTransaction = b.mSyncTransaction
  BY <1>1, <1>4 DEF BlastState
<1>7. Filled(c) = Filled(b) /\ Transactions(c, out) = Transactions(b, out)
  BY <1>6, SameTransactions
<1>8. Synced(N, b.mSubmitted, {f}, Range(b.queue)) BY <1>1 DEF Client, Synced
<1>9. Barred(Transactions(b, out), N, b.mLastAppliedFrameNumber)
  BY <1>1 DEF Client, Barred
<1> HIDE DEF N
<1>10. Client(c, f, 0, {f}, out, top) BY <1>1, <1>5, <1>6, <1>7, <1>8, <1>9 DEF Client
<1>11. S \subseteq Spare(c, f, out, top) BY <1>1, <1>6, <1>7 DEF Spare
<1> QED BY <1>1, <1>3, <1>5, <1>6, <1>10, <1>11 DEF Safe, c

\* acquireAndReleaseBuffer skips one buffer.
LEMMA AcquireAndReleaseKeeps ==
  ASSUME NEW last \in Nat, NEW late \in Nat, NEW wanted, NEW out, NEW top, NEW S,
         NEW m \in Nat, NEW b \in Safe(last, late, wanted, out, top, S, m),
         b.mNumFrameAvailable >= 2
  PROVE  acquireAndReleaseBuffer(b) \in Safe(last, late, wanted, out, top, S, m)
<1>1. b \in BlastState BY DEF Safe
<1>2. b.queue \in Seq(Nat) /\ b.mNumFrameAvailable \in Nat BY <1>1 DEF BlastState
<1>3. 1 \in 0 .. b.mNumFrameAvailable BY <1>2, SMT
<1>4. Skip(b, 1) \in Safe(last, late, wanted, out, top, S, m) BY <1>3, SkipKeeps
<1>5. CanAcquire(b) => Tail(b.queue) = SubSeq(b.queue, 1 + 1, Len(b.queue))
  BY <1>2, SMT DEF CanAcquire
<1>6. acquireAndReleaseBuffer(b) = b \/ acquireAndReleaseBuffer(b) = Skip(b, 1)
  BY <1>5 DEF acquireAndReleaseBuffer, Skip
<1> QED BY <1>4, <1>6

\* onFrameAvailable once the shadow queue is empty enough.
LEMMA ArriveFits ==
  ASSUME NEW f \in Nat, NEW arrived \in SUBSET Transaction, NEW top \in Nat,
         NEW S, NEW m \in Nat, held \in Seq(Transaction), HeldOK(held, arrived),
         NEW freed, freed \subseteq S,
         NEW b \in Safe(f, 1, {}, Range(held) \cup arrived, top, S, m),
         NEW sync \in BOOLEAN, NEW wait \in BOOLEAN,
         sync => b.mNumFrameAvailable = 0,
         ~sync /\ ~wait => b.mSyncedFrameNumbers = {},
         Arrive(b, f, sync, wait)
  PROVE  Fits(bbq', producer', held', f, freed, arrived, top)
<1> DEFINE out == Range(held) \cup arrived
           shown == IF wait /\ Announce(b).mNumFrameAvailable >= 2
                    THEN acquireAndReleaseBuffer(Announce(b)) ELSE Announce(b)
<1>1. Announce(b) \in Safe(f, 0, {}, out, top, S, m) /\ Announced(b, Announce(b))
  BY AnnounceKeeps
<1>2. IF sync THEN AcquireForSync(Want(shown, f), f)
      ELSE /\ bbq' = IF wait THEN shown ELSE AcquireNext(shown)
           /\ producer' = Idle /\ held' = held
  BY DEF Arrive, Announce, Want
<1>x. out \in SUBSET Transaction BY RangeTyped
<1> HIDE DEF out
<1>3. CASE sync
  <2>1. Announce(b).mNumFrameAvailable = 1 BY <1>1, <1>3, SMT DEF Announced
  <2>2. shown = Announce(b) BY <2>1, SMT
  <2> HIDE DEF shown
  <2>3. Want(shown, f) \in Safe(f, 0, {f}, out, top, S, 1) BY <1>1, <2>1, <2>2, WantKeeps
  <2>4. AcquireForSync(Want(shown, f), f) BY <1>2, <1>3
  <2> QED BY <2>3, <2>4, AcquireForSyncFits DEF out
<1>4. CASE ~sync
  <2>1. shown \in Safe(f, 0, {}, out, top, S, m) BY <1>1, AcquireAndReleaseKeeps, 0 \in Nat
  <2>2. ~wait => shown.mSyncedFrameNumbers = {} BY <1>1, <1>4 DEF Announced
  <2> HIDE DEF shown
  <2>3. ASSUME ~wait PROVE AcquireNext(shown) \in Safe(f, 0, {}, out, top, S, m)
    BY <1>x, <2>1, <2>2, <2>3, AcquireNextKeeps, 0 \in Nat
  <2>4. bbq' \in Safe(f, 0, {}, out, top, S, m) /\ producer' = Idle /\ held' = held
    BY <1>2, <1>4, <2>1, <2>3
  <2>5. /\ producer' \in ProducerState /\ producer'.at = "idle"
        /\ Late(producer') = 0 /\ Wanted(producer') = {}
    BY <2>4, ProducerAt
  <2>6. bbq' \in Safe(f, Late(producer'), Wanted(producer'), Range(held') \cup arrived,
                     top, S, m)
    BY <2>4, <2>5 DEF out
  <2>7. held' \in Seq(Transaction) /\ HeldOK(held', arrived) BY <2>4
  <2> QED BY <2>5, <2>6, <2>7, ToFits
<1> QED BY <1>3, <1>4

\* From the client to the queue; a frame being acquired is alone in the FIFO.
Longest(b, p) == IF p.at = "acquire" THEN 1 ELSE Len(b.queue)

\* A client that fits is safe, for the frames about to be released.
LEMMA FromFits ==
  ASSUME NEW b, NEW p, NEW h, NEW last, NEW freed, NEW arrived, NEW top,
         Fits(b, p, h, last, freed, arrived, top)
  PROVE  /\ b \in Safe(last, Late(p), Wanted(p), Range(h) \cup arrived, top,
                      Range(b.mPendingRelease) \cup freed, Longest(b, p))
         /\ Longest(b, p) \in Nat /\ Late(p) \in Nat
         /\ p \in ProducerState /\ h \in Seq(Transaction) /\ HeldOK(h, arrived)
<1>1. /\ b \in BlastState /\ p \in ProducerState /\ h \in Seq(Transaction) /\ HeldOK(h, arrived)
      /\ Client(b, last, Late(p), Wanted(p), Range(h) \cup arrived, top)
      /\ Range(b.mPendingRelease) \cup freed
            \subseteq Spare(b, last, Range(h) \cup arrived, top)
      /\ p.at = "acquire" => Len(b.queue) <= 1
  BY DEF Fits, Client
<1>2. b.queue \in Seq(Nat) BY <1>1 DEF BlastState
<1>3. Len(b.queue) \in Nat /\ Len(b.queue) <= Len(b.queue) /\ 0 \in Nat /\ 1 \in Nat
  BY <1>2, SMT
<1>4. Len(b.queue) <= Longest(b, p) /\ Longest(b, p) \in Nat BY <1>1, <1>3 DEF Longest
<1>5. Late(p) \in Nat BY <1>3 DEF Late
<1> QED BY <1>1, <1>4, <1>5 DEF Safe

\* A frame is queued.
Enqueue(b, f) == [b EXCEPT !.queue = Append(@, f)]

Longer(p, q, a, last) ==
    /\ p \in Seq(Nat) /\ Fifo(p, a, last + 1, 1) /\ Len(p) = Len(q) + 1
    /\ Before(p, last + 1) = Before(q, last)

\* The FIFO with the next frame, which does not count as available yet.
LEMMA FifoAppend ==
  ASSUME NEW q \in Seq(Nat), NEW a \in Nat, NEW last \in Nat, Fifo(q, a, last, 0)
  PROVE  Longer(Append(q, last + 1), q, a, last)
<1> DEFINE p == Append(q, last + 1)
<1>1. PICK l \in Nat : l = Len(q) BY SMT
<1>2. p \in Seq(Nat) /\ Len(p) = l + 1 BY <1>1, SMT
<1>3. l <= last /\ a = l /\ \A i \in 1 .. l : q[i] = last - l + i
  <2>1. l <= last /\ a + 0 = l /\ \A i \in 1 .. l : q[i] = last - l + i
    BY <1>1 DEF Fifo
  <2>2. a + 0 = a BY SMT
  <2> QED BY <2>1, <2>2
<1>4. \A i \in 1 .. l : p[i] = q[i] BY <1>1, SMT
<1>5. p[l + 1] = last + 1 BY <1>1, SMT
<1> HIDE DEF p
<1>6. \A i \in 1 .. l + 1 : p[i] = (last + 1) - (l + 1) + i
  <2>1. SUFFICES ASSUME NEW i \in 1 .. l + 1 PROVE p[i] = (last + 1) - (l + 1) + i
    OBVIOUS
  <2>2. CASE i = l + 1 BY <1>5, <2>2, SMT
  <2>3. CASE i \in 1 .. l
    <3>1. p[i] = last - l + i BY <1>3, <1>4, <2>3
    <3>2. last - l + i = (last + 1) - (l + 1) + i BY <2>3, SMT
    <3> QED BY <3>1, <3>2
  <2> QED BY <2>2, <2>3, SMT
<1>7. l + 1 <= last + 1 /\ a + 1 = l + 1 BY <1>3, SMT
<1>8. Fifo(p, a, last + 1, 1) BY <1>2, <1>6, <1>7 DEF Fifo
<1>9. (last + 1) - (l + 1) = last - l BY SMT
<1>10. Before(p, last + 1) = Before(q, last) BY <1>1, <1>2, <1>9 DEF Before
<1> QED BY <1>1, <1>2, <1>8, <1>10 DEF Longer, p

\* Queueing the next frame is safe; the frame is late.
LEMMA EnqueueKeeps ==
  ASSUME NEW last \in Nat, NEW out, NEW top, NEW S, NEW m \in Nat,
         NEW b \in Safe(last, 0, {}, out, top, S, m)
  PROVE  /\ Enqueue(b, last + 1) \in Safe(last + 1, 1, {}, out, top, S, m + 1)
         /\ SameSync(b, Enqueue(b, last + 1))
<1> DEFINE c == Enqueue(b, last + 1)
           q == Append(b.queue, last + 1)
<1>1. /\ b \in BlastState /\ Client(b, last, 0, {}, out, top)
      /\ S \subseteq Spare(b, last, out, top)
      /\ Range(b.mPendingRelease) \subseteq S /\ Len(b.queue) <= m
  BY DEF Safe
<1>2. b.queue \in Seq(Nat) /\ b.mNumFrameAvailable \in Nat BY <1>1 DEF BlastState
<1>3. Fifo(b.queue, b.mNumFrameAvailable, last, 0) BY <1>1 DEF Client
<1>4. /\ q \in Seq(Nat) /\ Fifo(q, b.mNumFrameAvailable, last + 1, 1)
      /\ Len(q) = Len(b.queue) + 1 /\ Before(q, last + 1) = Before(b.queue, last)
  BY <1>2, <1>3, FifoAppend DEF Longer
<1>5. c = [b EXCEPT !.queue = q] BY DEF Enqueue
<1> HIDE DEF c, q
<1>6. c \in BlastState BY <1>1, <1>4, <1>5 DEF BlastState
<1>7. /\ c.queue = q /\ c.mNumFrameAvailable = b.mNumFrameAvailable
      /\ c.mNumAcquired = b.mNumAcquired /\ c.mSubmitted = b.mSubmitted
      /\ c.mPendingRelease = b.mPendingRelease
      /\ c.mSyncedFrameNumbers = b.mSyncedFrameNumbers
      /\ c.mLastAppliedFrameNumber = b.mLastAppliedFrameNumber
      /\ c.mTransactionReadyCallback = b.mTransactionReadyCallback
      /\ c.mAcquireSingleBuffer = b.mAcquireSingleBuffer
      /\ c.sent = b.sent /\ c.mSyncTransaction = b.mSyncTransaction
  BY <1>1, <1>5 DEF BlastState
<1>8. Filled(c) = Filled(b) /\ Transactions(c, out) = Transactions(b, out)
  BY <1>7, SameTransactions
<1>9. Synced(b.mSyncedFrameNumbers, b.mSubmitted, {}, Range(q)) BY <1>1 DEF Client, Synced
<1>10. Client(c, last + 1, 1, {}, out, top)
  BY <1>1, <1>4, <1>6, <1>7, <1>8, <1>9 DEF Client
<1>11. S \subseteq Spare(c, last + 1, out, top) BY <1>1, <1>4, <1>7, <1>8 DEF Spare
<1>12. Len(q) <= m + 1
  <2>1. PICK l \in Nat : l = Len(b.queue) BY <1>2, SMT
  <2>2. l + 1 <= m + 1 BY <1>1, <2>1, SMT
  <2> QED BY <1>4, <2>1, <2>2
<1>13. c \in Safe(last + 1, 1, {}, out, top, S, m + 1)
  BY <1>1, <1>6, <1>7, <1>10, <1>11, <1>12 DEF Safe
<1> QED BY <1>7, <1>13 DEF c, SameSync

\* A continuous sync gives back the buffer of its transaction t: no other
\* transaction has it.
LEMMA SyncFrameSpare ==
  ASSUME NEW b, NEW last \in Nat, NEW late, NEW wanted, NEW out \in SUBSET Transaction,
         NEW top \in Nat, Client(b, last, late, wanted, out, top), NEW t \in Filled(b)
  PROVE  t.frame \in Before(b.queue, last) \ InUse(out \cup Range(b.sent), top)
<1> DEFINE T == Transactions(b, out)
<1>1. b \in BlastState BY DEF Client
<1>2. /\ T \in SUBSET Transaction /\ Range(b.sent) \subseteq T /\ out \subseteq T
      /\ Filled(b) \subseteq T
  BY <1>1, TransactionsTyped DEF Transactions
<1> HIDE DEF T
<1>3. /\ Used(T, b.mSubmitted, top) /\ b.mSubmitted \subseteq Before(b.queue, last)
      /\ Barred(T, b.mSyncedFrameNumbers, b.mLastAppliedFrameNumber)
      /\ Ahead(out, Filled(b)) /\ \A u \in Range(b.sent) : u.token = OwnToken
      /\ t.token = SyncToken /\ t.frame # 0
  BY DEF Client, Counted, Sent, Syncing, Filled, Ahead, T
<1>4. t.frame \in Before(b.queue, last) BY <1>2, <1>3 DEF Used, InUse
<1>5. PICK f \in Nat : f = t.frame BY <1>2, FramesTyped
<1>6. \A n \in Nat : n < f => n # f BY SMT
<1>7. top # f
  <2>1. top < f BY <1>2, <1>3, <1>5 DEF Used
  <2> QED BY <1>6, <2>1
<1>8. ASSUME NEW u \in out \cup Range(b.sent) PROVE u.frame # f
  <2>1. u \in T /\ u.frame \in Nat BY <1>2, FramesTyped
  <2>2. CASE u.token = OwnToken
    <3>1. u.frame < f BY <1>2, <1>3, <1>5, <2>1, <2>2 DEF Barred
    <3> QED BY <1>6, <2>1, <3>1
  <2>3. CASE u.token = SyncToken
    <3>1. u \in out BY <1>3, <2>3, BlastAssumption
    <3>2. u.frame < f BY <1>3, <1>5, <2>3, <3>1 DEF Ahead
    <3> QED BY <1>6, <2>1, <3>2
  <2>4. u.token \in {OwnToken, SyncToken} BY <1>3, <2>1 DEF Used
  <2> QED BY <2>2, <2>3, <2>4
<1> QED BY <1>4, <1>5, <1>7, <1>8 DEF InUse

\* GetAndClearBuffer (the start of onFrameAvailable in a sync) is safe.
LEMMA ClearBufferKeeps ==
  ASSUME NEW last \in Nat, NEW late \in Nat, NEW out \in SUBSET Transaction,
         NEW top \in Nat, NEW S, NEW m \in Nat,
         NEW b \in Safe(last, late, {}, out, top, S, m),
         b.mTransactionReadyCallback = TRUE
  PROVE  \E R : /\ S \subseteq R
                /\ GetAndClearBuffer(b) \in Safe(last, late, {}, out, top, R, m)
<1> DEFINE q == b.mSyncTransaction
           t == q[1]
           u == [t EXCEPT !.frame = 0]
           c == [b EXCEPT !.mSyncTransaction[1].frame = 0,
                          !.mReleaseBufferCallbacks = @ \ {t.frame}]
           R == S \cup {t.frame}
<1>1. GetAndClearBuffer(b) = IF b.mAcquireSingleBuffer \/ t.frame = 0 THEN b
                             ELSE releaseBuffer(c, t.frame)
  BY DEF GetAndClearBuffer
<1>2. CASE b.mAcquireSingleBuffer \/ t.frame = 0 BY <1>1, <1>2
<1>3. CASE t.frame # 0
  <2>1. /\ b \in BlastState /\ Client(b, last, late, {}, out, top)
        /\ S \subseteq Spare(b, last, out, top)
        /\ Range(b.mPendingRelease) \subseteq S /\ Len(b.queue) <= m
    BY DEF Safe
  <2>2. q \in Seq(Transaction) /\ Syncing(q, TRUE) BY <2>1 DEF BlastState, Client
  <2>3. Len(q) = 1 BY <2>2 DEF Syncing
  <2>4. t \in Transaction /\ t \in Range(q) /\ t.token = SyncToken
    <3>1. 1 \in 1 .. Len(q) BY <2>3, SMT
    <3>2. t \in Range(q) /\ Range(q) \subseteq Transaction BY <2>2, <3>1, RangeTyped
    <3> QED BY <2>2, <3>2 DEF Syncing
  <2>5. t \in Filled(b) BY <1>3, <2>4 DEF Filled
  <2>6. u \in Transaction /\ u.frame = 0 /\ u.token = SyncToken
    <3>1. 0 \in Nat BY SMT
    <3> QED BY <2>4, <3>1 DEF Transaction
  <2>7. c = [b EXCEPT !.mSyncTransaction = <<u>>,
                      !.mReleaseBufferCallbacks = @ \ {t.frame}]
    <3> DEFINE d == [q EXCEPT ![1].frame = 0]
    <3>1. d = [q EXCEPT ![1] = u] OBVIOUS
    <3>2. [q EXCEPT ![1] = u] = <<u>> BY <2>2, <2>3, SMT
    <3>3. c = [b EXCEPT !.mSyncTransaction = d, !.mReleaseBufferCallbacks = @ \ {t.frame}]
      OBVIOUS
    <3> HIDE DEF d, c, u, t
    <3> QED BY <3>1, <3>2, <3>3
  <2> HIDE DEF q, t, u, c
  <2>8. <<u>> \in Seq(Transaction) BY <2>6, SMT
  <2>9. SameQueue(b, c) /\ c.mSyncTransaction = <<u>> /\ c.mTransactionReadyCallback = TRUE
    <3>1. c \in BlastState BY <2>1, <2>7, <2>8 DEF BlastState
    <3> QED BY <2>1, <2>7, <3>1 DEF BlastState, SameQueue
  <2> DEFINE U == out \cup Range(b.sent)
             T == Transactions(b, out)
  <2>10. Filled(c) = {} /\ Syncing(<<u>>, TRUE)
    <3>1. Range(<<u>>) = {u} /\ Len(<<u>>) = 1
      <4> DEFINE l == <<u>>
      <4>1. DOMAIN l = {1} /\ l[1] = u /\ Len(l) = 1 BY SMT
      <4> HIDE DEF l
      <4>2. Range(l) = {u} BY <4>1 DEF Range
      <4> QED BY <4>1, <4>2 DEF l
    <3> QED BY <2>6, <2>9, <3>1 DEF Filled, Syncing
  <2>11. Transactions(c, out) \subseteq U /\ U \subseteq T
    BY <2>9, <2>10 DEF Transactions, SameQueue
  <2>12. t.frame \in Before(b.queue, last) \ InUse(U, top)
    BY <2>1, <2>5, SyncFrameSpare
  <2> HIDE DEF U
  <2>13. /\ Used(U, b.mSubmitted, top) /\ InUse(U, top) \subseteq InUse(T, top)
         /\ Barred(U, b.mSyncedFrameNumbers, b.mLastAppliedFrameNumber)
    <3>1. /\ Used(T, b.mSubmitted, top)
          /\ Barred(T, b.mSyncedFrameNumbers, b.mLastAppliedFrameNumber)
      BY <2>1 DEF Client
    <3> HIDE DEF T
    <3> QED BY <2>11, <3>1, FewerUsed, FewerBarred
  <2>14. R \subseteq Before(b.queue, last) \ InUse(U, top)
    BY <2>1, <2>12, <2>13 DEF Spare
  <2>15. Sent(b.sent, Filled(c), out) BY <2>1, <2>10 DEF Client, Sent, Ahead
  <2>16. /\ Fifo(b.queue, b.mNumFrameAvailable, last, late)
         /\ Counted(b.mSubmitted, b.mNumAcquired, Before(b.queue, last))
         /\ Synced(b.mSyncedFrameNumbers, b.mSubmitted, {}, Range(b.queue))
    BY <2>1 DEF Client
  <2>17. Syncing(c.mSyncTransaction, c.mTransactionReadyCallback) BY <2>9, <2>10
  <2>18. Range(b.mPendingRelease) \subseteq R BY <2>1
  <2>19. S \subseteq R /\ t.frame \in R OBVIOUS
  <2> HIDE DEF R, T
  <2>20. c \in Safe(last, late, {}, out, top, R, m)
    BY <2>1, <2>9, <2>11, <2>13, <2>14, <2>15, <2>16, <2>17, <2>18, ClientOf
  <2>21. releaseBuffer(c, t.frame) \in Safe(last, late, {}, out, top, R, m)
    BY <2>19, <2>20, ReleaseKeeps
  <2>22. CASE b.mAcquireSingleBuffer BY <1>2, <2>22
  <2>23. CASE ~b.mAcquireSingleBuffer
    <3>1. GetAndClearBuffer(b) = releaseBuffer(c, t.frame) BY <1>1, <1>3, <2>23
    <3> QED BY <2>19, <2>21, <3>1
  <2> QED BY <2>22, <2>23
<1> QED BY <1>2, <1>3

\* The shadow queue is emptied before the frame of a sync is announced.
Emptied(b) ==
    [b EXCEPT !.queue = SubSeq(@, b.mNumFrameAvailable + 1, Len(@)),
              !.mNumFrameAvailable = 0]

\* Emptying the shadow queue is safe.
LEMMA EmptyKeeps ==
  ASSUME NEW last \in Nat, NEW late \in Nat, NEW out, NEW top, NEW S, NEW m \in Nat,
         NEW b \in Safe(last, late, {}, out, top, S, m)
  PROVE  Emptied(b) \in Safe(last, late, {}, out, top, S, m)
<1> DEFINE n == b.mNumFrameAvailable
<1>1. b \in BlastState BY DEF Safe
<1>2. n \in Nat BY <1>1 DEF BlastState
<1>3. n - n = 0 /\ n \in 0 .. n BY <1>2, SMT
<1>4. Skip(b, n) = Emptied(b) BY <1>3 DEF Skip, Emptied
<1>5. Skip(b, n) \in Safe(last, late, {}, out, top, S, m) BY <1>3, SkipKeeps
<1> QED BY <1>4, <1>5

\* queueBuffer and onFrameAvailable.
LEMMA OnFrameAvailableFits ==
  ASSUME lastFrame \in Nat, NEW arrived \in SUBSET Transaction, NEW top \in Nat, NEW freed,
         Fits(bbq, producer, held, lastFrame, freed, arrived, top), onFrameAvailable
  PROVE  Fits(bbq', producer', held', lastFrame', freed, arrived, top)
<1> DEFINE f      == lastFrame + 1
           queued == Enqueue(bbq, f)
           wait   == bbq.mSyncedFrameNumbers # {}
           sync   == bbq.mTransactionReadyCallback
           b      == GetAndClearBuffer(queued)
           spins  == b.mNumFrameAvailable > 0 /\ ~CanAcquire(b)
           empty  == Emptied(b)
           out    == Range(held) \cup arrived
           S      == Range(bbq.mPendingRelease) \cup freed
           l      == Longest(bbq, producer)
<1>1. /\ producer = Idle /\ lastFrame' = f
      /\ IF ~sync THEN Arrive(queued, f, FALSE, wait)
         ELSE IF wait /\ spins
         THEN bbq' = b /\ producer' = Wait("spinning", f) /\ held' = held
         ELSE IF wait THEN Arrive(empty, f, TRUE, TRUE)
         ELSE IF b.mNumFrameAvailable > 0
         THEN bbq' = b /\ producer' = Wait("drain", f) /\ held' = held
         ELSE Arrive(b, f, TRUE, FALSE)
  BY DEF onFrameAvailable, Enqueue, Emptied
<1>2. /\ bbq \in Safe(lastFrame, 0, {}, out, top, S, l) /\ l \in Nat
      /\ held \in Seq(Transaction) /\ HeldOK(held, arrived) /\ bbq \in BlastState
  <2>1. /\ bbq \in Safe(lastFrame, Late(producer), Wanted(producer), out, top, S, l)
        /\ l \in Nat /\ held \in Seq(Transaction) /\ HeldOK(held, arrived)
    BY FromFits
  <2>2. Late(producer) = 0 /\ Wanted(producer) = {} BY <1>1, ProducerAt
  <2> QED BY <2>1, <2>2 DEF Safe
<1>3. out \in SUBSET Transaction BY <1>2, RangeTyped
<1>4. f \in Nat /\ l + 1 \in Nat /\ 0 \in Nat /\ 1 \in Nat BY <1>2, SMT
<1>5. sync \in BOOLEAN BY <1>2 DEF BlastState
<1> HIDE DEF S, l
<1>6. queued \in Safe(f, 1, {}, out, top, S, l + 1) /\ SameSync(bbq, queued)
  BY <1>2, EnqueueKeeps
<1> HIDE DEF f, queued
<1>7. freed \subseteq S BY DEF S
<1>8. ASSUME NEW at \in {"drain", "spinning"}, NEW R, S \subseteq R,
             b \in Safe(f, 1, {}, out, top, R, l + 1),
             bbq' = b, producer' = Wait(at, f), held' = held
      PROVE  Fits(bbq', producer', held', f, freed, arrived, top)
  <2> DEFINE p == Wait(at, f)
  <2>1. /\ p \in ProducerState /\ p.frame = f /\ p.at = at
        /\ Late(p) = 1 /\ Wanted(p) = {} /\ p.at # "acquire"
    BY <1>4, ProducerAt, SMT
  <2> HIDE DEF p, b
  <2>2. b \in Safe(f, Late(p), Wanted(p), Range(held) \cup arrived, top, R, l + 1)
    BY <1>8, <2>1 DEF out
  <2>3. freed \subseteq R BY <1>7, <1>8
  <2>4. Fits(b, p, held, f, freed, arrived, top) BY <1>2, <2>1, <2>2, <2>3, ToFits
  <2> QED BY <1>8, <2>4 DEF p
<1>9. CASE ~sync
  <2>1. Arrive(queued, f, FALSE, wait) BY <1>1, <1>9
  <2>2. ~wait => queued.mSyncedFrameNumbers = {} BY <1>6 DEF SameSync
  <2>3. wait \in BOOLEAN /\ FALSE \in BOOLEAN OBVIOUS
  <2> HIDE DEF wait
  <2> QED BY <1>1, <1>2, <1>4, <1>6, <1>7, <2>1, <2>2, <2>3, ArriveFits, ZenonT(30) DEF out
<1>10. CASE sync
  <2>1. queued.mTransactionReadyCallback = TRUE BY <1>5, <1>6, <1>10 DEF SameSync
  <2>2. PICK R : S \subseteq R /\ b \in Safe(f, 1, {}, out, top, R, l + 1)
    BY <1>3, <1>4, <1>6, <2>1, ClearBufferKeeps
  <2>3. freed \subseteq R BY <1>7, <2>2
  <2>4. b.mNumFrameAvailable \in Nat BY <2>2 DEF Safe, BlastState
  <2>5. empty \in Safe(f, 1, {}, out, top, R, l + 1) /\ empty.mNumFrameAvailable = 0
    <3> HIDE DEF b, out
    <3>1. b \in BlastState BY <2>2 DEF Safe
    <3>2. empty.mNumFrameAvailable = 0 BY <3>1 DEF BlastState, Emptied
    <3> QED BY <1>4, <2>2, <3>2, EmptyKeeps
  <2>6. TRUE \in BOOLEAN /\ FALSE \in BOOLEAN OBVIOUS
  <2>7. CASE wait /\ spins BY <1>1, <1>8, <1>10, <2>2, <2>7
  <2>8. CASE wait /\ ~spins
    <3>1. Arrive(empty, f, TRUE, TRUE) BY <1>1, <1>10, <2>8
    <3> HIDE DEF empty
    <3> QED BY <1>1, <1>2, <1>4, <2>3, <2>5, <2>6, <3>1, ArriveFits DEF out
  <2>9. CASE ~wait /\ b.mNumFrameAvailable > 0 BY <1>1, <1>8, <1>10, <2>2, <2>9
  <2>10. CASE ~wait /\ ~(b.mNumFrameAvailable > 0)
    <3>1. Arrive(b, f, TRUE, FALSE) BY <1>1, <1>10, <2>10
    <3>2. b.mNumFrameAvailable = 0 BY <2>4, <2>10, SMT
    <3> HIDE DEF b
    <3> QED BY <1>1, <1>2, <1>4, <2>2, <2>3, <2>6, <3>1, <3>2, ArriveFits DEF out
  <2> QED BY <2>7, <2>8, <2>9, <2>10
<1> QED BY <1>1, <1>9, <1>10
-----------------------------------------------------------------------------
(* The steps of the client.                                                 *)

\* The producer is where it was, awake or not.
SameAt(p, r) == r \in ProducerState /\ r.at = p.at /\ r.frame = p.frame

\* Waking the producer leaves it where it is.
LEMMA Notified ==
  ASSUME NEW p \in ProducerState
  PROVE  SameAt(p, p) /\ \A v \in BOOLEAN : SameAt(p, [p EXCEPT !.notified = v])
BY DEF SameAt, ProducerState

\* So does notify_all on mCallbackCV.
LEMMA NotifyAllSameAt ==
  ASSUME producer \in ProducerState, NotifyAll PROVE SameAt(producer, producer')
<1>1. SameAt(producer, producer) /\ SameAt(producer, [producer EXCEPT !.notified = TRUE])
  BY Notified
<1> QED BY <1>1 DEF NotifyAll

\* A callback of the client changes the queue and may wake the producer.
LEMMA CallbackFits ==
  ASSUME NEW b, NEW p, NEW h, NEW last, NEW freed, NEW arrived, NEW top,
         Fits(b, p, h, last, freed, arrived, top), NEW S, NEW c,
         c \in Safe(last, Late(p), Wanted(p), Range(h) \cup arrived, top, S,
                    Longest(b, p)),
         NEW gone, gone \subseteq S, NEW r, SameAt(p, r)
  PROVE  Fits(c, r, h, last, gone, arrived, top)
<1>1. Late(r) = Late(p) /\ Wanted(r) = Wanted(p) /\ r \in ProducerState
  BY DEF SameAt, Late, Wanted
<1>2. h \in Seq(Transaction) /\ HeldOK(h, arrived) BY DEF Fits
<1>3. r.at # "idle" => r.frame = last BY DEF Fits, SameAt
<1>4. r.at = "acquire" => Longest(b, p) = 1 BY DEF SameAt, Longest
<1>5. c \in Safe(last, Late(r), Wanted(r), Range(h) \cup arrived, top, S, Longest(b, p))
  BY <1>1
<1> QED BY <1>1, <1>2, <1>3, <1>4, <1>5, ToFits

\* More frames that may be released.
LEMMA MoreSpare ==
  ASSUME NEW last, NEW late, NEW wanted, NEW out, NEW top, NEW S, NEW m,
         NEW b \in Safe(last, late, wanted, out, top, S, m), NEW R,
         R \subseteq Spare(b, last, out, top)
  PROVE  b \in Safe(last, late, wanted, out, top, S \cup R, m)
BY DEF Safe

\* Frames before the one that the layer has may be released.
LEMMA OldIsSpare ==
  ASSUME NEW last \in Nat, NEW late, NEW wanted, NEW out \in SUBSET Transaction,
         NEW top \in Nat, NEW b, Client(b, last, late, wanted, out, top),
         NEW f \in Nat \ {0}, f < top
  PROVE  f \in Spare(b, last, out, top)
<1> DEFINE T == Transactions(b, out)
<1>1. b \in BlastState BY DEF Client
<1>2. T \in SUBSET Transaction /\ b.queue \in Seq(Nat)
  BY <1>1, TransactionsTyped DEF BlastState
<1>3. Used(T, b.mSubmitted, top) /\ b.mSubmitted \subseteq Before(b.queue, last)
  BY DEF Client, Counted
<1> HIDE DEF T
<1>4. f # top /\ top # 0 BY SMT
<1>5. top \in Before(b.queue, last) BY <1>3, <1>4 DEF Used, InUse
<1>6. f \in Before(b.queue, last)
  <2>1. PICK l \in Nat : l = Len(b.queue) BY <1>2, SMT
  <2>2. top \in 1 .. (last - l) BY <1>5, <2>1 DEF Before
  <2>3. f \in 1 .. (last - l) BY <2>2, SMT
  <2> QED BY <2>1, <2>3 DEF Before
<1>7. ASSUME NEW t \in T PROVE t.frame # f
  <2>1. PICK n \in Nat : n = t.frame BY <1>2, FramesTyped
  <2>2. top < n BY <1>3, <2>1 DEF Used
  <2> QED BY <2>1, <2>2, SMT
<1> QED BY <1>4, <1>6, <1>7 DEF Spare, InUse, T

\* The producer wakes up in "waiting until no queued buffers".
LEMMA DrainWakesUpFits ==
  ASSUME lastFrame \in Nat, NEW arrived \in SUBSET Transaction, NEW top \in Nat, NEW freed,
         Fits(bbq, producer, held, lastFrame, freed, arrived, top), DrainWakesUp
  PROVE  Fits(bbq', producer', held', lastFrame', freed, arrived, top)
<1> DEFINE out == Range(held) \cup arrived
           S   == Range(bbq.mPendingRelease) \cup freed
           l   == Longest(bbq, producer)
<1>1. /\ bbq \in Safe(lastFrame, Late(producer), Wanted(producer), out, top, S, l)
      /\ l \in Nat /\ held \in Seq(Transaction) /\ HeldOK(held, arrived)
      /\ producer \in ProducerState
  BY FromFits
<1>2. /\ producer.at = "drain" /\ lastFrame' = lastFrame
      /\ IF bbq.mNumFrameAvailable > 0
         THEN /\ producer' = [producer EXCEPT !.notified = FALSE]
              /\ bbq' = bbq /\ held' = held
         ELSE Arrive(bbq, producer.frame, TRUE, FALSE)
  BY DEF DrainWakesUp
<1>3. Late(producer) = 1 /\ Wanted(producer) = {} /\ producer.frame = lastFrame
  <2>1. "drain" # "acquire" /\ "drain" # "idle" BY SMT
  <2> QED BY <1>2, <2>1 DEF Late, Wanted, Fits
<1>4. bbq.mNumFrameAvailable \in Nat BY <1>1 DEF Safe, BlastState
<1>5. freed \subseteq S OBVIOUS
<1> HIDE DEF S, l, out
<1>6. CASE bbq.mNumFrameAvailable > 0
  <2>1. SameAt(producer, producer') BY <1>1, <1>2, <1>6, Notified
  <2>2. Fits(bbq, producer', held, lastFrame, freed, arrived, top)
    BY <1>1, <1>5, <2>1, CallbackFits DEF out, l
  <2> QED BY <1>2, <1>6, <2>2
<1>7. CASE ~(bbq.mNumFrameAvailable > 0)
  <2>1. bbq.mNumFrameAvailable = 0 BY <1>4, <1>7, SMT
  <2>2. bbq \in Safe(lastFrame, 1, {}, Range(held) \cup arrived, top, S, l)
    BY <1>1, <1>3 DEF out
  <2>3. Arrive(bbq, lastFrame, TRUE, FALSE) BY <1>2, <1>3, <1>7
  <2>4. TRUE \in BOOLEAN /\ FALSE \in BOOLEAN OBVIOUS
  <2> QED BY <1>1, <1>2, <1>5, <2>1, <2>2, <2>3, <2>4, ArriveFits
<1> QED BY <1>6, <1>7

\* The producer wakes up in "waiting for available buffer".
LEMMA AcquireWakesUpFits ==
  ASSUME lastFrame \in Nat, NEW arrived \in SUBSET Transaction, NEW top \in Nat, NEW freed,
         Fits(bbq, producer, held, lastFrame, freed, arrived, top), AcquireWakesUp
  PROVE  Fits(bbq', producer', held', lastFrame', freed, arrived, top)
<1> DEFINE out == Range(held) \cup arrived
           S   == Range(bbq.mPendingRelease) \cup freed
           l   == Longest(bbq, producer)
<1>1. /\ bbq \in Safe(lastFrame, Late(producer), Wanted(producer), out, top, S, l)
      /\ l \in Nat /\ held \in Seq(Transaction) /\ HeldOK(held, arrived)
      /\ producer \in ProducerState
  BY FromFits
<1>2. /\ producer.at = "acquire" /\ lastFrame' = lastFrame
      /\ AcquireForSync(bbq, producer.frame)
  BY DEF AcquireWakesUp
<1>3. /\ Late(producer) = 0 /\ Wanted(producer) = {lastFrame} /\ producer.frame = lastFrame
      /\ l = 1
  <2>1. "acquire" \notin {"drain", "spinning"} /\ "acquire" # "idle" BY SMT
  <2> QED BY <1>2, <2>1 DEF Late, Wanted, Fits, Longest
<1>4. freed \subseteq S OBVIOUS
<1> HIDE DEF S, l
<1>5. bbq \in Safe(lastFrame, 0, {lastFrame}, out, top, S, 1) BY <1>1, <1>3
<1>6. AcquireForSync(bbq, lastFrame) BY <1>2, <1>3
<1> QED BY <1>1, <1>2, <1>4, <1>5, <1>6, AcquireForSyncFits

\* The owner replaces the sync transaction by one without a buffer.
LEMMA OwnerFits ==
  ASSUME NEW b, NEW p, NEW h, NEW last, NEW freed, NEW arrived, NEW top,
         Fits(b, p, h, last, freed, arrived, top), NEW c, SameQueue(b, c),
         Filled(c) = {}, Syncing(c.mSyncTransaction, c.mTransactionReadyCallback)
  PROVE  Fits(c, p, h, last, freed, arrived, top)
<1> DEFINE out == Range(h) \cup arrived
           S   == Range(b.mPendingRelease) \cup freed
           l   == Longest(b, p)
           T   == Transactions(b, out)
<1>1. /\ b \in Safe(last, Late(p), Wanted(p), out, top, S, l)
      /\ l \in Nat /\ h \in Seq(Transaction) /\ HeldOK(h, arrived)
      /\ p \in ProducerState
  BY FromFits
<1>2. /\ Client(b, last, Late(p), Wanted(p), out, top) /\ S \subseteq Spare(b, last, out, top)
      /\ Range(b.mPendingRelease) \subseteq S /\ Len(b.queue) <= l /\ freed \subseteq S
  BY <1>1 DEF Safe
<1>3. Transactions(c, out) \subseteq T BY DEF Transactions, SameQueue
<1> HIDE DEF S, l, out, T
<1>4. Sent(b.sent, Filled(c), out) BY <1>2 DEF Client, Sent, Ahead
<1>5. /\ Fifo(b.queue, b.mNumFrameAvailable, last, Late(p))
      /\ Counted(b.mSubmitted, b.mNumAcquired, Before(b.queue, last))
      /\ Synced(b.mSyncedFrameNumbers, b.mSubmitted, Wanted(p), Range(b.queue))
      /\ Used(T, b.mSubmitted, top)
      /\ Barred(T, b.mSyncedFrameNumbers, b.mLastAppliedFrameNumber)
  BY <1>2 DEF Client, T
<1>6. S \subseteq Before(b.queue, last) \ InUse(T, top) BY <1>2 DEF Spare, T
<1>7. c \in Safe(last, Late(p), Wanted(p), out, top, S, l)
  BY <1>2, <1>3, <1>4, <1>5, <1>6, ClientOf
<1>8. SameAt(p, p) BY <1>1, Notified
<1> QED BY <1>2, <1>7, <1>8, CallbackFits DEF out, l

\* syncNextTransaction starts a sync.
LEMMA SyncNextFits ==
  ASSUME NEW arrived, NEW top, NEW freed, NEW single \in BOOLEAN,
         Fits(bbq, producer, held, lastFrame, freed, arrived, top),
         syncNextTransaction(single)
  PROVE  Fits(bbq', producer', held', lastFrame', freed, arrived, top)
<1> DEFINE t == EmptyTransaction
<1>1. bbq \in BlastState BY DEF Fits, Client
<1>2. /\ bbq' = [bbq EXCEPT !.mTransactionReadyCallback = TRUE,
                            !.mSyncTransaction = <<t>>,
                            !.mAcquireSingleBuffer = single]
      /\ UNCHANGED <<producer, lastFrame, held>>
  BY DEF syncNextTransaction
<1>3. t \in Transaction /\ t.frame = 0 /\ t.token = SyncToken
  <2>1. SyncToken \in Tokens /\ 0 \in Nat BY FrameDeliveryAssumption, SMT
  <2> QED BY <2>1 DEF Transaction, EmptyTransaction
<1> HIDE DEF t
<1>4. <<t>> \in Seq(Transaction) /\ Range(<<t>>) = {t} /\ Len(<<t>>) = 1
  <2> DEFINE q == <<t>>
  <2>1. q \in Seq(Transaction) /\ DOMAIN q = {1} /\ q[1] = t /\ Len(q) = 1 BY <1>3, SMT
  <2> HIDE DEF q
  <2>2. Range(q) = {t} BY <2>1 DEF Range
  <2> QED BY <2>1, <2>2 DEF q
<1>5. /\ SameQueue(bbq, bbq') /\ bbq'.mSyncTransaction = <<t>>
      /\ bbq'.mTransactionReadyCallback = TRUE
  <2>1. bbq' \in BlastState BY <1>1, <1>2, <1>4 DEF BlastState
  <2> QED BY <1>1, <1>2, <2>1 DEF BlastState, SameQueue
<1>6. Filled(bbq') = {} BY <1>3, <1>4, <1>5 DEF Filled
<1>7. Syncing(bbq'.mSyncTransaction, bbq'.mTransactionReadyCallback)
  BY <1>3, <1>4, <1>5 DEF Syncing
<1>8. Fits(bbq', producer, held, lastFrame, freed, arrived, top)
  BY <1>5, <1>6, <1>7, OwnerFits
<1> QED BY <1>2, <1>8

\* The transaction is gone, here or to the sync consumer.
LEMMA NoTransaction ==
  ASSUME bbq \in BlastState, NEW c, NEW single \in BOOLEAN,
         c = [bbq EXCEPT !.mTransactionReadyCallback = FALSE,
                         !.mSyncTransaction = <<>>,
                         !.mAcquireSingleBuffer = single]
  PROVE  /\ SameQueue(bbq, c) /\ Filled(c) = {}
         /\ Syncing(c.mSyncTransaction, c.mTransactionReadyCallback)
<1>1. <<>> \in Seq(Transaction) /\ Range(<<>>) = {} /\ Len(<<>>) = 0 BY SMT DEF Range
<1>2. /\ SameQueue(bbq, c) /\ c.mSyncTransaction = <<>>
      /\ c.mTransactionReadyCallback = FALSE
  <2>1. c \in BlastState BY <1>1 DEF BlastState
  <2> QED BY <2>1 DEF BlastState, SameQueue
<1>3. Filled(c) = {} BY <1>1, <1>2 DEF Filled
<1>4. Syncing(<<>>, FALSE) BY <1>1, SMT DEF Syncing
<1> QED BY <1>2, <1>3, <1>4

\* clearSyncTransaction drops the transaction.
LEMMA ClearSyncFits ==
  ASSUME NEW arrived, NEW top, NEW freed,
         Fits(bbq, producer, held, lastFrame, freed, arrived, top), clearSyncTransaction
  PROVE  Fits(bbq', producer', held', lastFrame', freed, arrived, top)
<1> DEFINE single == bbq.mAcquireSingleBuffer
<1>1. bbq \in BlastState BY DEF Fits, Client
<1>2. /\ bbq' = [bbq EXCEPT !.mTransactionReadyCallback = FALSE,
                            !.mSyncTransaction = <<>>,
                            !.mAcquireSingleBuffer = single]
      /\ UNCHANGED <<producer, lastFrame, held>>
  BY <1>1 DEF clearSyncTransaction, BlastState
<1>3. single \in BOOLEAN BY <1>1 DEF BlastState
<1> HIDE DEF single
<1>4. /\ SameQueue(bbq, bbq') /\ Filled(bbq') = {}
      /\ Syncing(bbq'.mSyncTransaction, bbq'.mTransactionReadyCallback)
  BY <1>1, <1>2, <1>3, NoTransaction
<1>5. Fits(bbq', producer, held, lastFrame, freed, arrived, top) BY <1>4, OwnerFits
<1> QED BY <1>2, <1>5

\* The consumer gets the transaction with its buffer.
LEMMA StopSyncFits ==
  ASSUME NEW arrived, NEW top, NEW freed,
         Fits(bbq, producer, held, lastFrame, freed, arrived, top),
         stopContinuousSyncTransaction
  PROVE  Fits(bbq', producer', held', lastFrame', freed, arrived, top)
<1> DEFINE q   == bbq.mSyncTransaction
           t   == q[1]
           p   == producer
           out == Range(held) \cup arrived
           S   == Range(bbq.mPendingRelease) \cup freed
           m   == Longest(bbq, producer)
           T   == Transactions(bbq, out)
<1>1. bbq \in BlastState BY DEF Fits, Client
<1>2. /\ bbq.mTransactionReadyCallback
      /\ bbq' = [bbq EXCEPT !.mTransactionReadyCallback = FALSE,
                            !.mSyncTransaction = <<>>,
                            !.mAcquireSingleBuffer = TRUE]
      /\ held' = IF t.frame = 0 THEN held ELSE held \o q
      /\ UNCHANGED <<producer, lastFrame>>
  BY DEF stopContinuousSyncTransaction
<1>3. /\ SameQueue(bbq, bbq') /\ Filled(bbq') = {}
      /\ Syncing(bbq'.mSyncTransaction, bbq'.mTransactionReadyCallback)
  BY <1>1, <1>2, NoTransaction
<1>4. CASE t.frame = 0
  <2>1. Fits(bbq', producer, held, lastFrame, freed, arrived, top) BY <1>3, OwnerFits
  <2> QED BY <1>2, <1>4, <2>1
<1>5. CASE t.frame # 0
  <2>1. /\ bbq \in Safe(lastFrame, Late(p), Wanted(p), out, top, S, m)
        /\ m \in Nat /\ held \in Seq(Transaction) /\ HeldOK(held, arrived)
        /\ p \in ProducerState
    BY FromFits
  <2>2. /\ Client(bbq, lastFrame, Late(p), Wanted(p), out, top)
        /\ S \subseteq Spare(bbq, lastFrame, out, top)
        /\ Range(bbq.mPendingRelease) \subseteq S /\ Len(bbq.queue) <= m /\ freed \subseteq S
    BY <2>1 DEF Safe
  <2>3. q \in Seq(Transaction) /\ Syncing(q, bbq.mTransactionReadyCallback)
    BY <1>1, <2>2 DEF BlastState, Client
  <2>4. Len(q) = 1 BY <1>2, <2>3 DEF Syncing
  <2>5. q = <<t>> /\ 1 \in 1 .. Len(q) BY <2>3, <2>4, SMT
  <2>6. t \in Transaction /\ t.token = SyncToken /\ t \in Filled(bbq)
    <3>1. t \in Range(q) /\ Range(q) \subseteq Transaction BY <2>3, <2>5, RangeTyped
    <3> QED BY <1>5, <2>3, <3>1 DEF Syncing, Filled
  <2>7. held' = held \o <<t>> BY <1>2, <1>5, <2>5
  <2>8. /\ Ahead(out, {t}) /\ InOrder(bbq.sent) /\ Ahead(out, Range(bbq.sent))
        /\ \A u \in Range(bbq.sent) : u.token = OwnToken
    BY <2>2, <2>6 DEF Client, Sent, Ahead
  <2>9. /\ held' \in Seq(Transaction) /\ HeldOK(held', arrived)
        /\ Range(held') = Range(held) \cup {t}
    BY <2>1, <2>6, <2>7, <2>8, HeldAdd
  <2>10. Transactions(bbq', out \cup {t}) \subseteq T
    BY <1>3, <2>6 DEF Transactions, SameQueue
  <2> HIDE DEF S, m, T, q, t
  <2>11. Sent(bbq.sent, Filled(bbq'), out \cup {t})
    BY <1>3, <2>6, <2>8, BlastAssumption DEF Sent, Ahead
  <2>12. /\ Fifo(bbq.queue, bbq.mNumFrameAvailable, lastFrame, Late(p))
         /\ Counted(bbq.mSubmitted, bbq.mNumAcquired, Before(bbq.queue, lastFrame))
         /\ Synced(bbq.mSyncedFrameNumbers, bbq.mSubmitted, Wanted(p), Range(bbq.queue))
         /\ Used(T, bbq.mSubmitted, top)
         /\ Barred(T, bbq.mSyncedFrameNumbers, bbq.mLastAppliedFrameNumber)
    BY <2>2 DEF Client, T
  <2>13. S \subseteq Before(bbq.queue, lastFrame) \ InUse(T, top) BY <2>2 DEF Spare, T
  <2>14. bbq' \in Safe(lastFrame, Late(p), Wanted(p), out \cup {t}, top, S, m)
    BY <1>3, <2>2, <2>10, <2>11, <2>12, <2>13, ClientOf
  <2>15. out \cup {t} = Range(held') \cup arrived BY <2>9
  <2>16. /\ p.at # "idle" => p.frame = lastFrame
         /\ p.at = "acquire" => m = 1
    BY DEF Fits, Longest, m
  <2>17. bbq' \in Safe(lastFrame, Late(p), Wanted(p), Range(held') \cup arrived, top, S, m)
    BY <2>14, <2>15
  <2>18. Fits(bbq', p, held', lastFrame, freed, arrived, top)
    <3> HIDE DEF p
    <3> QED BY <2>1, <2>2, <2>9, <2>16, <2>17, ToFits
  <2> QED BY <1>2, <2>18
<1> QED BY <1>4, <1>5

\* Transactions about the same frames, on the same tokens.
Alike(u, t) == u.token = t.token /\ u.frame = t.frame /\ u.barrier = t.barrier

AllAlike(U, T) == \A u \in U : \E t \in T : Alike(u, t)

\* The same frames are in use.
LEMMA AlikeUsed ==
  ASSUME NEW T, NEW U, AllAlike(U, T), NEW M, NEW top, Used(T, M, top)
  PROVE  Used(U, M, top) /\ InUse(U, top) \subseteq InUse(T, top)
<1>1. \A u \in U : \E t \in T : u.frame = t.frame /\ u.token = t.token
  BY DEF AllAlike, Alike
<1>2. InUse(U, top) \subseteq InUse(T, top) BY <1>1 DEF InUse
<1>3. \A u \in U : top < u.frame /\ u.token \in {OwnToken, SyncToken}
  BY <1>1 DEF Used
<1> QED BY <1>2, <1>3 DEF Used

\* The same barriers hold.
LEMMA AlikeBarred ==
  ASSUME NEW T, NEW U, AllAlike(U, T), NEW synced, NEW applied, Barred(T, synced, applied)
  PROVE  Barred(U, synced, applied)
<1>1. SUFFICES ASSUME NEW u \in U
               PROVE  /\ u.token = OwnToken => u.frame <= applied
                      /\ u.token = SyncToken =>
                            /\ u.frame \in synced
                            /\ \A o \in U : o.token = OwnToken =>
                                   o.frame < u.frame /\ o.frame <= u.barrier
  BY DEF Barred
<1>2. PICK t \in T : u.token = t.token /\ u.frame = t.frame /\ u.barrier = t.barrier
  BY DEF AllAlike, Alike
<1>3. u.token = OwnToken => u.frame <= applied BY <1>2 DEF Barred
<1>4. u.token = SyncToken => u.frame \in synced BY <1>2 DEF Barred
<1>5. ASSUME u.token = SyncToken, NEW o \in U, o.token = OwnToken
      PROVE  o.frame < u.frame /\ o.frame <= u.barrier
  <2>1. PICK v \in T : o.token = v.token /\ o.frame = v.frame BY DEF AllAlike, Alike
  <2>2. v.frame < t.frame /\ v.frame <= t.barrier BY <1>2, <1>5, <2>1 DEF Barred
  <2> QED BY <1>2, <2>1, <2>2
<1> QED BY <1>3, <1>4, <1>5

\* The same order holds.
LEMMA AlikeAhead ==
  ASSUME NEW S, NEW T, Ahead(S, T), NEW U
  PROVE  /\ AllAlike(U, S) => Ahead(U, T)
         /\ AllAlike(U, T) => Ahead(S, U)
<1>1. ASSUME AllAlike(U, S), NEW u \in U, NEW t \in T, u.token = t.token
      PROVE  u.frame < t.frame
  <2>1. PICK s \in S : u.token = s.token /\ u.frame = s.frame BY <1>1 DEF AllAlike, Alike
  <2>2. s.frame < t.frame BY <1>1, <2>1 DEF Ahead
  <2> QED BY <2>1, <2>2
<1>2. ASSUME AllAlike(U, T), NEW u \in U, NEW s \in S, u.token = s.token
      PROVE  s.frame < u.frame
  <2>1. PICK t \in T : u.token = t.token /\ u.frame = t.frame BY <1>2 DEF AllAlike, Alike
  <2>2. s.frame < t.frame BY <1>2, <2>1 DEF Ahead
  <2> QED BY <2>1, <2>2
<1> QED BY <1>1, <1>2 DEF Ahead

\* The second of two transactions takes in the first.
Merged(first, second) ==
    [second EXCEPT !.callbacks = @ + first.callbacks, !.commits = @ + first.commits]

\* Transaction::merge leaves the frame, token and barrier of the second.
LEMMA MergedAlike ==
  ASSUME NEW first \in Transaction, NEW second \in Transaction
  PROVE  Merged(first, second) \in Transaction /\ Alike(Merged(first, second), second)
<1>1. /\ first.callbacks \in Nat /\ first.commits \in Nat
      /\ second.callbacks \in Nat /\ second.commits \in Nat
  BY DEF Transaction
<1>2. /\ second.callbacks + first.callbacks \in Nat
      /\ second.commits + first.commits \in Nat
  BY <1>1, SMT
<1> QED BY <1>2 DEF Transaction, Merged, Alike

\* What is left in the sync consumer's list h is like what was in it behind
\* the first.
LEMMA MergeList ==
  ASSUME NEW h \in Seq(Transaction), Len(h) >= 2, NEW l,
         l = <<Merged(h[1], h[2])>> \o SubSeq(h, 3, Len(h))
  PROVE  /\ l \in Seq(Transaction) /\ Len(l) = Len(h) - 1
         /\ \A i \in 1 .. Len(l) : Alike(l[i], h[i + 1])
         /\ 1 \in 1 .. Len(h) /\ h[1] \in Transaction
<1>1. PICK k \in Nat : k = Len(h) BY SMT
<1>2. k >= 2 BY <1>1
<1>3. h[1] \in Transaction /\ h[2] \in Transaction /\ 1 \in 1 .. Len(h)
  BY <1>1, <1>2, SMT
<1> DEFINE s == Merged(h[1], h[2])
           r == SubSeq(h, 3, k)
<1>4. s \in Transaction /\ Alike(s, h[2]) BY <1>3, MergedAlike
<1> HIDE DEF s
<1>5. /\ r \in Seq(Transaction) /\ Len(r) = k - 2
      /\ \A i \in 1 .. k - 2 : r[i] = h[i + 2] /\ h[i + 2] \in Transaction
  BY <1>1, <1>2, SMT
<1> HIDE DEF r
<1>6. l = <<s>> \o r BY <1>1 DEF s, r
<1>7. /\ l \in Seq(Transaction) /\ Len(l) = k - 1 /\ l[1] = s
      /\ \A i \in 2 .. k - 1 : l[i] = r[i - 1]
  BY <1>2, <1>4, <1>5, <1>6, SMT
<1>8. ASSUME NEW i \in 1 .. k - 1 PROVE Alike(l[i], h[i + 1])
  <2>1. CASE i = 1
    <3>1. i + 1 = 2 BY <2>1, SMT
    <3> QED BY <1>4, <1>7, <2>1, <3>1
  <2>2. CASE i # 1
    <3>1. i \in 2 .. k - 1 /\ i - 1 \in 1 .. k - 2 /\ (i - 1) + 2 = i + 1
      BY <1>2, <2>2, SMT
    <3>2. l[i] = h[i + 1] BY <1>5, <1>7, <3>1
    <3> QED BY <3>2 DEF Alike
  <2> QED BY <2>1, <2>2
<1> QED BY <1>1, <1>3, <1>7, <1>8

\* The list stays in order, and the frame of its first transaction is in no
\* other one.
LEMMA MergeHeldOK ==
  ASSUME NEW h \in Seq(Transaction), NEW arrived, HeldOK(h, arrived), NEW l \in Seq(Transaction),
         Len(l) = Len(h) - 1, \A i \in 1 .. Len(l) : Alike(l[i], h[i + 1]),
         1 \in 1 .. Len(h)
  PROVE  /\ HeldOK(l, arrived) /\ AllAlike(Range(l), Range(h))
         /\ \A u \in Range(l) : h[1].frame < u.frame
<1>1. PICK k \in Nat : k = Len(l) BY SMT
<1>2. \A i \in 1 .. k : i + 1 \in 1 .. Len(h) /\ 1 < i + 1
  <2>1. PICK n \in Nat : n = Len(h) BY SMT
  <2>2. k = n - 1 BY <1>1, <2>1
  <2>3. \A i \in 1 .. k : i + 1 \in 1 .. n /\ 1 < i + 1 BY <2>2, SMT
  <2> QED BY <2>1, <2>3
<1>3. \A i \in 1 .. k : h[i + 1] \in Range(h) /\ Alike(l[i], h[i + 1])
  BY <1>1, <1>2, RangeTyped
<1>4. \A u \in Range(l) : \E i \in 1 .. k : u = l[i]
  <2>1. DOMAIN l = 1 .. k BY <1>1, SMT
  <2> QED BY <2>1, InRange
<1>5. AllAlike(Range(l), Range(h)) BY <1>3, <1>4 DEF AllAlike
<1>6. /\ \A i \in 1 .. Len(h) : h[i].token = SyncToken
      /\ \A i, j \in 1 .. Len(h) : i < j => h[i].frame < h[j].frame
  <2>1. \A i \in 1 .. Len(h) : h[i].token = SyncToken BY RangeTyped DEF HeldOK
  <2> QED BY <2>1 DEF HeldOK, InOrder
<1>7. \A u \in Range(l) : h[1].frame < u.frame /\ u.token = SyncToken
  <2>1. SUFFICES ASSUME NEW i \in 1 .. k
                 PROVE  h[1].frame < l[i].frame /\ l[i].token = SyncToken
    BY <1>4
  <2>2. l[i].frame = h[i + 1].frame /\ l[i].token = h[i + 1].token BY <1>3 DEF Alike
  <2> QED BY <1>2, <1>6, <2>2
<1>8. InOrder(l)
  <2>1. SUFFICES ASSUME NEW i \in 1 .. k, NEW j \in 1 .. k, i < j
                 PROVE  l[i].frame < l[j].frame
    BY <1>1 DEF InOrder
  <2>2. i + 1 < j + 1 BY <2>1, SMT
  <2>3. h[i + 1].frame < h[j + 1].frame BY <1>2, <1>6, <2>2
  <2> QED BY <1>3, <2>3 DEF Alike
<1>9. Ahead(arrived, Range(l)) BY <1>5, AlikeAhead DEF HeldOK
<1> QED BY <1>5, <1>7, <1>8, <1>9 DEF HeldOK

\* The sync consumer merges two transactions.
LEMMA MergeHeldFits ==
  ASSUME NEW arrived \in SUBSET Transaction, NEW top \in Nat, lastFrame \in Nat,
         Fits(bbq, producer, held, lastFrame, Range(releaseThread), arrived, top),
         releaseThread \in Seq(Nat), MergeHeld
  PROVE  /\ Fits(bbq', producer', held', lastFrame', Range(releaseThread'), arrived, top)
         /\ releaseThread' \in Seq(Nat)
<1> DEFINE b     == bbq
           p     == producer
           h     == held
           l     == held'
           freed == Range(releaseThread)
           f     == held[1].frame
           out   == Range(h) \cup arrived
           after == Range(l) \cup arrived
           S     == Range(b.mPendingRelease) \cup freed
           m     == Longest(b, p)
           T     == Transactions(b, out)
           U     == Transactions(b, after)
<1>1. /\ Len(h) >= 2
      /\ l = <<Merged(h[1], h[2])>> \o SubSeq(h, 3, Len(h))
      /\ releaseThread' = Append(releaseThread, f)
      /\ UNCHANGED <<bbq, producer, lastFrame>>
  BY DEF MergeHeld, Merged
<1>2. /\ b \in Safe(lastFrame, Late(p), Wanted(p), out, top, S, m)
      /\ m \in Nat /\ h \in Seq(Transaction) /\ HeldOK(h, arrived)
      /\ p \in ProducerState /\ Fits(b, p, h, lastFrame, freed, arrived, top)
  BY FromFits
<1>3. /\ Client(b, lastFrame, Late(p), Wanted(p), out, top)
      /\ S \subseteq Spare(b, lastFrame, out, top) /\ b \in BlastState
      /\ Range(b.mPendingRelease) \subseteq S /\ Len(b.queue) <= m /\ freed \subseteq S
  BY <1>2 DEF Safe
<1> HIDE DEF b, p, h, l, S, m
<1>4. /\ l \in Seq(Transaction) /\ Len(l) = Len(h) - 1
      /\ \A i \in 1 .. Len(l) : Alike(l[i], h[i + 1])
      /\ 1 \in 1 .. Len(h) /\ h[1] \in Transaction
  BY <1>1, <1>2, MergeList
<1>5. /\ HeldOK(l, arrived) /\ AllAlike(Range(l), Range(h))
      /\ \A u \in Range(l) : h[1].frame < u.frame
  BY <1>2, <1>4, MergeHeldOK
<1>6. /\ out \in SUBSET Transaction /\ after \in SUBSET Transaction
      /\ h[1] \in Range(h) /\ h[1].token = SyncToken
  BY <1>2, <1>4, RangeTyped DEF HeldOK
<1>7. AllAlike(after, out) /\ AllAlike(U, T)
  BY <1>5 DEF AllAlike, Alike, Transactions
<1>8. /\ Used(T, b.mSubmitted, top) /\ b.mSubmitted \subseteq Before(b.queue, lastFrame)
      /\ Barred(T, b.mSyncedFrameNumbers, b.mLastAppliedFrameNumber)
      /\ Sent(b.sent, Filled(b), out) /\ S \subseteq Before(b.queue, lastFrame) \ InUse(T, top)
      /\ Syncing(b.mSyncTransaction, b.mTransactionReadyCallback)
      /\ Fifo(b.queue, b.mNumFrameAvailable, lastFrame, Late(p))
      /\ Counted(b.mSubmitted, b.mNumAcquired, Before(b.queue, lastFrame))
      /\ Synced(b.mSyncedFrameNumbers, b.mSubmitted, Wanted(p), Range(b.queue))
  BY <1>3 DEF Client, Counted, Spare
<1>9. h[1] \in T /\ T \in SUBSET Transaction /\ U \in SUBSET Transaction
  BY <1>3, <1>6, TransactionsTyped DEF Transactions
<1>10. f \in Nat /\ top < f /\ f # 0 /\ f # top
  <2>1. f \in Nat /\ top < f BY <1>8, <1>9, FramesTyped DEF Used, h
  <2> QED BY <2>1, SMT
<1>11. f \in Before(b.queue, lastFrame) BY <1>8, <1>9, <1>10 DEF Used, InUse, h
<1>12. ASSUME NEW u \in U PROVE u.frame # f
  <2>1. PICK n \in Nat : n = u.frame BY <1>9, FramesTyped
  <2>2. CASE u \in Range(l)
    <3>1. f < n BY <1>5, <2>1, <2>2 DEF h
    <3> QED BY <1>10, <2>1, <3>1, SMT
  <2>3. CASE u \in arrived \cup Range(b.sent) \cup Filled(b)
    <3>1. u \in T BY <2>3 DEF Transactions
    <3>2. u.token \in {OwnToken, SyncToken} BY <1>8, <3>1 DEF Used
    <3>3. CASE u.token = OwnToken
      <4>1. u.frame < h[1].frame BY <1>6, <1>8, <1>9, <3>1, <3>3 DEF Barred
      <4>2. n < f BY <2>1, <4>1 DEF h
      <4> QED BY <1>10, <2>1, <4>2, SMT
    <3>4. CASE u.token = SyncToken /\ u \in arrived
      <4>1. u.frame < h[1].frame BY <1>2, <1>6, <3>4 DEF HeldOK, Ahead
      <4>2. n < f BY <2>1, <4>1 DEF h
      <4> QED BY <1>10, <2>1, <4>2, SMT
    <3>5. CASE u.token = SyncToken /\ u \in Filled(b)
      <4>1. h[1].frame < u.frame BY <1>6, <1>8, <3>5 DEF Sent, Ahead
      <4>2. f < n BY <2>1, <4>1 DEF h
      <4> QED BY <1>10, <2>1, <4>2, SMT
    <3>6. u \in Range(b.sent) => u.token # SyncToken BY <1>8, BlastAssumption DEF Sent
    <3> QED BY <2>3, <3>2, <3>3, <3>4, <3>5, <3>6
  <2> QED BY <2>2, <2>3 DEF Transactions
<1> DEFINE R == S \cup {f}
<1> HIDE DEF T, U, out, after, f
<1>13. /\ Used(U, b.mSubmitted, top) /\ InUse(U, top) \subseteq InUse(T, top)
       /\ Barred(U, b.mSyncedFrameNumbers, b.mLastAppliedFrameNumber)
  BY <1>7, <1>8, AlikeUsed, AlikeBarred
<1>14. f \notin InUse(U, top) BY <1>10, <1>12 DEF InUse
<1>15. R \subseteq Before(b.queue, lastFrame) \ InUse(U, top) BY <1>8, <1>11, <1>13, <1>14
<1>16. Sent(b.sent, Filled(b), after)
  <2>1. Ahead(after, Range(b.sent) \cup Filled(b)) BY <1>7, <1>8, AlikeAhead DEF Sent
  <2> QED BY <1>8, <2>1 DEF Sent
<1>17. Transactions(b, after) \subseteq U BY DEF U
<1>18. SameQueue(b, b) BY <1>3 DEF SameQueue
<1>19. Range(b.mPendingRelease) \subseteq R /\ freed \cup {f} \subseteq R BY <1>3
<1> HIDE DEF R
<1>20. b \in Safe(lastFrame, Late(p), Wanted(p), after, top, R, m)
  BY <1>3, <1>8, <1>13, <1>15, <1>16, <1>17, <1>18, <1>19, ClientOf
<1>21. /\ p.at # "idle" => p.frame = lastFrame
       /\ p.at = "acquire" => m = 1
  BY <1>2 DEF Fits, Longest, m
<1>22. Fits(b, p, l, lastFrame, freed \cup {f}, arrived, top)
  <2>1. b \in Safe(lastFrame, Late(p), Wanted(p), Range(l) \cup arrived, top, R, m)
    BY <1>20 DEF after
  <2> QED BY <1>2, <1>4, <1>5, <1>19, <1>21, <2>1, ToFits
<1>23. releaseThread' \in Seq(Nat) /\ Range(releaseThread') = freed \cup {f}
  <2>1. Append(releaseThread, f) \in Seq(Nat) BY <1>10, SMT
  <2>2. Range(Append(releaseThread, f)) = Range(releaseThread) \cup {f}
    BY <1>10, RangeAppend, SMT
  <2> QED BY <1>1, <2>1, <2>2
<1> QED BY <1>1, <1>22, <1>23 DEF b, p, l

\* ReleaseCallbackThread releases the buffer of a transaction merged over.
LEMMA ReleaseOverwrittenFits ==
  ASSUME NEW arrived \in SUBSET Transaction, NEW top \in Nat, lastFrame \in Nat,
         Fits(bbq, producer, held, lastFrame, Range(releaseThread), arrived, top),
         releaseThread \in Seq(Nat), ReleaseOverwritten
  PROVE  /\ Fits(bbq', producer', held', lastFrame', Range(releaseThread'), arrived, top)
         /\ releaseThread' \in Seq(Nat)
<1> DEFINE out == Range(held) \cup arrived
           S   == Range(bbq.mPendingRelease) \cup Range(releaseThread)
           l   == Longest(bbq, producer)
           f   == Head(releaseThread)
<1>1. /\ releaseThread # <<>> /\ bbq' = onReleaseBuffer(bbq, f, 0) /\ NotifyAll
      /\ releaseThread' = Tail(releaseThread) /\ UNCHANGED <<lastFrame, held>>
  BY DEF ReleaseOverwritten
<1>2. /\ bbq \in Safe(lastFrame, Late(producer), Wanted(producer), out, top, S, l)
      /\ l \in Nat /\ held \in Seq(Transaction) /\ producer \in ProducerState
      /\ Late(producer) \in Nat
  BY FromFits
<1>3. /\ Tail(releaseThread) \in Seq(Nat)
      /\ Range(releaseThread) = {f} \cup Range(Tail(releaseThread))
  BY <1>1, RangeTail, SMT
<1>4. out \in SUBSET Transaction BY <1>2, RangeTyped
<1>5. f \in S /\ Range(Tail(releaseThread)) \subseteq S /\ 0 \in Nat BY <1>3, SMT
<1> HIDE DEF S, l, f
<1>6. bbq' \in Safe(lastFrame, Late(producer), Wanted(producer), out, top, S, l)
  BY <1>1, <1>2, <1>4, <1>5, OnReleaseBufferKeeps
<1>7. SameAt(producer, producer') BY <1>1, <1>2, NotifyAllSameAt
<1>8. Fits(bbq', producer', held, lastFrame, Range(Tail(releaseThread)), arrived, top)
  BY <1>5, <1>6, <1>7, CallbackFits DEF l
<1> QED BY <1>1, <1>3, <1>8

\* A call of SurfaceFlinger about a frame that the layer has or had.
LEMMA HandleCallFits ==
  ASSUME NEW arrived \in SUBSET Transaction, NEW top \in Nat, lastFrame \in Nat, NEW freed,
         Fits(bbq, producer, held, lastFrame, freed, arrived, top),
         NEW call \in ClientCall, CallOK(call, top), HandleCall(call)
  PROVE  Fits(bbq', producer', held', lastFrame', freed, arrived, top)
<1> DEFINE out == Range(held) \cup arrived
           S   == Range(bbq.mPendingRelease) \cup freed
           l   == Longest(bbq, producer)
           f   == call.frame
           p   == producer
           max == currentMaxAcquiredBufferCount
<1>1. UNCHANGED <<lastFrame, held>> BY DEF HandleCall
<1>2. /\ bbq \in Safe(lastFrame, Late(p), Wanted(p), out, top, S, l)
      /\ l \in Nat /\ held \in Seq(Transaction) /\ p \in ProducerState
      /\ Late(p) \in Nat
  BY FromFits
<1>3. Client(bbq, lastFrame, Late(p), Wanted(p), out, top) /\ freed \subseteq S
  BY <1>2 DEF Safe
<1>4. out \in SUBSET Transaction BY <1>2, RangeTyped
<1>5. f \in 1 .. top /\ f \in Nat \ {0} /\ (call.kind = "release" => f < top)
  <2>1. f \in 1 .. top /\ (call.kind = "release" => f < top) BY DEF CallOK
  <2> QED BY <2>1, SMT
<1>6. max \in Nat BY BlastAssumption
<1>7. bbq.mSubmitted \subseteq Nat \ {0} /\ IsFiniteSet(bbq.mSubmitted)
      /\ bbq.pendingCallbacks \in Nat
  <2>1. bbq \in BlastState /\ bbq.mSubmitted \subseteq Before(bbq.queue, lastFrame)
    BY <1>3 DEF Client, Counted
  <2>2. bbq.queue \in Seq(Nat) /\ bbq.pendingCallbacks \in Nat BY <2>1 DEF BlastState
  <2>3. /\ IsFiniteSet(Before(bbq.queue, lastFrame))
        /\ Before(bbq.queue, lastFrame) \subseteq Nat \ {0}
    BY <2>2, BeforeFinite
  <2> QED BY <2>1, <2>2, <2>3, FS_Subset
<1> HIDE DEF out, S, l, p
<1>8. ASSUME NEW R, R \subseteq Spare(bbq, lastFrame, out, top),
             bbq' \in Safe(lastFrame, Late(p), Wanted(p), out, top, S \cup R, l),
             SameAt(p, producer')
      PROVE  Fits(bbq', producer', held, lastFrame, freed, arrived, top)
  <2>1. freed \subseteq S \cup R BY <1>3
  <2> HIDE DEF f
  <2> QED BY <1>8, <2>1, CallbackFits DEF p, l, out
<1>9. SameAt(p, p) BY <1>2, Notified
<1>10. CASE call.kind = "release"
  <2>1. /\ bbq' = onReleaseBuffer(bbq, f, max)
        /\ NotifyAll \/ producer' = producer
    BY <1>10 DEF HandleCall
  <2>2. SameAt(p, producer') BY <1>2, <1>9, <2>1, NotifyAllSameAt DEF p
  <2>3. f \in Spare(bbq, lastFrame, out, top) BY <1>3, <1>4, <1>5, <1>10, OldIsSpare
  <2> DEFINE R == {f}
  <2>4. R \subseteq Spare(bbq, lastFrame, out, top) /\ f \in S \cup R BY <2>3
  <2> HIDE DEF R, f, max
  <2>5. bbq \in Safe(lastFrame, Late(p), Wanted(p), out, top, S \cup R, l)
    BY <1>2, <2>4, MoreSpare
  <2>6. bbq' \in Safe(lastFrame, Late(p), Wanted(p), out, top, S \cup R, l)
    BY <1>2, <1>4, <1>6, <2>1, <2>4, <2>5, OnReleaseBufferKeeps
  <2>7. Fits(bbq', producer', held, lastFrame, freed, arrived, top)
    BY <1>8, <2>2, <2>4, <2>6
  <2> QED BY <1>1, <2>7
<1>11. CASE call.kind = "commit"
  <2>1. bbq' = transactionCommittedCallback(bbq, f) /\ producer' = producer
    BY <1>11 DEF HandleCall
  <2> HIDE DEF f
  <2>2. bbq' \in Safe(lastFrame, Late(p), Wanted(p), out, top, S, l)
    BY <1>2, <1>4, <1>5, <2>1, CommittedKeeps
  <2>3. SameAt(p, producer') BY <1>9, <2>1 DEF p
  <2>4. Fits(bbq', producer', held, lastFrame, freed, arrived, top)
    BY <1>3, <2>2, <2>3, CallbackFits DEF p, l, out
  <2> QED BY <1>1, <2>4
<1>12. CASE call.kind = "complete" /\ bbq.pendingCallbacks = 0
  <2>1. call.kind # "release" /\ call.kind # "commit" /\ ~(bbq.pendingCallbacks > 0)
    BY <1>12, SMT
  <2>2. bbq' = bbq /\ producer' = producer BY <1>12, <2>1 DEF HandleCall
  <2> QED BY <1>1, <2>2
<1>13. CASE call.kind = "complete" /\ bbq.pendingCallbacks > 0
  <2> DEFINE old == {g \in bbq.mSubmitted : g < f}
             R == old
  <2>1. PICK stale \in Orders(old) :
               /\ bbq' = transactionCallback(bbq, stale)
               /\ NotifyAll \/ producer' = producer
    <3>1. call.kind # "release" /\ call.kind # "commit" /\ bbq.pendingCallbacks # 0
      BY <1>13, SMT
    <3> QED BY <1>13, <3>1 DEF HandleCall, StaleReleases
  <2>2. R \subseteq Spare(bbq, lastFrame, out, top)
    <3>1. SUFFICES ASSUME NEW g \in old PROVE g \in Spare(bbq, lastFrame, out, top)
      OBVIOUS
    <3>2. g \in Nat \ {0} /\ g < f BY <1>7
    <3>3. g < top BY <1>5, <3>2, SMT
    <3> QED BY <1>3, <1>4, <3>2, <3>3, OldIsSpare
  <2>3. IsFiniteSet(old) BY <1>7, FS_Subset
  <2> HIDE DEF old
  <2>4. stale \in Seq(S \cup R)
    <3>1. stale \in [1 .. Cardinality(old) -> old] BY DEF Orders, Injection
    <3>2. Cardinality(old) \in Nat BY <2>3, FS_CardinalityType
    <3>3. stale \in Seq(old) BY <3>1, <3>2, SMT
    <3>4. old \subseteq S \cup R OBVIOUS
    <3> HIDE DEF R
    <3> QED BY <3>3, <3>4, SMT
  <2> HIDE DEF R
  <2>5. bbq \in Safe(lastFrame, Late(p), Wanted(p), out, top, S \cup R, l)
    BY <1>2, <2>2, MoreSpare
  <2>6. bbq' \in Safe(lastFrame, Late(p), Wanted(p), out, top, S \cup R, l)
    BY <1>2, <1>4, <1>13, <2>1, <2>4, <2>5, TransactionCallbackKeeps
  <2>7. SameAt(p, producer') BY <1>2, <1>9, <2>1, NotifyAllSameAt DEF p
  <2>8. Fits(bbq', producer', held, lastFrame, freed, arrived, top)
    BY <1>8, <2>2, <2>6, <2>7
  <2> QED BY <1>1, <2>8
<1> QED
  <2>1. call.kind \in {"release", "commit", "complete"} BY DEF ClientCall
  <2>2. bbq.pendingCallbacks = 0 \/ bbq.pendingCallbacks > 0 BY <1>7, SMT
  <2> QED BY <1>10, <1>11, <1>12, <1>13, <2>1, <2>2

=============================================================================
